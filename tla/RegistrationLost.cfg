SPECIFICATION FairSpec
CONSTANTS
  None = None
  e1 = e1
  e2 = e2
  e3 = e3
  e4 = e4
  hostA = hostA
  hostB = hostB
  nameA = nameA
  nameB = nameB
  Enrolments = {e1}
  Hosts = {hostA, hostB}
  Names = {nameA, nameB}
  HostOf <- MCHostOf
  NameOf <- MCNameOf
  Handlers = {1, 2, 3}
  MaxLost = 1
  MaxCrashes = 0
PROPERTIES
  CanBeEnrolled
CHECK_DEADLOCK FALSE
