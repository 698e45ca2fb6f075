SPECIFICATION Spec
CONSTANTS
  None = None
  a1 = a1
  c1 = c1
  Agents <- MCAgents
  Crons <- MCCrons
  MaxClock = 2
  NextFire <- MCNextFire
  Schedules = {1}
  Workers = {w1}
  Clients = {p1, p2}
  BatchSize = 1
  Payloads <- RequestPayloads
  Patches <- RequestPatches
  MaxManual = 1
  MaxCrashes = 0
INVARIANTS
  TypeOK
PROPERTIES
  FiringFollowsRow
  LedgerSpec
  OnlyOverlapsUnsettle
SYMMETRY ClientSymmetry
CHECK_DEADLOCK FALSE
