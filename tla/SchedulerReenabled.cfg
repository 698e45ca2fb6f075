SPECIFICATION FairSpec
CONSTANTS
  None = None
  a1 = a1
  c1 = c1
  Agents <- MCAgents
  Crons <- MCCrons
  MaxClock = 2
  NextFire <- MCNextFire
  Schedules = {1}
  Workers = {w1}
  Clients = {p1}
  BatchSize = 2
  Payloads <- OncePayloads
  Patches <- NoPatches
  MaxManual = 0
  MaxCrashes = 0
PROPERTIES
  DueIsHandled
CHECK_DEADLOCK FALSE
