SPECIFICATION FairSpec
CONSTANTS
  None = None
  a1 = a1
  c1 = c1
  Agents <- MCAgents
  Crons <- MCCrons
  MaxClock = 3
  NextFire <- MCNextFire
  Schedules = {1, 2}
  Workers = {w1, w2}
  Clients = {}
  BatchSize = 1
  Payloads <- ProgressPayloads
  Patches <- NoPatches
  MaxManual = 0
  MaxCrashes = 1
PROPERTIES
  DueIsHandled
  TicksMoveOn
CHECK_DEADLOCK FALSE
