SPECIFICATION FairSpec
CONSTANTS
  None = None
  a1 = a1
  c1 = c1
  Agents <- MCAgents
  Crons <- MCCrons
  MaxClock = 1
  NextFire <- MCNextFire
  Schedules = {1, 2}
  Workers = {w1}
  Clients = {p1}
  BatchSize = 2
  Payloads <- CronPayloads
  Patches <- NullPatches
  MaxManual = 0
  MaxCrashes = 0
PROPERTIES
  RowsAreIndependent
CHECK_DEADLOCK FALSE
