SPECIFICATION Spec
CONSTANTS
  None = None
  a1 = a1
  c1 = c1
  Agents <- MCAgents
  Crons <- MCCrons
  MaxClock = 2
  NextFire <- MCNextFire
  Schedules = {1, 2}
  Workers = {w1, w2}
  Clients = {p1}
  BatchSize = 2
  Payloads <- WorkerPayloads
  Patches <- WorkerPatches
  MaxManual = 0
  MaxCrashes = 1
INVARIANTS
  LockedRowsStable
  NoDuplicateJobs
  RunJobAgreement
  EnabledHasNextRun
PROPERTIES
  FiringFollowsRow
  OccurrenceAccounted
  LedgerSpec
SYMMETRY WorkerSymmetry
CHECK_DEADLOCK FALSE
