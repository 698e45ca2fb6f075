SPECIFICATION FairSpec
CONSTANTS
  p1 = p1
  p2 = p2
  NoJob = NoJob
  NoProcess = NoProcess
  Jobs = {1, 2, 3}
  Agents = {1, 2}
  Processes = {p1, p2}
  Handlers = {1, 2}
  AgentOfJob <- MCAgentOfJob
  ScheduledFor <- MCScheduledFor
  Identity <- MCIdentity
  Revocable = {1}
  MaxLost = 1
  MaxCrashes = 1
INVARIANTS
  TypeOK
  RunAtMostOnce
  ExecutionsMatchJobs
  FaultsStrandOneEach
PROPERTIES
  ResultIsFinal
  DisabledIsFinal
  JobIsFinished
  LifecycleSpec
