SPECIFICATION FairSpec
CONSTANTS
  p1 = p1
  p2 = p2
  NoJob = NoJob
  NoProcess = NoProcess
  Jobs = {1}
  Agents = {1, 2}
  Processes = {p1}
  Handlers = {1, 2}
  AgentOfJob <- MCAgentOfJob
  ScheduledFor <- MCScheduledFor
  Identity <- MCIdentity
  Revocable = {}
  MaxLost = 1
  MaxCrashes = 0
PROPERTIES
  ResultArrives
