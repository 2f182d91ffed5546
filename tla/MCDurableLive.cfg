SPECIFICATION FairSpec
CONSTANTS
  Tools = {mail}
  ApprovalTools = {mail}
  UnknownTool = unknown
  NoTool = none
  MaxToolSteps = 2
  Runs = {r1}
  WorkerIds = {arq}
  NoOwner = nobody
  NoCheckpoint = nocheckpoint
  ApprovalIds = {}
  NoRun = norun
  Workers = {w1}
  Dispatchers = {d1, d2}
  WorkerName = arq
  NoJob = nojob
  NoOutcome = nooutcome
  FaultKinds = {"crash", "error", "dispatch_error"}
  MaxFaults = 1
  MaxRecoveries = 1
PROPERTIES EveryRunSettles EveryJobEnds
CHECK_DEADLOCK FALSE
