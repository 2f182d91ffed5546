SPECIFICATION Spec
CONSTANTS
  Tools = {search, mail}
  ApprovalTools = {mail}
  UnknownTool = unknown
  NoTool = none
  MaxToolSteps = 1
  Runs = {r1}
  WorkerIds = {w1, w2}
  NoOwner = nobody
  NoCheckpoint = nocheckpoint
  ApprovalIds = {a1}
  NoRun = norun
  MaxRecoveries = 1
  MaxRetries = 1
PROPERTIES MemoryStoreAgrees NoLeaseTakeover RequeueIsFresh VersionOrdersStatus DecidedOnce
CHECK_DEADLOCK FALSE
