SPECIFICATION Spec
CONSTANTS
  Tools = {search, mail}
  ApprovalTools = {mail}
  UnknownTool = unknown
  NoTool = none
  MaxToolSteps = 1
  Runs = {r1}
  WorkerIds = {arq}
  NoOwner = nobody
  NoCheckpoint = nocheckpoint
  ApprovalIds = {}
  NoRun = norun
  Workers = {w1, w2}
  Dispatchers = {d1}
  WorkerName = arq
  NoJob = nojob
  NoOutcome = nooutcome
  FaultKinds = {"crash", "error", "claim_error", "dispatch_error", "queue_loss"}
  MaxFaults = 1
  MaxRecoveries = 1
INVARIANTS
  SingleExecutor AnswerOnce NoneAbandoned
  RunnableIsFresh AnnouncementsAreTrue PlanBudget
PROPERTIES
  StepLogSpec EntersInOrder SaveBuildsOnCurrent CompletedIsFinal
  SavedStepNotRepeated LifecycleWithRecovery
CHECK_DEADLOCK FALSE
