SPECIFICATION Spec
CONSTANTS
  Tools = {calc, mail}
  ApprovalTools = {mail}
  UnknownTool = unknown
  NoTool = notool
  MaxToolSteps = 2
  Runs = {r1}
  Deciders = {d1, d2, d3}
  NoHandler = nobody
  MaxEvents = 20
  MaxRestarts = 2
CHECK_DEADLOCK FALSE
INVARIANTS PausesForApproval

