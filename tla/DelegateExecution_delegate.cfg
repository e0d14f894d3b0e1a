CONSTANTS
  Executions = {e1}
  Plans <- MCPlans
  Names <- MCNames
  Versions <- PlanVersions
  Asked <- PlanAsked
  GateOf <- PlanGate
  FailOpen = {"pipelineRollback"}
  Requests = {r1, r2}
  Owners = {}
  Statuses = {}
  Refusals = {"deny"}
  Unordered = TRUE
  MayRestart = FALSE
  HasChecker = TRUE
  Overrides <- MCOverrides
  Evaluator <- MCEvaluator
  SuffixCap = 3
  IndexTokens <- MCIndexTokens
  PlanNames = {"forked", "branched", "rollback", "skipped"}
  Engines = {TRUE, FALSE}
  MaxUnrecorded = 2
SPECIFICATION FairDSpec
INVARIANTS HonestNeverDenied StartedInOrder
PROPERTIES PipelineEnds
\* an execution ends
CHECK_DEADLOCK FALSE
