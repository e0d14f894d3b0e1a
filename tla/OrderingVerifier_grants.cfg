CONSTANTS
  Executions = {e1}
  Plans <- MCPlans
  Names <- MCNames
  Versions <- MCVersions
  Asked <- MCAsked
  GateOf <- MCGate
  FailOpen = {"pipelineRollback"}
  Requests = {r1, r2}
  Owners <- MCOwners
  Statuses <- MCStatuses
  Refusals = {"deny", "pass"}
  Unordered = TRUE
  MayRestart = TRUE
  HasChecker = TRUE
  Overrides <- MCOverrides
  Evaluator <- MCEvaluator
  SuffixCap = 3
  IndexTokens <- MCIndexTokens
  PlanNames = {"forked", "skipping", "rollback", "broken", "drifting"}
SPECIFICATION Spec
INVARIANTS TypeOK CallsConsistent ViewsAgree RetryAllowed
PROPERTIES ImplementsGrants
SYMMETRY Interchangeable
