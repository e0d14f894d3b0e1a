CONSTANTS
  Executions = {e1}
  Plans <- MCPlans
  Names <- MCNames
  StatusMaps <- MCStatusMaps
  Versions <- PlanVersions
  Asked <- PlanAsked
  GateOf <- PlanGate
  FailOpen = {"pipelineRollback"}
  HasChecker = TRUE
  Overrides <- MCOverrides
  Evaluator <- MCEvaluator
  ShapeNames = {"alias"}
  Kinds = {}
  Pairs = {"twice", "grid"}
  SuffixCap = 3
  IndexTokens <- MCIndexTokens
SPECIFICATION GrantsSpec
INVARIANTS AmbiguousNamesDropped
\* every step may have been granted
CHECK_DEADLOCK FALSE
