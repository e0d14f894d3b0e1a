CONSTANTS
  Executions = {e1}
  Plans <- MCPlans
  Names <- MCNames
  StatusMaps <- MCStatusMaps
  Versions <- PlanVersions
  Asked <- PlanAsked
  GateOf <- PlanGate
  FailOpen = {"pipelineRollback"}
  HasChecker = TRUE
  Overrides <- MCOverrides
  Evaluator <- MCEvaluator
  ShapeNames = {"sequence", "forks", "groupInFork", "forkInGroup", "stageFork", "rollback", "laterStage", "rollbackFork", "separateRollback"}
  Kinds = {"false", "undecided", "onFailure", "onAll", "twice", "runtime", "excluded"}
  Pairs = {"false", "onAll", "twice"}
  SuffixCap = 3
  IndexTokens <- MCIndexTokens
SPECIFICATION GrantsSpec
INVARIANTS GatesKeepOrder OrderPreserved SomethingToFollow NoFalseDenial
\* every step may have been granted
CHECK_DEADLOCK FALSE
