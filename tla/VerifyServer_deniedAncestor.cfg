CONSTANTS
  Executions = {e1}
  Plans <- MCPlans
  Names <- MCNames
  Versions <- PlanVersions
  Asked <- PlanAsked
  GateOf <- PlanGate
  StatusMaps <- NoStatuses
  FailOpen = {"pipelineRollback"}
  Requests = {1, 2}
  Contents <- MCContents
  Configs <- MCConfigs
  ConfigNames = {"ordering_first"}
  Ordering = "execution_ordering"
  Webhooks = {"webhook"}
  Policies = {"shellscript"}
  Fragile = {"shellscript"}
  MayRestart = TRUE
  HasChecker = FALSE
  Overrides <- MCOverrides
  Evaluator <- MCEvaluator
  SuffixCap = 3
  IndexTokens <- MCIndexTokens
SPECIFICATION Spec
INVARIANT AncestorsRanAnyway
CHECK_DEADLOCK FALSE
