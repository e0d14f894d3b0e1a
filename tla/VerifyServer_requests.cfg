CONSTANTS
  Executions = {e1}
  Plans <- MCPlans
  Names <- MCNames
  Versions <- PlanVersions
  Asked <- PlanAsked
  GateOf <- PlanGate
  StatusMaps <- NoStatuses
  FailOpen = {"pipelineRollback"}
  Requests = {1, 2}
  Contents <- MCContents
  Configs <- MCConfigs
  ConfigNames = {"ordering_first", "ordering_last"}
  Ordering = "execution_ordering"
  Webhooks = {"webhook"}
  Policies = {"shellscript"}
  Fragile = {"shellscript"}
  MayRestart = TRUE
  HasChecker = FALSE
  Overrides <- MCOverrides
  Evaluator <- MCEvaluator
  SuffixCap = 3
  IndexTokens <- MCIndexTokens
SPECIFICATION FairSpec
INVARIANTS TypeOK GrantsAccounted VerdictsAudited LateNeverDelivered AncestorsRan CleanExit
PROPERTIES RequestsEnd
\* the requests of the check are used up
CHECK_DEADLOCK FALSE
