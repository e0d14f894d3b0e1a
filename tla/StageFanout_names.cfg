CONSTANTS
  SuffixCap = 3
  IndexTokens <- MCIndexTokens
  RawStages <- MCRawStages
  Namings = {"index", "value"}
SPECIFICATION FanoutSpec
INVARIANTS TypeOK OneNamePerRun SkippedOnlyWhenEmpty NamingNeverDecidesSkip
\* the machine resolves one block and stops
CHECK_DEADLOCK FALSE
