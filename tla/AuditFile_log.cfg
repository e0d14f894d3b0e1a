CONSTANTS
  Records = {a, b, c, d}
  First = c
  Second = d
  Earlier <- MCEarlier
  Long = {a}
  Wanted = {a, b, d}
  LastDay = 1
  MaxAge = 1
  MaxTorn = 1
  Limit = 1
SPECIFICATION Spec
INVARIANTS TypeOK RetainedUntilExpiry PagesMissNothing
PROPERTIES ListedStays
\* every event may have been written
CHECK_DEADLOCK FALSE
