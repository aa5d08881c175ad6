SPECIFICATION RetentionSpec
CONSTANTS
  LastMonth = 72
  MonthStart <- MCMonthStart
  WeekStart = 6
  TicksPerDay = 2
  Moments <- MCMoments
  Policies <- MCPolicies
  Marks <- MCMarks
  MaxPoints = 1
INVARIANTS RetentionTypeOK GapsAccountedFor ExpectedUnexpired
PROPERTY GapStays
\* The run ends with the last moment.
CHECK_DEADLOCK FALSE
