SPECIFICATION RetentionSpec
CONSTANTS
  LastMonth = 72
  MonthStart <- MCMonthStart
  WeekStart = 6
  TicksPerDay = 2
  Moments <- MCMoments
  Policies <- MCPolicies
  Marks <- MCMarks
  MaxPoints = 1
INVARIANT GapsShown
