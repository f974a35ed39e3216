SPECIFICATION MCSpec
CONSTANTS
  Sources = {"p1", "p2", "s", "f"}
  SupportedPlacementTypes <- MCSupportedPlacementTypes
  MaxChanges = 3
  SourceRecords <- MCSourceRecords
  Policies <- MCPolicies
  Strategies <- MCStrategies
  Budgets <- MCBudgets
  Wants <- MCWants
  Claims <- MCClaims
  Attempts = {"a1"}
  MaxReports = 2
  Triggers <- MCTriggers
  ClockSkew = 1
  Previous <- MCPrevious
  SampledIn = {"session"}
  Emissions = {1, 2}
  Backoff <- MCBackoff
  RetryWindow = 2
  MaxIngressTime = 3
  Packets <- MCPackets
  EnumToken <- MCEnumToken
  LocaleRank <- MCLocaleRank
  Readable <- MCReadable
INVARIANTS ShownIsPermitted NoFillTriesAll OneEventPerOpportunity TradedSignalsStand
PROPERTY OldStopSparesNew
\* One opportunity is followed to its last report.
CHECK_DEADLOCK FALSE
