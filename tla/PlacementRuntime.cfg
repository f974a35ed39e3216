SPECIFICATION Spec
CONSTANTS
  Networks = {"house", "partner", "off"}
  EnabledNetworks = {"house", "partner"}
  FailingNetworks = {"house"}
  Queries = {"q", "plain"}
  NamedQueries = {"q"}
  Slots = {1, 2}
  FailureThreshold = 2
  CircuitOpen = 2
  CheckInterval = 1
  SnapshotTtl = 2
  SnapshotEntries = 2
  QueryTtl = 1
  QueryEntries = 1
  MaxWait = 1
INVARIANT AnswersAreRecent
PROPERTY CircuitHeals
