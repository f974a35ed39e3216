SPECIFICATION MCSpec
CONSTANTS
  Offers = {1, 2, 3}
  NetworkOf <- MCNetworkOf
  ListOf <- MCListOf
  InactiveVersions = {2}
  MaxVersion = 2
  Jobs = {"j1", "j2"}
  Wants <- MCWants
  PageSize = 1
  ChunkSize = 1
  MaxFaults = 1
  Lists = {1, 2}
  NetworkOffers <- MCNetworkOffers
  Paths = 2
  MaxRetries = 1
  ListedOn <- MCListedOn
  EmbeddedIn <- MCEmbeddedIn
INVARIANT MissingIsReported
PROPERTIES SnapshotIsOneReading RebuildReachesAll
\* The jobs and the changes of the networks are finitely many: a behaviour ends.
CHECK_DEADLOCK FALSE
