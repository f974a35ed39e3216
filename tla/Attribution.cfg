SPECIFICATION MCSpec
CONSTANTS
  e1 = e1
  e2 = e2
  DedupEvents = {e1, e2}
  DedupKeys = {"k"}
  CanonicalKey <- MCCanonicalKey
  EventAt <- MCEventAt
  DedupWindow <- MCDedupWindow
  LockWindow = 2
  MaxDedupTime = 4
  MaxVerdicts = 4
  IngestEvents <- MCIngestEvents
  EventContent <- MCEventContent
  Batches <- MCBatches
  MaxEvents = 2
  MaxAnswers = 4
  ArchiveKeys = {audit, bill}
  Payloads = {p1, p2}
  CompensationWindow = 2
  MaxArchiveTime = 5
  Attempts = {a1, a2}
  Sources <- AnySource
  WaitWindow = 2
  LateSignals = FALSE
  MaxTime = 3
  MaxReports = 2
  AuditRecords <- MCAuditRecords
  AppendWindow = 1
  AuditContent <- MCAuditContent
  Recomputed <- MCRecomputed
  Anchors <- MCAnchors
  MaxPayload = 2
  MaxSpan = 2
  AppendRequests <- MCAppendRequests
  ReplayQueries <- MCReplayQueries
  QueryOf <- MCQueryOf
  MaxAppends = 3
  MaxReplays = 1
  MaxAuditTime = 2
SYMMETRY AttemptSymmetry
INVARIANTS OneEventPerKey AcceptedOnce TokensHold ReplayTellsTheStore BilledOnce
PROPERTIES ImplementsAttemptOutcome AcceptedIsBilled RetriedWithinWindow
\* The clocks and the answers are bounded: a behaviour ends there.
CHECK_DEADLOCK FALSE
