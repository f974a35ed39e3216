SPECIFICATION AuditSpec
CONSTANTS
  AuditRecords <- MCAuditRecords
  AppendWindow = 1
  AuditContent <- MCAuditContent
  Recomputed <- MCRecomputed
  Anchors <- MCAnchors
  MaxPayload = 2
  MaxSpan = 2
  AppendRequests <- MCAppendRequests
  ReplayQueries <- MCReplayQueries
  QueryOf <- MCQueryOf
  MaxAppends = 3
  MaxReplays = 2
  MaxAuditTime = 2
INVARIANT ReplayStands
