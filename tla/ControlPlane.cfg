SPECIFICATION MCSpec
CONSTANTS
  Gateways = {"g1"}
  Slots = {1, 2}
  Users = {"u1", "u2"}
  Sessions = {"s1"}
  Keys = {"k"}
  Tokens = {"t"}
  Accesses = {"a1", "a2"}
  Requests <- MCRequests
  MaxSecret = 2
  MaxFailures = 1
INVARIANTS OneUserPerEmail SourceSpentFirst
PROPERTY SessionsHold
