SPECIFICATION MCSpec
CONSTANTS
  Units <- MCUnits
  ScopeOf <- MCScopeOf
  Versions <- MCVersions
  PublishRequests <- MCRequests
  DedupWindow = 1
  MaxTime = 3
  MaxCalls = 3
  Gets = {g1, g2}
  Etags = {"nothing", "v1"}
  Placement <- PlacementUnit
  BuiltIn = "v0"
  TtlOf <- MCTtlOf
  DefaultTtl = 1
  Grace = 1
  Adapters <- MCAdapters
  ScopeInputs <- MCScopeInputs
  GateInputs <- MCGateInputs
  ReleaseUnits = {"u1", "u2"}
  Policies <- MCPolicies
  RolloutRequests <- MCRolloutRequests
  LastTime = 4
  AnchorFields <- MCAnchorFields
  StrictSwitch = {"routing", "schema"}
  AnchorVersions = {"v1", "v2"}
SYMMETRY AnyClient
INVARIANTS VersionsInLine ServedIsRecent GateKeepsLastWord
PROPERTIES TrippedStaysNarrow FrozenStands
\* Time and the publish calls are bounded: operators and clients stop.
CHECK_DEADLOCK FALSE
