------------------------------- MODULE MCConfig -------------------------------
(***************************************************************************)
(* The configuration governance for TLC.  A behaviour is about one subject.*)
(*                                                                         *)
(* "operators" and "clients": one placement unit.  Its operators send a    *)
(* publication, another one from the same base, the first again under      *)
(* another key, one with a payload that conflicts, a rollback, and         *)
(* requests that are refused; or clients ask while two versions are        *)
(* published in turn.                                                      *)
(*                                                                         *)
(* "configuration", "rollout" and "anchors": the judgements of a request   *)
(* by its configuration, each on its own: resolution with the version      *)
(* gate, the rollout with its circuit, and the version anchors.            *)
(***************************************************************************)
EXTENDS ConfigDelivery, ConfigResolution, RolloutCircuit, VersionAnchors

VARIABLE subject

PlacementUnit == "placement"
MCUnits == {PlacementUnit}
MCScopeOf == [u \in MCUnits |-> "placement"]
MCVersions == {"v0", "v1", "v2"}
MCTtlOf == [v \in MCVersions |-> IF v = "v1" THEN 0 ELSE 1]

Request(key, payload, action, changeSet, base, target) ==
  [key |-> key, payload |-> payload, wellFormed |-> TRUE, action |-> action,
   unit |-> PlacementUnit, changeSet |-> changeSet, base |-> base, target |-> target,
   dryRun |-> FALSE, operator |-> "op", actor |-> "op", role |-> "placement_operator",
   grants |-> MCUnits, issuedAt |-> 0, expiresAt |-> 2, publishAt |-> 0]

First == Request("k1", "p1", "publish", "c1", "v0", "v1")
Racing == Request("k2", "p2", "publish", "c2", "v0", "v2")
Again == [First EXCEPT !.key = "k3"]
OnTop == Request("k1", "p4", "publish", "c2", "v1", "v2")
Back == Request("k4", "p5", "rollback", "c1", "v1", "v0")
Trial == [Request("k5", "p6", "publish", "c3", "v0", "v2") EXCEPT !.dryRun = TRUE]
Stranger == [Request("k6", "p7", "publish", "c3", "v0", "v2") EXCEPT !.role = "read_only"]
Broken == [Request("k6", "p8", "publish", "c3", "v0", "v2") EXCEPT !.wellFormed = FALSE]
InTurn == {First, OnTop}
MCRequests == {First, Racing, Again, OnTop, Back, Trial, Stranger, Broken}
AnyClient == Permutations(Gets)

MCAdapters == {"x", "y"}
Scope(refs, sdkMin, policy, x, y) ==
  [available |-> TRUE, compatible |-> TRUE,
   settings |-> [f \in Settings |-> CASE f = "refs" -> refs
                                      [] f = "sdkMinVersion" -> sdkMin
                                      [] f = "missingMinVersionPolicy" -> policy
                                      [] f = "x" -> x
                                      [] f = "y" -> y]]
Whole == Scope(1, 2, PolicyBlock, 1, 2)
MCScopeInputs ==
  { Whole, [Whole EXCEPT !.available = FALSE], [Whole EXCEPT !.compatible = FALSE],
    Scope(1, 2, PolicyReject, Silent, 1),
    Scope(Silent, Silent, Silent, 2, Null),
    Scope(Silent, Silent, Silent, 2, Invalid),
    Scope(Silent, Invalid, Silent, Null, 2),
    Scope(Null, Silent, Silent, Silent, Silent) }

MCAdapterVersions == {[a \in {} |-> 0], [x |-> 1, y |-> 2], [x |-> 2, y |-> 1]}
NothingOwn == [f \in {} |-> 0]
MCGateInputs ==
  [complete : {TRUE}, schema : {"supported", "degrade"}, sdk : {1, 2}, grace : BOOLEAN,
   versions : MCAdapterVersions, own : {NothingOwn}]
  \cup [complete : {TRUE}, schema : {"supported"}, sdk : {1}, grace : {FALSE}, versions : MCAdapterVersions,
        own : {[x |-> 1, y |-> Null], [sdkMinVersion |-> 1, missingMinVersionPolicy |-> PolicyReject]}]
  \cup [complete : {FALSE}, schema : {"incompatible"}, sdk : {1}, grace : {FALSE}, versions : {[x |-> 1]},
        own : {NothingOwn}]

MCAnchorFields == <<"billing", "routing", "schema">>

Policy == [found |-> TRUE, percent |-> 50, cooldown |-> 2, adapterPercent |-> [x |-> 40]]
MCPolicies ==
  {Policy, [Policy EXCEPT !.percent = 101], [Policy EXCEPT !.cooldown = 3], MissingPolicy}
MCRolloutRequests ==
  [complete : {TRUE}, selected : BOOLEAN, trips : BOOLEAN, bucket : {0, 30, 80},
   adapters : {[x |-> 10], [x |-> 60]}]
  \cup [complete : {FALSE}, selected : {TRUE}, trips : {TRUE}, bucket : {0}, adapters : {[x |-> 10]}]

----------------------------------------------------------------------------
MCInit ==
  /\ Init
  /\ ResolutionInit /\ RolloutInit /\ AnchorInit
  /\ subject \in {"operators", "clients", "configuration", "rollout", "anchors"}

Judgements == <<resolutionVars, rolloutVars, anchorVars>>

MCNext ==
  /\ UNCHANGED subject
  /\ \/ /\ subject = "operators"
        /\ Next /\ get' = get
        /\ UNCHANGED Judgements
     \/ /\ subject = "clients"
        /\ Next
        /\ \A n \in DOMAIN calls' : calls'[n].request \in InTurn /\ calls'[n].reason = "published"
        /\ UNCHANGED Judgements
     \/ /\ subject = "configuration"
        /\ ResolutionNext
        /\ UNCHANGED <<vars, rolloutVars, anchorVars>>
     \/ /\ subject = "rollout"
        /\ RolloutNext
        /\ UNCHANGED <<vars, resolutionVars, anchorVars>>
     \/ /\ subject = "anchors"
        /\ AnchorNext
        /\ UNCHANGED <<vars, resolutionVars, rolloutVars>>

MCSpec == MCInit /\ [][MCNext]_<<subject, vars, Judgements>>
=============================================================================
