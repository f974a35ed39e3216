----------------------------- MODULE VersionAnchors -----------------------------
(***************************************************************************)
(* The version anchors of a request.  At every freeze point the versions   *)
(* that hold then are injected into what was frozen before: a version that *)
(* was frozen stays, and one that differs from it rejects the request or,  *)
(* for the configuration after routing, degrades it.  The caller keeps the *)
(* snapshot it got, a rejected one too, and passes it back.                *)
(***************************************************************************)
EXTENDS Integers, Sequences, SequencesExt, FiniteSets

CONSTANTS
  AnchorFields,     \* the fields of an anchor set, in the order they are merged
  StrictSwitch,     \* those of the configuration
  AnchorVersions    \* versions a field may have; Missing for none

Missing == "missing"
FreezeOrder == <<"ingress", "routing", "delivery", "event">>
Rank(point) == CHOOSE n \in DOMAIN FreezeOrder : FreezeOrder[n] = point
Fields == Range(AnchorFields)

ASSUME AnchorAssumption == StrictSwitch \subseteq Fields /\ IsInjective(AnchorFields)

VARIABLES
  snapshot,   \* the last snapshot of the request
  injected    \* the versions it was made with, if it allowed the request

anchorVars == <<snapshot, injected>>

NoSnapshot == [set |-> [f \in Fields |-> Missing], action |-> "none", point |-> "ingress", completed |-> {}]

Differs(set, versions, f) == Missing \notin {set[f], versions[f]} /\ set[f] # versions[f]

\* Where a version that differs ends the merge.
Forbidden(set, versions, point, f) ==
  Differs(set, versions, f) /\ (f \notin StrictSwitch \/ Rank(point) < Rank("routing"))

\* The fields that are merged before one of them ends it.
MergedFields(set, versions, point) ==
  {AnchorFields[n] : n \in {k \in DOMAIN AnchorFields :
     \A j \in 1 .. k : ~Forbidden(set, versions, point, AnchorFields[j])}}

\* Fault: the latest version holds.
FrozenLatest(set, versions, merged) ==
  [f \in Fields |-> IF f \in merged /\ versions[f] # Missing THEN versions[f] ELSE set[f]]
Frozen(set, versions, merged) ==
  [f \in Fields |-> IF f \in merged /\ set[f] = Missing THEN versions[f] ELSE set[f]]

\* A call at an earlier freeze point than the one before is refused as it is.
Regress(point) == snapshot # NoSnapshot /\ Rank(point) < Rank(snapshot.point)

RejectIncomplete(point) ==
  /\ snapshot' = [snapshot EXCEPT !.action = "reject", !.point = point, !.completed = @ \cup {point}]
  /\ injected' = NoSnapshot.set

RejectRegress(point) ==
  /\ Regress(point)
  /\ snapshot' = [snapshot EXCEPT !.action = "reject"]
  /\ injected' = NoSnapshot.set

Inject(point, versions) ==
  LET merged == MergedFields(snapshot.set, versions, point)
      set == Frozen(snapshot.set, versions, merged)
      switched == \E f \in Fields : Differs(snapshot.set, versions, f)
  IN  /\ ~Regress(point)
      /\ snapshot' = [set |-> set, point |-> point, completed |-> snapshot.completed \cup {point},
                      action |-> IF merged # Fields \/ \E f \in Fields : set[f] = Missing THEN "reject"
                                 ELSE IF switched THEN "degrade" ELSE "allow"]
      /\ injected' = IF snapshot'.action = "allow" THEN versions ELSE NoSnapshot.set

injectVersionAnchors(point, versions) ==
  \/ RejectIncomplete(point) \/ RejectRegress(point) \/ Inject(point, versions)

AnchorInit ==
  /\ snapshot = NoSnapshot
  /\ injected = NoSnapshot.set

AnchorNext ==
  \E point \in Range(FreezeOrder), versions \in [Fields -> AnchorVersions \cup {Missing}] :
    injectVersionAnchors(point, versions)

AnchorSpec == AnchorInit /\ [][AnchorNext]_anchorVars

(* What is frozen for a request stays frozen at all later points, also after calls
   that were refused or came out of order; and a request is allowed on only if the
   versions it ran into agree with all that is frozen. *)
FrozenStands ==
  [][/\ \A f \in Fields : snapshot.set[f] # Missing => snapshot'.set[f] = snapshot.set[f]
     /\ snapshot'.action = "allow" =>
          \A f \in Fields : injected'[f] \in {Missing, snapshot'.set[f]}]_anchorVars
=============================================================================
