---------------------------- MODULE MCBidRequests -----------------------------
(***************************************************************************)
(* Instances of BidRequests for TLC: the two placements of the gateway's   *)
(* default configuration, which rank two ads in opposite orders, and one   *)
(* process per BUDGET_ENFORCEMENT.  A behaviour is about one request on    *)
(* the process that enforces budgets, or about two on the other processes, *)
(* one of which names its placement.                                       *)
(***************************************************************************)
EXTENDS BidRequests, TLC

CONSTANTS r1, r2, r3, answerPlacement, nextStepPlacement, ad1, ad2, i1, i2, i3

OneNamed ==
  [r \in Requests |-> IF r = r3 THEN <<nextStepPlacement>> ELSE <<answerPlacement, nextStepPlacement>>]
OppositeRanking ==
  [p \in PlacementSet |-> IF p = answerPlacement THEN <<ad1, ad2>> ELSE <<ad2, ad1>>]
FirstAdScoresMore == [p \in PlacementSet |-> [ad \in Ads |-> IF ad = ad1 THEN 2 ELSE 1]]
OnOwnInstance == (r1 :> i1) @@ (r2 :> i2) @@ (r3 :> i3)
OneModeEach == (i1 :> "on") @@ (i2 :> "monitor_only") @@ (i3 :> "off")

VARIABLE about   \* the requests this behaviour is about

MCInit == Init /\ about \in {{r1}, {r2, r3}}

MCNext ==
  /\ Next
  /\ \A r \in Requests \ about : stage'[r] = "idle"
  /\ UNCHANGED about

MCSpec == MCInit /\ [][MCNext]_<<vars, about>> /\ Fairness
=============================================================================
