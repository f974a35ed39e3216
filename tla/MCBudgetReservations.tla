------------------------ MODULE MCBudgetReservations -------------------------
(***************************************************************************)
(* Instances of BudgetReservations for TLC.  A behaviour of MCSpec is      *)
(* either the race of two calls on two processes under one budget, or one  *)
(* call while the dashboard pauses the campaign and changes its budget.    *)
(***************************************************************************)
EXTENDS BudgetReservations, TLC

CONSTANTS k1, b1, b2, b3, c1, c2, i1, i2

MCCampaignOf == [b \in Bids |-> k1]
MCCpcUsd == [b \in Bids |-> 1]
\* A click settles what was reserved, or names a price of its own.
AnyCharge == [b \in Bids |-> {1, 2}]
ReservedCharge == [b \in Bids |-> {1}]
OnTwoInstances == (c1 :> i1) @@ (c2 :> i2)
OnOneInstance == [c \in Calls |-> i1]
OneDollar == [k \in Campaigns |-> [active |-> TRUE, lifetimeUsd |-> 1, dailyUsd |-> 1]]
MCUpserts == {[active |-> TRUE, lifetimeUsd |-> 1, dailyUsd |-> 0],
              [active |-> FALSE, lifetimeUsd |-> 1, dailyUsd |-> 1]}

\* Bids differ in nothing but their names; for the runs without liveness.
BidSymmetry == Permutations(Bids)

VARIABLE dashboard   \* whether this is a behaviour of the dashboard and one call

MCInit == Init /\ dashboard \in BOOLEAN

MCNext ==
  /\ Next
  /\ IF dashboard THEN pc'[c2] = "idle" ELSE upsert' = <<>>
  /\ UNCHANGED dashboard

MCSpec == MCInit /\ [][MCNext]_<<vars, dashboard>>
MCFairSpec == MCSpec /\ Fairness
=============================================================================
