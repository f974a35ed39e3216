---------------------------- MODULE BudgetAccount ----------------------------
(***************************************************************************)
(* What the campaign budget tables promise of one bid (one request, one    *)
(* campaign, one ad), whatever transactions run on them: the money is set  *)
(* aside at most once, and what was set aside is either given back or      *)
(* charged, once, for good.  Transactions, locks, connections and crashes  *)
(* do not appear here; BudgetReservations implements this.                 *)
(***************************************************************************)
EXTENDS Naturals

CONSTANTS
  Bids,        \* (request_id, campaign_id, ad_id) triples
  ChargesUsd   \* per bid, the amounts a click on it may settle

VARIABLES
  account,     \* per bid: "none", "open", "released" or "charged"
  charge       \* per bid: what was charged, 0 before

vars == <<account, charge>>

Init ==
  /\ account = [b \in Bids |-> "none"]
  /\ charge = [b \in Bids |-> 0]

Open(b) ==
  /\ account[b] = "none"
  /\ account' = [account EXCEPT ![b] = "open"]
  /\ UNCHANGED charge

\* One cleanup gives back every expired bid it finds; a transaction that
\* opens a bid gives back the expired ones in the same commit.
Release(S) ==
  /\ \A b \in S : account[b] = "open"
  /\ account' = [b \in Bids |-> IF b \in S THEN "released" ELSE account[b]]
  /\ UNCHANGED charge

OpenAndRelease(b, S) ==
  /\ account[b] = "none"
  /\ \A d \in S : account[d] = "open"
  /\ account' = [d \in Bids |-> IF d = b THEN "open"
                                ELSE IF d \in S THEN "released" ELSE account[d]]
  /\ UNCHANGED charge

Charge(b, usd) ==
  /\ account[b] = "open"
  /\ account' = [account EXCEPT ![b] = "charged"]
  /\ charge' = [charge EXCEPT ![b] = usd]

Next ==
  \/ \E S \in SUBSET Bids : Release(S)
  \/ \E b \in Bids :
       \/ Open(b)
       \/ \E S \in SUBSET Bids : OpenAndRelease(b, S)
       \/ \E usd \in ChargesUsd[b] : Charge(b, usd)

Spec == Init /\ [][Next]_vars
=============================================================================
