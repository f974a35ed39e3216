------------------------------ MODULE MCInventory ------------------------------
(***************************************************************************)
(* The inventory for TLC.  A behaviour is about the requests of one fetch, *)
(* or about two jobs: one that synchronizes the house or CJ, embeds and    *)
(* refreshes the snapshot, while CJ changes its offer, and one that        *)
(* synchronizes PartnerStack and refreshes the snapshot or stops there.    *)
(***************************************************************************)
EXTENDS InventorySync, NetworkFetch

VARIABLE subject

MCNetworkOf == [o \in 1..3 |-> CASE o = 1 -> "cj" [] o = 2 -> "house" [] OTHER -> "partnerstack"]
MCListOf == [o \in 1..3 |-> IF o = 1 THEN "offers" ELSE "links"]
MCWants ==
  [j \in {"j1", "j2"} |->
     IF j = "j1"
     THEN [networks : {<<"house">>, <<"cj">>}, embed : {"full", "recent"}, refresh : {TRUE}]
     ELSE [networks : {<<"partnerstack">>}, embed : {"none"}, refresh : BOOLEAN]]
Offer(key, priority, id) == [key |-> key, priority |-> priority, id |-> id]
\* List 1 holds the offers, list 2 the links.
MCListedOn == <<<<Offer("k1", 1, 1)>>, <<Offer("k2", 1, 2), Offer("k1", 2, 3)>>>>
MCEmbeddedIn == <<<<Offer("k3", 1, 4)>>, <<>>>>
MCNetworkOffers == {Offer("k1", 1, 1), Offer("k2", 1, 2), Offer("k1", 2, 3), Offer("k3", 1, 4)}

MCInit ==
  /\ SyncInit /\ FetchInit
  /\ \/ subject = "fetch" /\ upstream = [o \in Offers |-> 0]
     \/ subject = "jobs" /\ upstream[3] = 1 /\ connector = "cj" /\ exists = [l \in Lists |-> {}]
MCNext ==
  /\ \/ subject = "fetch" /\ FetchNext /\ UNCHANGED syncVars
     \/ /\ subject = "jobs" /\ SyncNext /\ UNCHANGED fetchVars
        /\ \A o \in Offers : upstream'[o] # upstream[o] => NetworkOf[o] = "cj"
  /\ UNCHANGED subject
MCSpec == MCInit /\ [][MCNext]_<<syncVars, fetchVars, subject>>
=============================================================================
