--------------------------- MODULE PlacementRuntime ---------------------------
(***************************************************************************)
(* The retrieval pipeline: a request recognises its entities, asks every   *)
(* network at once, waits for all, and answers with a selection of the     *)
(* offers.  Each network has a circuit breaker; each has the snapshot of   *)
(* its last offers to fall back on; and whole answers are cached.          *)
(*                                                                         *)
(* Calls meet at each await: the recognition, the health check of a        *)
(* network, and its fetch.  Time is relative: cooldowns and entries count  *)
(* down, offers count the time since the network gave them.                *)
(***************************************************************************)
EXTENDS Integers, Sequences, FiniteSets, FiniteSetsExt

CONSTANTS
  Networks, EnabledNetworks,  \* supported networks, and those the policy enables
  FailingNetworks,            \* those that may be down (environment)
  Queries,                    \* what requests ask; all share the search of their keywords
  NamedQueries,               \* those with entities
  Slots,                      \* calls that may be under way at once
  FailureThreshold, CircuitOpen, CheckInterval,     \* health policy
  SnapshotTtl, SnapshotEntries, QueryTtl, QueryEntries,
  MaxWait                     \* bound on the time networks keep a call waiting

ASSUME RuntimeAssumption ==
  /\ EnabledNetworks \subseteq Networks /\ FailingNetworks \subseteq EnabledNetworks
  /\ NamedQueries \subseteq Queries
  /\ {FailureThreshold, CircuitOpen, CheckInterval, SnapshotTtl, QueryTtl, MaxWait,
      SnapshotEntries, QueryEntries} \subseteq Nat \ {0}

----------------------------------------------------------------------------
(***************************************************************************)
(* The cache: a map in the order its keys were first set, whose entries    *)
(* expire and whose oldest keys make room.  An entry counts the time it    *)
(* has left; nothing sees it once that is over.                            *)
(***************************************************************************)
Absent == -1

Has(cache, key) == \E i \in DOMAIN cache : cache[i].key = key
Lookup(cache, key) ==
  IF Has(cache, key) THEN cache[CHOOSE i \in DOMAIN cache : cache[i].key = key].value ELSE Absent

\* _evictOverflow drops from the front; a key that is set again keeps its place.
Put(cache, key, value, ttl, maxEntries) ==
  LET entry == [key |-> key, value |-> value, left |-> ttl]
      all == IF Has(cache, key)
             THEN [i \in DOMAIN cache |-> IF cache[i].key = key THEN entry ELSE cache[i]]
             ELSE Append(cache, entry)
  IN  SubSeq(all, 1 + (IF Len(all) > maxEntries THEN Len(all) - maxEntries ELSE 0), Len(all))

\* One unit of time: what has expired is gone, the rest stays in its order.
Elapse(cache) ==
  LET kept == {i \in DOMAIN cache : cache[i].left > 1}
      nth(k) == CHOOSE i \in kept : Cardinality({j \in kept : j <= i}) = k
  IN  [k \in 1..Cardinality(kept) |-> [cache[nth(k)] EXCEPT !.left = @ - 1]]

----------------------------------------------------------------------------
VARIABLES
  up,         \* per network: whether it answers (environment)
  health,     \* per network: networkHealthStore
  snapshots,  \* offerSnapshotCache: the age of the offers, per network
  answers,    \* queryCache: the ads of an answer, per query
  calls       \* per slot: the call under way

vars == <<up, health, snapshots, answers, calls>>

Recent == SnapshotTtl + MaxWait + QueryTtl
Older(age) == IF age = Absent THEN Absent ELSE Min({age + 1, Recent})
\* Ads are what each network contributed: the age of its offers, or Absent.
OlderAds(ads) == [n \in Networks |-> Older(ads[n])]

Idle == [at |-> "idle"]

----------------------------------------------------------------------------
\* Network health.

Healthy(h) == [h EXCEPT !.status = "healthy", !.failures = 0, !.cooldown = 0]

Failed(h) ==
  LET failures == Min({h.failures + 1, FailureThreshold})
  IN  IF failures = FailureThreshold
      THEN [status |-> "open", failures |-> failures, cooldown |-> CircuitOpen, sinceCheck |-> 0]
      ELSE [h EXCEPT !.status = "degraded", !.failures = failures, !.sinceCheck = 0]


Checked(h, ok) ==
  IF ok THEN Healthy([h EXCEPT !.sinceCheck = 0]) ELSE Failed(h)

Skipped(n) == health[n].status = "open" /\ health[n].cooldown > 0
CheckDue(n) ==
  /\ health[n].status = "open" /\ health[n].cooldown = 0
  /\ health[n].sinceCheck >= CheckInterval

----------------------------------------------------------------------------
\* fetchOffersWithSnapshot, up to its first await: the offers of a network that
\* is not asked are there at once.
Done(offers) == [at |-> "done", offers |-> offers]
Snapshot(n) == Lookup(snapshots, n)
Ask(n) ==
  CASE n \notin EnabledNetworks -> Done(Absent)
    [] n \in EnabledNetworks /\ Skipped(n) -> Done(Snapshot(n))
    [] n \in EnabledNetworks /\ CheckDue(n) -> [at |-> "checking"]
    [] OTHER -> [at |-> "fetching"]

Start(s, q) ==
  /\ calls[s] = Idle
  /\ calls' = [calls EXCEPT ![s] = [at |-> "recognising", query |-> q]]
  /\ UNCHANGED <<up, health, snapshots, answers>>

Answer(s) == calls' = [calls EXCEPT ![s] = Idle]

\* A query without entities is answered with nothing, and that is not cached; a
\* cached answer is given; otherwise the networks are asked.
Recognised(s) ==
  /\ calls[s].at = "recognising"
  /\ LET q == calls[s].query
     IN  \/ (q \in NamedQueries => Has(answers, q)) /\ Answer(s)
         \/ /\ q \in NamedQueries /\ ~Has(answers, q)
            /\ calls' = [calls EXCEPT ![s] = [at |-> "asking", query |-> q, waited |-> 0,
                                              net |-> [n \in Networks |-> Ask(n)]]]
  /\ UNCHANGED <<up, health, snapshots, answers>>

AtNet(s, n, at) == calls[s].at = "asking" /\ calls[s].net[n].at = at

\* A network that is down may still pass its health check.
HealthCheckReturns(s, n) ==
  /\ AtNet(s, n, "checking")
  /\ \E ok \in BOOLEAN :
       /\ up[n] => ok
       /\ health' = [health EXCEPT ![n] = Checked(@, ok)]
       /\ calls' = [calls EXCEPT ![s].net[n] = IF ok THEN [at |-> "fetching"] ELSE Done(Snapshot(n))]
  /\ UNCHANGED <<up, snapshots, answers>>

FetchBringsOffers(s, n) ==
  /\ AtNet(s, n, "fetching") /\ up[n]
  /\ snapshots' = Put(snapshots, n, 0, SnapshotTtl, SnapshotEntries)
  /\ health' = [health EXCEPT ![n] = Healthy(@)]
  /\ calls' = [calls EXCEPT ![s].net[n] = Done(0)]
  /\ UNCHANGED <<up, answers>>

\* Fault: offers that come from the snapshot are stored as new ones.
RenewsSnapshot(s, n) ==
  /\ AtNet(s, n, "fetching") /\ up[n]
  /\ health' = [health EXCEPT ![n] = Healthy(@)]
  /\ snapshots' = IF Has(snapshots, n) THEN Put(snapshots, n, Snapshot(n), SnapshotTtl, SnapshotEntries)
                  ELSE snapshots
  /\ calls' = [calls EXCEPT ![s].net[n] = Done(Snapshot(n))]
  /\ UNCHANGED <<up, answers>>

\* Fault: only a network that has offers counts as healthy.
EmptyIsNoSuccess(s, n) ==
  /\ AtNet(s, n, "fetching") /\ up[n]
  /\ calls' = [calls EXCEPT ![s].net[n] = Done(Snapshot(n))]
  /\ UNCHANGED <<up, health, snapshots, answers>>

FetchIsEmpty(s, n) ==
  /\ AtNet(s, n, "fetching") /\ up[n]
  /\ health' = [health EXCEPT ![n] = Healthy(@)]
  /\ calls' = [calls EXCEPT ![s].net[n] = Done(Snapshot(n))]
  /\ UNCHANGED <<up, snapshots, answers>>

FetchFails(s, n) ==
  /\ AtNet(s, n, "fetching") /\ ~up[n]
  /\ health' = [health EXCEPT ![n] = Failed(@)]
  /\ calls' = [calls EXCEPT ![s].net[n] = Done(Snapshot(n))]
  /\ UNCHANGED <<up, snapshots, answers>>

AllDone(s) == calls[s].at = "asking" /\ \A n \in Networks : calls[s].net[n].at = "done"

\* The offers are ranked and some are taken, of any of the networks that have some.
Selections(net) ==
  {[n \in Networks |-> IF n \in chosen THEN net[n].offers ELSE Absent] :
     chosen \in SUBSET {n \in Networks : net[n].offers # Absent}}

\* The answer is cached whatever it holds, failures included.
Finish(s) ==
  /\ AllDone(s)
  /\ Answer(s)
  /\ \E ads \in Selections(calls[s].net) :
       answers' = Put(answers, calls[s].query, ads, QueryTtl, QueryEntries)
  /\ UNCHANGED <<up, health, snapshots>>

----------------------------------------------------------------------------
GoUpOrDown(n) ==
  /\ up' = [up EXCEPT ![n] = ~@]
  /\ UNCHANGED <<health, snapshots, answers, calls>>

OlderHealth(h) ==
  [h EXCEPT !.cooldown = IF @ = 0 THEN 0 ELSE @ - 1, !.sinceCheck = Min({@ + 1, CheckInterval})]
OlderCall(c) ==
  IF c.at # "asking" THEN c
  ELSE [c EXCEPT !.waited = @ + 1,
                 !.net = [n \in Networks |-> IF c.net[n].at = "done" THEN Done(Older(c.net[n].offers))
                                             ELSE c.net[n]]]

\* Timeouts bound the time a network is waited for.
Tick ==
  /\ \A s \in Slots : calls[s].at = "asking" => ~AllDone(s) /\ calls[s].waited < MaxWait
  /\ health' = [n \in Networks |-> OlderHealth(health[n])]
  /\ snapshots' = Elapse([i \in DOMAIN snapshots |-> [snapshots[i] EXCEPT !.value = Older(@)]])
  /\ answers' = Elapse([i \in DOMAIN answers |-> [answers[i] EXCEPT !.value = OlderAds(@)]])
  /\ calls' = [s \in Slots |-> OlderCall(calls[s])]
  /\ UNCHANGED <<up>>

Respond(s, n) ==
  \/ HealthCheckReturns(s, n) \/ FetchBringsOffers(s, n) \/ FetchIsEmpty(s, n) \/ FetchFails(s, n)

Init ==
  /\ up = [n \in EnabledNetworks |-> TRUE]
  /\ health = [n \in Networks |->
       [status |-> "healthy", failures |-> 0, cooldown |-> 0, sinceCheck |-> CheckInterval]]
  /\ snapshots = <<>> /\ answers = <<>>
  /\ calls = [s \in Slots |-> Idle]

Next ==
  \/ Tick
  \/ \E n \in FailingNetworks : GoUpOrDown(n)
  \/ \E s \in Slots :
       \/ \E q \in Queries : Start(s, q)
       \/ Recognised(s) \/ Finish(s)
       \/ \E n \in EnabledNetworks : Respond(s, n)

\* Time passes, a call gets its answers, and queries with entities keep coming.
Fairness ==
  /\ WF_vars(Tick)
  /\ \A s \in Slots :
       /\ WF_vars(Recognised(s)) /\ WF_vars(Finish(s))
       /\ \A n \in EnabledNetworks : WF_vars(Respond(s, n))
  /\ \E q \in NamedQueries : SF_vars(\E s \in Slots : Start(s, q))

Spec == Init /\ [][Next]_vars /\ Fairness

----------------------------------------------------------------------------
(* However snapshots, waits and cached answers add up, and however calls overlap,
   no ad that is given, or cached to be given, is older than a snapshot may be, plus one call's wait, plus
   the time an answer is cached: falling back never renews what it falls back on. *)
AnswersAreRecent ==
  \A n \in Networks :
    /\ \A s \in Slots : AllDone(s) => calls[s].net[n].offers < SnapshotTtl + MaxWait
    /\ \A i \in DOMAIN answers : answers[i].value[n] < Recent

(* A network that is back and stays is healthy again in the end, whatever calls
   were under way, whatever failures come in late, and though answers without its
   offers are cached. *)
CircuitHeals == \A n \in EnabledNetworks : <>[]up[n] ~> [](health[n].status = "healthy")
=============================================================================
