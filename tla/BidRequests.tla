----------------------------- MODULE BidRequests ------------------------------
(***************************************************************************)
(* A bid request on the gateway, from its arrival to its answer, and the   *)
(* events that come back for it.  Every placement of the application is    *)
(* evaluated on its own, all of them concurrently: an opportunity record,  *)
(* a walk down the ranked candidates that reserves budget for one of them, *)
(* a delivery record, the opportunity's final state.  The auction then     *)
(* picks one placement, the decision is logged and the bid answered.  Any  *)
(* failing statement ends the request with "No bid", while the other       *)
(* placements' evaluations run on.                                         *)
(*                                                                         *)
(* The budget tables appear as the account BudgetAccount promises.  A step *)
(* of a model is what runs between two awaits of the code.                 *)
(***************************************************************************)
EXTENDS Naturals, Sequences, Functions

CONSTANTS
  Requests,
  PlacementSet,
  Scope,          \* per request, its placements by priority: the one it names, or all
  Ads,
  Ranked,         \* per placement, its candidates above the score floor, best first
  Score,          \* per placement and ad, the composite score of the auction
  Instances,      \* gateway processes
  InstanceOf,     \* the process a request is evaluated on
  BudgetMode,     \* per process, BUDGET_ENFORCEMENT
  EventKinds,     \* the events the SDK reports for a shown ad
  MaxEvents       \* bound on the events reported

NoAd == "no ad"
None == "none"

ASSUME ConstantsAssumption ==
  /\ Scope \in [Requests -> Seq(PlacementSet)]
  /\ \A r \in Requests : Scope[r] # <<>> /\ IsInjective(Scope[r])
  /\ NoAd \notin Ads /\ None \notin PlacementSet
  /\ Ranked \in [PlacementSet -> Seq(Ads)]
  /\ Score \in [PlacementSet -> [Ads -> Nat]]
  /\ InstanceOf \in [Requests -> Instances]
  /\ BudgetMode \in [Instances -> {"off", "monitor_only", "on"}]
  /\ EventKinds \subseteq {"impression", "click", "postback_success", "postback_failed", "postback_pending"}
  /\ MaxEvents \in Nat

VARIABLES
  stage,        \* per request: how far its handler is
  step,         \* per request and placement: the statement its evaluation waits for
  position,     \* per request and placement: the candidate it tries
  winner,       \* per request and placement: the ad it would serve
  shown,        \* per request: <<placement, ad>> of its answer, <<>> for none
  logged,       \* requests with a row in the decision log
  opportunity,  \* per request and placement: state of its opportunity record
  delivered,    \* per request and placement: delivery_status of its delivery record
  context,      \* per process, the opportunity it remembers for a request
  account, charge, \* the budget, per <<request, ad>>
  failedCalls,  \* reservations whose call reported an error
  events        \* the events stored, each with the opportunity it goes to

handlers == <<stage, step, position, winner, shown>>
records  == <<logged, opportunity, delivered>>
budget   == <<account, charge, failedCalls>>
vars     == <<handlers, records, context, budget, events>>

Budget == INSTANCE BudgetAccount WITH
  Bids <- Requests \X Ads, ChargesUsd <- [b \in Requests \X Ads |-> {}]

PlacementsOf(r) == Range(Scope[r])
Candidate(r, p) == Ranked[p][position[r][p]]
ModeOf(r) == BudgetMode[InstanceOf[r]]
Remember(r, p) == context' = [context EXCEPT ![InstanceOf[r]][r] = p]
GoOn(r, p, label) == step' = [step EXCEPT ![r][p] = label]

----------------------------------------------------------------------------
(* evaluateV2BidOpportunityFirst starts every placement's evaluation before it
   awaits any: the last one is what the process remembers of the request. *)
Receive(r) ==
  /\ stage[r] = "idle"
  /\ stage' = [stage EXCEPT ![r] = "evaluating"]
  /\ step' = [step EXCEPT ![r] = [p \in PlacementSet |->
                IF p \in PlacementsOf(r) THEN "insertOpportunity" ELSE "none"]]
  /\ Remember(r, Scope[r][Len(Scope[r])])
  /\ UNCHANGED <<position, winner, shown, records, budget, events>>

InsertOpportunity(r, p) ==
  /\ step[r][p] = "insertOpportunity"
  /\ opportunity' = [opportunity EXCEPT ![r][p] = "received"]
  /\ GoOn(r, p, "select")
  /\ UNCHANGED <<stage, position, winner, shown, logged, delivered, context, budget, events>>

\* The selection ends, and the delivery record is on its way: the process
\* remembers this placement for the request.
Deliver(r, p, ad) ==
  /\ winner' = [winner EXCEPT ![r][p] = ad]
  /\ GoOn(r, p, "insertDelivery")
  /\ Remember(r, p)
  /\ UNCHANGED <<stage, position, shown, records, events>>

\* The placement is blocked, retrieval or ranking fails, a reservation throws,
\* or no candidate is left.
NoWinner(r, p) ==
  /\ step[r][p] = "select"
  /\ Deliver(r, p, NoAd)
  /\ UNCHANGED budget

HasCandidate(r, p) == step[r][p] = "select" /\ position[r][p] <= Len(Ranked[p])

TakeWithoutBudget(r, p) ==
  /\ ModeOf(r) = "off"
  /\ HasCandidate(r, p)
  /\ Deliver(r, p, Candidate(r, p))
  /\ UNCHANGED budget

\* Fault: the walk goes on after a reservation.
ReservedAndGoesOn(r, p) ==
  /\ ModeOf(r) # "off"
  /\ HasCandidate(r, p)
  /\ Budget!Open(<<r, Candidate(r, p)>>)
  /\ position' = [position EXCEPT ![r][p] = @ + 1]
  /\ UNCHANGED <<stage, step, winner, shown, records, context, failedCalls, events>>

\* The reservation is granted, or another placement of the request holds it.
Reserved(r, p) ==
  /\ ModeOf(r) # "off"
  /\ HasCandidate(r, p)
  /\ \/ Budget!Open(<<r, Candidate(r, p)>>)
     \/ account[<<r, Candidate(r, p)>>] = "open" /\ UNCHANGED <<account, charge>>
  /\ Deliver(r, p, Candidate(r, p))
  /\ UNCHANGED failedCalls

\* What a candidate without a reservation does: enforced, the next one is
\* tried; monitored, it is served all the same.
NotReserved(r, p) ==
  IF ModeOf(r) = "on"
  THEN /\ position' = [position EXCEPT ![r][p] = @ + 1]
       /\ UNCHANGED <<stage, step, winner, shown, records, context, events>>
  ELSE Deliver(r, p, Candidate(r, p))

Refused(r, p) ==
  /\ ModeOf(r) # "off"
  /\ HasCandidate(r, p)
  /\ account[<<r, Candidate(r, p)>>] # "open"
  /\ NotReserved(r, p)
  /\ UNCHANGED budget

\* The reservation was committed, but its call reports an error.
ReservedWithError(r, p) ==
  /\ ModeOf(r) # "off"
  /\ HasCandidate(r, p)
  /\ Budget!Open(<<r, Candidate(r, p)>>)
  /\ failedCalls' = failedCalls \cup {<<r, Candidate(r, p)>>}
  /\ NotReserved(r, p)

InsertDelivery(r, p) ==
  /\ step[r][p] = "insertDelivery"
  /\ delivered' = [delivered EXCEPT ![r][p] = IF winner[r][p] = NoAd THEN "no_fill" ELSE "served"]
  /\ GoOn(r, p, "updateState")
  /\ UNCHANGED <<stage, position, winner, shown, logged, opportunity, context, budget, events>>

UpdateState(r, p) ==
  /\ step[r][p] = "updateState"
  /\ opportunity' = [opportunity EXCEPT ![r][p] = IF winner[r][p] = NoAd THEN "no_fill" ELSE "served"]
  /\ GoOn(r, p, "done")
  /\ UNCHANGED <<stage, position, winner, shown, logged, delivered, context, budget, events>>

\* Fault: the failure of a placement goes unnoticed.
FailureUnseen(r, p) ==
  /\ step[r][p] \in {"insertOpportunity", "insertDelivery", "updateState"}
  /\ GoOn(r, p, "failed")
  /\ UNCHANGED <<stage, position, winner, shown, records, context, budget, events>>

\* A statement of one evaluation fails: it throws, and so does the request.
EvaluationFails(r, p) ==
  /\ step[r][p] \in {"insertOpportunity", "insertDelivery", "updateState"}
  /\ GoOn(r, p, "failed")
  /\ stage' = [stage EXCEPT ![r] = IF @ = "evaluating" THEN "no bid" ELSE @]
  /\ UNCHANGED <<position, winner, shown, records, context, budget, events>>

----------------------------------------------------------------------------
(* The auction, the decision log and the answer. *)

Served(r) == {p \in PlacementsOf(r) : winner[r][p] # NoAd}
Rank(r, p) == CHOOSE n \in DOMAIN Scope[r] : Scope[r][n] = p

\* compareWinnerOptions: the composite score, then the placement's priority.
Beats(r, p, q) ==
  \/ Score[p][winner[r][p]] > Score[q][winner[r][q]]
  \/ Score[p][winner[r][p]] = Score[q][winner[r][q]] /\ Rank(r, p) < Rank(r, q)

Winner(r) == CHOOSE p \in Served(r) : \A q \in Served(r) \ {p} : Beats(r, p, q)
Choice(r) == IF Served(r) = {} THEN <<>> ELSE <<Winner(r), winner[r][Winner(r)]>>

\* Fault: the update of the opportunity is not awaited.
AuctionUnawaited(r) ==
  /\ stage[r] = "evaluating"
  /\ \A p \in PlacementsOf(r) : step[r][p] \in {"updateState", "done"}
  /\ stage' = [stage EXCEPT ![r] = "logging"]
  /\ UNCHANGED <<step, position, winner, shown, records, context, budget, events>>

Auction(r) ==
  /\ stage[r] = "evaluating"
  /\ \A p \in PlacementsOf(r) : step[r][p] = "done"
  /\ stage' = [stage EXCEPT ![r] = "logging"]
  /\ UNCHANGED <<step, position, winner, shown, records, context, budget, events>>

LogDecision(r) ==
  /\ stage[r] = "logging"
  /\ logged' = logged \cup {r}
  /\ stage' = [stage EXCEPT ![r] = "loggingEvent"]
  /\ UNCHANGED <<step, position, winner, shown, opportunity, delivered, context, budget, events>>

Answer(r) ==
  /\ stage[r] = "loggingEvent"
  /\ stage' = [stage EXCEPT ![r] = "answered"]
  /\ shown' = [shown EXCEPT ![r] = Choice(r)]
  /\ UNCHANGED <<step, position, winner, records, context, budget, events>>

\* Fault: a decision that cannot be logged is answered all the same.
AnswerUnlogged(r) ==
  /\ stage[r] \in {"logging", "loggingEvent"}
  /\ stage' = [stage EXCEPT ![r] = "answered"]
  /\ shown' = [shown EXCEPT ![r] = Choice(r)]
  /\ UNCHANGED <<step, position, winner, records, context, budget, events>>

\* REQUIRE_RUNTIME_LOG_DB_PERSISTENCE: a log that cannot be written throws, and
\* the route answers "No bid".
LogFails(r) ==
  /\ stage[r] \in {"logging", "loggingEvent"}
  /\ stage' = [stage EXCEPT ![r] = "no bid"]
  /\ UNCHANGED <<step, position, winner, shown, records, context, budget, events>>

----------------------------------------------------------------------------
(* Events, expiry and crashes. *)

\* mapOpportunityStateFromEvent
StateOf(kind) ==
  CASE kind = "impression"       -> "impressioned"
    [] kind = "click"            -> "clicked"
    [] kind = "postback_success" -> "converted"
    [] kind = "postback_failed"  -> "postback_failed"
    [] OTHER                     -> "event_recorded"

\* resolveRequestContext: what the process remembers.  A process that does not
\* know the request asks for a delivery record stored under the request's id,
\* and bids store theirs under <id>:<placement>: it finds none.
Resolve(i, r) == context[i][r]

StoreEvent(i, r, kind) ==
  /\ shown[r] # <<>>
  /\ Len(events) < MaxEvents
  /\ events' = Append(events, [request |-> r, kind |-> kind, target |-> Resolve(i, r),
                               applied |-> FALSE])
  /\ UNCHANGED <<handlers, records, context, budget>>

\* The event's state overwrites the one the opportunity has.
ApplyEvent(n) ==
  LET e == events[n] IN
  /\ ~e.applied /\ e.target # None
  /\ opportunity' = [opportunity EXCEPT ![e.request][e.target] = StateOf(e.kind)]
  /\ events' = [events EXCEPT ![n].applied = TRUE]
  /\ UNCHANGED <<handlers, logged, delivered, context, budget>>

\* The reservations of a request that is over expire.
Expire(r) ==
  LET open == {b \in {r} \X Ads : account[b] = "open"} IN
  /\ stage[r] \notin {"idle", "evaluating"} /\ open # {}
  /\ Budget!Release(open)
  /\ UNCHANGED <<handlers, records, context, failedCalls, events>>

Crash(i) ==
  LET dead == {r \in Requests : InstanceOf[r] = i}
      Over(r) == stage[r] \in {"idle", "answered", "no bid", "lost"}
  IN  /\ \E r \in Requests : context[i][r] # None
      /\ context' = [context EXCEPT ![i] = [r \in Requests |-> None]]
      /\ stage' = [r \in Requests |-> IF r \in dead /\ ~Over(r) THEN "lost" ELSE stage[r]]
      /\ step' = [r \in Requests |-> IF r \in dead /\ stage[r] # "idle"
                    THEN [p \in PlacementSet |-> IF step[r][p] \in {"none", "done"} THEN step[r][p] ELSE "failed"]
                    ELSE step[r]]
      /\ UNCHANGED <<position, winner, shown, records, budget, events>>

----------------------------------------------------------------------------
Init ==
  /\ stage = [r \in Requests |-> "idle"]
  /\ step = [r \in Requests |-> [p \in PlacementSet |-> "none"]]
  /\ position = [r \in Requests |-> [p \in PlacementSet |-> 1]]
  /\ winner = [r \in Requests |-> [p \in PlacementSet |-> NoAd]]
  /\ shown = [r \in Requests |-> <<>>]
  /\ logged = {}
  /\ opportunity = [r \in Requests |-> [p \in PlacementSet |-> "none"]]
  /\ delivered = [r \in Requests |-> [p \in PlacementSet |-> "none"]]
  /\ context = [i \in Instances |-> [r \in Requests |-> None]]
  /\ Budget!Init
  /\ failedCalls = {}
  /\ events = <<>>

Select(r, p) ==
  \/ NoWinner(r, p) \/ TakeWithoutBudget(r, p)
  \/ Reserved(r, p) \/ Refused(r, p) \/ ReservedWithError(r, p)

RequestStep(r) ==
  \/ \E p \in PlacementsOf(r) :
       \/ InsertOpportunity(r, p) \/ Select(r, p) \/ InsertDelivery(r, p)
       \/ UpdateState(r, p) \/ EvaluationFails(r, p)
  \/ Auction(r) \/ LogDecision(r) \/ Answer(r) \/ LogFails(r)

Next ==
  \/ \E r \in Requests : Receive(r) \/ RequestStep(r) \/ Expire(r)
  \/ \E i \in Instances :
       \/ Crash(i)
       \/ \E r \in Requests, kind \in EventKinds : StoreEvent(i, r, kind)
  \/ \E n \in DOMAIN events : ApplyEvent(n)

Spec == Init /\ [][Next]_vars

\* The event loop and the database carry a request on.
Fairness == \A r \in Requests : WF_vars(RequestStep(r))

----------------------------------------------------------------------------
(* A bid is answered only when the tables already tell of it: its decision is
   logged and the delivery record of the placement shown is there and served,
   whatever statements of the other placements failed meanwhile. *)
AnswerIsRecorded ==
  \A r \in Requests : shown[r] # <<>> =>
    LET p == shown[r][1] IN
    /\ r \in logged
    /\ delivered[r][p] = "served"
    /\ opportunity[r][p] \notin {"none", "received"}

(* With budgets enforced, the ad shown had its money set aside, and the money a
   request holds is that of ads it would serve at some placement, or of
   reservations whose call reported an error: a candidate passed over leaves
   nothing behind. *)
MoneyFollowsAds ==
  \A r \in Requests :
    /\ ModeOf(r) = "on" /\ shown[r] # <<>> => account[<<r, shown[r][2]>>] \in {"open", "released"}
    /\ \A ad \in Ads : account[<<r, ad>>] = "open" =>
         \/ <<r, ad>> \in failedCalls
         \/ \E p \in PlacementSet : winner[r][p] = ad

(* The events of a request go to an opportunity of its own that was delivered, or
   to none when the process does not know the request; if the request named one
   placement, to the opportunity that was shown.  On several placements it is the
   one delivered last, which may have lost the auction.  And once events come in,
   the opportunity never falls back to the state its evaluation gave it.
   (opportunity-writer.js:179, 292) *)
Reported == {"impressioned", "clicked", "converted", "postback_failed", "event_recorded"}
EventsReachDelivery ==
  /\ [](\A n \in DOMAIN events :
          LET r == events[n].request
              p == events[n].target
          IN  p # None =>
                /\ p \in PlacementsOf(r) /\ delivered[r][p] # "none"
                /\ Len(Scope[r]) = 1 => p = shown[r][1])
  /\ [][\A r \in Requests, p \in PlacementSet :
          opportunity[r][p] \in Reported => opportunity'[r][p] \in Reported]_vars

(* Every request is answered, unless its process died: a failing placement
   does not leave the others' request hanging. *)
RequestsAnswered ==
  \A r \in Requests : stage[r] = "evaluating" ~> stage[r] \in {"answered", "no bid", "lost"}
=============================================================================
