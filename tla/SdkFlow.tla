------------------------------- MODULE SdkFlow -------------------------------
(***************************************************************************)
(* The two clients of the gateway, its runtime routes, and the network     *)
(* between them.  The ads SDK runs a chat turn: it reads the configuration *)
(* of a placement, asks for a bid, reports an event and shows the ad, each *)
(* request once and under a timer.  The contracts client repeats a request *)
(* that failed, whatever it asks.  A request the client gave up may still  *)
(* reach the server, and an answer may break off after its headers.        *)
(***************************************************************************)
EXTENDS Integers, FiniteSets

CONSTANTS
  Turns, Inputs,      \* chat turns, and what the host may pass to one
  Jobs, Orders,       \* calls of the contracts client, and what they ask
  MaxRetries,         \* retries the contracts client allows itself
  Placements,         \* placements of the app
  MaxToggles          \* bound on the changes made in the dashboard

ASSUME SdkFlowAssumption ==
  /\ Turns \cap Jobs = {}
  /\ MaxRetries \in 0..5 /\ MaxToggles \in Nat

VARIABLES
  wire,       \* requests sent, and what the server answered
  input,      \* per turn: its arguments
  turn,       \* per turn: how far it is, and its result
  chat,       \* per turn: whether the host's chat promise is settled
  order,      \* per call: its arguments
  job,        \* per call: how far it is
  on,         \* placements enabled in the dashboard
  toggles,    \* changes made in the dashboard
  served,     \* ads the server decided to serve: the request and the placement
  logged,     \* events in the server's log
  made        \* keys and access tokens the control plane made, by request

turnVars == <<input, turn, chat>>
jobVars == <<order, job>>
serverVars == <<on, toggles, served, logged, made>>
sdkVars == <<wire, turnVars, jobVars, serverVars>>

----------------------------------------------------------------------------
\* Requests and answers.

Pending == [at |-> "sent", status |-> 0, body |-> "none"]
Answer(status, body) == [at |-> "answered", status |-> status, body |-> body]
Attempt(by, route, n) == [by |-> by, route |-> route, n |-> n]
Send(a) == wire' = [b \in DOMAIN wire \cup {a} |-> IF b \in DOMAIN wire THEN wire[b] ELSE Pending]
Waits(a) == a \in DOMAIN wire /\ wire[a].at = "sent"
Answered(a) == a \in DOMAIN wire /\ wire[a].at = "answered"
Ok(reply) == reply.status < 400
\* A body that breaks off is read as an empty object, whatever the status.
Cut(reply) == [reply EXCEPT !.body = "empty"]

Reply(a, status, body) == wire' = [wire EXCEPT ![a] = Answer(status, body)]
JustReply(a, status, body) == Reply(a, status, body) /\ UNCHANGED serverVars

----------------------------------------------------------------------------
\* The routes.

\* Who may do what: a key anything, an access token what its scopes name; a
\* credential for one placement is not good for another.
Scope(route) == CASE route = "config" -> "mediationConfigRead"
                  [] route = "bid" -> "sdkEvaluate"
                  [] OTHER -> "sdkEvents"
HasScope(who, route) == who.kind = "access" => Scope(route) \in who.scopes
Fits(who, placement) == "any" \in {placement, who.placement} \/ placement = who.placement
Admits(who, route, placement) == who.kind # "none" /\ HasScope(who, route) /\ Fits(who, placement)
\* Without a placement of its own a request is for those of its credential.
InScope(who, placement) == who.placement = "any" \/ who.placement = placement

Asked(a) ==
  IF a.by \in Turns
  THEN [who |-> input[a.by].who, valid |-> TRUE, event |-> input[a.by].event,
        placement |-> input[a.by].placement]
  ELSE order[a.by]

ServeConfig(a) ==
  /\ a.route = "config" /\ Waits(a)
  /\ IF ~Admits(Asked(a).who, "config", Asked(a).placement) THEN JustReply(a, 401, "none")
     ELSE IF Asked(a).placement \notin Placements THEN JustReply(a, 404, "none")
     ELSE JustReply(a, 200, IF Asked(a).placement \in on THEN "on" ELSE "off")

\* Messages are taken with any role, but not without content; a placement is refused.
Acceptable(q) == q.valid /\ q.placement = "any"
RefuseBid(a) ==
  /\ a.route = "bid" /\ Waits(a)
  /\ \/ a.by \in Jobs /\ ~Acceptable(Asked(a)) /\ JustReply(a, 400, "none")
     \/ ~Admits(Asked(a).who, "bid", "any") /\ JustReply(a, 401, "none")
Evaluated(a) ==
  /\ a.route = "bid" /\ Waits(a) /\ (a.by \in Jobs => Acceptable(Asked(a)))
  /\ Admits(Asked(a).who, "bid", "any")
\* The link of the ad becomes a tracking link; an ad without one is passed as it is.
WithBid == {"ad", "bare"}
Serve(a) ==
  /\ Evaluated(a)
  /\ \E p \in on, body \in WithBid :
       /\ InScope(Asked(a).who, p)
       /\ served' = served \cup {[of |-> a, placement |-> p]}
       /\ Reply(a, 200, body)
  /\ UNCHANGED <<on, toggles, logged, made>>
NoBid(a) == Evaluated(a) /\ JustReply(a, 200, "nobid")
\* An evaluation that fails is answered as one without a bid.
EvaluationThrows(a) == Evaluated(a) /\ \E status \in {200, 400} :
  JustReply(a, status, IF status = 200 THEN "nobid" ELSE "none")

\* Which of the three payloads an event is, and what each is taken with.
PostbackTaken(e) == e.complete /\ e.kind = "conversion"
CardTaken(e) == e.complete /\ e.kind \in {"impression", "click", "dismiss"}
AttachTaken(e) == e.complete /\ e.kind \in {"impression", "click"}
IsCard(e) == ~e.conversion /\ e.card
Taken(e) == IF e.conversion THEN PostbackTaken(e) ELSE IF IsCard(e) THEN CardTaken(e) ELSE AttachTaken(e)

Event(a) == Asked(a).event
RefuseEvent(a) ==
  /\ a.route = "event" /\ Waits(a)
  /\ \/ ~Taken(Event(a)) /\ JustReply(a, 400, "none")
     \/ ~Admits(Asked(a).who, "event", Asked(a).placement) /\ JustReply(a, 401, "none")
Loggable(a) ==
  /\ a.route = "event" /\ Waits(a) /\ Taken(Event(a))
  /\ Admits(Asked(a).who, "event", Asked(a).placement)
\* A conversion that is known is logged as a duplicate; another event is new each
\* time (what a click is charged is in ClickRevenue).
Known(a) == Event(a).conversion /\ \E l \in logged : l.of.by = a.by
Entry(a) == [of |-> a, kind |-> Event(a).kind, duplicate |-> Known(a)]
LogAs(a) ==
  /\ logged' = logged \cup {Entry(a)}
  /\ Reply(a, 200, "done") /\ UNCHANGED <<on, toggles, served, made>>
LogConversion(a) == Loggable(a) /\ Event(a).conversion /\ LogAs(a)
LogCard(a) == Loggable(a) /\ IsCard(Event(a)) /\ LogAs(a)
LogAttach(a) == Loggable(a) /\ ~Event(a).conversion /\ ~IsCard(Event(a)) /\ LogAs(a)
\* A store that fails is answered 400, before the event is logged or after it.
EventThrows(a) ==
  /\ Loggable(a)
  /\ logged' \in {logged, logged \cup {Entry(a)}}
  /\ \E body \in {"none", "socket"} : Reply(a, 400, body)
  /\ UNCHANGED <<on, toggles, served, made>>

\* The control plane: a key more, and a token that is exchanged once.
Make(a) ==
  /\ a.route \in {"key", "exchange"} /\ Waits(a)
  /\ a.route = "exchange" => \A b \in made : b.by # a.by
  /\ made' = made \cup {a}
  /\ Reply(a, 201, "done") /\ UNCHANGED <<on, toggles, served, logged>>
RefuseExchange(a) ==
  /\ a.route = "exchange" /\ Waits(a) /\ \E b \in made : b.by = a.by
  /\ JustReply(a, 409, "none")

\* In front of the server: a request may be turned away unread.
Overload(a) == Waits(a) /\ JustReply(a, 503, "none")
Toggle ==
  /\ toggles < MaxToggles /\ toggles' = toggles + 1
  /\ \E p \in Placements : on' = IF p \in on THEN on \ {p} ELSE on \cup {p}
  /\ UNCHANGED <<wire, served, logged, made, turnVars, jobVars>>

ServerNext ==
  \/ Toggle
  \/ /\ \E a \in DOMAIN wire :
          \/ ServeConfig(a) \/ RefuseBid(a) \/ Serve(a) \/ NoBid(a) \/ EvaluationThrows(a)
          \/ RefuseEvent(a) \/ LogConversion(a) \/ LogCard(a) \/ LogAttach(a) \/ EventThrows(a)
          \/ Make(a) \/ RefuseExchange(a) \/ Overload(a)
     /\ UNCHANGED <<turnVars, jobVars>>

----------------------------------------------------------------------------
\* A chat turn with the ads SDK.

Fresh == [at |-> "clicked", reading |-> FALSE, decision |-> "error", detail |-> "not_executed",
          ad |-> "none", bid |-> "unasked", events |-> "unasked", failOpen |-> FALSE,
          shown |-> FALSE, outcome |-> "none"]
Own(t) == Attempt(t, turn[t].at, 1)
Goes(t, next) == turn' = [turn EXCEPT ![t] = next] /\ UNCHANGED <<input, chat, jobVars, serverVars>>
Step(t, next) == Goes(t, next) /\ UNCHANGED wire
Asks(t, next) == Goes(t, next) /\ Send(Attempt(t, next.at, 1))

Decided(flow, result, detail) == [flow EXCEPT !.decision = result, !.detail = detail]
FailsOpen(flow, result, detail) == [Decided(flow, result, detail) EXCEPT !.failOpen = TRUE]
Render(flow) == [flow EXCEPT !.at = "render", !.reading = FALSE]

\* Unless the turn is on the fast path, the chat comes first.
StartTurn(t) ==
  /\ turn[t].at = "clicked"
  /\ ~input[t].fast /\ input[t].chat => chat[t]
  /\ Asks(t, [turn[t] EXCEPT !.at = "config"])

\* A configuration without the placement counts as one that enables it.
BidPossible(t) == input[t].ids /\ input[t].messages
BidFailure(t, flow, detail) ==
  IF input[t].failOpen THEN FailsOpen(flow, "no_fill", detail) ELSE FailsOpen(flow, "error", "bid_failed")
AskBid(t) ==
  IF ~input[t].payload THEN Step(t, Render(FailsOpen(turn[t], "error", "missing_bid_payload")))
  ELSE IF ~BidPossible(t)
  THEN Step(t, Render(BidFailure(t, [turn[t] EXCEPT !.bid = "failed"], "bid_error")))
  ELSE Asks(t, [turn[t] EXCEPT !.at = "bid", !.reading = FALSE])
Off(reply) == reply.body = "off"
GotConfig(t, reply) ==
  IF ~Ok(reply) THEN Step(t, Render(FailsOpen(turn[t], "error", "config_fetch_failed")))
  ELSE IF Off(reply) THEN Step(t, Render(Decided(turn[t], "blocked", "placement_disabled")))
  ELSE AskBid(t)

\* The event is reported before the ad is shown.
AskEvent(t, flow) ==
  CASE input[t].factory = "none" -> Step(t, Render([flow EXCEPT !.events = "skipped"]))
    [] input[t].factory = "scalar" ->
         Step(t, Render([flow EXCEPT !.events = "failed", !.failOpen = TRUE]))
    [] input[t].factory = "throws" -> Step(t, [flow EXCEPT !.at = "rejected"])
    [] OTHER -> Asks(t, [flow EXCEPT !.at = "event", !.reading = FALSE])
HasBid(reply) == reply.body \in WithBid
FlowAd(reply) == IF reply.body = "ad" THEN "ad" ELSE "none"
GotBid(t, reply) ==
  IF ~Ok(reply) THEN Step(t, Render(BidFailure(t, [turn[t] EXCEPT !.bid = "failed"], "bid_error")))
  ELSE AskEvent(t, Decided([turn[t] EXCEPT !.bid = "ok", !.ad = FlowAd(reply)],
                           IF HasBid(reply) THEN "served" ELSE "no_fill", "v2_bid"))
\* Fault: the status of the answer is not looked at.
EventTaken(t, reply) == Step(t, Render([turn[t] EXCEPT !.events = "ok"]))
GotEvent(t, reply) ==
  Step(t, Render([turn[t] EXCEPT !.events = IF Ok(reply) THEN "ok" ELSE "failed",
                                 !.failOpen = @ \/ ~Ok(reply)]))
Got(t, reply) ==
  CASE turn[t].at = "config" -> GotConfig(t, reply)
    [] turn[t].at = "bid" -> GotBid(t, reply)
    [] OTHER -> GotEvent(t, reply)
Asking(t) == turn[t].at \in {"config", "bid", "event"}

HeadersArrive(t) ==
  /\ Asking(t) /\ ~turn[t].reading /\ Answered(Own(t))
  /\ Step(t, [turn[t] EXCEPT !.reading = TRUE])
BodyArrives(t) == Asking(t) /\ turn[t].reading /\ Got(t, wire[Own(t)])
\* The timer is cleared only when the body has been read.
Abort(t) == Asking(t) /\ turn[t].reading /\ Got(t, Cut(wire[Own(t)]))
\* No headers yet: the timer fires, or the connection breaks.
Fails(t, timeout) ==
  /\ Asking(t) /\ ~turn[t].reading
  /\ CASE turn[t].at = "config" -> Step(t, Render(FailsOpen(turn[t], "error", "config_fetch_failed")))
       [] turn[t].at = "bid" ->
            Step(t, Render(BidFailure(t, [turn[t] EXCEPT !.bid = IF timeout THEN "timeout" ELSE "failed"],
                                      IF timeout THEN "bid_timeout" ELSE "bid_error")))
       [] OTHER -> Step(t, Render([turn[t] EXCEPT !.events = "failed", !.failOpen = TRUE]))
\* Fault: the timer is cleared when the headers are there.
TimerUntilHeaders(t) == Fails(t, TRUE)
TimerFires(t) == Fails(t, TRUE) \/ Abort(t)
ConnectionBreaks(t) == Fails(t, FALSE)

ShowAd(t) ==
  /\ turn[t].at = "render"
  /\ IF turn[t].decision = "served" /\ turn[t].ad # "none" /\ input[t].renders # "no"
     THEN Step(t, [turn[t] EXCEPT !.at = IF input[t].renders = "throws" THEN "rejected" ELSE "closing",
                                  !.shown = TRUE])
     ELSE Step(t, [turn[t] EXCEPT !.at = "closing"])

\* A bid that was never asked for counts as seen.
ProbeStatus(flow) == IF flow.bid = "timeout" THEN "timeout" ELSE "seen"
Outcome(flow) ==
  CASE flow.decision = "served" /\ flow.ad # "none" -> IF flow.shown THEN "ui_fill" ELSE "bid_fill_only"
    [] flow.decision \in {"no_fill", "error"} /\ ProbeStatus(flow) = "timeout" -> "pre_bid_timeout"
    [] flow.decision = "no_fill" -> "no_fill_confirmed"
    [] OTHER -> "other_error"
Finish(t) ==
  /\ turn[t].at = "closing"
  /\ input[t].chat => chat[t]
  /\ Step(t, [turn[t] EXCEPT !.at = "done", !.outcome = Outcome(turn[t])])
ChatSettles(t) ==
  /\ ~chat[t] /\ chat' = [chat EXCEPT ![t] = TRUE]
  /\ UNCHANGED <<wire, input, turn, jobVars, serverVars>>

TurnNext == \E t \in Turns :
  \/ StartTurn(t) \/ HeadersArrive(t) \/ BodyArrives(t) \/ TimerFires(t) \/ ConnectionBreaks(t)
  \/ ShowAd(t) \/ Finish(t) \/ ChatSettles(t)

----------------------------------------------------------------------------
\* A call of the contracts client.

RuntimeRoutes == {"config", "bid", "event"}
ControlRoutes == {"key", "exchange"}
TotalAttempts == MaxRetries + 1
RetryableStatus == {408, 425, 429, 500, 502, 503, 504}
\* The error that is thrown for an answer is caught where those of the network are.
NamesSocket(reply) == reply.body = "socket"
Retryable(reply) == reply.status \in RetryableStatus \/ NamesSocket(reply)

Last(j) == Attempt(j, order[j].route, job[j].n)
JobTo(j, next) ==
  job' = [job EXCEPT ![j] = next] /\ UNCHANGED <<wire, order, turnVars, serverVars>>
Try(j) ==
  /\ job[j].at \in {"ready", "sleeping"}
  /\ job' = [job EXCEPT ![j] = [at |-> "waiting", n |-> @.n + 1]]
  /\ Send(Attempt(j, order[j].route, job[j].n + 1))
  /\ UNCHANGED <<order, turnVars, serverVars>>
Again(j) == IF job[j].n < TotalAttempts THEN "sleeping" ELSE "failed"
\* An abort and a broken connection are retried, other errors of fetch are not.
FetchFails(j) ==
  /\ job[j].at = "waiting"
  /\ \E retryable \in BOOLEAN :
       JobTo(j, [job[j] EXCEPT !.at = IF retryable THEN Again(j) ELSE "failed"])
\* From the headers on there is no timer.
JobHeaders(j) ==
  job[j].at = "waiting" /\ Answered(Last(j)) /\ JobTo(j, [job[j] EXCEPT !.at = "reading"])
Conclude(j, reply) ==
  JobTo(j, [job[j] EXCEPT !.at = IF Ok(reply) THEN "returned"
                                 ELSE IF Retryable(reply) THEN Again(j) ELSE "failed"])
JobBody(j) ==
  /\ job[j].at = "reading"
  /\ \E reply \in {wire[Last(j)], Cut(wire[Last(j)])} : Conclude(j, reply)

JobNext == \E j \in Jobs : Try(j) \/ FetchFails(j) \/ JobHeaders(j) \/ JobBody(j)

----------------------------------------------------------------------------
TurnsInit == input \in [Turns -> Inputs] /\ turn = [t \in Turns |-> Fresh]
JobsInit == order \in [Jobs -> Orders] /\ job = [j \in Jobs |-> [at |-> "ready", n |-> 0]]
DashboardInit == chat \in [Turns -> BOOLEAN] /\ on \in SUBSET Placements /\ toggles = 0
SdkInit ==
  /\ wire = <<>> /\ served = {} /\ logged = {} /\ made = {}
  /\ TurnsInit /\ JobsInit /\ DashboardInit
SdkNext == ServerNext \/ TurnNext \/ JobNext
\* The client runs on and its timers fire; the server and the network promise nothing.
SdkFairness ==
  \A t \in Turns : /\ WF_sdkVars(StartTurn(t) \/ TimerFires(t) \/ ShowAd(t) \/ Finish(t))
                   /\ WF_sdkVars(ChatSettles(t))
SdkSpec == SdkInit /\ [][SdkNext]_sdkVars /\ SdkFairness

----------------------------------------------------------------------------
\* What a turn shows was decided for it, on a placement of its credential, and
\* what it says it reported is in the log; one event at most, and no ad shown
\* where it says none was (client.js:486, runtime-routes.js:452).
TurnTellsTruth ==
  \A t \in Turns :
    /\ turn[t].shown => \E d \in served :
         d.of = Attempt(t, "bid", 1) /\ InScope(input[t].who, d.placement)
    /\ turn[t].events = "ok" => \E l \in logged : l.of.by = t
    /\ Cardinality({l \in logged : l.of.by = t}) <= 1
    /\ turn[t].outcome = "ui_fill" <=> turn[t].shown /\ turn[t].at = "done"

\* However often a call is repeated, and whichever of its requests arrives late,
\* a conversion counts once, a token is exchanged once, and what returned was
\* done; nothing is done more often than the policy allows (client.js:123).
Done(j) == {d.of : d \in served} \cup {l.of : l \in logged} \cup made
CallTellsTruth ==
  \A j \in Jobs :
    /\ Cardinality({a \in Done(j) : a.by = j}) <= TotalAttempts
    /\ Cardinality({l \in logged : l.of.by = j /\ l.kind = "conversion" /\ ~l.duplicate}) <= 1
    /\ order[j].route = "exchange" => Cardinality({a \in made : a.by = j}) <= 1
    /\ job[j].at = "returned" /\ order[j].route \in {"event"} \cup ControlRoutes =>
         \E a \in Done(j) : a.by = j
ClientsTellTruth == TurnTellsTruth /\ CallTellsTruth

\* The chat goes on: every turn ends, whatever the server and the network do,
\* once the host's own promise is settled (client.js:700; README.md:143).
TurnEnds == \A t \in Turns : turn[t].at = "clicked" ~> turn[t].at \in {"done", "rejected"}
=============================================================================
