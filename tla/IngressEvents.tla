--------------------------- MODULE IngressEvents ---------------------------
(***************************************************************************)
(* Module A of the contract loop and the event emitter of module B: what   *)
(* a trigger is answered (ingress-opportunity/trigger-handler.js), the     *)
(* opportunity it creates (create-opportunity.js) and the two emitters     *)
(* that tell a consumer of it, with retries (opportunity-event-emitter.js  *)
(* and schema-normalization/signal-event-emitter.js, which share their     *)
(* shape).  Keys made by hashing are the tuples they are made of.  The     *)
(* consumer is outside of the repository.                                  *)
(***************************************************************************)
EXTENDS Integers, Sequences

CONSTANTS Triggers,         \* what applications report: [type, placement, requestAt, at, dedup, budget, config]
          ClockSkew,      \* how far the times of a request and its trigger may be apart
          Previous,       \* the traces an application may bring, its own or the previous, or NoTrace
          SampledIn,      \* the trace keys the sampling rule takes
          Emissions,      \* calls of the emitters
          Backoff,        \* the delays between attempts
          RetryWindow,    \* for how long an emission is retried
          MaxIngressTime  \* bound of the clock

ASSUME IngressAssumption ==
  /\ Backoff # <<>> /\ \A i \in DOMAIN Backoff : Backoff[i] \in Nat \ {0}
  /\ ClockSkew \in Nat /\ RetryWindow \in Nat /\ MaxIngressTime \in Nat

VARIABLES admitted,        \* the triggers that were answered "create_opportunity"
          opportunities,  \* opportunity key -> [request, trigger], what is stored
          eventStore,     \* <<kind, opportunity>> -> the event that was made for it
          emission,       \* call -> [pc, event, attempt, since, wake]
          received,       \* the events the consumer has taken
          ingressTime

ingressVars == <<admitted, opportunities, eventStore, emission, received, ingressTime>>

NoEvent == [kind |-> "none"]
NotCalled == [pc |-> "idle", event |-> NoEvent, attempt |-> 0, since |-> 0, wake |-> 0]

IngressInit ==
  /\ admitted = {} /\ received = {}
  /\ opportunities = <<>> /\ eventStore = <<>>
  /\ emission = [c \in Emissions |-> NotCalled]
  /\ ingressTime = 0

----------------------------------------------------------------------------
\* The first state that says something decides: duplicates, then the budget,
\* then the configuration, then the trigger's type.
DecideReasonCode(t) ==
  CASE t.dedup \in {"inflight_duplicate", "reused_result"} -> t.dedup
    [] t.dedup = "new" /\ t.budget # "ok" -> t.budget
    [] t.dedup = "new" /\ t.budget = "ok" /\ t.config # "ok" -> t.config
    [] t.dedup = "new" /\ t.budget = "ok" /\ t.config = "ok" ->
         CASE t.type = "manual_refresh"    -> "reused_result"
           [] t.type = "blocked_by_policy" -> "hard_exceeded"
           [] OTHER                        -> "eligible"

ResolveActionPlan(reason, type) ==
  CASE reason \in {"soft_exceeded", "timeout_with_snapshot", "unavailable_with_snapshot"} ->
         "create_opportunity"
    [] reason \in {"inflight_duplicate", "reused_result"} -> "no_op"
    [] reason = "eligible" ->
         IF type \in {"answer_end", "intent_spike"} THEN "create_opportunity" ELSE "no_op"
    [] OTHER -> "reject"

CanonicalTriggerTypes ==
  {"answer_end", "intent_spike", "session_resume", "tool_result_ready", "workflow_checkpoint",
   "manual_refresh", "policy_forced_trigger", "blocked_by_policy"}

\* A request may come before its trigger or after it.
ValidateRequiredAndStructure(t) ==
  /\ t.at - t.requestAt <= ClockSkew /\ t.requestAt - t.at <= ClockSkew
  /\ t.placement # "unavailable"
  /\ t.type \in CanonicalTriggerTypes

Trigger(t) ==
  /\ t \notin admitted
  /\ ValidateRequiredAndStructure(t)
  /\ ResolveActionPlan(DecideReasonCode(t), t.type) = "create_opportunity"
  /\ admitted' = admitted \cup {t}
  /\ UNCHANGED <<opportunities, eventStore, emission, received, ingressTime>>

\* A request may bring a whole trace of its own and the previous one: a repeated
\* request keeps what it brings, which must not differ; an expired one keeps only
\* the trace key of the previous one; any other request without a trace gets a
\* generated one.  NoTrace is a refusal.
NoTrace == [trace |-> "none", request |-> <<>>]
GeneratedTrace(t, dedup) == [trace |-> "session", request |-> <<t.at, dedup>>]

ResolveTraceInit(t, dedup, previous, own) ==
  CASE dedup \in {"inflight_duplicate", "reused_result"} ->
         IF own = NoTrace THEN previous
         ELSE IF previous \in {NoTrace, own} THEN own ELSE NoTrace
    [] dedup = "expired_retry" /\ previous # NoTrace ->
         [GeneratedTrace(t, dedup) EXCEPT !.trace = previous.trace]
    [] OTHER -> IF own = NoTrace THEN GeneratedTrace(t, dedup) ELSE own

\* Here the request has to come first.
ValidateOpportunityPayload(t) == t.requestAt <= t.at

\* The caller says how the request relates to earlier ones.  An opportunity is
\* known by its request; one that exists is returned as it is.
CreateOpportunity(t, dedup, previous, own) ==
  LET trace == ResolveTraceInit(t, dedup, previous, own) IN
  /\ t \in admitted
  /\ trace # NoTrace
  /\ ValidateOpportunityPayload(t)
  /\ trace.request \notin DOMAIN opportunities
  /\ opportunities' = [o \in DOMAIN opportunities \cup {trace.request} |->
                         IF o = trace.request THEN [trace |-> trace.trace, trigger |-> t]
                                              ELSE opportunities[o]]
  /\ UNCHANGED <<admitted, eventStore, emission, received, ingressTime>>

----------------------------------------------------------------------------
(* The emitters.  An event's time is part of its payload: the caller states   *)
(* it, or it is the time of the call.                                         *)

IdempotencyKey(kind, o) == <<kind, o>>
EventMade(c, kind, o, at) == [kind |-> kind, opportunity |-> o, at |-> at, key |-> c]
Sampled(o) == opportunities[o].trace \in SampledIn

\* Fault: the event is remembered when it has been accepted.
RememberLater(kind, o, event) == eventStore

Remember(kind, o, event) ==
  [k \in DOMAIN eventStore \cup {IdempotencyKey(kind, o)} |->
     IF k = IdempotencyKey(kind, o) THEN event ELSE eventStore[k]]

\* What is made for the first time is remembered and sent.
EmitFirst(c, kind, o, at) ==
  /\ IdempotencyKey(kind, o) \notin DOMAIN eventStore
  /\ ingressTime + RetryWindow <= MaxIngressTime
  /\ eventStore' = Remember(kind, o, EventMade(c, kind, o, at))
  /\ emission' = [emission EXCEPT ![c] =
       [pc |-> "asking", event |-> EventMade(c, kind, o, at),
        attempt |-> 1, since |-> ingressTime, wake |-> 0]]
  /\ UNCHANGED <<admitted, opportunities, received, ingressTime>>

\* An event that was made already is a duplicate if its payload is the same,
\* and a conflict otherwise: neither is sent.
EmitAgain(c, kind, o, at) ==
  /\ IdempotencyKey(kind, o) \in DOMAIN eventStore
  /\ emission' = [emission EXCEPT ![c].pc =
       IF eventStore[IdempotencyKey(kind, o)].at = at THEN "duplicate_noop" ELSE "payload_conflict"]
  /\ UNCHANGED <<admitted, opportunities, eventStore, received, ingressTime>>

EmitOpportunityCreated(c, o, at) ==
  /\ emission[c].pc = "idle" /\ o \in DOMAIN opportunities
  /\ EmitFirst(c, "opportunity_created", o, at) \/ EmitAgain(c, "opportunity_created", o, at)

EmitSignalNormalized(c, o, at) ==
  /\ emission[c].pc = "idle" /\ o \in DOMAIN opportunities
  /\ Sampled(o)
  /\ EmitFirst(c, "signal_normalized", o, at) \/ EmitAgain(c, "signal_normalized", o, at)

\* The consumer may have taken the event whatever it answers.
MayHaveTaken(c) == received' \in {received, received \cup {emission[c].event}}

Acknowledged(c) ==
  /\ emission[c].pc = "asking"
  /\ received' = received \cup {emission[c].event}
  /\ emission' = [emission EXCEPT ![c].pc = "emitted"]
  /\ UNCHANGED <<admitted, opportunities, eventStore, ingressTime>>

\* A final rejection, or an acknowledgement that throws.
Refused(c) ==
  /\ emission[c].pc = "asking"
  /\ MayHaveTaken(c)
  /\ emission' = [emission EXCEPT ![c].pc = "rejected"]
  /\ UNCHANGED <<admitted, opportunities, eventStore, ingressTime>>

Delay(c) == Backoff[IF emission[c].attempt <= Len(Backoff) THEN emission[c].attempt ELSE Len(Backoff)]

\* A rejection that may be retried: after the delay, if that is in the window.
RejectedForNow(c) ==
  /\ emission[c].pc = "asking"
  /\ MayHaveTaken(c)
  /\ emission' = [emission EXCEPT
       ![c].pc = IF ingressTime - emission[c].since + Delay(c) > RetryWindow THEN "retry_exhausted" ELSE "waiting",
       ![c].wake = ingressTime + Delay(c)]
  /\ UNCHANGED <<admitted, opportunities, eventStore, ingressTime>>

AskAgain(c) ==
  /\ emission[c].pc = "waiting" /\ ingressTime >= emission[c].wake
  /\ emission' = [emission EXCEPT ![c].pc = "asking", ![c].attempt = @ + 1]
  /\ UNCHANGED <<admitted, opportunities, eventStore, received, ingressTime>>

IngressTick ==
  /\ ingressTime < MaxIngressTime
  /\ ingressTime' = ingressTime + 1
  /\ UNCHANGED <<admitted, opportunities, eventStore, emission, received>>

IngressNext ==
  \/ \E t \in Triggers : Trigger(t)
  \/ \E t \in admitted, d \in {"new", "inflight_duplicate", "reused_result", "expired_retry"},
        p \in Previous, own \in Previous : CreateOpportunity(t, d, p, own)
  \/ \E c \in Emissions :
       \/ \E o \in DOMAIN opportunities, at \in {0, ingressTime + 1} :
            EmitOpportunityCreated(c, o, at) \/ EmitSignalNormalized(c, o, at)
       \/ Acknowledged(c) \/ Refused(c) \/ RejectedForNow(c) \/ AskAgain(c)
  \/ IngressTick

IngressSpec == IngressInit /\ [][IngressNext]_ingressVars

----------------------------------------------------------------------------
(* Whatever is emitted again, retried or emitted by calls that overlap, what
   the consumer takes for an opportunity is one event: under one event key and
   with one payload.  (opportunity-event-emitter.js:387, signal-event-emitter.js:346) *)
OneEventPerOpportunity ==
  \A e, f \in received :
    IdempotencyKey(e.kind, e.opportunity) = IdempotencyKey(f.kind, f.opportunity) => e = f
=============================================================================
