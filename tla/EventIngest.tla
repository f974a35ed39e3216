------------------------------ MODULE EventIngest ------------------------------
(***************************************************************************)
(* The events endpoint of event attribution: a batch of events is answered *)
(* with an acknowledgement for each.  A batch is handled in one piece; an  *)
(* answer may be lost, and the client then posts the batch again, or some  *)
(* of its events in another batch.                                         *)
(***************************************************************************)
EXTENDS Integers, Sequences

CONSTANTS
  IngestEvents,   \* events, as names
  EventContent,   \* event -> what it says; "" and 0 stand for what it does not say
  Batches,        \* batch ids
  MaxEvents,      \* bound on the events of a batch
  MaxAnswers      \* bound on the answers that are remembered

ASSUME IngestAssumption ==
  /\ \A e \in IngestEvents : EventContent[e].eventSeq \in Int
  /\ MaxEvents \in Nat /\ MaxAnswers \in Nat

----------------------------------------------------------------------------
EventTypes == {"opportunity_created", "auction_started", "ad_filled", "impression",
               "click", "interaction", "postback", "error"}
RepeatedEventTypes == {"click", "interaction", "postback"}
ResponseRefOptionalTypes == {"opportunity_created", "auction_started"}

\* What a type asks for beside the fields of every event.
TypeRequiredFields(type) ==
  CASE type = "opportunity_created" -> {"placementKey"}
    [] type = "auction_started" -> {"auctionChannel"}
    [] type = "ad_filled" -> {"creativeId"}
    [] type = "impression" -> {"renderAttemptId", "creativeId"}
    [] type = "click" -> {"renderAttemptId", "clickTarget"}
    [] type = "interaction" -> {"renderAttemptId", "interactionType"}
    [] type = "postback" -> {"postbackType", "postbackStatus"}
    [] type = "error" -> {"errorStage", "errorCode"}

KnownSubenumValues ==
  [auctionChannel |-> {"waterfall", "bidding", "hybrid"},
   interactionType |-> {"expand", "collapse", "dismiss", "close", "engage"},
   postbackType |-> {"conversion", "install", "purchase", "signup"},
   postbackStatus |-> {"pending", "success", "failed"},
   errorStage |-> {"compose", "render", "event_pipeline", "network"}]

\* What an event says of the fields of its type, an unknown value as "unknown".
NormalizeEventUnknownSubEnums(e) ==
  LET says == EventContent[e].says
  IN [f \in DOMAIN says |->
        IF f \in DOMAIN KnownSubenumValues /\ says[f] \notin KnownSubenumValues[f]
        THEN "unknown" ELSE says[f]]

\* Events that become one payload, by the first of them.
Payload ==
  LET As(e) == [EventContent[e] EXCEPT !.says = NormalizeEventUnknownSubEnums(e)]
  IN [e \in IngestEvents |-> CHOOSE d \in IngestEvents : As(d) = As(e)]

\* What names an event among those about the same thing.
SemanticDigestForEvent(e) ==
  LET c == EventContent[e]
  IN <<[f \in TypeRequiredFields(c.type) |-> NormalizeEventUnknownSubEnums(e)[f]],
       IF c.type \in RepeatedEventTypes THEN c.eventSeq ELSE 0>>

RenderAttemptIdOrNA(e) ==
  IF "renderAttemptId" \in DOMAIN EventContent[e].says THEN EventContent[e].says.renderAttemptId ELSE "NA"

NoKey == <<>>

\* The key an event is known by: its idempotency key; or its event id, in its
\* batch unless it is verified to be unique everywhere; or what it is about.  A
\* key or an id of an illegal form counts as none.
CanonicalDedupKey(b, e) ==
  LET c == EventContent[e]
  IN CASE c.idempotencyKey # "" -> <<"client_idempotency", c.idempotencyKey>>
       [] c.idempotencyKey = "" /\ c.eventId # "" ->
            CASE c.eventIdScope = "global_unique" /\ c.verified -> <<"client_event_id", "global", c.eventId>>
              [] c.eventIdScope = "global_unique" /\ ~c.verified -> NoKey
              [] OTHER -> <<"client_event_id", b, c.eventId>>
       [] OTHER -> <<"computed", c.type, c.about, c.responseReference,
                      RenderAttemptIdOrNA(e), SemanticDigestForEvent(e)>>

EventSeqScope ==
  [e \in IngestEvents |->
     <<EventContent[e].responseReference, RenderAttemptIdOrNA(e), EventContent[e].type>>]

\* An event has its fields, a known type and a readable time.
WellFormed ==
  {e \in IngestEvents :
     LET c == EventContent[e]
     IN /\ c.type \in EventTypes
        /\ c.lacks = {}
        /\ c.type \in ResponseRefOptionalTypes \/ c.responseReference # ""
        /\ c.timely
        /\ TypeRequiredFields(c.type) \subseteq DOMAIN c.says}

EventKeyOf == [be \in Batches \X WellFormed |-> CanonicalDedupKey(be[1], be[2])]

VARIABLES
  lastSeq,  \* the highest sequence number of each scope
  stored,   \* the payload that was accepted under each key
  answers   \* all acknowledgements, in order

ingestVars == <<lastSeq, stored, answers>>

Repeated(e) == EventContent[e].type \in RepeatedEventTypes

\* A repeated event is numbered upwards in its scope.
Valid(s, e) ==
  /\ e \in WellFormed
  /\ Repeated(e) =>
       /\ EventContent[e].eventSeq >= 1
       /\ EventSeqScope[e] \in DOMAIN s.lastSeq =>
            EventContent[e].eventSeq > s.lastSeq[EventSeqScope[e]]

Set(map, key, value) == [k \in DOMAIN map \cup {key} |-> IF k = key THEN value ELSE map[k]]

\* Fault: a stored key is not compared with the payload.
AckByKey(s, b, e) ==
  LET k == EventKeyOf[b, e]
  IN  IF ~Valid(s, e) THEN "rejected"
      ELSE IF k = NoKey THEN "rejected"
      ELSE IF k \notin DOMAIN s.stored THEN "accepted" ELSE "duplicate"
Ack(s, b, e) ==
  LET k == EventKeyOf[b, e]
  IN  IF ~Valid(s, e) THEN "rejected"
      ELSE IF k = NoKey THEN "rejected"
      ELSE IF k \notin DOMAIN s.stored THEN "accepted"
      ELSE IF s.stored[k] = Payload[e] THEN "duplicate"
      ELSE "rejected"

\* A valid event advances its scope even if its key is then refused.
After(s, b, e) ==
  [lastSeq |-> IF Valid(s, e) /\ Repeated(e)
               THEN Set(s.lastSeq, EventSeqScope[e], EventContent[e].eventSeq) ELSE s.lastSeq,
   stored  |-> IF Ack(s, b, e) = "accepted"
               THEN Set(s.stored, EventKeyOf[b, e], Payload[e]) ELSE s.stored]

\* The state before the n-th event of a batch.
Before(b, events) ==
  LET f[n \in 1 .. Len(events) + 1] ==
        IF n = 1 THEN [lastSeq |-> lastSeq, stored |-> stored]
        ELSE After(f[n - 1], b, events[n - 1])
  IN  f

----------------------------------------------------------------------------
handlePostEvents(b, events) ==
  LET s == Before(b, events)
      final == s[Len(events) + 1]
  IN  /\ Len(answers) + Len(events) <= MaxAnswers
      /\ lastSeq' = final.lastSeq
      /\ stored' = final.stored
      /\ answers' = answers \o [n \in DOMAIN events |->
           [batch |-> b, event |-> events[n], ack |-> Ack(s[n], b, events[n])]]

EventLists == UNION {[1 .. n -> IngestEvents] : n \in 1 .. MaxEvents}

IngestInit ==
  /\ lastSeq = <<>>
  /\ stored = <<>>
  /\ answers = <<>>

IngestNext == \E b \in Batches, events \in EventLists : handlePostEvents(b, events)

IngestSpec == IngestInit /\ [][IngestNext]_ingestVars

----------------------------------------------------------------------------
Accepted == {n \in DOMAIN answers : answers[n].ack = "accepted"}
KeyAt(n) == EventKeyOf[answers[n].batch, answers[n].event]

(* However often and in whatever batches events are posted again, one event is
   accepted under a key, once, and an answer of duplicate says that this very
   event was accepted before: a client that stops at either has delivered it. *)
AcceptedOnce ==
  /\ \A m, n \in Accepted : m # n => KeyAt(m) # KeyAt(n)
  /\ \A n \in DOMAIN answers : answers[n].ack = "duplicate" =>
       \E m \in Accepted : /\ m < n /\ KeyAt(m) = KeyAt(n)
                             /\ Payload[answers[m].event] = Payload[answers[n].event]
=============================================================================
