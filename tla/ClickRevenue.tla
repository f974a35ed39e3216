----------------------------- MODULE ClickRevenue -----------------------------
(***************************************************************************)
(* What a click on a shown ad, and a postback of a conversion, bring in:   *)
(* rows of mediation_settlement_conversion_facts.  A click looks up the    *)
(* decision behind it, is judged by the risk rules, writes its fact and    *)
(* is logged; a postback writes its fact under a key made of its content.  *)
(*                                                                         *)
(* The risk rules remember what they saw in the memory of one process, and *)
(* a process that starts remembers nothing.  No decision row names its     *)
(* campaign (the runtime it stores has no winnerBid), so the settlement of *)
(* the reservation and the click-through rules are never reached, and with *)
(* budgets enforced a click ends at budget_unconfigured.                   *)
(***************************************************************************)
EXTENDS Naturals, FiniteSets, Functions

CONSTANTS
  Clicks,         \* calls that report a click
  AdOf,           \* per click, the shown ad: a request and its ad
  ActorOf,        \* per click, the actor the burst rule counts it for
  Postbacks,      \* calls that report a conversion
  KeyOf,          \* per postback, what its key is made of
  Instances,
  Logged,         \* the ads whose decision is in the decision log
  DuplicateWindow, BurstWindow, BurstLimit,
  RiskOn,         \* per process, whether its RISK_ENFORCEMENT is "on"
  BudgetOn,       \* per process, whether its BUDGET_ENFORCEMENT is "on"
  MaxTime,        \* bound on the clock
  MaxLives        \* bound on the lives of a process

Calls  == Clicks \cup Postbacks
Ads    == Range(AdOf)
Actors == Range(ActorOf)
Keys   == Range(KeyOf)

ASSUME ConstantsAssumption ==
  /\ AdOf = [c \in Clicks |-> AdOf[c]] /\ ActorOf = [c \in Clicks |-> ActorOf[c]]
  /\ KeyOf = [p \in Postbacks |-> KeyOf[p]]
  /\ Clicks \cap Postbacks = {} /\ Clicks \cap Keys = {}
  /\ IsFiniteSet(Clicks)
  /\ Logged \subseteq Ads
  /\ {DuplicateWindow, BurstWindow, BurstLimit, MaxTime, MaxLives} \subseteq Nat
  /\ RiskOn \in [Instances -> BOOLEAN] /\ BudgetOn \in [Instances -> BOOLEAN]

VARIABLES
  now,
  life,       \* per process, how often it was started
  decisions,  \* per process, the decisions in its memory
  lastSeen,   \* per process and ad, when it last let a click pass; 0 for never
  burst,      \* per process and actor, the recent clicks, each with its time
  call,       \* per call: where it is, on which process, judged when
  facts,      \* the facts table
  answer      \* per call, what its caller was told

memory == <<decisions, lastSeen, burst>>
vars   == <<now, life, memory, call, facts, answer>>

Nowhere == [at |-> "idle", on |-> CHOOSE i \in Instances : TRUE, seen |-> 0]
GoTo(c, place) == call' = [call EXCEPT ![c].at = place]
End(c, what) == GoTo(c, "done") /\ answer' = [answer EXCEPT ![c] = what]

----------------------------------------------------------------------------
(* The risk rules: evaluateClickRisk runs without an await. *)

Remembered(c) == lastSeen[call[c].on][AdOf[c]]
SeenBefore(c) == Remembered(c) > 0 /\ now - Remembered(c) <= DuplicateWindow

\* Fault: a click as old as the window no longer counts.
RecentShort(c) == {t \in burst[call[c].on][ActorOf[c]] : t.time + BurstWindow > now}
                   \cup {[time |-> now, click |-> c]}
Recent(c) == {t \in burst[call[c].on][ActorOf[c]] : t.time + BurstWindow >= now}
              \cup {[time |-> now, click |-> c]}

Verdict(c) ==
  IF SeenBefore(c) THEN "risk_duplicate_click"
  ELSE IF Cardinality(Recent(c)) > BurstLimit THEN "risk_click_burst" ELSE "risk_allow"

\* A click found to be a duplicate leaves no trace; one over the limit counts.
Remember(c) ==
  IF SeenBefore(c) THEN UNCHANGED <<lastSeen, burst>>
  ELSE /\ lastSeen' = [lastSeen EXCEPT ![call[c].on][AdOf[c]] = now]
       /\ burst' = [burst EXCEPT ![call[c].on][ActorOf[c]] = Recent(c)]

----------------------------------------------------------------------------
(* A click. *)

NoCampaign == "no campaign"

\* No caller passes a campaignId, and no decision row has a runtime.winnerBid.
CampaignOf(c) == NoCampaign

ReceiveClick(c, i) ==
  /\ call[c].at = "idle"
  /\ call' = [call EXCEPT ![c] = [at |-> "lookup", on |-> i, seen |-> 0]]
  /\ UNCHANGED <<now, life, memory, facts, answer>>

\* findRuntimeDecisionByRequestId: the memory first, then the decision log.
Found(c) == AdOf[c] \in decisions[call[c].on] \/ AdOf[c] \in Logged

\* The decision is unknown, or the log cannot be read: the click brings nothing
\* in and is logged.
LookupFails(c) ==
  /\ c \in Clicks /\ call[c].at = "lookup"
  /\ AdOf[c] \notin decisions[call[c].on]
  /\ GoTo(c, "log")
  /\ answer' = [answer EXCEPT ![c] = "request_not_found"]
  /\ UNCHANGED <<now, life, memory, facts>>

Judge(c) ==
  /\ c \in Clicks /\ call[c].at = "lookup" /\ Found(c)
  /\ Remember(c)
  /\ LET refusal == IF RiskOn[call[c].on] /\ Verdict(c) # "risk_allow" THEN Verdict(c)
                    ELSE IF BudgetOn[call[c].on] /\ CampaignOf(c) = NoCampaign THEN "budget_unconfigured" ELSE "none"
     IN  /\ call' = [call EXCEPT ![c].at = IF refusal = "none" THEN "write" ELSE "log",
                                 ![c].seen = now]
         /\ answer' = [answer EXCEPT ![c] = refusal]
  /\ UNCHANGED <<now, life, decisions, facts>>

----------------------------------------------------------------------------
(* A postback. *)

\* Its placement is looked up; the outcome is no part of its key.
ReceivePostback(p, i) ==
  /\ call[p].at = "idle"
  /\ call' = [call EXCEPT ![p] = [at |-> "write", on |-> i, seen |-> 0]]
  /\ UNCHANGED <<now, life, memory, facts, answer>>

----------------------------------------------------------------------------
(* The facts table and the event log. *)

\* Fault: a postback's key is drawn afresh too.
FreshKey(c) == c

\* buildClickFactIdempotencyKey draws a fresh key for every click, for no route
\* passes a clickId or an eventSeq; buildConversionFactIdempotencyKey digests
\* what the postback says.
FactKey(c) == IF c \in Clicks THEN c ELSE KeyOf[c]

Fact(c) == [key |-> FactKey(c), call |-> c, on |-> call[c].on,
            life |-> life[call[c].on], seen |-> call[c].seen]
Stored(key) == \E f \in facts : f.key = key

\* INSERT ... ON CONFLICT (idempotency_key) DO NOTHING
Write(c) ==
  /\ call[c].at = "write"
  /\ facts' = IF Stored(FactKey(c)) THEN facts ELSE facts \cup {Fact(c)}
  /\ GoTo(c, "log")
  /\ answer' = [answer EXCEPT ![c] = IF Stored(FactKey(c)) THEN "duplicate" ELSE "recorded"]
  /\ UNCHANGED <<now, life, memory>>

\* The statement fails, or it was committed and its answer is lost: the call
\* ends with an error either way.
WriteThrows(c) ==
  /\ call[c].at = "write"
  /\ facts' \in {facts, IF Stored(FactKey(c)) THEN facts ELSE facts \cup {Fact(c)}}
  /\ End(c, "error")
  /\ UNCHANGED <<now, life, memory>>

\* recordEvent and writeEventRecord
Log(c) ==
  /\ call[c].at = "log"
  /\ GoTo(c, "done")
  /\ UNCHANGED <<now, life, memory, facts, answer>>

\* The fact stays, the caller learns of an error.
LogThrows(c) ==
  /\ call[c].at = "log"
  /\ End(c, "error")
  /\ UNCHANGED <<now, life, memory, facts>>

----------------------------------------------------------------------------
Tick ==
  /\ now < MaxTime
  /\ now' = now + 1
  /\ UNCHANGED <<life, memory, call, facts, answer>>

\* MAX_DECISION_LOGS: newer decisions push an old one out of memory.
Forget(i, ad) ==
  /\ ad \in decisions[i]
  /\ decisions' = [decisions EXCEPT ![i] = @ \ {ad}]
  /\ UNCHANGED <<now, life, lastSeen, burst, call, facts, answer>>

Crash(i) ==
  /\ life[i] < MaxLives
  /\ life' = [life EXCEPT ![i] = @ + 1]
  /\ decisions' = [decisions EXCEPT ![i] = {}]
  /\ lastSeen' = [lastSeen EXCEPT ![i] = [ad \in Ads |-> 0]]
  /\ burst' = [burst EXCEPT ![i] = [a \in Actors |-> {}]]
  /\ LET dead == {c \in Calls : call[c].on = i /\ call[c].at \in {"lookup", "write", "log"}}
     IN  /\ call' = [c \in Calls |-> IF c \in dead THEN [call[c] EXCEPT !.at = "done"] ELSE call[c]]
         /\ answer' = [c \in Calls |-> IF c \in dead THEN "lost" ELSE answer[c]]
  /\ UNCHANGED <<now, facts>>

\* The clock starts at 1: Date.now() is never 0.
Init ==
  /\ now = 1
  /\ life = [i \in Instances |-> 1]
  /\ decisions \in {d \in [Instances -> SUBSET Logged] :
                     \A i, j \in Instances : i # j => d[i] \cap d[j] = {}}
  /\ lastSeen = [i \in Instances |-> [ad \in Ads |-> 0]]
  /\ burst = [i \in Instances |-> [a \in Actors |-> {}]]
  /\ call = [c \in Calls |-> Nowhere]
  /\ facts = {}
  /\ answer = [c \in Calls |-> "none"]

CallStep(c) ==
  LookupFails(c) \/ Judge(c) \/ Write(c) \/ WriteThrows(c) \/ Log(c) \/ LogThrows(c)

Next ==
  \/ \E c \in Clicks, i \in Instances : ReceiveClick(c, i)
  \/ \E p \in Postbacks, i \in Instances : ReceivePostback(p, i)
  \/ \E c \in Calls : CallStep(c)
  \/ \E i \in Instances : Crash(i) \/ \E ad \in Logged : Forget(i, ad)
  \/ Tick

Spec == Init /\ [][Next]_vars

----------------------------------------------------------------------------
ClickFacts == {f \in facts : f.call \in Clicks}
SameLife(f, g) == f.on = g.on /\ f.life = g.life

(* With risk rules enforced, the facts that one life of a process writes for an
   ad lie more than the duplicate window apart, and those of an actor are no more
   than BurstLimit within any burst window, however their calls overlap between
   the judgement and the write. *)
RiskRulesHold ==
  \A f \in ClickFacts : RiskOn[f.on] =>
    /\ \A g \in ClickFacts \ {f} : SameLife(f, g) /\ AdOf[f.call] = AdOf[g.call] =>
         f.seen > g.seen + DuplicateWindow \/ g.seen > f.seen + DuplicateWindow
    /\ Cardinality({g \in ClickFacts :
         /\ SameLife(f, g) /\ ActorOf[g.call] = ActorOf[f.call]
         /\ g.seen \in f.seen .. f.seen + BurstWindow}) <= BurstLimit

(* A postback that is repeated, concurrently, on another process or after a
   lost answer, leaves one fact; a caller told "recorded" or "duplicate" finds
   its fact in the table, and of the callers of one conversion at most one is
   told "recorded". *)
PostbackOnce ==
  /\ \A f, g \in facts \ ClickFacts : KeyOf[f.call] = KeyOf[g.call] => f = g
  /\ \A c \in Calls : answer[c] \in {"recorded", "duplicate"} => Stored(FactKey(c))
  /\ \A p, q \in Postbacks :
       answer[p] = "recorded" /\ answer[q] = "recorded" /\ KeyOf[p] = KeyOf[q] => p = q

=============================================================================
