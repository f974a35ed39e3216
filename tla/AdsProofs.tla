------------------------------- MODULE AdsProofs -------------------------------
(***************************************************************************)
(* What is proved of the clicks and postbacks (ClickRevenue) and of the    *)
(* clients with the runtime routes (SdkFlow).                              *)
(***************************************************************************)
EXTENDS ClickRevenue, SdkFlow, FiniteSetTheorems, TLAPS

----------------------------------------------------------------------------
(* The facts table.  A fact is known by its key, which its call alone gives;  *)
(* a caller that was told of a fact finds it, and the one that was told       *)
(* "recorded" finds its own.                                                  *)

CallsAnswered ==
  /\ call = [c \in Calls |-> call[c]]
  /\ answer = [c \in Calls |-> answer[c]]

FactsKeyed ==
  /\ \A f \in facts : f.call \in Calls /\ f.key = FactKey(f.call)
  /\ \A f, g \in facts : f.key = g.key => f = g

ToldTrue ==
  /\ \A c \in Calls : answer[c] \in {"recorded", "duplicate"} => Stored(FactKey(c))
  /\ \A c \in Calls : answer[c] = "recorded" => \E f \in facts : f.call = c

PostbackInv == CallsAnswered /\ FactsKeyed /\ ToldTrue

\* Whether a write finds the key or not, afterwards one fact has it.
LEMMA FactPut ==
  ASSUME FactsKeyed, NEW c \in Calls,
         facts' = IF Stored(FactKey(c)) THEN facts ELSE facts \cup {Fact(c)}
  PROVE  /\ facts \subseteq facts'
         /\ FactsKeyed'
         /\ Stored(FactKey(c))'
         /\ ~Stored(FactKey(c)) => \E f \in facts' : f.call = c
<1> DEFINE k == FactKey(c)
<1>1. CASE Stored(k)
  BY <1>1 DEF FactsKeyed, Stored, FactKey
<1>2. CASE ~Stored(k)
  <2>1. facts' = facts \cup {Fact(c)}
    BY <1>2
  <2>2. Fact(c).key = k /\ Fact(c).call = c
    BY DEF Fact
  <2>3. \A f \in facts : f.key # k
    BY <1>2 DEF Stored
  <2>4. k' = k
    BY DEF FactKey
  <2> QED
    BY <1>2, <2>1, <2>2, <2>3, <2>4 DEF FactsKeyed, Stored, FactKey
<1> QED
  BY <1>1, <1>2

\* What was told stays true as long as no fact goes.
LEMMA ToldStays ==
  ASSUME ToldTrue, facts \subseteq facts', NEW c \in Calls, NEW w,
         answer' = [answer EXCEPT ![c] = w], CallsAnswered,
         w \in {"recorded", "duplicate"} => Stored(FactKey(c))',
         w = "recorded" => \E f \in facts' : f.call = c
  PROVE  ToldTrue'
<1>1. ASSUME NEW d \in Calls, answer'[d] \in {"recorded", "duplicate"}
      PROVE  /\ Stored(FactKey(d))'
             /\ answer'[d] = "recorded" => \E f \in facts' : f.call = d
  <2>1. CASE d = c
    BY <2>1, <1>1 DEF CallsAnswered
  <2>2. CASE d # c
    BY <2>2, <1>1 DEF CallsAnswered, ToldTrue, Stored, FactKey
  <2> QED
    BY <2>1, <2>2
<1> QED
  BY <1>1 DEF ToldTrue

LEMMA PostbackStarts == Init => PostbackInv
BY DEF Init, PostbackInv, CallsAnswered, FactsKeyed, ToldTrue

LEMMA PostbackStep == PostbackInv /\ [Next]_vars => PostbackInv'
<1> SUFFICES ASSUME PostbackInv, [Next]_vars PROVE PostbackInv'
  OBVIOUS
<1> USE DEF PostbackInv
<1>0. \A f : UNCHANGED <<facts, answer>> => (FactsKeyed /\ ToldTrue => FactsKeyed' /\ ToldTrue')
  BY DEF FactsKeyed, ToldTrue, Stored, FactKey
<1>1. ASSUME NEW c \in Clicks, NEW i \in Instances, ReceiveClick(c, i) PROVE PostbackInv'
  BY <1>0, <1>1 DEF ReceiveClick, CallsAnswered
<1>2. ASSUME NEW p \in Postbacks, NEW i \in Instances, ReceivePostback(p, i) PROVE PostbackInv'
  BY <1>0, <1>2 DEF ReceivePostback, CallsAnswered
<1>3. ASSUME NEW c \in Calls, CallStep(c) PROVE PostbackInv'
  <2>1. CASE LookupFails(c)
    <3>1. ToldTrue'
      BY <2>1, ToldStays DEF LookupFails
    <3> QED
      BY <2>1, <3>1 DEF LookupFails, GoTo, CallsAnswered, FactsKeyed, FactKey
  <2>2. CASE Judge(c)
    <3> DEFINE w == IF RiskOn[call[c].on] /\ Verdict(c) # "risk_allow" THEN Verdict(c)
                    ELSE IF BudgetOn[call[c].on] /\ CampaignOf(c) = NoCampaign
                         THEN "budget_unconfigured" ELSE "none"
    <3>1. answer' = [answer EXCEPT ![c] = w] /\ w \notin {"recorded", "duplicate"}
      BY <2>2 DEF Judge, Verdict
    <3> HIDE DEF w
    <3>2. facts' = facts
      BY <2>2 DEF Judge
    <3>3. ToldTrue'
      BY <3>1, <3>2, ToldStays
    <3>4. CallsAnswered'
      BY <2>2, <3>1 DEF Judge, CallsAnswered
    <3> QED
      BY <3>2, <3>3, <3>4 DEF FactsKeyed, FactKey
  <2>3. CASE Write(c)
    <3>1. facts' = IF Stored(FactKey(c)) THEN facts ELSE facts \cup {Fact(c)}
      BY <2>3 DEF Write
    <3>2. facts \subseteq facts' /\ FactsKeyed' /\ Stored(FactKey(c))'
          /\ (~Stored(FactKey(c)) => \E f \in facts' : f.call = c)
      BY <3>1, FactPut
    <3>3. ToldTrue'
      <4> DEFINE w == IF Stored(FactKey(c)) THEN "duplicate" ELSE "recorded"
      <4>1. answer' = [answer EXCEPT ![c] = w]
        BY <2>3 DEF Write
      <4>2. w = "recorded" => \E f \in facts' : f.call = c
        BY <3>2
      <4> HIDE DEF w
      <4> QED
        BY <3>2, <4>1, <4>2, ToldStays
    <3> QED
      BY <2>3, <3>2, <3>3 DEF Write, GoTo, CallsAnswered
  <2>4. CASE WriteThrows(c)
    <3>1. facts \subseteq facts' /\ FactsKeyed'
      <4>1. CASE facts' = facts
        BY <4>1 DEF FactsKeyed, FactKey
      <4>2. CASE facts' = IF Stored(FactKey(c)) THEN facts ELSE facts \cup {Fact(c)}
        BY <4>2, FactPut
      <4> QED
        BY <2>4, <4>1, <4>2 DEF WriteThrows
    <3>2. ToldTrue'
      BY <2>4, <3>1, ToldStays DEF WriteThrows, End
    <3> QED
      BY <2>4, <3>1, <3>2 DEF WriteThrows, End, GoTo, CallsAnswered
  <2>5. CASE Log(c)
    BY <1>0, <2>5 DEF Log, GoTo, CallsAnswered
  <2>6. CASE LogThrows(c)
    <3>1. ToldTrue'
      BY <2>6, ToldStays DEF LogThrows, End
    <3> QED
      BY <2>6, <3>1 DEF LogThrows, End, GoTo, CallsAnswered, FactsKeyed, FactKey
  <2> QED
    BY <1>3, <2>1, <2>2, <2>3, <2>4, <2>5, <2>6 DEF CallStep
<1>4. ASSUME NEW i \in Instances, Crash(i) PROVE PostbackInv'
  <2>1. /\ facts' = facts
        /\ CallsAnswered'
        /\ \A c \in Calls : answer'[c] \in {answer[c], "lost"}
    BY <1>4 DEF Crash, CallsAnswered
  <2> QED
    BY <2>1 DEF FactsKeyed, ToldTrue, Stored, FactKey
<1>5. ASSUME NEW i \in Instances, NEW ad \in Logged, Forget(i, ad) PROVE PostbackInv'
  BY <1>0, <1>5 DEF Forget, CallsAnswered
<1>6. CASE Tick
  BY <1>0, <1>6 DEF Tick, CallsAnswered
<1>7. CASE UNCHANGED vars
  BY <1>0, <1>7 DEF vars, CallsAnswered
<1> QED
  BY <1>1, <1>2, <1>3, <1>4, <1>5, <1>6, <1>7 DEF Next

LEMMA PostbackInvHolds == Spec => []PostbackInv
BY PostbackStarts, PostbackStep, PTL DEF Spec

\* A postback leaves one fact, told of truthfully, and is recorded once
\* (ClickRevenue, the facts table).
THEOREM PostbackCorrect == Spec => []PostbackOnce
<1>1. PostbackInv => PostbackOnce
  <2> SUFFICES ASSUME PostbackInv PROVE PostbackOnce
    OBVIOUS
  <2>1. \A f \in facts \ ClickFacts : f.key = KeyOf[f.call]
    BY DEF PostbackInv, FactsKeyed, ClickFacts, FactKey
  <2>2. ASSUME NEW p \in Postbacks, NEW q \in Postbacks,
               answer[p] = "recorded", answer[q] = "recorded", KeyOf[p] = KeyOf[q]
        PROVE  p = q
    <3>1. PICK f \in facts : f.call = p
      BY <2>2 DEF PostbackInv, ToldTrue, Calls
    <3>2. PICK g \in facts : g.call = q
      BY <2>2 DEF PostbackInv, ToldTrue, Calls
    <3>3. FactKey(p) = FactKey(q)
      BY <2>2, ConstantsAssumption DEF FactKey
    <3> QED
      BY <3>1, <3>2, <3>3 DEF PostbackInv, FactsKeyed
  <2>3. \A f, g \in facts \ ClickFacts : KeyOf[f.call] = KeyOf[g.call] => f = g
    BY <2>1 DEF PostbackInv, FactsKeyed
  <2> QED
    BY <2>2, <2>3 DEF PostbackOnce, PostbackInv, ToldTrue
<1> QED
  BY <1>1, PostbackInvHolds, PTL

----------------------------------------------------------------------------
(* The risk rules.  A pass is a click that was let through: one on its way   *)
(* to the table, or a fact.  What a process remembers in its life tells of   *)
(* all its passes that still count, so the next judgement sees them.         *)

Passes == ClickFacts \cup {Fact(c) : c \in {d \in Clicks : call[d].at = "write"}}

Window(f) ==
  {g \in Passes : /\ SameLife(f, g) /\ ActorOf[g.call] = ActorOf[f.call]
                  /\ g.seen \in f.seen .. f.seen + BurstWindow}

Marked == [time : Nat, click : Clicks]

MemoryTyped ==
  /\ now \in Nat /\ now > 0
  /\ life \in [Instances -> Nat]
  /\ lastSeen \in [Instances -> [Ads -> Nat]]
  /\ burst \in [Instances -> [Actors -> SUBSET Marked]]
  /\ \A i \in Instances, a \in Actors : IsFiniteSet(burst[i][a])

CallsTyped ==
  /\ call \in [Calls -> [at : {"idle", "lookup", "write", "log", "done"},
                         on : Instances \cup {Nowhere.on}, seen : Nat]]
  /\ \A c \in Calls : call[c].at # "idle" => call[c].on \in Instances

PassTyped(f) ==
  /\ f.call \in Clicks /\ f.on \in Instances
  /\ f.life \in Nat /\ f.life <= life[f.on] /\ f.seen \in 1..now
  /\ f = [key |-> f.call, call |-> f.call, on |-> f.on, life |-> f.life, seen |-> f.seen]

\* The memory of the pass, as long as its process lives.
PassRemembered(f) ==
  f.life = life[f.on] =>
    /\ f.seen <= lastSeen[f.on][AdOf[f.call]]
    /\ \/ [time |-> f.seen, click |-> f.call] \in burst[f.on][ActorOf[f.call]]
       \/ f.seen + BurstWindow < now

Apart(f, g) ==
  SameLife(f, g) /\ AdOf[f.call] = AdOf[g.call] =>
    f.seen > g.seen + DuplicateWindow \/ g.seen > f.seen + DuplicateWindow

PassesKept == \A f \in Passes : PassTyped(f) /\ (RiskOn[f.on] => PassRemembered(f))

PassesRuled ==
  \A f \in Passes : RiskOn[f.on] =>
    /\ \A g \in Passes \ {f} : Apart(f, g)
    /\ IsFiniteSet(Window(f)) /\ Cardinality(Window(f)) <= BurstLimit

RiskInv == MemoryTyped /\ CallsTyped /\ PassesKept /\ PassesRuled

LEMMA FewerPasses ==
  ASSUME PassesRuled, Passes' \subseteq Passes
  PROVE  PassesRuled'
<1> SUFFICES ASSUME NEW f \in Passes', RiskOn[f.on]
             PROVE  /\ \A g \in Passes' \ {f} : Apart(f, g)
                    /\ IsFiniteSet(Window(f)') /\ Cardinality(Window(f)') <= BurstLimit
  BY DEF PassesRuled, Apart, SameLife
<1>1. Window(f)' \subseteq Window(f)
  BY DEF Window, SameLife
<1>2. IsFiniteSet(Window(f)) /\ Cardinality(Window(f)) <= BurstLimit
  BY DEF PassesRuled
<1>3. IsFiniteSet(Window(f)') /\ Cardinality(Window(f)') <= Cardinality(Window(f))
  BY <1>1, <1>2, FS_Subset
<1>4. Cardinality(Window(f)') \in Nat /\ Cardinality(Window(f)) \in Nat /\ BurstLimit \in Nat
  BY <1>2, <1>3, FS_CardinalityType, ConstantsAssumption
<1> QED
  BY <1>2, <1>3, <1>4 DEF PassesRuled

LEMMA PassesStay ==
  ASSUME RiskInv, Passes' \subseteq Passes, MemoryTyped', now' >= now,
         UNCHANGED <<life, lastSeen, burst>>
  PROVE  PassesKept'
<1> SUFFICES ASSUME NEW f \in Passes'
             PROVE  PassTyped(f)' /\ (RiskOn[f.on] => PassRemembered(f)')
  BY DEF PassesKept
<1>1. PassTyped(f) /\ (RiskOn[f.on] => PassRemembered(f))
  BY DEF RiskInv, PassesKept
<1>2. now \in Nat /\ now' \in Nat /\ BurstWindow \in Nat
  BY ConstantsAssumption DEF RiskInv, MemoryTyped
<1>3. PassTyped(f)'
  BY <1>1, <1>2 DEF PassTyped
<1>4. ASSUME PassRemembered(f) PROVE PassRemembered(f)'
  BY <1>1, <1>2, <1>4 DEF PassTyped, PassRemembered
<1> QED
  BY <1>1, <1>3, <1>4

\* Calls that write as before bring the same facts.
LEMMA SamePasses ==
  ASSUME facts' = facts, life' = life,
         \A d \in Clicks : call'[d].at = "write" => call[d].at = "write" /\ call'[d] = call[d]
  PROVE  Passes' \subseteq Passes
BY DEF Passes, ClickFacts, Fact, FactKey

LEMMA WrittenPasses ==
  ASSUME NEW c \in Calls, CallsTyped, call[c].at = "write", life' = life,
         facts' \subseteq facts \cup {Fact(c)}, NEW place, place # "write", GoTo(c, place)
  PROVE  Passes' \subseteq Passes
<1>1. ASSUME NEW f \in ClickFacts' PROVE f \in Passes
  <2>1. CASE f \in facts
    BY <2>1, <1>1 DEF Passes, ClickFacts
  <2>2. CASE f = Fact(c)
    BY <2>2, <1>1 DEF Passes, ClickFacts, Fact
  <2> QED
    BY <1>1, <2>1, <2>2 DEF ClickFacts
<1>2. ASSUME NEW d \in Clicks, call'[d].at = "write" PROVE Fact(d)' \in Passes
  <2>1. d # c /\ call'[d] = call[d]
    BY <1>2 DEF GoTo, CallsTyped, Calls
  <2> QED
    BY <1>2, <2>1 DEF Passes, Fact, FactKey
<1> QED
  BY <1>1, <1>2 DEF Passes

\* A judgement adds its pass at most.
JudgedPass(c) ==
  [key |-> c, call |-> c, on |-> call[c].on, life |-> life[call[c].on], seen |-> now]

LEMMA JudgedPasses ==
  ASSUME NEW c \in Clicks, CallsTyped, Judge(c)
  PROVE  /\ Passes' \subseteq Passes \cup {JudgedPass(c)}
         /\ \/ Passes' \subseteq Passes
            \/ RiskOn[call[c].on] => Verdict(c) = "risk_allow"
<1>1. \A d \in Clicks : d # c => call'[d] = call[d]
  BY DEF Judge, CallsTyped, Calls
<1>2. call'[c].on = call[c].on /\ call'[c].seen = now
  BY DEF Judge, CallsTyped, Calls
<1>3. facts' = facts /\ life' = life
  BY DEF Judge
<1>4. \A d \in Clicks \ {c} : call'[d].at = "write" => Fact(d)' \in Passes
  BY <1>1, <1>3 DEF Passes, Fact, FactKey
<1>5. Fact(c)' = JudgedPass(c)
  BY <1>2, <1>3 DEF Fact, FactKey, JudgedPass
<1>6. Passes' \subseteq Passes \cup {JudgedPass(c)}
  BY <1>3, <1>4, <1>5 DEF Passes, ClickFacts
<1>7. CASE RiskOn[call[c].on] /\ Verdict(c) # "risk_allow"
  <2>1. Verdict(c) # "none"
    BY DEF Verdict
  <2>2. call'[c].at = "log"
    BY <1>7, <2>1 DEF Judge, CallsTyped, Calls
  <2> QED
    BY <1>3, <1>4, <1>6, <2>2 DEF Passes, ClickFacts
<1> QED
  BY <1>6, <1>7

LEMMA JudgeTyped ==
  ASSUME RiskInv, NEW c \in Clicks, Judge(c)
  PROVE  /\ MemoryTyped' /\ CallsTyped'
         /\ call[c].on \in Instances /\ AdOf[c] \in Ads /\ ActorOf[c] \in Actors
         /\ IsFiniteSet(Recent(c)) /\ Recent(c) \in SUBSET Marked
<1>1. call[c].on \in Instances
  BY DEF RiskInv, CallsTyped, Judge, Calls
<1>2. AdOf[c] \in Ads /\ ActorOf[c] \in Actors
  BY ConstantsAssumption DEF Ads, Actors, Range
<1>3. CallsTyped'
  <2>1. now \in Nat
    BY DEF RiskInv, MemoryTyped
  <2>2. PICK place \in {"write", "log"} :
          call' = [call EXCEPT ![c].at = place, ![c].seen = now]
    BY DEF Judge
  <2> QED
    BY <2>1, <2>2, <1>1 DEF RiskInv, CallsTyped, Calls
<1>4. IsFiniteSet(Recent(c)) /\ Recent(c) \in SUBSET Marked
  <2> DEFINE B == burst[call[c].on][ActorOf[c]]
             K == {t \in B : t.time + BurstWindow >= now}
  <2>1. B \in SUBSET Marked /\ IsFiniteSet(B)
    BY <1>1, <1>2 DEF RiskInv, MemoryTyped
  <2>2. IsFiniteSet(K)
    BY <2>1, FS_Subset
  <2>3. IsFiniteSet(K \cup {[time |-> now, click |-> c]})
    BY <2>2, FS_AddElement
  <2>4. Recent(c) = K \cup {[time |-> now, click |-> c]}
    BY DEF Recent
  <2>5. [time |-> now, click |-> c] \in Marked
    BY DEF Marked, RiskInv, MemoryTyped
  <2> QED
    BY <2>1, <2>3, <2>4, <2>5
<1>5. MemoryTyped'
  <2>1. CASE SeenBefore(c)
    BY <2>1 DEF Judge, Remember, RiskInv, MemoryTyped
  <2>2. CASE ~SeenBefore(c)
    <3>1. lastSeen' = [lastSeen EXCEPT ![call[c].on][AdOf[c]] = now]
      BY <2>2 DEF Judge, Remember
    <3>2. burst' = [burst EXCEPT ![call[c].on][ActorOf[c]] = Recent(c)]
      BY <2>2 DEF Judge, Remember
    <3>3. lastSeen' \in [Instances -> [Ads -> Nat]]
      BY <3>1, <1>1, <1>2 DEF RiskInv, MemoryTyped
    <3>4. burst' \in [Instances -> [Actors -> SUBSET Marked]]
      BY <3>2, <1>1, <1>2, <1>4 DEF RiskInv, MemoryTyped
    <3>5. \A i \in Instances, a \in Actors : IsFiniteSet(burst'[i][a])
      BY <3>2, <1>1, <1>2, <1>4 DEF RiskInv, MemoryTyped
    <3> QED
      BY <3>3, <3>4, <3>5 DEF Judge, RiskInv, MemoryTyped
  <2> QED
    BY <2>1, <2>2
<1> QED
  BY <1>1, <1>2, <1>3, <1>4, <1>5

LEMMA JudgeKeeps ==
  ASSUME RiskInv, NEW c \in Clicks, Judge(c)
  PROVE  PassesKept'
<1>0. /\ call[c].on \in Instances /\ AdOf[c] \in Ads /\ ActorOf[c] \in Actors
      /\ IsFiniteSet(Recent(c)) /\ Recent(c) \in SUBSET Marked
  BY JudgeTyped
<1>1. UNCHANGED <<now, life>> /\ now \in Nat /\ now > 0 /\ BurstWindow \in Nat
  BY ConstantsAssumption DEF Judge, RiskInv, MemoryTyped
<1>2. /\ lastSeen \in [Instances -> [Ads -> Nat]]
      /\ burst \in [Instances -> [Actors -> SUBSET Marked]]
  BY DEF RiskInv, MemoryTyped
<1>3. ASSUME NEW f \in Passes, PassRemembered(f) PROVE PassRemembered(f)'
  <2>0. PassTyped(f)
    BY DEF RiskInv, PassesKept
  <2>1. CASE SeenBefore(c)
    BY <1>1, <1>3, <2>1 DEF Judge, Remember, PassRemembered
  <2>2. CASE ~SeenBefore(c)
    <3>1. lastSeen' = [lastSeen EXCEPT ![call[c].on][AdOf[c]] = now]
      BY <2>2 DEF Judge, Remember
    <3>2. burst' = [burst EXCEPT ![call[c].on][ActorOf[c]] = Recent(c)]
      BY <2>2 DEF Judge, Remember
    <3>3. AdOf[f.call] \in Ads /\ ActorOf[f.call] \in Actors
      BY <2>0, ConstantsAssumption DEF PassTyped, Ads, Actors, Range
    <3> SUFFICES ASSUME f.life = life[f.on]
                 PROVE  /\ f.seen <= lastSeen'[f.on][AdOf[f.call]]
                        /\ \/ [time |-> f.seen, click |-> f.call] \in burst'[f.on][ActorOf[f.call]]
                           \/ f.seen + BurstWindow < now
      BY <1>1 DEF PassRemembered
    <3>4. f.seen <= lastSeen'[f.on][AdOf[f.call]]
      BY <1>0, <1>1, <1>2, <1>3, <2>0, <3>1, <3>3 DEF PassRemembered, PassTyped
    <3>5. \/ [time |-> f.seen, click |-> f.call] \in burst'[f.on][ActorOf[f.call]]
          \/ f.seen + BurstWindow < now
      <4>1. CASE f.on = call[c].on /\ ActorOf[f.call] = ActorOf[c]
        <5>1. burst'[f.on][ActorOf[f.call]] = Recent(c)
          BY <4>1, <1>0, <1>2, <3>2
        <5> QED
          BY <4>1, <5>1, <1>1, <1>3, <2>0 DEF PassRemembered, PassTyped, Recent
      <4>2. CASE ~(f.on = call[c].on /\ ActorOf[f.call] = ActorOf[c])
        <5>1. burst'[f.on][ActorOf[f.call]] = burst[f.on][ActorOf[f.call]]
          BY <4>2, <1>0, <1>2, <2>0, <3>2, <3>3 DEF PassTyped
        <5> QED
          BY <5>1, <1>3 DEF PassRemembered
      <4> QED
        BY <4>1, <4>2
    <3> QED
      BY <3>4, <3>5
  <2> QED
    BY <2>1, <2>2
<1>4. ASSUME NEW f \in Passes PROVE PassTyped(f)'
  BY <1>1 DEF RiskInv, PassesKept, PassTyped
<1>n. PICK n : n = JudgedPass(c)
  OBVIOUS
<1>5. PassTyped(n)'
  <2>1. n = [key |-> c, call |-> c, on |-> call[c].on, life |-> life[call[c].on], seen |-> now]
    BY <1>n DEF JudgedPass
  <2>2. life[call[c].on] \in Nat
    BY <1>0 DEF RiskInv, MemoryTyped
  <2>3. /\ n.call = c /\ n.key = c /\ n.on = call[c].on /\ n.life = life[call[c].on] /\ n.seen = now
    BY <2>1
  <2>4. n = [key |-> n.call, call |-> n.call, on |-> n.on, life |-> n.life, seen |-> n.seen]
    BY <2>1, <2>3
  <2> QED
    BY <1>0, <1>1, <2>2, <2>3, <2>4 DEF PassTyped
<1>6. Verdict(c) = "risk_allow" => PassRemembered(n)'
  <2> SUFFICES ASSUME Verdict(c) = "risk_allow" PROVE PassRemembered(n)'
    OBVIOUS
  <2>1. /\ lastSeen' = [lastSeen EXCEPT ![call[c].on][AdOf[c]] = now]
        /\ burst' = [burst EXCEPT ![call[c].on][ActorOf[c]] = Recent(c)]
    BY DEF Judge, Remember, Verdict
  <2>2. lastSeen'[call[c].on][AdOf[c]] = now /\ burst'[call[c].on][ActorOf[c]] = Recent(c)
    BY <1>0, <1>2, <2>1
  <2>3. [time |-> now, click |-> c] \in Recent(c)
    BY DEF Recent
  <2>4. n.call = c /\ n.on = call[c].on /\ n.seen = now
    BY <1>n DEF JudgedPass
  <2> QED
    BY <1>1, <2>2, <2>3, <2>4 DEF PassRemembered
<1>7. n.on = call[c].on
  BY <1>n DEF JudgedPass
<1>8. CASE Passes' \subseteq Passes
  BY <1>3, <1>4, <1>8 DEF RiskInv, PassesKept
<1>9. CASE ~(Passes' \subseteq Passes)
  <2>1. Passes' \subseteq Passes \cup {n} /\ (RiskOn[n.on] => PassRemembered(n)')
    BY <1>6, <1>7, <1>9, <1>n, JudgedPasses DEF RiskInv
  <2> QED
    BY <1>3, <1>4, <1>5, <2>1 DEF RiskInv, PassesKept
<1> QED
  BY <1>8, <1>9

\* The click that is let through comes more than the window after the passes
\* for its ad that the process remembers.
LEMMA JudgedApart ==
  ASSUME RiskInv, NEW c \in Clicks, Judge(c), Verdict(c) = "risk_allow", RiskOn[call[c].on],
         NEW n, n = JudgedPass(c), NEW f \in Passes
  PROVE  Apart(f, n) /\ Apart(n, f)
<1> SUFFICES ASSUME SameLife(f, n), AdOf[f.call] = AdOf[c]
             PROVE  n.seen > f.seen + DuplicateWindow
  BY DEF Apart, SameLife, JudgedPass
<1> DEFINE last == lastSeen[call[c].on][AdOf[c]]
<1>1. n.on = call[c].on /\ n.life = life[call[c].on] /\ n.seen = now
  BY DEF JudgedPass
<1>2. f.on = call[c].on /\ f.life = life[f.on]
  BY <1>1 DEF SameLife
<1>3. PassTyped(f) /\ PassRemembered(f)
  BY <1>2 DEF RiskInv, PassesKept
<1>4. f.seen <= last /\ f.seen \in Nat /\ f.seen > 0
  BY <1>2, <1>3 DEF PassRemembered, PassTyped
<1>5. last \in Nat /\ now \in Nat /\ DuplicateWindow \in Nat
  BY JudgeTyped, ConstantsAssumption DEF RiskInv, MemoryTyped
<1>6. ~(last > 0 /\ now - last <= DuplicateWindow)
  BY DEF Verdict, SeenBefore, Remembered
<1> HIDE DEF last
<1> QED
  BY <1>1, <1>4, <1>5, <1>6

\* The passes in a window that holds the new one are all remembered.
LEMMA JudgedWindow ==
  ASSUME RiskInv, NEW c \in Clicks, Judge(c), Verdict(c) = "risk_allow", RiskOn[call[c].on],
         NEW n, n = JudgedPass(c), NEW W,
         W \subseteq Passes \cup {n},
         \A g \in W : /\ g.on = n.on /\ g.life = n.life
                      /\ ActorOf[g.call] = ActorOf[c] /\ g.seen + BurstWindow >= now
  PROVE  IsFiniteSet(W) /\ Cardinality(W) <= BurstLimit
<1> DEFINE R == Recent(c)
           m == [g \in W |-> [time |-> g.seen, click |-> g.call]]
<1>0. n.on = call[c].on /\ n.life = life[call[c].on] /\ n.seen = now /\ n.call = c
  BY DEF JudgedPass
<1>1. ASSUME NEW g \in W PROVE [time |-> g.seen, click |-> g.call] \in R
  <2>1. CASE g = n
    BY <2>1, <1>0 DEF Recent
  <2>2. CASE g \in Passes
    <3>1. PassTyped(g) /\ PassRemembered(g)
      BY <1>0, <1>1, <2>2 DEF RiskInv, PassesKept
    <3>2. g.seen \in Nat /\ now \in Nat /\ BurstWindow \in Nat
      BY <3>1, ConstantsAssumption DEF PassTyped, RiskInv, MemoryTyped
    <3>3. [time |-> g.seen, click |-> g.call] \in burst[call[c].on][ActorOf[c]]
      BY <1>0, <1>1, <3>1, <3>2 DEF PassRemembered
    <3> QED
      BY <1>1, <3>3 DEF Recent
  <2> QED
    BY <1>1, <2>1, <2>2
<1>2. ASSUME NEW g \in W, NEW h \in W, m[g] = m[h] PROVE g = h
  <2>1. /\ g = [key |-> g.call, call |-> g.call, on |-> g.on, life |-> g.life, seen |-> g.seen]
        /\ h = [key |-> h.call, call |-> h.call, on |-> h.on, life |-> h.life, seen |-> h.seen]
    <3>1. n = [key |-> n.call, call |-> n.call, on |-> n.on, life |-> n.life, seen |-> n.seen]
      BY DEF JudgedPass
    <3>2. \A p \in Passes :
            p = [key |-> p.call, call |-> p.call, on |-> p.on, life |-> p.life, seen |-> p.seen]
      BY DEF RiskInv, PassesKept, PassTyped
    <3> QED
      BY <3>1, <3>2
  <2>2. g.seen = h.seen /\ g.call = h.call
    BY <1>2
  <2>3. g.on = h.on /\ g.life = h.life
    BY <1>2
  <2> QED
    BY <2>1, <2>2, <2>3
<1>3. m \in Injection(W, R)
  BY <1>1, <1>2, Zenon DEF Injection, IsInjective
<1>4. IsFiniteSet(R) /\ Cardinality(R) \in Nat
  BY JudgeTyped, FS_CardinalityType
<1>5. ~(Cardinality(R) > BurstLimit) /\ BurstLimit \in Nat
  BY ConstantsAssumption DEF Verdict
<1> HIDE DEF R, m
<1>6. IsFiniteSet(W) /\ Cardinality(W) <= Cardinality(R)
  BY <1>3, <1>4, FS_Injection
<1>7. Cardinality(W) \in Nat
  BY <1>6, FS_CardinalityType
<1> QED
  BY <1>4, <1>5, <1>6, <1>7

LEMMA JudgeRules ==
  ASSUME RiskInv, NEW c \in Clicks, Judge(c)
  PROVE  PassesRuled'
<1>1. PICK n : n = JudgedPass(c)
  OBVIOUS
<1>2. CASE Passes' \subseteq Passes
  BY <1>2, FewerPasses DEF RiskInv
<1>3. CASE ~(Passes' \subseteq Passes)
  <2>1. Passes' \subseteq Passes \cup {n} /\ (RiskOn[call[c].on] => Verdict(c) = "risk_allow")
    BY <1>1, <1>3, JudgedPasses DEF RiskInv
  <2>2. n.on = call[c].on /\ n.seen = now /\ n.call = c
    BY <1>1 DEF JudgedPass
  <2> SUFFICES ASSUME NEW f \in Passes', RiskOn[f.on]
               PROVE  /\ \A g \in Passes' \ {f} : Apart(f, g)
                      /\ IsFiniteSet(Window(f)') /\ Cardinality(Window(f)') <= BurstLimit
    BY DEF PassesRuled, Apart, SameLife
  <2>3. ASSUME NEW g \in Passes', g # f PROVE Apart(f, g)
    <3>1. CASE f \in Passes /\ g \in Passes
      BY <2>3, <3>1 DEF RiskInv, PassesRuled
    <3>2. CASE f.on # g.on
      BY <3>2 DEF Apart, SameLife
    <3>3. CASE f = n /\ g \in Passes /\ f.on = g.on
      BY <1>1, <2>1, <2>2, <3>3, JudgedApart
    <3>4. CASE g = n /\ f \in Passes /\ f.on = g.on
      BY <1>1, <2>1, <2>2, <3>4, JudgedApart
    <3> QED
      BY <2>1, <2>3, <3>1, <3>2, <3>3, <3>4
  <2>4. CASE f \in Passes /\ Window(f)' \subseteq Passes
    <3>1. Window(f)' \subseteq Window(f)
      BY <2>4 DEF Window, SameLife
    <3>2. IsFiniteSet(Window(f)) /\ Cardinality(Window(f)) <= BurstLimit
      BY <2>4 DEF RiskInv, PassesRuled
    <3>3. IsFiniteSet(Window(f)') /\ Cardinality(Window(f)') <= Cardinality(Window(f))
      BY <3>1, <3>2, FS_Subset
    <3>4. Cardinality(Window(f)') \in Nat /\ Cardinality(Window(f)) \in Nat /\ BurstLimit \in Nat
      BY <3>2, <3>3, FS_CardinalityType, ConstantsAssumption
    <3> QED
      BY <2>3, <3>2, <3>3, <3>4
  <2>5. CASE f = n \/ ~(Window(f)' \subseteq Passes)
    <3> DEFINE W == Window(f)'
    <3>1. \A g \in W : /\ g \in Passes' /\ g.on = f.on /\ g.life = f.life
                       /\ ActorOf[g.call] = ActorOf[f.call]
                       /\ g.seen \in f.seen .. f.seen + BurstWindow
      BY DEF Window, SameLife
    <3>2. f = n \/ n \in W
      BY <2>1, <2>5, <3>1
    <3>3. /\ f.on = n.on /\ f.life = n.life /\ ActorOf[f.call] = ActorOf[c]
          /\ f.seen + BurstWindow >= now
      <4>1. CASE f = n
        BY <4>1, <2>2, ConstantsAssumption DEF RiskInv, MemoryTyped
      <4>2. CASE n \in W
        BY <4>2, <2>2, <3>1
      <4> QED
        BY <3>2, <4>1, <4>2
    <3>4. \A g \in Passes' : g.seen \in Nat
      <4>1. \A g \in Passes : g.seen \in Nat
        BY DEF RiskInv, PassesKept, PassTyped
      <4> QED
        BY <2>1, <2>2, <4>1 DEF RiskInv, MemoryTyped
    <3>5. W \subseteq Passes \cup {n}
      BY <2>1, <3>1
    <3>6. \A g \in W : /\ g.on = n.on /\ g.life = n.life /\ ActorOf[g.call] = ActorOf[c]
      BY <3>1, <3>3
    <3>7. ASSUME NEW g \in W PROVE g.seen + BurstWindow >= now
      <4>1. g.seen \in Nat /\ f.seen \in Nat /\ now \in Nat /\ BurstWindow \in Nat
        BY <3>1, <3>4, <3>7, ConstantsAssumption DEF RiskInv, MemoryTyped
      <4>2. g.seen >= f.seen
        BY <3>1, <3>7, <4>1
      <4> QED
        BY <3>3, <4>1, <4>2
    <3>8. Verdict(c) = "risk_allow" /\ RiskOn[call[c].on]
      BY <2>1, <2>2, <3>3
    <3> HIDE DEF W
    <3>9. IsFiniteSet(W) /\ Cardinality(W) <= BurstLimit
      BY <1>1, <3>5, <3>6, <3>7, <3>8, JudgedWindow
    <3> QED
      BY <2>3, <3>9 DEF W
  <2> QED
    BY <2>1, <2>4, <2>5
<1> QED
  BY <1>2, <1>3

LEMMA RiskStarts == Init => RiskInv
<1> SUFFICES ASSUME Init PROVE RiskInv
  OBVIOUS
<1>1. MemoryTyped
  BY FS_EmptySet DEF Init, MemoryTyped
<1>2. CallsTyped
  BY DEF Init, CallsTyped, Nowhere
<1>3. Passes = {}
  BY DEF Init, Passes, ClickFacts, Nowhere, Calls
<1> QED
  BY <1>1, <1>2, <1>3 DEF RiskInv, PassesKept, PassesRuled

\* A step that leaves the memory alone and brings no pass.
LEMMA QuietStep ==
  ASSUME RiskInv, CallsTyped', Passes' \subseteq Passes, now' \in Nat, now' >= now,
         UNCHANGED <<life, lastSeen, burst>>
  PROVE  RiskInv'
<1>1. MemoryTyped'
  BY DEF RiskInv, MemoryTyped
<1> QED
  BY <1>1, PassesStay, FewerPasses DEF RiskInv

LEMMA CrashStep ==
  ASSUME RiskInv, NEW i \in Instances, Crash(i)
  PROVE  RiskInv'
<1> DEFINE dead == {c \in Calls : call[c].on = i /\ call[c].at \in {"lookup", "write", "log"}}
<1>1. /\ call' = [c \in Calls |-> IF c \in dead THEN [call[c] EXCEPT !.at = "done"] ELSE call[c]]
      /\ life' = [life EXCEPT ![i] = @ + 1]
      /\ lastSeen' = [lastSeen EXCEPT ![i] = [ad \in Ads |-> 0]]
      /\ burst' = [burst EXCEPT ![i] = [a \in Actors |-> {}]]
      /\ now' = now /\ facts' = facts
  BY DEF Crash
<1>2. MemoryTyped'
  <2>1. lastSeen' \in [Instances -> [Ads -> Nat]]
    BY <1>1 DEF RiskInv, MemoryTyped
  <2>2. burst' \in [Instances -> [Actors -> SUBSET Marked]]
    BY <1>1 DEF RiskInv, MemoryTyped
  <2>3. \A j \in Instances, a \in Actors : IsFiniteSet(burst'[j][a])
    BY <1>1, FS_EmptySet DEF RiskInv, MemoryTyped
  <2> QED
    BY <1>1, <2>1, <2>2, <2>3 DEF RiskInv, MemoryTyped
<1>3. CallsTyped'
  BY <1>1 DEF RiskInv, CallsTyped
<1>4. \A j \in Instances : life'[j] = IF j = i THEN life[j] + 1 ELSE life[j]
  BY <1>1 DEF RiskInv, MemoryTyped
<1>5. Passes' \subseteq Passes
  <2>1. ASSUME NEW d \in Clicks, call'[d].at = "write"
        PROVE  call[d].at = "write" /\ call'[d] = call[d] /\ call[d].on # i /\ call[d].on \in Instances
    <3>1. d \in Calls
      BY DEF Calls
    <3> QED
      BY <1>1, <2>1, <3>1 DEF RiskInv, CallsTyped
  <2>2. \A d \in Clicks : call'[d].at = "write" => Fact(d)' \in Passes
    BY <1>4, <2>1 DEF Passes, Fact, FactKey
  <2> QED
    BY <1>1, <2>2 DEF Passes, ClickFacts
<1>6. ASSUME NEW f \in Passes' PROVE PassTyped(f)' /\ (RiskOn[f.on] => PassRemembered(f)')
  <2>1. PassTyped(f) /\ (RiskOn[f.on] => PassRemembered(f)) /\ f.on \in Instances
    BY <1>5 DEF RiskInv, PassesKept, PassTyped
  <2>2. life[f.on] \in Nat
    BY <2>1 DEF RiskInv, MemoryTyped
  <2>3. PassTyped(f)'
    BY <1>1, <1>4, <2>1, <2>2 DEF PassTyped
  <2>4. CASE f.on = i
    BY <1>4, <2>1, <2>2, <2>3, <2>4 DEF PassTyped, PassRemembered
  <2>5. CASE f.on # i
    <3>1. life'[f.on] = life[f.on] /\ lastSeen'[f.on] = lastSeen[f.on] /\ burst'[f.on] = burst[f.on]
      BY <1>1, <1>4, <2>1, <2>5 DEF RiskInv, MemoryTyped
    <3> QED
      BY <1>1, <2>1, <2>3, <3>1 DEF PassRemembered
  <2> QED
    BY <2>4, <2>5
<1> QED
  BY <1>2, <1>3, <1>5, <1>6, FewerPasses DEF RiskInv, PassesKept

LEMMA RiskStep == RiskInv /\ [Next]_vars => RiskInv'
<1> SUFFICES ASSUME RiskInv, [Next]_vars PROVE RiskInv'
  OBVIOUS
<1>0. now \in Nat /\ now <= now /\ CallsTyped
  BY DEF RiskInv, MemoryTyped
<1>1. ASSUME NEW c \in Calls, NEW i \in Instances,
             UNCHANGED <<now, life, memory, facts>>, call[c].at = "idle",
             NEW place \in {"lookup", "write"}, c \in Clicks => place = "lookup",
             call' = [call EXCEPT ![c] = [at |-> place, on |-> i, seen |-> 0]]
      PROVE  RiskInv'
  <2>1. CallsTyped'
    BY <1>0, <1>1 DEF CallsTyped
  <2>2. \A d \in Clicks : call'[d].at = "write" => call[d].at = "write" /\ call'[d] = call[d]
    BY <1>0, <1>1 DEF CallsTyped, Calls
  <2> QED
    BY <1>0, <1>1, <2>1, <2>2, SamePasses, QuietStep DEF memory
<1>2. ASSUME NEW c \in Clicks, NEW i \in Instances, ReceiveClick(c, i) PROVE RiskInv'
  BY <1>1, <1>2 DEF ReceiveClick, Calls
<1>3. ASSUME NEW p \in Postbacks, NEW i \in Instances, ReceivePostback(p, i) PROVE RiskInv'
  BY <1>1, <1>3, ConstantsAssumption DEF ReceivePostback, Calls
<1>4. ASSUME NEW c \in Calls, NEW place \in {"log", "done"}, GoTo(c, place), call[c].at # "idle",
             UNCHANGED <<now, life, memory>>,
             facts' = facts \/ (call[c].at = "write" /\ facts' \subseteq facts \cup {Fact(c)})
      PROVE  RiskInv'
  <2>1. CallsTyped'
    BY <1>0, <1>4 DEF CallsTyped, GoTo
  <2>2. Passes' \subseteq Passes
    <3>1. CASE facts' = facts
      <4>1. \A d \in Clicks : call'[d].at = "write" => call[d].at = "write" /\ call'[d] = call[d]
        BY <1>0, <1>4 DEF CallsTyped, Calls, GoTo
      <4> QED
        BY <1>4, <3>1, <4>1, SamePasses
    <3>2. CASE call[c].at = "write" /\ facts' \subseteq facts \cup {Fact(c)}
      BY <1>0, <1>4, <3>2, WrittenPasses
    <3> QED
      BY <1>4, <3>1, <3>2
  <2> QED
    BY <1>0, <1>4, <2>1, <2>2, QuietStep DEF memory
<1>5. ASSUME NEW c \in Calls, CallStep(c) PROVE RiskInv'
  <2>1. CASE Judge(c)
    <3>1. c \in Clicks
      BY <2>1 DEF Judge
    <3> QED
      BY <2>1, <3>1, JudgeTyped, JudgeKeeps, JudgeRules DEF RiskInv
  <2>2. CASE LookupFails(c)
    BY <1>4, <2>2 DEF LookupFails
  <2>3. CASE Write(c)
    BY <1>4, <2>3 DEF Write
  <2>4. CASE WriteThrows(c)
    BY <1>4, <2>4 DEF WriteThrows, End
  <2>5. CASE Log(c)
    BY <1>4, <2>5 DEF Log
  <2>6. CASE LogThrows(c)
    BY <1>4, <2>6 DEF LogThrows, End
  <2> QED
    BY <1>5, <2>1, <2>2, <2>3, <2>4, <2>5, <2>6 DEF CallStep
<1>6. ASSUME NEW i \in Instances, NEW ad \in Logged, Forget(i, ad) PROVE RiskInv'
  BY <1>0, <1>6, SamePasses, QuietStep DEF Forget, CallsTyped
<1>7. CASE Tick
  BY <1>0, <1>7, SamePasses, QuietStep DEF Tick, memory, CallsTyped
<1>8. CASE UNCHANGED vars
  BY <1>0, <1>8, SamePasses, QuietStep DEF vars, memory, CallsTyped
<1> QED
  BY <1>2, <1>3, <1>5, <1>6, <1>7, <1>8, CrashStep DEF Next

\* With the risk rules on, what one life of a process lets through is as far apart
\* and as little as they want: for any limits, calls and crashes (evaluateClickRisk).
THEOREM RiskRulesCorrect == Spec => []RiskRulesHold
<1>1. RiskInv => RiskRulesHold
  <2> SUFFICES ASSUME RiskInv, NEW f \in ClickFacts, RiskOn[f.on]
               PROVE  /\ \A g \in ClickFacts \ {f} : Apart(f, g)
                      /\ Cardinality({g \in ClickFacts :
                           /\ SameLife(f, g) /\ ActorOf[g.call] = ActorOf[f.call]
                           /\ g.seen \in f.seen .. f.seen + BurstWindow}) <= BurstLimit
    BY DEF RiskRulesHold, Apart
  <2> DEFINE W == {g \in ClickFacts : /\ SameLife(f, g) /\ ActorOf[g.call] = ActorOf[f.call]
                                      /\ g.seen \in f.seen .. f.seen + BurstWindow}
  <2>1. ClickFacts \subseteq Passes
    BY DEF Passes
  <2>2. /\ \A g \in ClickFacts \ {f} : Apart(f, g)
        /\ IsFiniteSet(Window(f)) /\ Cardinality(Window(f)) <= BurstLimit
    BY <2>1 DEF RiskInv, PassesRuled
  <2>3. W \subseteq Window(f)
    BY <2>1 DEF Window
  <2> HIDE DEF W
  <2>4. IsFiniteSet(W) /\ Cardinality(W) <= Cardinality(Window(f))
    BY <2>2, <2>3, FS_Subset
  <2>5. Cardinality(W) \in Nat /\ Cardinality(Window(f)) \in Nat /\ BurstLimit \in Nat
    BY <2>2, <2>4, FS_CardinalityType, ConstantsAssumption
  <2>6. Cardinality(W) <= BurstLimit
    BY <2>2, <2>4, <2>5
  <2> QED
    BY <2>2, <2>6 DEF W
<1> QED
  BY <1>1, RiskStarts, RiskStep, PTL DEF Spec

----------------------------------------------------------------------------
(* The clients.  Every request on the wire was asked by a turn or a call; an  *)
(* answer tells of what the server did; and what the server did it did for a  *)
(* request it has answered.                                                   *)

AskedBy(a) ==
  \/ /\ a.by \in Turns /\ a.route \in {"config", "bid", "event"}
     /\ a = Attempt(a.by, a.route, 1)
  \/ /\ a.by \in Jobs /\ a.n \in 1..job[a.by].n
     /\ a = Attempt(a.by, order[a.by].route, a.n)

Requests == \A a \in DOMAIN wire : AskedBy(a)

ServedFor(a) == \E d \in served : d.of = a /\ InScope(Asked(a).who, d.placement)

Earned(a) ==
  /\ a.route = "bid" /\ wire[a].body \in WithBid => ServedFor(a)
  /\ a.route = "event" /\ wire[a].status < 400 => \E l \in logged : l.of = a
  /\ a.route \in ControlRoutes /\ wire[a].status < 400 => a \in made

Replies ==
  \A a \in DOMAIN wire :
    wire[a].at = "answered" => wire[a] = Answer(wire[a].status, wire[a].body) /\ Earned(a)

OnlyAnswered ==
  /\ \A d \in served : Answered(d.of)
  /\ \A l \in logged : Answered(l.of) /\ l.of.route = "event"
  /\ \A a \in made : Answered(a) /\ a.route \in ControlRoutes

CountsOnce(l) == l.kind = "conversion" /\ ~l.duplicate

OnceLogged ==
  /\ \A l, m \in logged : l.of = m.of => l = m
  /\ \A l, m \in logged : l.of.by = m.of.by /\ CountsOnce(l) /\ CountsOnce(m) => l = m

OnceMade == \A a, b \in made : a.by = b.by /\ a.route = "exchange" => a = b

ServerInv == Requests /\ Replies /\ OnlyAnswered /\ OnceLogged /\ OnceMade

FlowTrue(t, f) ==
  /\ DOMAIN f = DOMAIN Fresh
  /\ f.at = "clicked" => f.reading = FALSE
  /\ f.reading /\ f.at \in {"config", "bid", "event"} => Answered(Attempt(t, f.at, 1))
  /\ f.ad # "none" => ServedFor(Attempt(t, "bid", 1))
  /\ f.events = "ok" => \E l \in logged : l.of.by = t
  /\ f.shown \in BOOLEAN
  /\ f.shown => f.decision = "served" /\ f.ad # "none" /\ f.at \in {"closing", "done", "rejected"}
  /\ f.outcome = "ui_fill" <=> f.shown /\ f.at = "done"
  /\ f.at # "done" => f.outcome = "none"

JobTrue(j) ==
  /\ job[j] \in [at : {"ready", "waiting", "reading", "sleeping", "returned", "failed"},
                 n : 0..TotalAttempts]
  /\ job[j].at = "ready" => job[j].n = 0
  /\ job[j].at = "sleeping" => job[j].n < TotalAttempts
  /\ job[j].at = "reading" => Answered(Last(j))
  /\ job[j].at = "returned" /\ order[j].route \in {"event"} \cup ControlRoutes =>
       \E a \in Done(j) : a.by = j

SdkInv ==
  /\ ServerInv
  /\ turn = [t \in Turns |-> turn[t]] /\ \A t \in Turns : FlowTrue(t, turn[t])
  /\ job = [j \in Jobs |-> job[j]] /\ \A j \in Jobs : JobTrue(j)

----------------------------------------------------------------------------
\* What was answered and done stays so, and with it what a client says.
Grows ==
  /\ served \subseteq served' /\ logged \subseteq logged' /\ made \subseteq made'
  /\ \A a \in DOMAIN wire : a \in DOMAIN wire'
  /\ \A a \in DOMAIN wire : wire[a].at = "answered" => wire'[a] = wire[a]
  /\ UNCHANGED <<input, order>>

LEMMA StaysAnswered ==
  ASSUME Grows, NEW a, Answered(a)
  PROVE  Answered(a)' /\ wire'[a] = wire[a]
BY DEF Grows, Answered

LEMMA StaysServed ==
  ASSUME Grows, NEW a, ServedFor(a)
  PROVE  ServedFor(a)'
BY DEF Grows, ServedFor, Asked, InScope

LEMMA FlowStays ==
  ASSUME Grows, NEW t, NEW f, FlowTrue(t, f)
  PROVE  FlowTrue(t, f)'
<1>1. f.reading /\ f.at \in {"config", "bid", "event"} => Answered(Attempt(t, f.at, 1))'
  BY StaysAnswered DEF FlowTrue
<1>2. f.ad # "none" => ServedFor(Attempt(t, "bid", 1))'
  BY StaysServed DEF FlowTrue
<1>3. f.events = "ok" => \E l \in logged' : l.of.by = t
  BY DEF FlowTrue, Grows
<1> QED
  BY <1>1, <1>2, <1>3 DEF FlowTrue, Fresh, Attempt

LEMMA JobStays ==
  ASSUME Grows, NEW j, job'[j] = job[j], JobTrue(j)
  PROVE  JobTrue(j)'
<1>1. job[j].at = "reading" => Answered(Last(j))'
  <2>1. Last(j)' = Last(j)
    BY DEF Last, Attempt, Grows
  <2> QED
    BY <2>1, StaysAnswered DEF JobTrue
<1>2. Done(j) \subseteq Done(j)'
  BY DEF Done, Grows
<1> QED
  BY <1>1, <1>2 DEF JobTrue, Last, Grows

\* The clients' part of the invariant, when the server moves.
LEMMA ClientsStay ==
  ASSUME SdkInv, Grows, UNCHANGED <<turn, job>>
  PROVE  /\ turn' = [t \in Turns |-> turn'[t]] /\ \A t \in Turns : FlowTrue(t, turn[t])'
         /\ job' = [j \in Jobs |-> job'[j]] /\ \A j \in Jobs : JobTrue(j)'
<1>1. ASSUME NEW t \in Turns PROVE FlowTrue(t, turn[t])'
  <2>1. PICK f : f = turn[t]
    OBVIOUS
  <2>2. FlowTrue(t, f)'
    BY <2>1, FlowStays DEF SdkInv
  <2> QED
    BY <2>1, <2>2
<1>2. ASSUME NEW j \in Jobs PROVE JobTrue(j)'
  BY JobStays DEF SdkInv
<1> QED
  BY <1>1, <1>2 DEF SdkInv

----------------------------------------------------------------------------
\* The server.  What it answers, it answers to a request that waits.
LEMMA ServerReplies ==
  ASSUME ServerInv, NEW a, Waits(a), NEW status, NEW body, Reply(a, status, body),
         UNCHANGED <<turnVars, jobVars>>,
         served \subseteq served', logged \subseteq logged', made \subseteq made',
         a.route = "bid" /\ body \in WithBid => ServedFor(a)',
         a.route = "event" /\ status < 400 => \E l \in logged' : l.of = a,
         a.route \in ControlRoutes /\ status < 400 => a \in made'
  PROVE  Grows /\ Requests' /\ Replies' /\ Answered(a)' /\ ~Answered(a)
<1>1. /\ wire' = [wire EXCEPT ![a] = Answer(status, body)]
      /\ a \in DOMAIN wire /\ wire[a].at = "sent"
  BY DEF Reply, Waits
<1>2. DOMAIN wire' = DOMAIN wire /\ \A b \in DOMAIN wire : b # a => wire'[b] = wire[b]
  BY <1>1
<1>3. wire'[a] = Answer(status, body)
  BY <1>1
<1>4. wire'[a].at = "answered" /\ wire'[a].status = status /\ wire'[a].body = body
  BY <1>3 DEF Answer
<1>5. Grows
  BY <1>1, <1>2 DEF Grows, turnVars, jobVars
<1>6. Requests'
  BY <1>2 DEF ServerInv, Requests, AskedBy, turnVars, jobVars
<1>7. ASSUME NEW b \in DOMAIN wire', wire'[b].at = "answered"
      PROVE  wire'[b] = Answer(wire'[b].status, wire'[b].body) /\ Earned(b)'
  <2>1. CASE b = a
    BY <1>3, <1>4, <2>1 DEF Earned
  <2>2. CASE b # a
    <3>1. Earned(b) /\ wire'[b] = wire[b] /\ wire[b] = Answer(wire[b].status, wire[b].body)
      BY <1>2, <1>7, <2>2 DEF ServerInv, Replies
    <3>2. ServedFor(b) => ServedFor(b)'
      BY <1>5, StaysServed
    <3> QED
      BY <3>1, <3>2 DEF Earned
  <2> QED
    BY <2>1, <2>2
<1> QED
  BY <1>1, <1>2, <1>4, <1>5, <1>6, <1>7 DEF Replies, Answered

LEMMA JustReplies ==
  ASSUME ServerInv, NEW a, Waits(a), NEW status, NEW body, JustReply(a, status, body),
         UNCHANGED <<turnVars, jobVars>>,
         ~(a.route = "bid" /\ body \in WithBid),
         a.route \in {"event"} \cup ControlRoutes => ~(status < 400)
  PROVE  Grows /\ ServerInv'
<1>1. Reply(a, status, body) /\ UNCHANGED <<served, logged, made>>
  BY DEF JustReply, serverVars
<1>2. Grows /\ Requests' /\ Replies'
  <2>1. /\ a.route = "bid" /\ body \in WithBid => ServedFor(a)'
        /\ a.route = "event" /\ status < 400 => \E l \in logged' : l.of = a
        /\ a.route \in ControlRoutes /\ status < 400 => a \in made'
    OBVIOUS
  <2>2. served \subseteq served' /\ logged \subseteq logged' /\ made \subseteq made'
    BY <1>1
  <2> QED
    BY <1>1, <2>1, <2>2, ServerReplies
<1>3. OnlyAnswered' /\ OnceLogged' /\ OnceMade'
  BY <1>1, <1>2, StaysAnswered DEF ServerInv, OnlyAnswered, OnceLogged, OnceMade, CountsOnce
<1> QED
  BY <1>2, <1>3 DEF ServerInv

LEMMA Serves ==
  ASSUME ServerInv, NEW a, Serve(a), UNCHANGED <<turnVars, jobVars>>
  PROVE  Grows /\ ServerInv'
<1>1. PICK p \in on, body \in WithBid :
        /\ InScope(Asked(a).who, p)
        /\ served' = served \cup {[of |-> a, placement |-> p]}
        /\ Reply(a, 200, body)
  BY DEF Serve
<1>2. Waits(a) /\ a.route = "bid" /\ UNCHANGED <<logged, made>>
  BY DEF Serve, Evaluated
<1>3. ServedFor(a)'
  <2>1. Asked(a)' = Asked(a)
    BY DEF Asked, turnVars, jobVars
  <2>2. PICK d : d = [of |-> a, placement |-> p]
    OBVIOUS
  <2>3. d \in served' /\ d.of = a /\ d.placement = p
    BY <1>1, <2>2
  <2> QED
    BY <1>1, <2>1, <2>3 DEF ServedFor, InScope
<1>4. Grows /\ Requests' /\ Replies' /\ Answered(a)'
  BY <1>1, <1>2, <1>3, ServerReplies DEF ControlRoutes
<1>5. OnlyAnswered'
  <2>1. \A d \in served' : Answered(d.of)'
    BY <1>1, <1>4, StaysAnswered DEF ServerInv, OnlyAnswered
  <2> QED
    BY <1>2, <1>4, <2>1, StaysAnswered DEF ServerInv, OnlyAnswered
<1>6. OnceLogged' /\ OnceMade'
  BY <1>2 DEF ServerInv, OnceLogged, OnceMade, CountsOnce
<1> QED
  BY <1>4, <1>5, <1>6 DEF ServerInv

\* An event that may be logged was not: its request waited.
LEMMA LogsEntry ==
  ASSUME ServerInv, NEW a, Loggable(a), NEW status, NEW body, Reply(a, status, body),
         logged' \in {logged, logged \cup {Entry(a)}},
         status < 400 => Entry(a) \in logged',
         UNCHANGED <<served, made, turnVars, jobVars>>
  PROVE  Grows /\ ServerInv'
<1>1. Waits(a) /\ a.route = "event"
  BY DEF Loggable
<1>2. Entry(a).of = a /\ Entry(a).kind = Event(a).kind /\ Entry(a).duplicate = Known(a)
  BY DEF Entry
<1>3. Grows /\ Requests' /\ Replies' /\ Answered(a)' /\ ~Answered(a)
  BY <1>1, <1>2, ServerReplies DEF ControlRoutes
<1>4. \A l \in logged : l.of # a
  BY <1>3 DEF ServerInv, OnlyAnswered
<1>5. OnlyAnswered'
  <2>1. \A l \in logged' : Answered(l.of)' /\ l.of.route = "event"
    BY <1>1, <1>2, <1>3, StaysAnswered DEF ServerInv, OnlyAnswered
  <2> QED
    BY <1>3, <2>1, StaysAnswered DEF ServerInv, OnlyAnswered
<1>6. CountsOnce(Entry(a)) => \A l \in logged : l.of.by # a.by
  <2>1. Taken(Event(a)) /\ Event(a).kind = "conversion" => Event(a).conversion
    BY DEF Taken, CardTaken, AttachTaken
  <2> QED
    BY <1>2, <2>1 DEF CountsOnce, Known, Loggable
<1>7. OnceLogged'
  <2>1. CASE logged' = logged
    BY <2>1 DEF ServerInv, OnceLogged, CountsOnce
  <2>2. CASE logged' = logged \cup {Entry(a)}
    <3>1. \A l, m \in logged' : l.of = m.of => l = m
      BY <1>2, <1>4, <2>2 DEF ServerInv, OnceLogged
    <3>2. \A l, m \in logged' : l.of.by = m.of.by /\ CountsOnce(l) /\ CountsOnce(m) => l = m
      <4>1. Entry(a).of.by = a.by
        BY <1>2
      <4>2. \A l, m \in logged : l.of.by = m.of.by /\ CountsOnce(l) /\ CountsOnce(m) => l = m
        BY DEF ServerInv, OnceLogged
      <4> QED
        BY <1>6, <2>2, <4>1, <4>2, Zenon
    <3> QED
      BY <3>1, <3>2 DEF OnceLogged, CountsOnce
  <2> QED
    BY <2>1, <2>2
<1>8. OnceMade'
  BY DEF ServerInv, OnceMade
<1> QED
  BY <1>3, <1>5, <1>7, <1>8 DEF ServerInv

LEMMA Makes ==
  ASSUME ServerInv, NEW a, Make(a), UNCHANGED <<turnVars, jobVars>>
  PROVE  Grows /\ ServerInv'
<1>1. /\ Waits(a) /\ a.route \in ControlRoutes /\ Reply(a, 201, "done")
      /\ made' = made \cup {a} /\ UNCHANGED <<served, logged>>
      /\ a.route = "exchange" => \A b \in made : b.by # a.by
  BY DEF Make, ControlRoutes
<1>2. Grows /\ Requests' /\ Replies' /\ Answered(a)'
  <2>1. /\ a.route # "bid" /\ a.route # "event" /\ a \in made' /\ made \subseteq made'
    BY <1>1 DEF ControlRoutes
  <2> QED
    BY <1>1, <2>1, ServerReplies
<1>3. OnlyAnswered' /\ OnceLogged'
  <2>1. \A b \in made' : Answered(b)' /\ b.route \in ControlRoutes
    BY <1>1, <1>2, StaysAnswered DEF ServerInv, OnlyAnswered
  <2> QED
    BY <1>1, <1>2, <2>1, StaysAnswered DEF ServerInv, OnlyAnswered, OnceLogged, CountsOnce
<1>4. OnceMade'
  <2>1. ASSUME NEW b \in made, b.by = a.by PROVE b.route = a.route
    <3>1. AskedBy(a) /\ AskedBy(b)
      BY <1>1, <2>1 DEF Waits, ServerInv, Requests, OnlyAnswered, Answered
    <3>2. b.route \in ControlRoutes /\ a.route \in ControlRoutes
      BY <1>1, <2>1 DEF ServerInv, OnlyAnswered
    <3> QED
      BY <2>1, <3>1, <3>2 DEF AskedBy, Attempt, ControlRoutes
  <2> QED
    BY <1>1, <2>1 DEF ServerInv, OnceMade
<1> QED
  BY <1>2, <1>3, <1>4 DEF ServerInv

LEMMA ServerStep == SdkInv /\ ServerNext => Grows /\ SdkInv'
<1> SUFFICES ASSUME SdkInv, ServerNext PROVE Grows /\ SdkInv'
  OBVIOUS
<1>0. ServerInv
  BY DEF SdkInv
<1>1. CASE Toggle
  <2>1. Grows /\ UNCHANGED <<turn, job>>
    BY <1>1 DEF Toggle, Grows, turnVars, jobVars
  <2>2. ServerInv'
    BY <1>0, <1>1 DEF Toggle, ServerInv, Requests, Replies, OnlyAnswered, OnceLogged, OnceMade, CountsOnce,
       AskedBy, Earned, ServedFor, Asked, InScope, Answered, turnVars, jobVars
  <2> QED
    BY <2>1, <2>2, ClientsStay DEF SdkInv
<1>2. ASSUME NEW a \in DOMAIN wire, UNCHANGED <<turnVars, jobVars>>,
             \/ ServeConfig(a) \/ RefuseBid(a) \/ Serve(a) \/ NoBid(a) \/ EvaluationThrows(a)
             \/ RefuseEvent(a) \/ LogConversion(a) \/ LogCard(a) \/ LogAttach(a) \/ EventThrows(a)
             \/ Make(a) \/ RefuseExchange(a) \/ Overload(a)
      PROVE  Grows /\ ServerInv'
  <2>1. ASSUME NEW status \in {401, 404, 200, 400, 503, 409}, NEW body \in {"none", "on", "off", "nobid"},
               Waits(a), JustReply(a, status, body),
               a.route \in {"event"} \cup ControlRoutes => status # 200
        PROVE  Grows /\ ServerInv'
    BY <1>0, <1>2, <2>1, JustReplies DEF WithBid
  <2>2. CASE ServeConfig(a)
    BY <2>1, <2>2 DEF ServeConfig, ControlRoutes
  <2>3. CASE RefuseBid(a)
    BY <2>1, <2>3 DEF RefuseBid
  <2>4. CASE NoBid(a)
    BY <2>1, <2>4 DEF NoBid, Evaluated, ControlRoutes
  <2>5. CASE EvaluationThrows(a)
    BY <2>1, <2>5 DEF EvaluationThrows, Evaluated, ControlRoutes
  <2>6. CASE RefuseEvent(a)
    BY <2>1, <2>6 DEF RefuseEvent
  <2>7. CASE RefuseExchange(a)
    BY <2>1, <2>7 DEF RefuseExchange
  <2>8. CASE Overload(a)
    BY <2>1, <2>8 DEF Overload
  <2>9. CASE LogConversion(a) \/ LogCard(a) \/ LogAttach(a)
    <3>1. Loggable(a) /\ LogAs(a)
      BY <2>9 DEF LogConversion, LogCard, LogAttach
    <3> QED
      BY <1>0, <1>2, <3>1, LogsEntry DEF LogAs
  <2>10. CASE EventThrows(a)
    <3>1. PICK body : Reply(a, 400, body)
      BY <2>10 DEF EventThrows
    <3>2. ~(400 < 400)
      OBVIOUS
    <3> QED
      BY <1>0, <1>2, <2>10, <3>1, <3>2, LogsEntry DEF EventThrows
  <2> QED
    BY <1>0, <1>2, <2>2, <2>3, <2>4, <2>5, <2>6, <2>7, <2>8, <2>9, <2>10, Serves, Makes
<1> QED
  <2>1. CASE Toggle
    BY <1>1, <2>1
  <2>2. CASE ~Toggle
    <3>1. Grows /\ ServerInv' /\ UNCHANGED <<turnVars, jobVars>>
      BY <1>2, <2>2 DEF ServerNext
    <3> QED
      BY <3>1, ClientsStay DEF SdkInv, turnVars, jobVars
  <2> QED
    BY <2>1, <2>2

----------------------------------------------------------------------------
\* The turns.  Until the ad is shown, a turn's record holds what it was told.
Open(t, f) ==
  /\ DOMAIN f = DOMAIN Fresh
  /\ f.ad # "none" => ServedFor(Attempt(t, "bid", 1))
  /\ f.events = "ok" => \E l \in logged : l.of.by = t
  /\ f.shown = FALSE /\ f.outcome = "none"

LEMMA SetAt ==
  ASSUME NEW t, NEW f, Open(t, f), NEW place
  PROVE  /\ Open(t, [f EXCEPT !.at = place])
         /\ [f EXCEPT !.at = place].at = place
         /\ [f EXCEPT !.at = place].reading = f.reading
         /\ [f EXCEPT !.at = place].decision = f.decision
         /\ [f EXCEPT !.at = place].ad = f.ad
BY DEF Open, Fresh

LEMMA SetReading ==
  ASSUME NEW t, NEW f, Open(t, f), NEW b
  PROVE  /\ Open(t, [f EXCEPT !.reading = b])
         /\ [f EXCEPT !.reading = b].at = f.at
         /\ [f EXCEPT !.reading = b].reading = b
BY DEF Open, Fresh

LEMMA SetDecision ==
  ASSUME NEW t, NEW f, Open(t, f), NEW result, NEW detail
  PROVE  Open(t, Decided(f, result, detail)) /\ Open(t, FailsOpen(f, result, detail))
BY DEF Open, Fresh, Decided, FailsOpen

LEMMA SetBid ==
  ASSUME NEW t, NEW f, Open(t, f), NEW b
  PROVE  Open(t, [f EXCEPT !.bid = b])
BY DEF Open, Fresh

LEMMA SetFailOpen ==
  ASSUME NEW t, NEW f, Open(t, f), NEW b
  PROVE  Open(t, [f EXCEPT !.failOpen = b])
BY DEF Open, Fresh

LEMMA SetEvents ==
  ASSUME NEW t, NEW f, Open(t, f), NEW w, w = "ok" => \E l \in logged : l.of.by = t
  PROVE  Open(t, [f EXCEPT !.events = w])
BY DEF Open, Fresh

LEMMA SetAd ==
  ASSUME NEW t, NEW f, Open(t, f), NEW w, w # "none" => ServedFor(Attempt(t, "bid", 1))
  PROVE  Open(t, [f EXCEPT !.ad = w])
BY DEF Open, Fresh

LEMMA OpenIsTrue ==
  ASSUME NEW t, NEW f, Open(t, f), f.at \in {"clicked", "config", "bid", "event"} => f.reading = FALSE
  PROVE  FlowTrue(t, f)
BY DEF Open, FlowTrue

LEMMA TrueIsOpen ==
  ASSUME NEW t, NEW f, FlowTrue(t, f), f.at \notin {"closing", "done", "rejected"}
  PROVE  Open(t, f)
BY DEF Open, FlowTrue

LEMMA Rendered ==
  ASSUME NEW t, NEW f, Open(t, f)
  PROVE  FlowTrue(t, Render(f))
<1>1. Render(f).at = "render" /\ Open(t, Render(f))
  BY DEF Open, Fresh, Render
<1> QED
  BY <1>1, OpenIsTrue

LEMMA Awaits ==
  ASSUME NEW t, NEW f, Open(t, f), NEW place
  PROVE  LET g == [f EXCEPT !.at = place, !.reading = FALSE] IN g.at = place /\ FlowTrue(t, g)
<1> DEFINE g == [f EXCEPT !.at = place, !.reading = FALSE]
<1>1. g.at = place /\ g.reading = FALSE /\ Open(t, g)
  BY DEF Open, Fresh
<1> QED
  BY <1>1, OpenIsTrue

\* A client's step leaves the server alone, and sends what it asks.
LEMMA ClientKeeps ==
  ASSUME ServerInv, UNCHANGED <<serverVars, input, order>>,
         UNCHANGED wire \/ \E a : Send(a) /\ AskedBy(a)',
         \A j \in Jobs : \A n \in 1..job[j].n : n \in 1..job'[j].n
  PROVE  Grows /\ ServerInv'
<1>1. \A a \in DOMAIN wire : AskedBy(a)'
  BY DEF ServerInv, Requests, AskedBy
<1>2. CASE UNCHANGED wire
  <2>1. Grows
    BY <1>2 DEF Grows, serverVars
  <2>2. Requests'
    BY <1>1, <1>2 DEF Requests
  <2>3. Replies' /\ OnlyAnswered' /\ OnceLogged' /\ OnceMade'
    BY <1>2 DEF ServerInv, Replies, OnlyAnswered, OnceLogged, OnceMade, CountsOnce, Earned, ServedFor,
                Answer, Asked, InScope, Answered, serverVars
  <2> QED
    BY <2>1, <2>2, <2>3 DEF ServerInv
<1>3. ASSUME NEW a, Send(a), AskedBy(a)' PROVE Grows /\ ServerInv'
  <2>1. /\ DOMAIN wire' = DOMAIN wire \cup {a}
        /\ \A b \in DOMAIN wire : wire'[b] = wire[b]
        /\ a \notin DOMAIN wire => wire'[a] = Pending
    BY <1>3 DEF Send
  <2>2. Grows
    BY <2>1 DEF Grows, serverVars
  <2>3. Requests'
    BY <1>1, <1>3, <2>1 DEF Requests
  <2>4. Replies'
    <3>1. ASSUME NEW b \in DOMAIN wire', wire'[b].at = "answered"
          PROVE  wire'[b] = Answer(wire'[b].status, wire'[b].body) /\ Earned(b)'
      <4>1. b \in DOMAIN wire /\ wire'[b] = wire[b]
        BY <2>1, <3>1 DEF Pending
      <4>2. Earned(b) /\ wire[b] = Answer(wire[b].status, wire[b].body)
        BY <3>1, <4>1 DEF ServerInv, Replies
      <4>3. ServedFor(b) => ServedFor(b)'
        BY <2>2, StaysServed
      <4> QED
        BY <4>1, <4>2, <4>3 DEF Earned, serverVars
    <3> QED
      BY <3>1 DEF Replies
  <2>5. OnlyAnswered' /\ OnceLogged' /\ OnceMade'
    BY <2>2, StaysAnswered DEF ServerInv, OnlyAnswered, OnceLogged, OnceMade, CountsOnce, serverVars
  <2> QED
    BY <2>2, <2>3, <2>4, <2>5 DEF ServerInv
<1> QED
  BY <1>2, <1>3

LEMMA TurnMoves ==
  ASSUME SdkInv, NEW t \in Turns, NEW f, FlowTrue(t, f), Goes(t, f),
         \/ UNCHANGED wire
         \/ f.at \in {"config", "bid", "event"} /\ Send(Attempt(t, f.at, 1))
  PROVE  SdkInv'
<1>1. turn' = [turn EXCEPT ![t] = f] /\ UNCHANGED <<input, chat, jobVars, serverVars>>
  BY DEF Goes
<1>2. ASSUME f.at \in {"config", "bid", "event"} PROVE AskedBy(Attempt(t, f.at, 1))'
  BY <1>2 DEF AskedBy, Attempt
<1>3. Grows /\ ServerInv'
  BY <1>1, <1>2, ClientKeeps DEF SdkInv, jobVars
<1>4. ASSUME NEW u \in Turns PROVE FlowTrue(u, turn[u])'
  <2>1. PICK g : g = turn'[u]
    OBVIOUS
  <2>2. FlowTrue(u, g)
    BY <1>1, <2>1 DEF SdkInv
  <2>3. FlowTrue(u, g)'
    BY <1>3, <2>2, FlowStays
  <2> QED
    BY <2>1, <2>3
<1>5. \A j \in Jobs : JobTrue(j)'
  BY <1>1, <1>3, JobStays DEF SdkInv, jobVars
<1>6. turn' = [u \in Turns |-> turn'[u]]
  BY <1>1 DEF SdkInv
<1>7. job' = job
  BY <1>1 DEF jobVars
<1> QED
  BY <1>3, <1>4, <1>5, <1>6, <1>7 DEF SdkInv

LEMMA StepMoves ==
  ASSUME SdkInv, NEW t \in Turns, NEW f, FlowTrue(t, f), Step(t, f)
  PROVE  SdkInv'
BY TurnMoves DEF Step

LEMMA AskMoves ==
  ASSUME SdkInv, NEW t \in Turns, NEW f, FlowTrue(t, f), Asks(t, f), f.at \in {"config", "bid", "event"}
  PROVE  SdkInv'
BY TurnMoves DEF Asks

\* What a failed bid makes of a turn.
LEMMA BidFails ==
  ASSUME NEW t, NEW f, Open(t, f), NEW b, NEW detail
  PROVE  FlowTrue(t, Render(BidFailure(t, [f EXCEPT !.bid = b], detail)))
<1>1. Open(t, [f EXCEPT !.bid = b])
  BY SetBid
<1>2. Open(t, BidFailure(t, [f EXCEPT !.bid = b], detail))
  BY <1>1, SetDecision DEF BidFailure
<1> QED
  BY <1>2, Rendered

LEMMA AskBidStep ==
  ASSUME SdkInv, NEW t \in Turns, Open(t, turn[t]), AskBid(t)
  PROVE  SdkInv'
<1>1. CASE ~input[t].payload
  <2>1. FlowTrue(t, Render(FailsOpen(turn[t], "error", "missing_bid_payload")))
    BY SetDecision, Rendered
  <2> QED
    BY <1>1, <2>1, StepMoves DEF AskBid
<1>2. CASE input[t].payload /\ ~BidPossible(t)
  BY <1>2, BidFails, StepMoves DEF AskBid
<1>3. CASE input[t].payload /\ BidPossible(t)
  <2> DEFINE g == [turn[t] EXCEPT !.at = "bid", !.reading = FALSE]
  <2>1. g.at = "bid" /\ FlowTrue(t, g)
    BY Awaits
  <2>2. Asks(t, g)
    BY <1>3 DEF AskBid
  <2> HIDE DEF g
  <2> QED
    BY <2>1, <2>2, AskMoves
<1> QED
  BY <1>1, <1>2, <1>3

LEMMA AskEventStep ==
  ASSUME SdkInv, NEW t \in Turns, NEW f, Open(t, f), AskEvent(t, f)
  PROVE  SdkInv'
<1>1. CASE input[t].factory = "none"
  BY <1>1, SetEvents, Rendered, StepMoves DEF AskEvent
<1>2. CASE input[t].factory = "scalar"
  <2>1. Open(t, [f EXCEPT !.events = "failed", !.failOpen = TRUE])
    BY DEF Open, Fresh
  <2> QED
    BY <1>2, <2>1, Rendered, StepMoves DEF AskEvent
<1>3. CASE input[t].factory = "throws"
  BY <1>3, SetAt, OpenIsTrue, StepMoves DEF AskEvent
<1>4. CASE input[t].factory \notin {"none", "scalar", "throws"}
  <2> DEFINE g == [f EXCEPT !.at = "event", !.reading = FALSE]
  <2>1. g.at = "event" /\ FlowTrue(t, g)
    BY Awaits
  <2>2. Asks(t, g)
    BY <1>4 DEF AskEvent
  <2> HIDE DEF g
  <2> QED
    BY <2>1, <2>2, AskMoves
<1> QED
  BY <1>1, <1>2, <1>3, <1>4

\* The answer, as it came or cut off, was given to the turn's own request.
LEMMA GotStep ==
  ASSUME SdkInv, NEW t \in Turns, Asking(t), turn[t].reading,
         NEW reply, reply \in {wire[Own(t)], Cut(wire[Own(t)])}, Got(t, reply)
  PROVE  SdkInv'
<1> DEFINE a == Own(t)
<1>0. FlowTrue(t, turn[t]) /\ Open(t, turn[t])
  BY TrueIsOpen DEF SdkInv, Asking
<1>1. a \in DOMAIN wire /\ Earned(a) /\ wire[a] = Answer(wire[a].status, wire[a].body)
  BY <1>0 DEF FlowTrue, Asking, Answered, Own, SdkInv, ServerInv, Replies
<1>2. a.by = t /\ a.route = turn[t].at /\ a = Attempt(t, turn[t].at, 1)
  BY DEF Own, Attempt
<1>3. reply.body = "ad" => wire[a].body = "ad"
  BY <1>1 DEF Cut, Answer
<1>4. reply.status = wire[a].status
  BY <1>1 DEF Cut, Answer
<1> HIDE DEF a
<1>5. CASE turn[t].at = "config"
  <2>1. GotConfig(t, reply)
    BY <1>5 DEF Got
  <2>2. FlowTrue(t, Render(FailsOpen(turn[t], "error", "config_fetch_failed")))
    BY <1>0, SetDecision, Rendered
  <2>3. FlowTrue(t, Render(Decided(turn[t], "blocked", "placement_disabled")))
    BY <1>0, SetDecision, Rendered
  <2> QED
    BY <1>0, <2>1, <2>2, <2>3, StepMoves, AskBidStep DEF GotConfig
<1>6. CASE turn[t].at = "bid"
  <2>1. GotBid(t, reply)
    BY <1>6 DEF Got
  <2>2. CASE ~Ok(reply)
    BY <1>0, <2>1, <2>2, BidFails, StepMoves DEF GotBid
  <2>3. CASE Ok(reply)
    <3> DEFINE f == [turn[t] EXCEPT !.bid = "ok", !.ad = FlowAd(reply)]
               d == Decided(f, IF HasBid(reply) THEN "served" ELSE "no_fill", "v2_bid")
    <3>1. FlowAd(reply) # "none" => ServedFor(Attempt(t, "bid", 1))
      BY <1>1, <1>2, <1>3, <1>6 DEF FlowAd, Earned, WithBid
    <3>2. Open(t, f)
      BY <1>0, <3>1 DEF Open, Fresh
    <3>3. Open(t, d)
      BY <3>2, SetDecision
    <3>4. AskEvent(t, d)
      BY <2>1, <2>3 DEF GotBid
    <3> HIDE DEF d
    <3> QED
      BY <3>3, <3>4, AskEventStep
  <2> QED
    BY <2>2, <2>3
<1>7. CASE turn[t].at = "event"
  <2>1. GotEvent(t, reply)
    BY <1>7 DEF Got
  <2>2. Ok(reply) => \E l \in logged : l.of.by = t
    BY <1>1, <1>2, <1>4, <1>7 DEF Ok, Earned
  <2> DEFINE w == IF Ok(reply) THEN "ok" ELSE "failed"
             f == [turn[t] EXCEPT !.events = w, !.failOpen = @ \/ ~Ok(reply)]
  <2>3. w = "ok" => \E l \in logged : l.of.by = t
    BY <2>2
  <2>4. Step(t, Render(f))
    BY <2>1 DEF GotEvent
  <2> HIDE DEF w
  <2>5. Open(t, f)
    BY <1>0, <2>3 DEF Open, Fresh
  <2> HIDE DEF f
  <2> QED
    BY <2>4, <2>5, Rendered, StepMoves
<1> QED
  BY <1>5, <1>6, <1>7 DEF Asking

LEMMA TurnStep == SdkInv /\ TurnNext => SdkInv'
<1> SUFFICES ASSUME SdkInv, NEW t \in Turns,
                    \/ StartTurn(t) \/ HeadersArrive(t) \/ BodyArrives(t) \/ TimerFires(t)
                    \/ ConnectionBreaks(t) \/ ShowAd(t) \/ Finish(t) \/ ChatSettles(t)
             PROVE  SdkInv'
  BY DEF TurnNext
<1>0. FlowTrue(t, turn[t])
  BY DEF SdkInv
<1>1. CASE StartTurn(t)
  <2> DEFINE f == [turn[t] EXCEPT !.at = "config"]
  <2>1. f.at = "config" /\ f.reading = turn[t].reading /\ Open(t, f)
    BY <1>0, <1>1, TrueIsOpen, SetAt DEF StartTurn
  <2>2. Asks(t, f)
    BY <1>1 DEF StartTurn
  <2>3. turn[t].reading = FALSE
    BY <1>0, <1>1 DEF FlowTrue, StartTurn
  <2> HIDE DEF f
  <2>4. FlowTrue(t, f)
    <3>1. f.reading = FALSE
      BY <2>1, <2>3
    <3> QED
      BY <2>1, <3>1, OpenIsTrue
  <2> QED
    BY <2>1, <2>2, <2>4, AskMoves
<1>2. CASE HeadersArrive(t)
  <2>1. Open(t, turn[t]) /\ Asking(t) /\ Answered(Own(t))
    BY <1>0, <1>2, TrueIsOpen DEF HeadersArrive, Asking
  <2> DEFINE f == [turn[t] EXCEPT !.reading = TRUE]
  <2>2. f.at = turn[t].at /\ Open(t, f)
    BY <2>1, SetReading
  <2>3. FlowTrue(t, f)
    BY <2>1, <2>2 DEF FlowTrue, Open, Own, Asking
  <2>4. Step(t, f)
    BY <1>2 DEF HeadersArrive
  <2> HIDE DEF f
  <2> QED
    BY <2>3, <2>4, StepMoves
<1>3. CASE BodyArrives(t) \/ Abort(t)
  BY <1>3, GotStep DEF BodyArrives, Abort
<1>4. ASSUME NEW timeout \in BOOLEAN, Fails(t, timeout) PROVE SdkInv'
  <2>1. Open(t, turn[t]) /\ Asking(t)
    BY <1>0, <1>4, TrueIsOpen DEF Fails, Asking
  <2>2. CASE turn[t].at = "config"
    BY <1>4, <2>1, <2>2, SetDecision, Rendered, StepMoves DEF Fails
  <2>3. CASE turn[t].at = "bid"
    BY <1>4, <2>1, <2>3, BidFails, StepMoves DEF Fails
  <2>4. CASE turn[t].at = "event"
    <3>1. Open(t, [turn[t] EXCEPT !.events = "failed", !.failOpen = TRUE])
      BY <2>1 DEF Open, Fresh
    <3> QED
      BY <1>4, <2>4, <3>1, Rendered, StepMoves DEF Fails
  <2> QED
    BY <2>1, <2>2, <2>3, <2>4 DEF Asking
<1>5. CASE ShowAd(t)
  <2>1. Open(t, turn[t])
    BY <1>0, <1>5, TrueIsOpen DEF ShowAd
  <2>2. CASE turn[t].decision = "served" /\ turn[t].ad # "none" /\ input[t].renders # "no"
    <3> DEFINE f == [turn[t] EXCEPT !.at = IF input[t].renders = "throws" THEN "rejected" ELSE "closing",
                                    !.shown = TRUE]
    <3>1. Step(t, f)
      BY <1>5, <2>2 DEF ShowAd
    <3>2. FlowTrue(t, f)
      <4>1. PICK place \in {"rejected", "closing"} : f = [turn[t] EXCEPT !.at = place, !.shown = TRUE]
        OBVIOUS
      <4> HIDE DEF f
      <4> QED
        BY <2>1, <2>2, <4>1 DEF Open, FlowTrue, Fresh
    <3> HIDE DEF f
    <3> QED
      BY <3>1, <3>2, StepMoves
  <2>3. CASE ~(turn[t].decision = "served" /\ turn[t].ad # "none" /\ input[t].renders # "no")
    BY <1>5, <2>1, <2>3, SetAt, OpenIsTrue, StepMoves DEF ShowAd
  <2> QED
    BY <2>2, <2>3
<1>6. CASE Finish(t)
  <2> DEFINE o == Outcome(turn[t])
             f == [turn[t] EXCEPT !.at = "done", !.outcome = o]
  <2>1. Step(t, f)
    BY <1>6 DEF Finish
  <2>2. o = "ui_fill" <=> turn[t].decision = "served" /\ turn[t].ad # "none" /\ turn[t].shown
    BY DEF Outcome
  <2> HIDE DEF o
  <2>3. FlowTrue(t, f)
    BY <1>0, <1>6, <2>2 DEF FlowTrue, Finish, Fresh
  <2> HIDE DEF f
  <2> QED
    BY <2>1, <2>3, StepMoves
<1>7. CASE ChatSettles(t)
  <2>1. Grows /\ ServerInv'
    BY <1>7, ClientKeeps DEF ChatSettles, SdkInv, jobVars
  <2> QED
    BY <1>7, <2>1, ClientsStay DEF ChatSettles, SdkInv, jobVars
<1> QED
  BY <1>1, <1>2, <1>3, <1>4, <1>5, <1>6, <1>7 DEF TimerFires, ConnectionBreaks

----------------------------------------------------------------------------
\* The calls.
LEMMA JobMoves ==
  ASSUME SdkInv, NEW j \in Jobs, NEW r, job' = [job EXCEPT ![j] = r],
         UNCHANGED <<order, turnVars, serverVars>>,
         r.n \in Nat, r.n >= job[j].n,
         UNCHANGED wire \/ (r.n > 0 /\ Send(Attempt(j, order[j].route, r.n))),
         JobTrue(j)'
  PROVE  SdkInv'
<1>1. job'[j] = r /\ (\A k \in Jobs : k # j => job'[k] = job[k]) /\ job' = [k \in Jobs |-> job'[k]]
  BY DEF SdkInv
<1>2. \A k \in Jobs : \A n \in 1..job[k].n : n \in 1..job'[k].n
  <2>1. job[j].n \in Nat
    BY SdkFlowAssumption DEF SdkInv, JobTrue, TotalAttempts
  <2> QED
    BY <1>1, <2>1
<1>3. r.n > 0 => AskedBy(Attempt(j, order[j].route, r.n))'
  BY <1>1 DEF AskedBy, Attempt
<1>4. Grows /\ ServerInv'
  BY <1>2, <1>3, ClientKeeps DEF SdkInv, turnVars
<1>5. \A k \in Jobs : JobTrue(k)'
  BY <1>1, <1>4, JobStays DEF SdkInv
<1>6. ASSUME NEW u \in Turns PROVE FlowTrue(u, turn[u])'
  <2>1. PICK g : g = turn[u]
    OBVIOUS
  <2>2. FlowTrue(u, g)' /\ turn' = turn
    BY <1>4, <2>1, FlowStays DEF SdkInv, turnVars
  <2> QED
    BY <2>1, <2>2
<1> QED
  BY <1>1, <1>4, <1>5, <1>6 DEF SdkInv, turnVars

LEMMA AgainBounded ==
  ASSUME SdkInv, NEW j \in Jobs
  PROVE  Again(j) \in {"sleeping", "failed"} /\ (Again(j) = "sleeping" => job[j].n < TotalAttempts)
BY SdkFlowAssumption DEF Again, SdkInv, JobTrue, TotalAttempts

\* A call that comes to an end, or to its next pause or answer.
LEMMA JobGoes ==
  ASSUME SdkInv, NEW j \in Jobs, NEW place \in {"reading", "sleeping", "returned", "failed"},
         JobTo(j, [job[j] EXCEPT !.at = place]),
         place = "sleeping" => job[j].n < TotalAttempts,
         place = "reading" => Answered(Last(j)),
         place = "returned" /\ order[j].route \in {"event"} \cup ControlRoutes =>
           \E a \in Done(j) : a.by = j
  PROVE  SdkInv'
<1> DEFINE r == [job[j] EXCEPT !.at = place]
<1>1. job[j] \in [at : {"ready", "waiting", "reading", "sleeping", "returned", "failed"},
                  n : 0..TotalAttempts]
  BY DEF SdkInv, JobTrue
<1>2. r.at = place /\ r.n = job[j].n /\ job[j].n \in Nat
      /\ r \in [at : {"ready", "waiting", "reading", "sleeping", "returned", "failed"},
                n : 0..TotalAttempts]
  BY <1>1, SdkFlowAssumption DEF TotalAttempts
<1>3. job' = [job EXCEPT ![j] = r] /\ UNCHANGED <<wire, order, turnVars, serverVars>>
  BY DEF JobTo
<1> HIDE DEF r
<1>4. job'[j] = r
  BY <1>3 DEF SdkInv
<1>5. Last(j)' = Last(j) /\ Done(j)' = Done(j)
  BY <1>2, <1>3, <1>4 DEF Last, Done, serverVars
<1>6. JobTrue(j)'
  BY <1>2, <1>3, <1>4, <1>5 DEF JobTrue, Answered
<1>7. r.n \in Nat /\ r.n >= job[j].n /\ UNCHANGED wire
  BY <1>2, <1>3
<1> QED
  BY <1>3, <1>6, <1>7, JobMoves

LEMMA JobStep == SdkInv /\ JobNext => SdkInv'
<1> SUFFICES ASSUME SdkInv, NEW j \in Jobs,
                    Try(j) \/ FetchFails(j) \/ JobHeaders(j) \/ JobBody(j)
             PROVE  SdkInv'
  BY DEF JobNext
<1>0. JobTrue(j)
  BY DEF SdkInv
<1>1. CASE Try(j)
  <2> DEFINE r == [at |-> "waiting", n |-> job[j].n + 1]
  <2>1. job' = [job EXCEPT ![j] = r] /\ UNCHANGED <<order, turnVars, serverVars>>
    BY <1>1 DEF Try
  <2>2. job[j].n \in Nat /\ job[j].n < TotalAttempts
    BY <1>0, <1>1, SdkFlowAssumption DEF Try, JobTrue, TotalAttempts
  <2>3. r.n = job[j].n + 1 /\ r.at = "waiting"
    OBVIOUS
  <2>4. r \in [at : {"ready", "waiting", "reading", "sleeping", "returned", "failed"},
               n : 0..TotalAttempts]
    BY <2>2, SdkFlowAssumption DEF TotalAttempts
  <2>5. Send(Attempt(j, order[j].route, r.n))
    BY <1>1, <2>3 DEF Try
  <2> HIDE DEF r
  <2>6. job'[j] = r
    BY <2>1 DEF SdkInv
  <2>7. JobTrue(j)'
    BY <2>3, <2>4, <2>6 DEF JobTrue
  <2>8. r.n \in Nat /\ r.n >= job[j].n /\ r.n > 0
    BY <2>2, <2>3
  <2> QED
    BY <2>1, <2>5, <2>7, <2>8, JobMoves
<1>2. CASE FetchFails(j)
  <2>1. PICK place : JobTo(j, [job[j] EXCEPT !.at = place]) /\ place \in {Again(j), "failed"}
    BY <1>2 DEF FetchFails
  <2>2. place \in {"sleeping", "failed"} /\ (place = "sleeping" => job[j].n < TotalAttempts)
    BY <2>1, AgainBounded
  <2> QED
    BY <2>1, <2>2, JobGoes
<1>3. CASE JobHeaders(j)
  BY <1>3, JobGoes DEF JobHeaders
<1>4. CASE JobBody(j)
  <2>1. PICK reply \in {wire[Last(j)], Cut(wire[Last(j)])} : Conclude(j, reply)
    BY <1>4 DEF JobBody
  <2> DEFINE place == IF Ok(reply) THEN "returned" ELSE IF Retryable(reply) THEN Again(j) ELSE "failed"
  <2>2. JobTo(j, [job[j] EXCEPT !.at = place])
    BY <2>1 DEF Conclude
  <2>3. place = "returned" => Ok(reply)
    BY AgainBounded
  <2>4. place \in {"returned", "sleeping", "failed"} /\ (place = "sleeping" => job[j].n < TotalAttempts)
    BY AgainBounded
  <2> DEFINE a == Last(j)
  <2>5. a \in DOMAIN wire /\ Earned(a) /\ wire[a] = Answer(wire[a].status, wire[a].body)
    BY <1>0, <1>4 DEF JobBody, JobTrue, Answered, SdkInv, ServerInv, Replies
  <2>6. a.by = j /\ a.route = order[j].route
    BY DEF Last, Attempt
  <2>7. reply.status = wire[a].status
    BY <2>1, <2>5 DEF Cut, Answer
  <2> HIDE DEF a
  <2>8. place = "returned" /\ order[j].route \in {"event"} \cup ControlRoutes => \E b \in Done(j) : b.by = j
    <3>1. ASSUME Ok(reply), order[j].route \in {"event"} \cup ControlRoutes
          PROVE  a \in Done(j)
      BY <2>5, <2>6, <2>7, <3>1 DEF Ok, Earned, Done
    <3> QED
      BY <2>3, <2>6, <3>1
  <2> HIDE DEF place
  <2> QED
    BY <2>2, <2>4, <2>8, JobGoes
<1> QED
  BY <1>1, <1>2, <1>3, <1>4

LEMMA SdkStarts == SdkInit => SdkInv
<1> SUFFICES ASSUME SdkInit PROVE SdkInv
  OBVIOUS
<1>1. DOMAIN wire = {} /\ served = {} /\ logged = {} /\ made = {}
  BY DEF SdkInit
<1>2. ServerInv
  BY <1>1 DEF ServerInv, Requests, Replies, OnlyAnswered, OnceLogged, OnceMade
<1>3. turn = [t \in Turns |-> Fresh] /\ job = [j \in Jobs |-> [at |-> "ready", n |-> 0]]
  BY DEF SdkInit, TurnsInit, JobsInit
<1>4. \A t \in Turns : FlowTrue(t, turn[t])
  BY <1>3 DEF FlowTrue, Fresh
<1>5. ASSUME NEW j \in Jobs PROVE JobTrue(j)
  <2>1. job[j] = [at |-> "ready", n |-> 0]
    BY <1>3
  <2>2. 0 \in 0..TotalAttempts
    BY SdkFlowAssumption DEF TotalAttempts
  <2> QED
    BY <2>1, <2>2 DEF JobTrue
<1> QED
  BY <1>2, <1>3, <1>4, <1>5 DEF SdkInv

LEMMA SdkStep == SdkInv /\ [SdkNext]_sdkVars => SdkInv'
<1> SUFFICES ASSUME SdkInv, [SdkNext]_sdkVars PROVE SdkInv'
  OBVIOUS
<1>1. CASE UNCHANGED sdkVars
  <2>1. Grows /\ ServerInv'
    BY <1>1, ClientKeeps DEF SdkInv, sdkVars, turnVars, jobVars
  <2> QED
    BY <1>1, <2>1, ClientsStay DEF SdkInv, sdkVars, turnVars, jobVars
<1> QED
  BY <1>1, ServerStep, TurnStep, JobStep DEF SdkNext

LEMMA AtMostOne ==
  ASSUME NEW S, \A x, y \in S : x = y
  PROVE  Cardinality(S) <= 1
<1>1. CASE S = {}
  BY <1>1, FS_EmptySet
<1>2. CASE S # {}
  <2>1. PICK x \in S : TRUE
    BY <1>2
  <2>2. S = {x}
    BY <2>1
  <2> QED
    BY <2>2, FS_Singleton
<1> QED
  BY <1>1, <1>2

\* A call's requests are numbered, and so are their effects.
LEMMA FewDone ==
  ASSUME SdkInv, NEW j \in Jobs
  PROVE  Cardinality({a \in Done(j) : a.by = j}) <= TotalAttempts
<1> DEFINE S == {a \in Done(j) : a.by = j}
           N == 1..TotalAttempts
           m == [a \in S |-> a.n]
<1>1. ASSUME NEW a \in S
      PROVE  a.n \in N /\ a = Attempt(j, order[j].route, a.n)
  <2>1. a \in DOMAIN wire /\ a.by = j
    BY <1>1 DEF Done, SdkInv, ServerInv, OnlyAnswered, Answered
  <2>2. AskedBy(a) /\ j \notin Turns
    BY <2>1, SdkFlowAssumption DEF SdkInv, ServerInv, Requests
  <2>3. a = Attempt(j, order[j].route, a.n) /\ a.n \in 1..job[j].n
    BY <2>1, <2>2 DEF AskedBy
  <2>4. job[j].n \in 0..TotalAttempts /\ TotalAttempts \in Nat
    BY SdkFlowAssumption DEF SdkInv, JobTrue, TotalAttempts
  <2> QED
    BY <2>3, <2>4
<1>2. m \in Injection(S, N)
  <2>1. \A a, b \in S : a.n = b.n => a = b
    BY <1>1
  <2> QED
    BY <1>1, <2>1, Zenon DEF Injection, IsInjective
<1>3. IsFiniteSet(N) /\ Cardinality(N) = TotalAttempts
  <2>1. TotalAttempts \in Nat
    BY SdkFlowAssumption DEF TotalAttempts
  <2> QED
    BY <2>1, FS_Interval
<1> HIDE DEF S, N, m
<1>4. Cardinality(S) <= TotalAttempts
  BY <1>2, <1>3, FS_Injection
<1> QED
  BY <1>4 DEF S

\* What the two clients say of an ad, an event, a conversion or a key is true, for
\* any turns, calls, policies of retrying and failures of the network
\* (client.js:486 of the ads SDK, client.js:123 of the contracts client).
THEOREM ClientsCorrect == SdkSpec => []ClientsTellTruth
<1>1. SdkInv => ClientsTellTruth
  <2> SUFFICES ASSUME SdkInv PROVE ClientsTellTruth
    OBVIOUS
  <2>0. ServerInv
    BY DEF SdkInv
  <2>1. ASSUME NEW t \in Turns
        PROVE  /\ turn[t].shown => \E d \in served :
                    d.of = Attempt(t, "bid", 1) /\ InScope(input[t].who, d.placement)
               /\ turn[t].events = "ok" => \E l \in logged : l.of.by = t
               /\ Cardinality({l \in logged : l.of.by = t}) <= 1
               /\ turn[t].outcome = "ui_fill" <=> turn[t].shown /\ turn[t].at = "done"
    <3>1. FlowTrue(t, turn[t])
      BY DEF SdkInv
    <3>2. Asked(Attempt(t, "bid", 1)).who = input[t].who
      BY DEF Asked, Attempt
    <3>3. turn[t].shown => ServedFor(Attempt(t, "bid", 1))
      BY <3>1 DEF FlowTrue
    <3>4. \A l \in logged : l.of.by = t => l.of = Attempt(t, "event", 1)
      <4>1. \A l \in logged : AskedBy(l.of) /\ l.of.route = "event"
        BY <2>0 DEF ServerInv, OnlyAnswered, Requests, Answered
      <4>2. t \notin Jobs
        BY SdkFlowAssumption
      <4> QED
        BY <4>1, <4>2 DEF AskedBy
    <3>5. Cardinality({l \in logged : l.of.by = t}) <= 1
      <4>1. \A l, m \in {k \in logged : k.of.by = t} : l = m
        BY <2>0, <3>4 DEF ServerInv, OnceLogged
      <4> QED
        BY <4>1, AtMostOne
    <3>6. turn[t].outcome = "ui_fill" <=> turn[t].shown /\ turn[t].at = "done"
      BY <3>1 DEF FlowTrue
    <3> QED
      BY <3>1, <3>2, <3>3, <3>5, <3>6 DEF FlowTrue, ServedFor
  <2>2. ASSUME NEW j \in Jobs
        PROVE  /\ Cardinality({a \in Done(j) : a.by = j}) <= TotalAttempts
               /\ Cardinality({l \in logged : l.of.by = j /\ l.kind = "conversion" /\ ~l.duplicate}) <= 1
               /\ order[j].route = "exchange" => Cardinality({a \in made : a.by = j}) <= 1
               /\ job[j].at = "returned" /\ order[j].route \in {"event"} \cup ControlRoutes =>
                    \E a \in Done(j) : a.by = j
    <3>1. Cardinality({a \in Done(j) : a.by = j}) <= TotalAttempts
      BY FewDone
    <3>2. Cardinality({l \in logged : l.of.by = j /\ l.kind = "conversion" /\ ~l.duplicate}) <= 1
      <4>1. \A l, m \in {k \in logged : k.of.by = j /\ k.kind = "conversion" /\ ~k.duplicate} : l = m
        BY <2>0 DEF ServerInv, OnceLogged, CountsOnce
      <4> QED
        BY <4>1, AtMostOne
    <3>3. order[j].route = "exchange" => Cardinality({a \in made : a.by = j}) <= 1
      <4> SUFFICES ASSUME order[j].route = "exchange" PROVE Cardinality({a \in made : a.by = j}) <= 1
        OBVIOUS
      <4>1. \A a \in made : a.by = j => a.route = "exchange"
        <5>1. \A a \in made : AskedBy(a)
          BY <2>0 DEF ServerInv, OnlyAnswered, Requests, Answered
        <5>2. j \notin Turns
          BY SdkFlowAssumption
        <5> QED
          BY <5>1, <5>2 DEF AskedBy, Attempt
      <4>2. \A a, b \in {c \in made : c.by = j} : a = b
        BY <2>0, <4>1 DEF ServerInv, OnceMade
      <4> QED
        BY <4>2, AtMostOne
    <3>4. JobTrue(j)
      BY DEF SdkInv
    <3> QED
      BY <3>1, <3>2, <3>3, <3>4 DEF JobTrue
  <2> QED
    BY <2>1, <2>2 DEF ClientsTellTruth, TurnTellsTruth, CallTellsTruth
<1> QED
  BY <1>1, SdkStarts, SdkStep, PTL DEF SdkSpec
=============================================================================
