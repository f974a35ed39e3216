---------------------------- MODULE BidRequestsProofs ----------------------------
(***************************************************************************)
(* What MCBidRequests checks on two placements holds for any requests,     *)
(* placements, rankings, scores and processes: an answered bid is told of  *)
(* by the tables, money is set aside for the ads that are served, and the  *)
(* events of a request go to an opportunity of its own.                    *)
(*                                                                         *)
(* The invariant follows one evaluation through its statements: what is    *)
(* written by which of them, and what stays written when the evaluations   *)
(* of the other placements fail, or the process dies.                      *)
(***************************************************************************)
EXTENDS BidRequests, WellFoundedInduction, TLAPS

States == {"none", "received", "served", "no_fill"} \cup Reported
Stages == {"idle", "evaluating", "logging", "loggingEvent", "answered", "no bid", "lost"}
Statements == {"none", "insertOpportunity", "select", "insertDelivery", "updateState", "done", "failed"}
Reports == [request : Requests, kind : EventKinds, target : PlacementSet \cup {None}, applied : BOOLEAN]

BidTypes ==
  /\ stage \in [Requests -> Stages]
  /\ step \in [Requests -> [PlacementSet -> Statements]]
  /\ position \in [Requests -> [PlacementSet -> Nat \ {0}]]
  /\ winner \in [Requests -> [PlacementSet -> Ads \cup {NoAd}]]
  /\ shown \in [Requests -> {<<>>} \cup PlacementSet \X Ads]
  /\ logged \subseteq Requests
  /\ opportunity \in [Requests -> [PlacementSet -> States]]
  /\ delivered \in [Requests -> [PlacementSet -> {"none", "served", "no_fill"}]]
  /\ context \in [Instances -> [Requests -> PlacementSet \cup {None}]]
  /\ account \in [Requests \X Ads -> {"none", "open", "released"}]
  /\ failedCalls \subseteq Requests \X Ads
  /\ events \in Seq(Reports)

----------------------------------------------------------------------------
(* The winner of the auction *)

LEMMA Induction ==
  ASSUME NEW Good, 0 \in Good, \A n \in Nat : n \in Good => n + 1 \in Good
  PROVE  Nat \subseteq Good
<1> DEFINE Left == Nat \ Good
           Less == {pair \in Nat \X Nat : pair[1] < pair[2]}
<1> SUFFICES ASSUME Left # {} PROVE FALSE
  OBVIOUS
<1>1. PICK x \in Left : \A y \in Left : ~ (<<y, x>> \in Less)
  <2>1. IsWellFoundedOn(Less, Nat)
    BY NatLessThanWellFounded DEF OpToRel
  <2> HIDE DEF Less
  <2> QED BY <2>1, WFMin
<1>2. x \in Nat /\ x # 0 /\ x \notin Good
  OBVIOUS
<1>3. x - 1 \in Nat /\ (x - 1) + 1 = x /\ <<x - 1, x>> \in Less
  BY <1>2
<1>4. x - 1 \in Good
  BY <1>1, <1>3
<1> QED BY <1>2, <1>3, <1>4

(* Of the placements of a request, each with its rank, one beats all the others
   that serve an ad, when one serves any. *)
LEMMA OneWins ==
  ASSUME ConstantsAssumption, NEW r \in Requests, BidTypes, Served(r) # {}
  PROVE  /\ Winner(r) \in Served(r)
         /\ Choice(r) = <<Winner(r), winner[r][Winner(r)]>>
<1> DEFINE N == Len(Scope[r])
           Value(p) == Score[p][winner[r][p]]
           First(n) == {p \in Served(r) : \E i \in 1 .. N : i <= n /\ Scope[r][i] = p}
           Best(S, p) == p \in S /\ \A q \in S \ {p} : Beats(r, p, q)
           Found(n) == First(n) = {} \/ \E p \in Served(r) : Best(First(n), p)
           Good == {n \in Nat : Found(n)}
<1>1. N \in Nat /\ Scope[r] \in Seq(PlacementSet) /\ DOMAIN Scope[r] = 1 .. N
  BY DEF ConstantsAssumption
<1>2. \A i \in 1 .. N : Rank(r, Scope[r][i]) = i
  <2>1. \A i, j \in 1 .. N : Scope[r][i] = Scope[r][j] => i = j
    BY <1>1 DEF ConstantsAssumption, IsInjective
  <2> QED BY <1>1, <2>1, Zenon DEF Rank
<1>3. \A p \in Served(r) : p \in PlacementSet /\ winner[r][p] \in Ads /\ Value(p) \in Nat
                           /\ \E i \in 1 .. N : Scope[r][i] = p /\ Rank(r, p) = i
  <2> SUFFICES ASSUME NEW p \in Served(r)
               PROVE  p \in PlacementSet /\ winner[r][p] \in Ads /\ Value(p) \in Nat
                           /\ \E i \in 1 .. N : Scope[r][i] = p /\ Rank(r, p) = i
    OBVIOUS
  <2>1. PICK i \in 1 .. N : Scope[r][i] = p
    BY <1>1 DEF Served, PlacementsOf, Range
  <2>2. p \in PlacementSet
    BY <1>1, <2>1
  <2>3. winner[r][p] \in Ads
    <3>1. winner \in [Requests -> [PlacementSet -> Ads \cup {NoAd}]]
      BY DEF BidTypes
    <3> QED BY <2>2, <3>1 DEF Served
  <2>4. Value(p) \in Nat
    BY <2>2, <2>3 DEF ConstantsAssumption
  <2> QED BY <1>2, <2>1, <2>2, <2>3, <2>4
<1>4. Found(0)
  BY <1>1
<1>5. ASSUME NEW n \in Nat, Found(n) PROVE Found(n + 1)
  <2>1. CASE n + 1 \notin 1 .. N \/ (n + 1 \in 1 .. N /\ Scope[r][n + 1] \notin Served(r))
    <3>1. First(n + 1) = First(n)
      BY <1>1, <1>5, <2>1
    <3> HIDE DEF First
    <3> QED BY <1>5, <3>1
  <2>2. CASE n + 1 \in 1 .. N /\ Scope[r][n + 1] \in Served(r)
    <3> DEFINE new == Scope[r][n + 1]
    <3>1. First(n + 1) = First(n) \cup {new} /\ new \in Served(r) /\ Rank(r, new) = n + 1
      BY <1>1, <1>2, <1>5, <2>2
    <3>2. \A q \in First(n) : q \in Served(r) /\ Rank(r, q) \in Nat /\ Rank(r, q) <= n /\ q # new
      BY <1>1, <1>2, <1>5, <2>2
    <3>3. \A q \in Served(r) : Value(q) \in Nat
      BY <1>3
    <3> HIDE DEF First, new
    <3>4. CASE First(n) = {}
      <4>1. Best(First(n + 1), new)
        BY <3>1, <3>4
      <4> QED BY <3>1, <4>1
    <3>5. CASE First(n) # {}
      <4>1. PICK p \in Served(r) : Best(First(n), p)
        BY <1>5, <3>5
      <4>2. CASE Value(new) > Value(p)
        <5>1. ASSUME NEW q \in First(n) PROVE Beats(r, new, q)
          <6>1. q = p \/ Beats(r, p, q)
            BY <4>1
          <6>2. Value(p) >= Value(q)
            BY <3>2, <3>3, <4>1, <6>1 DEF Beats
          <6>3. Value(new) \in Nat /\ Value(p) \in Nat /\ Value(q) \in Nat
            BY <3>1, <3>2, <3>3, <4>1
          <6>4. Value(new) > Value(q)
            <7> HIDE DEF Value
            <7> QED BY <4>2, <6>2, <6>3
          <6> QED BY <6>4 DEF Beats
        <5>2. Best(First(n + 1), new)
          BY <3>1, <5>1
        <5> QED BY <3>1, <5>2
      <4>3. CASE ~ (Value(new) > Value(p))
        <5>1. p \in First(n) /\ Rank(r, p) <= n /\ Rank(r, p) \in Nat
          BY <3>2, <4>1
        <5>2. Rank(r, p) < Rank(r, new)
          BY <1>5, <3>1, <5>1
        <5>3. Value(p) > Value(new) \/ Value(p) = Value(new)
          <6>1. Value(p) \in Nat /\ Value(new) \in Nat
            BY <3>1, <3>3, <4>1
          <6> HIDE DEF Value
          <6> QED BY <4>3, <6>1
        <5>4. Beats(r, p, new)
          BY <5>2, <5>3 DEF Beats
        <5>5. Best(First(n + 1), p)
          BY <3>1, <4>1, <5>4
        <5> QED BY <4>1, <5>5
      <4> QED BY <4>2, <4>3
    <3> QED BY <3>4, <3>5
  <2> QED BY <2>1, <2>2
<1>6. Found(N)
  <2> HIDE DEF Found
  <2>1. 0 \in Good /\ \A n \in Nat : n \in Good => n + 1 \in Good
    BY <1>4, <1>5
  <2> HIDE DEF Good
  <2>2. Nat \subseteq Good
    BY <2>1, Induction
  <2> QED BY <1>1, <2>2 DEF Good
<1>7. First(N) = Served(r)
  BY <1>1, <1>3
<1> HIDE DEF First
<1>8. PICK p \in Served(r) : \A q \in Served(r) \ {p} : Beats(r, p, q)
  BY <1>6, <1>7
<1>9. Winner(r) \in Served(r)
  BY <1>8, Zenon DEF Winner
<1> QED BY <1>9 DEF Choice

----------------------------------------------------------------------------
(* The invariant *)

\* What an evaluation wrote is told by the statement it waits for.
EvaluationAt(r, p) ==
  /\ step[r][p] \in {"none", "insertOpportunity", "select"} => winner[r][p] = NoAd
  /\ step[r][p] \in {"updateState", "done"} =>
       delivered[r][p] = IF winner[r][p] = NoAd THEN "no_fill" ELSE "served"
  /\ step[r][p] = "done" => opportunity[r][p] \notin {"none", "received"}

\* What a handler did is told by its stage; an answer shows an ad of a placement
\* of the request, and events come after it.
HandlerAt(r) ==
  /\ stage[r] = "idle" => \A p \in PlacementSet : step[r][p] = "none"
  /\ stage[r] \in {"logging", "loggingEvent", "answered"} => \A p \in PlacementsOf(r) : step[r][p] = "done"
  /\ stage[r] \in {"loggingEvent", "answered"} => r \in logged
  /\ shown[r] # <<>> => /\ stage[r] = "answered"
                        /\ \E p \in PlacementsOf(r) : winner[r][p] # NoAd /\ shown[r] = <<p, winner[r][p]>>
  /\ \A p \in PlacementSet : opportunity[r][p] \in Reported => shown[r] # <<>>

\* Where budgets are enforced a winner has its money; and money is held for winners.
MoneyAt(r) ==
  /\ \A p \in PlacementSet : ModeOf(r) = "on" /\ winner[r][p] # NoAd =>
       account[<<r, winner[r][p]>>] \in {"open", "released"}
  /\ \A ad \in Ads : account[<<r, ad>>] = "open" =>
       <<r, ad>> \in failedCalls \/ \E p \in PlacementSet : winner[r][p] = ad

RequestAt(r) == HandlerAt(r) /\ MoneyAt(r) /\ \A p \in PlacementSet : EvaluationAt(r, p)

ContextTrue ==
  \A i \in Instances, r \in Requests : context[i][r] # None => context[i][r] \in PlacementsOf(r)

EventsTrue ==
  \A n \in DOMAIN events :
    /\ shown[events[n].request] # <<>>
    /\ events[n].target # None => events[n].target \in PlacementsOf(events[n].request)

BidInv == BidTypes /\ (\A r \in Requests : RequestAt(r)) /\ ContextTrue /\ EventsTrue

LEMMA ScopeTyped ==
  ASSUME ConstantsAssumption, NEW r \in Requests
  PROVE  /\ PlacementsOf(r) \subseteq PlacementSet
         /\ Scope[r][Len(Scope[r])] \in PlacementsOf(r)
         /\ Len(Scope[r]) = 1 => \A p, q \in PlacementsOf(r) : p = q
         /\ InstanceOf[r] \in Instances
<1>1. Scope[r] \in Seq(PlacementSet) /\ Scope[r] # <<>> /\ InstanceOf[r] \in Instances
  BY DEF ConstantsAssumption
<1>2. Len(Scope[r]) \in Nat /\ Len(Scope[r]) # 0
  BY <1>1
<1>3. Len(Scope[r]) \in 1 .. Len(Scope[r]) /\ DOMAIN Scope[r] = 1 .. Len(Scope[r])
  BY <1>1, <1>2
<1>4. \A n \in 1 .. Len(Scope[r]) : Scope[r][n] \in PlacementSet
  BY <1>1
<1>5. PlacementsOf(r) = {Scope[r][n] : n \in 1 .. Len(Scope[r])}
  BY <1>3 DEF PlacementsOf, Range
<1>6. Len(Scope[r]) = 1 => PlacementsOf(r) = {Scope[r][1]}
  BY <1>5
<1>7. Scope[r][Len(Scope[r])] \in PlacementsOf(r)
  BY <1>3, <1>5
<1> QED BY <1>1, <1>4, <1>5, <1>6, <1>7

LEMMA CandidateTyped ==
  ASSUME ConstantsAssumption, BidTypes, NEW r \in Requests, NEW p \in PlacementSet, HasCandidate(r, p)
  PROVE  Candidate(r, p) \in Ads /\ Candidate(r, p) # NoAd
<1>1. Ranked[p] \in Seq(Ads) /\ NoAd \notin Ads
  BY DEF ConstantsAssumption
<1>2. position \in [Requests -> [PlacementSet -> Nat \ {0}]] /\ position[r][p] <= Len(Ranked[p])
  BY DEF BidTypes, HasCandidate
<1>3. position[r][p] \in Nat \ {0}
  BY <1>2
<1> QED BY <1>1, <1>2, <1>3 DEF Candidate

LEMMA ReportTyped ==
  ASSUME BidTypes, NEW n \in DOMAIN events
  PROVE  /\ n \in 1 .. Len(events) /\ events[n] \in Reports
         /\ events[n].request \in Requests /\ events[n].target \in PlacementSet \cup {None}
<1>1. events \in Seq(Reports)
  BY DEF BidTypes
<1>2. n \in 1 .. Len(events) /\ events[n] \in Reports
  BY <1>1
<1> QED BY <1>2 DEF Reports

(* What an update of one placement of one request leaves. *)
LEMMA UpdateOne ==
  ASSUME NEW B, NEW C, NEW f \in [Requests -> [B -> C]], NEW r \in Requests, NEW b \in B, NEW v \in C,
         NEW g, g = [f EXCEPT ![r][b] = v]
  PROVE  /\ g \in [Requests -> [B -> C]] /\ g[r] \in [B -> C]
         /\ g[r][b] = v
         /\ \A y \in B \ {b} : g[r][y] = f[r][y]
         /\ \A x \in Requests \ {r} : g[x] = f[x]
OBVIOUS

LEMMA UpdateRow ==
  ASSUME NEW A, NEW B, NEW f \in [A -> B], NEW a \in A, NEW v \in B, NEW g, g = [f EXCEPT ![a] = v]
  PROVE  g \in [A -> B] /\ g[a] = v /\ \A x \in A \ {a} : g[x] = f[x]
OBVIOUS

\* What a step of request r leaves to the others.
OnlyMoves(r) ==
  /\ \A x \in Requests \ {r} :
       /\ stage'[x] = stage[x] /\ step'[x] = step[x] /\ winner'[x] = winner[x] /\ shown'[x] = shown[x]
       /\ opportunity'[x] = opportunity[x] /\ delivered'[x] = delivered[x]
       /\ x \in logged => x \in logged'
       /\ \A ad \in Ads : account'[<<x, ad>>] = account[<<x, ad>>]
  /\ failedCalls \subseteq failedCalls'

SameEvaluation(r, p) ==
  /\ step'[r][p] = step[r][p] /\ winner'[r][p] = winner[r][p]
  /\ delivered'[r][p] = delivered[r][p] /\ opportunity'[r][p] = opportunity[r][p]

LEMMA EvaluationKept ==
  ASSUME NEW r, NEW p, EvaluationAt(r, p), SameEvaluation(r, p)
  PROVE  EvaluationAt(r, p)'
BY DEF EvaluationAt, SameEvaluation

LEMMA MoneyKept ==
  ASSUME NEW r, MoneyAt(r), winner'[r] = winner[r], failedCalls \subseteq failedCalls',
         \A ad \in Ads : account'[<<r, ad>>] = account[<<r, ad>>]
                         \/ (account[<<r, ad>>] = "open" /\ account'[<<r, ad>>] = "released"),
         winner \in [Requests -> [PlacementSet -> Ads \cup {NoAd}]], r \in Requests
  PROVE  MoneyAt(r)'
<1>1. \A p \in PlacementSet : ModeOf(r) = "on" /\ winner[r][p] # NoAd =>
        account'[<<r, winner[r][p]>>] \in {"open", "released"}
  <2> SUFFICES ASSUME NEW p \in PlacementSet, ModeOf(r) = "on", winner[r][p] # NoAd
               PROVE  account'[<<r, winner[r][p]>>] \in {"open", "released"}
    OBVIOUS
  <2>1. PICK ad \in Ads : ad = winner[r][p]
    OBVIOUS
  <2>2. account[<<r, ad>>] \in {"open", "released"}
    BY <2>1 DEF MoneyAt
  <2> QED BY <2>1, <2>2
<1>2. \A ad \in Ads : account'[<<r, ad>>] = "open" =>
        <<r, ad>> \in failedCalls' \/ \E p \in PlacementSet : winner[r][p] = ad
  BY DEF MoneyAt
<1> QED BY <1>1, <1>2 DEF MoneyAt, ModeOf

LEMMA OthersKeep ==
  ASSUME NEW r \in Requests, BidInv, OnlyMoves(r), BidTypes', RequestAt(r)', ContextTrue', EventsTrue'
  PROVE  BidInv'
<1>1. ASSUME NEW x \in Requests \ {r} PROVE RequestAt(x)'
  <2>1. /\ stage'[x] = stage[x] /\ step'[x] = step[x] /\ winner'[x] = winner[x] /\ shown'[x] = shown[x]
        /\ opportunity'[x] = opportunity[x] /\ delivered'[x] = delivered[x]
        /\ x \in logged => x \in logged'
        /\ \A ad \in Ads : account'[<<x, ad>>] = account[<<x, ad>>]
        /\ failedCalls \subseteq failedCalls'
    BY DEF OnlyMoves
  <2>2. HandlerAt(x) /\ MoneyAt(x) /\ \A p \in PlacementSet : EvaluationAt(x, p)
    BY DEF BidInv, RequestAt
  <2>3. HandlerAt(x)'
    BY <2>1, <2>2 DEF HandlerAt
  <2>4. MoneyAt(x)'
    <3>1. winner \in [Requests -> [PlacementSet -> Ads \cup {NoAd}]]
      BY DEF BidInv, BidTypes
    <3>2. \A ad \in Ads : account'[<<x, ad>>] = account[<<x, ad>>]
                          \/ (account[<<x, ad>>] = "open" /\ account'[<<x, ad>>] = "released")
      BY <2>1
    <3>3. MoneyAt(x) /\ winner'[x] = winner[x] /\ failedCalls \subseteq failedCalls' /\ x \in Requests
      BY <2>1, <2>2
    <3> QED BY <3>1, <3>2, <3>3, MoneyKept
  <2>5. \A p \in PlacementSet : EvaluationAt(x, p)'
    BY <2>1, <2>2, EvaluationKept DEF SameEvaluation
  <2> QED BY <2>3, <2>4, <2>5 DEF RequestAt
<1> QED BY <1>1 DEF BidInv

\* While an evaluation is under way its request is neither answered nor reported on.
LEMMA Working ==
  ASSUME NEW r \in Requests, NEW p \in PlacementSet, p \in PlacementsOf(r), HandlerAt(r),
         step[r][p] \notin {"none", "done"}
  PROVE  /\ stage[r] \notin {"idle", "logging", "loggingEvent", "answered"} /\ shown[r] = <<>>
         /\ \A y \in PlacementSet : opportunity[r][y] \notin Reported
BY DEF HandlerAt

LEMMA StillWorking ==
  ASSUME NEW r, stage'[r] \notin {"idle", "logging", "loggingEvent", "answered"}, shown'[r] = <<>>,
         \A y \in PlacementSet : opportunity'[r][y] \notin Reported
  PROVE  HandlerAt(r)'
BY DEF HandlerAt

LEMMA InsertOpportunityKeeps ==
  ASSUME ConstantsAssumption, BidInv, NEW r \in Requests, NEW p \in PlacementsOf(r), InsertOpportunity(r, p)
  PROVE  BidInv'
<1>0. /\ p \in PlacementSet /\ step[r][p] = "insertOpportunity"
      /\ UNCHANGED <<stage, position, winner, shown, logged, delivered, context, account, failedCalls, events>>
  BY ScopeTyped DEF InsertOpportunity, budget
<1>1. BidTypes /\ RequestAt(r) /\ ContextTrue /\ EventsTrue
  BY DEF BidInv
<1>2. /\ opportunity' \in [Requests -> [PlacementSet -> States]] /\ opportunity'[r][p] = "received"
      /\ \A y \in PlacementSet \ {p} : opportunity'[r][y] = opportunity[r][y]
      /\ \A x \in Requests \ {r} : opportunity'[x] = opportunity[x]
  <2>1. opportunity \in [Requests -> [PlacementSet -> States]]
    BY <1>1 DEF BidTypes
  <2>2. "received" \in States /\ opportunity' = [opportunity EXCEPT ![r][p] = "received"]
    BY DEF InsertOpportunity, States
  <2> QED BY <1>0, <2>1, <2>2, UpdateOne
<1>3. /\ step' \in [Requests -> [PlacementSet -> Statements]] /\ step'[r][p] = "select"
      /\ \A y \in PlacementSet \ {p} : step'[r][y] = step[r][y]
      /\ \A x \in Requests \ {r} : step'[x] = step[x]
  <2>1. step \in [Requests -> [PlacementSet -> Statements]]
    BY <1>1 DEF BidTypes
  <2>2. "select" \in Statements /\ step' = [step EXCEPT ![r][p] = "select"]
    BY DEF InsertOpportunity, GoOn, Statements
  <2> QED BY <1>0, <2>1, <2>2, UpdateOne
<1>4. BidTypes'
  BY <1>0, <1>1, <1>2, <1>3 DEF BidTypes
<1>5. HandlerAt(r)'
  <2>1. /\ stage[r] \notin {"idle", "logging", "loggingEvent", "answered"} /\ shown[r] = <<>>
        /\ \A y \in PlacementSet : opportunity[r][y] \notin Reported
    BY <1>0, <1>1, Working DEF RequestAt
  <2>2. \A y \in PlacementSet : opportunity'[r][y] \notin Reported
    BY <1>2, <2>1 DEF Reported
  <2> QED BY <1>0, <2>1, <2>2, StillWorking
<1>6. ASSUME NEW y \in PlacementSet PROVE EvaluationAt(r, y)'
  <2>1. EvaluationAt(r, y)
    BY <1>1 DEF RequestAt
  <2>2. CASE y = p
    BY <1>0, <1>2, <1>3, <2>1, <2>2 DEF EvaluationAt
  <2>3. CASE y # p
    BY <1>0, <1>2, <1>3, <2>1, <2>3, EvaluationKept DEF SameEvaluation
  <2> QED BY <2>2, <2>3
<1>7. MoneyAt(r)'
  <2>1. winner \in [Requests -> [PlacementSet -> Ads \cup {NoAd}]] /\ MoneyAt(r)
    BY <1>1 DEF BidTypes, RequestAt
  <2>2. \A ad \in Ads : account'[<<r, ad>>] = account[<<r, ad>>]
                        \/ (account[<<r, ad>>] = "open" /\ account'[<<r, ad>>] = "released")
    BY <1>0
  <2>3. winner'[r] = winner[r] /\ failedCalls \subseteq failedCalls'
    BY <1>0
  <2> QED BY <2>1, <2>2, <2>3, MoneyKept
<1>8. ContextTrue' /\ EventsTrue' /\ OnlyMoves(r)
  BY <1>0, <1>1, <1>2, <1>3 DEF ContextTrue, EventsTrue, OnlyMoves
<1> QED BY <1>4, <1>5, <1>6, <1>7, <1>8, OthersKeep DEF RequestAt

LEMMA InsertDeliveryKeeps ==
  ASSUME ConstantsAssumption, BidInv, NEW r \in Requests, NEW p \in PlacementsOf(r), InsertDelivery(r, p)
  PROVE  BidInv'
<1>0. /\ p \in PlacementSet /\ step[r][p] = "insertDelivery"
      /\ UNCHANGED <<stage, position, winner, shown, logged, opportunity, context, account, failedCalls, events>>
  BY ScopeTyped DEF InsertDelivery, budget
<1>1. BidTypes /\ RequestAt(r) /\ ContextTrue /\ EventsTrue
  BY DEF BidInv
<1>2. /\ delivered' \in [Requests -> [PlacementSet -> {"none", "served", "no_fill"}]] /\ delivered'[r][p] = (IF winner[r][p] = NoAd THEN "no_fill" ELSE "served")
      /\ \A y \in PlacementSet \ {p} : delivered'[r][y] = delivered[r][y]
      /\ \A x \in Requests \ {r} : delivered'[x] = delivered[x]
  <2>1. delivered \in [Requests -> [PlacementSet -> {"none", "served", "no_fill"}]]
    BY <1>1 DEF BidTypes
  <2>2. (IF winner[r][p] = NoAd THEN "no_fill" ELSE "served") \in {"none", "served", "no_fill"} /\ delivered' = [delivered EXCEPT ![r][p] = (IF winner[r][p] = NoAd THEN "no_fill" ELSE "served")]
    BY DEF InsertDelivery, GoOn, Statements
  <2> QED BY <1>0, <2>1, <2>2, UpdateOne
<1>3. /\ step' \in [Requests -> [PlacementSet -> Statements]] /\ step'[r][p] = "updateState"
      /\ \A y \in PlacementSet \ {p} : step'[r][y] = step[r][y]
      /\ \A x \in Requests \ {r} : step'[x] = step[x]
  <2>1. step \in [Requests -> [PlacementSet -> Statements]]
    BY <1>1 DEF BidTypes
  <2>2. "updateState" \in Statements /\ step' = [step EXCEPT ![r][p] = "updateState"]
    BY DEF InsertDelivery, GoOn, Statements
  <2> QED BY <1>0, <2>1, <2>2, UpdateOne
<1>4. BidTypes'
  BY <1>0, <1>1, <1>2, <1>3 DEF BidTypes
<1>5. HandlerAt(r)'
  <2>1. /\ stage[r] \notin {"idle", "logging", "loggingEvent", "answered"} /\ shown[r] = <<>>
        /\ \A y \in PlacementSet : opportunity[r][y] \notin Reported
    BY <1>0, <1>1, Working DEF RequestAt
  <2>2. \A y \in PlacementSet : opportunity'[r][y] \notin Reported
    BY <1>0, <1>2, <1>3, <2>1 DEF Reported
  <2> QED BY <1>0, <1>2, <1>3, <2>1, <2>2, StillWorking
<1>6. ASSUME NEW y \in PlacementSet PROVE EvaluationAt(r, y)'
  <2>1. EvaluationAt(r, y)
    BY <1>1 DEF RequestAt
  <2>2. CASE y = p
    BY <1>0, <1>2, <1>3, <2>1, <2>2 DEF EvaluationAt
  <2>3. CASE y # p
    BY <1>0, <1>2, <1>3, <2>1, <2>3, EvaluationKept DEF SameEvaluation
  <2> QED BY <2>2, <2>3
<1>7. MoneyAt(r)'
  <2>1. winner \in [Requests -> [PlacementSet -> Ads \cup {NoAd}]] /\ MoneyAt(r)
    BY <1>1 DEF BidTypes, RequestAt
  <2>2. \A ad \in Ads : account'[<<r, ad>>] = account[<<r, ad>>]
                        \/ (account[<<r, ad>>] = "open" /\ account'[<<r, ad>>] = "released")
    BY <1>0
  <2>3. winner'[r] = winner[r] /\ failedCalls \subseteq failedCalls'
    BY <1>0
  <2> QED BY <2>1, <2>2, <2>3, MoneyKept
<1>8. ContextTrue' /\ EventsTrue' /\ OnlyMoves(r)
  BY <1>0, <1>1, <1>2, <1>3 DEF ContextTrue, EventsTrue, OnlyMoves
<1> QED BY <1>4, <1>5, <1>6, <1>7, <1>8, OthersKeep DEF RequestAt

LEMMA UpdateStateKeeps ==
  ASSUME ConstantsAssumption, BidInv, NEW r \in Requests, NEW p \in PlacementsOf(r), UpdateState(r, p)
  PROVE  BidInv'
<1>0. /\ p \in PlacementSet /\ step[r][p] = "updateState"
      /\ UNCHANGED <<stage, position, winner, shown, logged, delivered, context, account, failedCalls, events>>
  BY ScopeTyped DEF UpdateState, budget
<1>1. BidTypes /\ RequestAt(r) /\ ContextTrue /\ EventsTrue
  BY DEF BidInv
<1>2. /\ opportunity' \in [Requests -> [PlacementSet -> States]] /\ opportunity'[r][p] = (IF winner[r][p] = NoAd THEN "no_fill" ELSE "served")
      /\ \A y \in PlacementSet \ {p} : opportunity'[r][y] = opportunity[r][y]
      /\ \A x \in Requests \ {r} : opportunity'[x] = opportunity[x]
  <2>1. opportunity \in [Requests -> [PlacementSet -> States]]
    BY <1>1 DEF BidTypes
  <2>2. (IF winner[r][p] = NoAd THEN "no_fill" ELSE "served") \in States /\ opportunity' = [opportunity EXCEPT ![r][p] = (IF winner[r][p] = NoAd THEN "no_fill" ELSE "served")]
    BY DEF UpdateState, GoOn, States
  <2> QED BY <1>0, <2>1, <2>2, UpdateOne
<1>3. /\ step' \in [Requests -> [PlacementSet -> Statements]] /\ step'[r][p] = "done"
      /\ \A y \in PlacementSet \ {p} : step'[r][y] = step[r][y]
      /\ \A x \in Requests \ {r} : step'[x] = step[x]
  <2>1. step \in [Requests -> [PlacementSet -> Statements]]
    BY <1>1 DEF BidTypes
  <2>2. "done" \in Statements /\ step' = [step EXCEPT ![r][p] = "done"]
    BY DEF UpdateState, GoOn, Statements
  <2> QED BY <1>0, <2>1, <2>2, UpdateOne
<1>4. BidTypes'
  BY <1>0, <1>1, <1>2, <1>3 DEF BidTypes
<1>5. HandlerAt(r)'
  <2>1. /\ stage[r] \notin {"idle", "logging", "loggingEvent", "answered"} /\ shown[r] = <<>>
        /\ \A y \in PlacementSet : opportunity[r][y] \notin Reported
    BY <1>0, <1>1, Working DEF RequestAt
  <2>2. \A y \in PlacementSet : opportunity'[r][y] \notin Reported
    BY <1>0, <1>2, <1>3, <2>1 DEF Reported
  <2> QED BY <1>0, <1>2, <1>3, <2>1, <2>2, StillWorking
<1>6. ASSUME NEW y \in PlacementSet PROVE EvaluationAt(r, y)'
  <2>1. EvaluationAt(r, y)
    BY <1>1 DEF RequestAt
  <2>2. CASE y = p
    BY <1>0, <1>2, <1>3, <2>1, <2>2 DEF EvaluationAt
  <2>3. CASE y # p
    BY <1>0, <1>2, <1>3, <2>1, <2>3, EvaluationKept DEF SameEvaluation
  <2> QED BY <2>2, <2>3
<1>7. MoneyAt(r)'
  <2>1. winner \in [Requests -> [PlacementSet -> Ads \cup {NoAd}]] /\ MoneyAt(r)
    BY <1>1 DEF BidTypes, RequestAt
  <2>2. \A ad \in Ads : account'[<<r, ad>>] = account[<<r, ad>>]
                        \/ (account[<<r, ad>>] = "open" /\ account'[<<r, ad>>] = "released")
    BY <1>0
  <2>3. winner'[r] = winner[r] /\ failedCalls \subseteq failedCalls'
    BY <1>0
  <2> QED BY <2>1, <2>2, <2>3, MoneyKept
<1>8. ContextTrue' /\ EventsTrue' /\ OnlyMoves(r)
  BY <1>0, <1>1, <1>2, <1>3 DEF ContextTrue, EventsTrue, OnlyMoves
<1> QED BY <1>4, <1>5, <1>6, <1>7, <1>8, OthersKeep DEF RequestAt

LEMMA EvaluationFailsKeeps ==
  ASSUME ConstantsAssumption, BidInv, NEW r \in Requests, NEW p \in PlacementsOf(r), EvaluationFails(r, p)
  PROVE  BidInv'
<1>0. /\ p \in PlacementSet /\ step[r][p] \in {"insertOpportunity", "insertDelivery", "updateState"}
      /\ UNCHANGED <<position, winner, shown, logged, opportunity, delivered, context, account, failedCalls, events>>
  BY ScopeTyped DEF EvaluationFails, budget, records
<1>1. BidTypes /\ RequestAt(r) /\ ContextTrue /\ EventsTrue
  BY DEF BidInv
<1>2. /\ step' \in [Requests -> [PlacementSet -> Statements]] /\ step'[r][p] = "failed"
      /\ \A y \in PlacementSet \ {p} : step'[r][y] = step[r][y]
      /\ \A x \in Requests \ {r} : step'[x] = step[x]
  <2>1. step \in [Requests -> [PlacementSet -> Statements]]
    BY <1>1 DEF BidTypes
  <2>2. "failed" \in Statements /\ step' = [step EXCEPT ![r][p] = "failed"]
    BY DEF EvaluationFails, GoOn, Statements
  <2> QED BY <1>0, <2>1, <2>2, UpdateOne
<1>3. /\ stage' \in [Requests -> Stages] /\ stage'[r] \in {stage[r], "no bid"}
      /\ \A x \in Requests \ {r} : stage'[x] = stage[x]
  <2>1. stage \in [Requests -> Stages]
    BY <1>1 DEF BidTypes
  <2>2. PICK v \in {stage[r], "no bid"} : stage' = [stage EXCEPT ![r] = v]
    BY <2>1 DEF EvaluationFails
  <2>3. v \in Stages
    BY <2>1 DEF Stages
  <2>4. stage' \in [Requests -> Stages] /\ stage'[r] = v /\ \A x \in Requests \ {r} : stage'[x] = stage[x]
    BY <2>1, <2>2, <2>3, UpdateRow
  <2> QED BY <2>4
<1>4. BidTypes'
  BY <1>0, <1>1, <1>2, <1>3 DEF BidTypes
<1>5. HandlerAt(r)'
  <2>1. /\ stage[r] \notin {"idle", "logging", "loggingEvent", "answered"} /\ shown[r] = <<>>
        /\ \A y \in PlacementSet : opportunity[r][y] \notin Reported
    BY <1>0, <1>1, Working DEF RequestAt
  <2>2. \A y \in PlacementSet : opportunity'[r][y] \notin Reported
    BY <1>0, <1>2, <1>3, <2>1 DEF Reported
  <2> QED BY <1>0, <1>2, <1>3, <2>1, <2>2, StillWorking
<1>6. ASSUME NEW y \in PlacementSet PROVE EvaluationAt(r, y)'
  <2>1. EvaluationAt(r, y)
    BY <1>1 DEF RequestAt
  <2>2. CASE y = p
    BY <1>0, <1>2, <1>3, <2>1, <2>2 DEF EvaluationAt
  <2>3. CASE y # p
    BY <1>0, <1>2, <1>3, <2>1, <2>3, EvaluationKept DEF SameEvaluation
  <2> QED BY <2>2, <2>3
<1>7. MoneyAt(r)'
  <2>1. winner \in [Requests -> [PlacementSet -> Ads \cup {NoAd}]] /\ MoneyAt(r)
    BY <1>1 DEF BidTypes, RequestAt
  <2>2. \A ad \in Ads : account'[<<r, ad>>] = account[<<r, ad>>]
                        \/ (account[<<r, ad>>] = "open" /\ account'[<<r, ad>>] = "released")
    BY <1>0
  <2>3. winner'[r] = winner[r] /\ failedCalls \subseteq failedCalls'
    BY <1>0
  <2> QED BY <2>1, <2>2, <2>3, MoneyKept
<1>8. ContextTrue' /\ EventsTrue' /\ OnlyMoves(r)
  BY <1>0, <1>1, <1>2, <1>3 DEF ContextTrue, EventsTrue, OnlyMoves
<1> QED BY <1>4, <1>5, <1>6, <1>7, <1>8, OthersKeep DEF RequestAt

(* The selection ends with an ad whose money is set aside, or with none. *)
LEMMA DeliverKeeps ==
  ASSUME ConstantsAssumption, BidInv, NEW r \in Requests, NEW p \in PlacementsOf(r),
         NEW ad \in Ads \cup {NoAd}, step[r][p] = "select", Deliver(r, p, ad),
         account' \in [Requests \X Ads -> {"none", "open", "released"}],
         \A b \in Requests \X Ads :
           account'[b] = account[b] \/ (b = <<r, ad>> /\ account'[b] = "open"),
         ModeOf(r) = "on" /\ ad # NoAd => account'[<<r, ad>>] \in {"open", "released"},
         failedCalls \subseteq failedCalls', failedCalls' \subseteq Requests \X Ads
  PROVE  BidInv'
<1>0. /\ p \in PlacementSet /\ NoAd \notin Ads
      /\ UNCHANGED <<stage, position, shown, logged, opportunity, delivered, events>>
  BY ScopeTyped DEF Deliver, records, ConstantsAssumption
<1>1. BidTypes /\ RequestAt(r) /\ ContextTrue /\ EventsTrue
  BY DEF BidInv
<1>2. /\ winner' \in [Requests -> [PlacementSet -> Ads \cup {NoAd}]] /\ winner'[r][p] = ad
      /\ \A y \in PlacementSet \ {p} : winner'[r][y] = winner[r][y]
      /\ \A x \in Requests \ {r} : winner'[x] = winner[x]
  <2>1. winner \in [Requests -> [PlacementSet -> Ads \cup {NoAd}]]
    BY <1>1 DEF BidTypes
  <2>2. winner' = [winner EXCEPT ![r][p] = ad]
    BY DEF Deliver, GoOn, Statements
  <2> QED BY <1>0, <2>1, <2>2, UpdateOne
<1>3. /\ step' \in [Requests -> [PlacementSet -> Statements]] /\ step'[r][p] = "insertDelivery"
      /\ \A y \in PlacementSet \ {p} : step'[r][y] = step[r][y]
      /\ \A x \in Requests \ {r} : step'[x] = step[x]
  <2>1. step \in [Requests -> [PlacementSet -> Statements]]
    BY <1>1 DEF BidTypes
  <2>2. "insertDelivery" \in Statements /\ step' = [step EXCEPT ![r][p] = "insertDelivery"]
    BY DEF Deliver, GoOn, Statements
  <2> QED BY <1>0, <2>1, <2>2, UpdateOne
<1>4. context' = [context EXCEPT ![InstanceOf[r]][r] = p] /\ InstanceOf[r] \in Instances
  BY ScopeTyped DEF Deliver, Remember
<1>5. ContextTrue' /\ context' \in [Instances -> [Requests -> PlacementSet \cup {None}]]
  <2>1. context \in [Instances -> [Requests -> PlacementSet \cup {None}]]
    BY <1>1 DEF BidTypes
  <2>2. context' \in [Instances -> [Requests -> PlacementSet \cup {None}]]
    BY <1>0, <1>4, <2>1
  <2>3. \A i \in Instances, q \in Requests : context'[i][q] = context[i][q] \/ (q = r /\ context'[i][q] = p)
    BY <1>0, <1>4, <2>1
  <2>4. ASSUME NEW i \in Instances, NEW q \in Requests, context'[i][q] # None
        PROVE  context'[i][q] \in PlacementsOf(q)
    <3>1. context[i][q] # None => context[i][q] \in PlacementsOf(q)
      BY <1>1 DEF ContextTrue
    <3>2. CASE context'[i][q] = context[i][q]
      BY <2>4, <3>1, <3>2
    <3>3. CASE q = r /\ context'[i][q] = p
      BY <3>3
    <3> QED BY <2>3, <3>2, <3>3
  <2> QED BY <2>2, <2>4 DEF ContextTrue
<1>6. BidTypes'
  BY <1>0, <1>1, <1>2, <1>3, <1>5 DEF BidTypes
<1>7. HandlerAt(r)'
  <2>1. /\ stage[r] \notin {"idle", "logging", "loggingEvent", "answered"} /\ shown[r] = <<>>
        /\ \A y \in PlacementSet : opportunity[r][y] \notin Reported
    BY <1>0, <1>1, Working DEF RequestAt
  <2> QED BY <1>0, <2>1, StillWorking
<1>8. winner[r][p] = NoAd
  BY <1>0, <1>1 DEF RequestAt, EvaluationAt
<1>9. ASSUME NEW y \in PlacementSet PROVE EvaluationAt(r, y)'
  <2>1. EvaluationAt(r, y)
    BY <1>1 DEF RequestAt
  <2>2. CASE y = p
    BY <1>3, <2>2 DEF EvaluationAt
  <2>3. CASE y # p
    BY <1>0, <1>2, <1>3, <2>1, <2>3, EvaluationKept DEF SameEvaluation
  <2> QED BY <2>2, <2>3
<1>10. MoneyAt(r)'
  <2>1. ASSUME NEW y \in PlacementSet, ModeOf(r) = "on", winner'[r][y] # NoAd
        PROVE  account'[<<r, winner'[r][y]>>] \in {"open", "released"}
    <3>1. CASE y = p
      BY <1>2, <2>1, <3>1
    <3>2. CASE y # p
      <4>1. winner'[r][y] = winner[r][y] /\ winner[r][y] \in Ads
        BY <1>0, <1>1, <1>2, <2>1, <3>2 DEF BidTypes
      <4>2. account[<<r, winner[r][y]>>] \in {"open", "released"} /\ <<r, winner[r][y]>> \in Requests \X Ads
        BY <1>1, <2>1, <4>1 DEF RequestAt, MoneyAt
      <4> QED BY <4>1, <4>2
    <3> QED BY <3>1, <3>2
  <2>2. ASSUME NEW a \in Ads, account'[<<r, a>>] = "open"
        PROVE  <<r, a>> \in failedCalls' \/ \E y \in PlacementSet : winner'[r][y] = a
    <3>1. <<r, a>> \in Requests \X Ads
      OBVIOUS
    <3>2. CASE a = ad
      BY <1>0, <1>2, <3>2
    <3>3. CASE account[<<r, a>>] = "open"
      <4>1. <<r, a>> \in failedCalls \/ \E y \in PlacementSet : winner[r][y] = a
        BY <1>1, <3>3 DEF RequestAt, MoneyAt
      <4>2. \A y \in PlacementSet : winner[r][y] = a => y # p
        BY <1>0, <1>8
      <4> QED BY <1>2, <4>1, <4>2
    <3> QED BY <2>2, <3>1, <3>2, <3>3
  <2> QED BY <2>1, <2>2 DEF MoneyAt, ModeOf
<1>11. EventsTrue' /\ OnlyMoves(r)
  BY <1>0, <1>1, <1>2, <1>3 DEF EventsTrue, OnlyMoves
<1> QED BY <1>5, <1>6, <1>7, <1>9, <1>10, <1>11, OthersKeep DEF RequestAt

(* Where budgets are enforced a candidate is passed over. *)
LEMMA PassOverKeeps ==
  ASSUME ConstantsAssumption, BidInv, NEW r \in Requests, NEW p \in PlacementsOf(r),
         HasCandidate(r, p), ModeOf(r) = "on", NotReserved(r, p),
         account' \in [Requests \X Ads -> {"none", "open", "released"}],
         \A b \in Requests \X Ads :
           account'[b] = account[b] \/ (b = <<r, Candidate(r, p)>> /\ b \in failedCalls'),
         \A b \in Requests \X Ads : account'[b] = "released" => account[b] = "released",
         \A b \in Requests \X Ads : account[b] \in {"open", "released"} => account'[b] = account[b],
         failedCalls \subseteq failedCalls', failedCalls' \subseteq Requests \X Ads
  PROVE  BidInv'
<1>0. /\ p \in PlacementSet /\ position' = [position EXCEPT ![r][p] = @ + 1]
      /\ UNCHANGED <<stage, step, winner, shown, logged, opportunity, delivered, context, events>>
  BY ScopeTyped DEF NotReserved, records
<1>1. BidTypes /\ RequestAt(r) /\ ContextTrue /\ EventsTrue
  BY DEF BidInv
<1>2. position' \in [Requests -> [PlacementSet -> Nat \ {0}]]
  <2>1. position \in [Requests -> [PlacementSet -> Nat \ {0}]]
    BY <1>1 DEF BidTypes
  <2>2. position[r][p] + 1 \in Nat \ {0}
    BY <1>0, <2>1
  <2> QED BY <1>0, <2>1, <2>2
<1>3. BidTypes'
  BY <1>0, <1>1, <1>2 DEF BidTypes
<1>4. HandlerAt(r)'
  BY <1>0, <1>1 DEF RequestAt, HandlerAt
<1>5. \A y \in PlacementSet : EvaluationAt(r, y)'
  BY <1>0, <1>1, EvaluationKept DEF RequestAt, SameEvaluation
<1>6. MoneyAt(r)'
  <2>1. ASSUME NEW y \in PlacementSet, ModeOf(r) = "on", winner[r][y] # NoAd
        PROVE  account'[<<r, winner[r][y]>>] \in {"open", "released"}
    <3>1. winner[r][y] \in Ads /\ account[<<r, winner[r][y]>>] \in {"open", "released"}
      BY <1>1, <2>1 DEF BidTypes, RequestAt, MoneyAt
    <3>2. <<r, winner[r][y]>> \in Requests \X Ads
      BY <3>1
    <3> QED BY <3>1, <3>2
  <2>2. ASSUME NEW a \in Ads, account'[<<r, a>>] = "open"
        PROVE  <<r, a>> \in failedCalls' \/ \E y \in PlacementSet : winner[r][y] = a
    <3>1. <<r, a>> \in Requests \X Ads
      OBVIOUS
    <3>2. account[<<r, a>>] = "open" \/ <<r, a>> \in failedCalls'
      BY <2>2, <3>1
    <3> QED BY <1>1, <3>2 DEF RequestAt, MoneyAt
  <2> QED BY <1>0, <2>1, <2>2 DEF MoneyAt, ModeOf
<1>7. ContextTrue' /\ EventsTrue' /\ OnlyMoves(r)
  BY <1>0, <1>1 DEF ContextTrue, EventsTrue, OnlyMoves
<1> QED BY <1>3, <1>4, <1>5, <1>6, <1>7, OthersKeep DEF RequestAt

LEMMA SelectKeeps ==
  ASSUME ConstantsAssumption, BidInv, NEW r \in Requests, NEW p \in PlacementsOf(r), Select(r, p)
  PROVE  BidInv'
<1> DEFINE ad == Candidate(r, p)
           b == <<r, ad>>
<1>1. /\ p \in PlacementSet /\ step[r][p] = "select" /\ NoAd \notin Ads
      /\ account \in [Requests \X Ads -> {"none", "open", "released"}]
      /\ failedCalls \subseteq Requests \X Ads
  BY ScopeTyped DEF Select, NoWinner, TakeWithoutBudget, Reserved, Refused, ReservedWithError,
                    HasCandidate, BidInv, BidTypes, ConstantsAssumption
<1>2. HasCandidate(r, p) => ad \in Ads /\ ad # NoAd /\ b \in Requests \X Ads
  BY <1>1, CandidateTyped DEF BidInv
<1>3. CASE NoWinner(r, p)
  <2>1. Deliver(r, p, NoAd) /\ UNCHANGED <<account, failedCalls>>
    BY <1>3 DEF NoWinner, budget
  <2> QED BY <1>1, <2>1, DeliverKeeps
<1>4. CASE TakeWithoutBudget(r, p)
  <2>1. Deliver(r, p, ad) /\ UNCHANGED <<account, failedCalls>> /\ ModeOf(r) = "off" /\ HasCandidate(r, p)
    BY <1>4 DEF TakeWithoutBudget, budget
  <2> HIDE DEF ad
  <2> QED BY <1>1, <1>2, <2>1, DeliverKeeps
<1>5. ASSUME Budget!Open(b), HasCandidate(r, p)
      PROVE  /\ account' \in [Requests \X Ads -> {"none", "open", "released"}]
             /\ account[b] = "none" /\ account'[b] = "open"
             /\ \A d \in Requests \X Ads : d # b => account'[d] = account[d]
  <2>1. account[b] = "none" /\ account' = [account EXCEPT ![b] = "open"]
    BY <1>5 DEF Budget!Open
  <2> HIDE DEF b
  <2> QED BY <1>1, <1>2, <1>5, <2>1
<1>6. CASE Reserved(r, p)
  <2>1. /\ HasCandidate(r, p) /\ Deliver(r, p, ad) /\ failedCalls' = failedCalls
        /\ Budget!Open(b) \/ (account[b] = "open" /\ account' = account)
    BY <1>6 DEF Reserved
  <2>2. /\ account' \in [Requests \X Ads -> {"none", "open", "released"}] /\ account'[b] = "open"
        /\ \A d \in Requests \X Ads : account'[d] = account[d] \/ (d = b /\ account'[d] = "open")
    BY <1>1, <1>5, <2>1
  <2> HIDE DEF ad
  <2> QED BY <1>1, <1>2, <2>1, <2>2, DeliverKeeps
<1>7. CASE Refused(r, p)
  <2>1. HasCandidate(r, p) /\ NotReserved(r, p) /\ UNCHANGED <<account, failedCalls>>
    BY <1>7 DEF Refused, budget
  <2>2. CASE ModeOf(r) = "on"
    BY <1>1, <2>1, <2>2, PassOverKeeps
  <2>3. CASE ModeOf(r) # "on"
    <3>1. Deliver(r, p, ad)
      BY <2>1, <2>3 DEF NotReserved
    <3> HIDE DEF ad
    <3> QED BY <1>1, <1>2, <2>1, <2>3, <3>1, DeliverKeeps
  <2> QED BY <2>2, <2>3
<1>8. CASE ReservedWithError(r, p)
  <2>1. HasCandidate(r, p) /\ NotReserved(r, p) /\ Budget!Open(b) /\ failedCalls' = failedCalls \cup {b}
    BY <1>8 DEF ReservedWithError
  <2>2. /\ account' \in [Requests \X Ads -> {"none", "open", "released"}]
        /\ account[b] = "none" /\ account'[b] = "open" /\ b \in Requests \X Ads
        /\ \A d \in Requests \X Ads : d # b => account'[d] = account[d]
    BY <1>2, <1>5, <2>1
  <2>3. failedCalls \subseteq failedCalls' /\ failedCalls' \subseteq Requests \X Ads /\ b \in failedCalls'
    BY <1>1, <2>1, <2>2
  <2>4. CASE ModeOf(r) = "on"
    <3>1. /\ \A d \in Requests \X Ads : account'[d] = account[d] \/ (d = b /\ d \in failedCalls')
          /\ \A d \in Requests \X Ads : account'[d] = "released" => account[d] = "released"
          /\ \A d \in Requests \X Ads : account[d] \in {"open", "released"} => account'[d] = account[d]
      BY <2>2, <2>3
    <3> QED BY <2>1, <2>2, <2>3, <2>4, <3>1, PassOverKeeps
  <2>5. CASE ModeOf(r) # "on"
    <3>1. Deliver(r, p, ad)
      BY <2>1, <2>5 DEF NotReserved
    <3>2. \A d \in Requests \X Ads : account'[d] = account[d] \/ (d = b /\ account'[d] = "open")
      BY <2>2
    <3> HIDE DEF ad
    <3> QED BY <1>1, <1>2, <2>1, <2>2, <2>3, <2>5, <3>1, <3>2, DeliverKeeps
  <2> QED BY <2>4, <2>5
<1> QED BY <1>3, <1>4, <1>6, <1>7, <1>8 DEF Select

LEMMA AuctionKeeps ==
  ASSUME ConstantsAssumption, BidInv, NEW r \in Requests, Auction(r)
  PROVE  BidInv'
<1>0. /\ stage[r] = "evaluating" /\ \A p \in PlacementsOf(r) : step[r][p] = "done"
      /\ UNCHANGED <<step, position, winner, shown, opportunity, delivered, context, account, failedCalls, events>>
  BY DEF Auction, records, budget
<1>1. BidTypes /\ RequestAt(r) /\ ContextTrue /\ EventsTrue
  BY DEF BidInv
<1>2. /\ stage' \in [Requests -> Stages] /\ stage'[r] = "logging"
      /\ \A x \in Requests \ {r} : stage'[x] = stage[x]
  <2>1. stage \in [Requests -> Stages] /\ "logging" \in Stages /\ stage' = [stage EXCEPT ![r] = "logging"]
    BY <1>1 DEF BidTypes, Auction, Stages
  <2> QED BY <2>1, UpdateRow
<1>3. logged' = logged
  BY DEF Auction, records
<1>4. BidTypes'
  BY <1>0, <1>1, <1>2, <1>3 DEF BidTypes
<1>5. HandlerAt(r)'
  BY <1>0, <1>1, <1>2, <1>3 DEF RequestAt, HandlerAt
<1>6. \A y \in PlacementSet : EvaluationAt(r, y)'
  BY <1>0, <1>1, EvaluationKept DEF RequestAt, SameEvaluation
<1>7. MoneyAt(r)'
  BY <1>0, <1>1 DEF RequestAt, MoneyAt, ModeOf
<1>8. ContextTrue' /\ EventsTrue' /\ OnlyMoves(r)
  BY <1>0, <1>1, <1>2, <1>3 DEF ContextTrue, EventsTrue, OnlyMoves
<1> QED BY <1>4, <1>5, <1>6, <1>7, <1>8, OthersKeep DEF RequestAt

LEMMA LogDecisionKeeps ==
  ASSUME ConstantsAssumption, BidInv, NEW r \in Requests, LogDecision(r)
  PROVE  BidInv'
<1>0. /\ stage[r] = "logging"
      /\ UNCHANGED <<step, position, winner, shown, opportunity, delivered, context, account, failedCalls, events>>
  BY DEF LogDecision, records, budget
<1>1. BidTypes /\ RequestAt(r) /\ ContextTrue /\ EventsTrue
  BY DEF BidInv
<1>2. /\ stage' \in [Requests -> Stages] /\ stage'[r] = "loggingEvent"
      /\ \A x \in Requests \ {r} : stage'[x] = stage[x]
  <2>1. stage \in [Requests -> Stages] /\ "loggingEvent" \in Stages /\ stage' = [stage EXCEPT ![r] = "loggingEvent"]
    BY <1>1 DEF BidTypes, LogDecision, Stages
  <2> QED BY <2>1, UpdateRow
<1>3. logged' = logged \cup {r}
  BY DEF LogDecision, records
<1>4. BidTypes'
  BY <1>0, <1>1, <1>2, <1>3 DEF BidTypes
<1>5. HandlerAt(r)'
  BY <1>0, <1>1, <1>2, <1>3 DEF RequestAt, HandlerAt
<1>6. \A y \in PlacementSet : EvaluationAt(r, y)'
  BY <1>0, <1>1, EvaluationKept DEF RequestAt, SameEvaluation
<1>7. MoneyAt(r)'
  BY <1>0, <1>1 DEF RequestAt, MoneyAt, ModeOf
<1>8. ContextTrue' /\ EventsTrue' /\ OnlyMoves(r)
  BY <1>0, <1>1, <1>2, <1>3 DEF ContextTrue, EventsTrue, OnlyMoves
<1> QED BY <1>4, <1>5, <1>6, <1>7, <1>8, OthersKeep DEF RequestAt

LEMMA LogFailsKeeps ==
  ASSUME ConstantsAssumption, BidInv, NEW r \in Requests, LogFails(r)
  PROVE  BidInv'
<1>0. /\ stage[r] \in {"logging", "loggingEvent"}
      /\ UNCHANGED <<step, position, winner, shown, opportunity, delivered, context, account, failedCalls, events>>
  BY DEF LogFails, records, budget
<1>1. BidTypes /\ RequestAt(r) /\ ContextTrue /\ EventsTrue
  BY DEF BidInv
<1>2. /\ stage' \in [Requests -> Stages] /\ stage'[r] = "no bid"
      /\ \A x \in Requests \ {r} : stage'[x] = stage[x]
  <2>1. stage \in [Requests -> Stages] /\ "no bid" \in Stages /\ stage' = [stage EXCEPT ![r] = "no bid"]
    BY <1>1 DEF BidTypes, LogFails, Stages
  <2> QED BY <2>1, UpdateRow
<1>3. logged' = logged
  BY DEF LogFails, records
<1>4. BidTypes'
  BY <1>0, <1>1, <1>2, <1>3 DEF BidTypes
<1>5. HandlerAt(r)'
  BY <1>0, <1>1, <1>2, <1>3 DEF RequestAt, HandlerAt
<1>6. \A y \in PlacementSet : EvaluationAt(r, y)'
  BY <1>0, <1>1, EvaluationKept DEF RequestAt, SameEvaluation
<1>7. MoneyAt(r)'
  BY <1>0, <1>1 DEF RequestAt, MoneyAt, ModeOf
<1>8. ContextTrue' /\ EventsTrue' /\ OnlyMoves(r)
  BY <1>0, <1>1, <1>2, <1>3 DEF ContextTrue, EventsTrue, OnlyMoves
<1> QED BY <1>4, <1>5, <1>6, <1>7, <1>8, OthersKeep DEF RequestAt

LEMMA ReceiveKeeps ==
  ASSUME ConstantsAssumption, BidInv, NEW r \in Requests, Receive(r)
  PROVE  BidInv'
<1>0. /\ stage[r] = "idle"
      /\ UNCHANGED <<position, winner, shown, logged, opportunity, delivered, account, failedCalls, events>>
  BY DEF Receive, records, budget
<1>1. BidTypes /\ RequestAt(r) /\ ContextTrue /\ EventsTrue
  BY DEF BidInv
<1>2. /\ stage' \in [Requests -> Stages] /\ stage'[r] = "evaluating"
      /\ \A x \in Requests \ {r} : stage'[x] = stage[x]
  <2>1. stage \in [Requests -> Stages] /\ "evaluating" \in Stages /\ stage' = [stage EXCEPT ![r] = "evaluating"]
    BY <1>1 DEF BidTypes, Receive, Stages
  <2> QED BY <2>1, UpdateRow
<1>3. /\ step' \in [Requests -> [PlacementSet -> Statements]]
      /\ \A y \in PlacementSet : step'[r][y] \in {"insertOpportunity", "none"}
      /\ \A x \in Requests \ {r} : step'[x] = step[x]
  <2>1. step \in [Requests -> [PlacementSet -> Statements]]
    BY <1>1 DEF BidTypes
  <2>2. PICK f : f = [p \in PlacementSet |-> IF p \in PlacementsOf(r) THEN "insertOpportunity" ELSE "none"]
    OBVIOUS
  <2>3. f \in [PlacementSet -> Statements] /\ \A y \in PlacementSet : f[y] \in {"insertOpportunity", "none"}
    BY <2>2 DEF Statements
  <2>4. step' = [step EXCEPT ![r] = f]
    BY <2>2 DEF Receive
  <2>5. step' \in [Requests -> [PlacementSet -> Statements]] /\ step'[r] = f /\ \A x \in Requests \ {r} : step'[x] = step[x]
    BY <2>1, <2>3, <2>4, UpdateRow
  <2> QED BY <2>3, <2>5
<1>4. /\ context' \in [Instances -> [Requests -> PlacementSet \cup {None}]]
      /\ ContextTrue'
  <2> DEFINE p == Scope[r][Len(Scope[r])]
  <2>1. context' = [context EXCEPT ![InstanceOf[r]][r] = p] /\ InstanceOf[r] \in Instances
    BY ScopeTyped DEF Receive, Remember
  <2>2. context \in [Instances -> [Requests -> PlacementSet \cup {None}]]
    BY <1>1 DEF BidTypes
  <2>3. p \in PlacementsOf(r) /\ p \in PlacementSet
    BY ScopeTyped
  <2> HIDE DEF p
  <2>4. context' \in [Instances -> [Requests -> PlacementSet \cup {None}]]
    BY <2>1, <2>2, <2>3
  <2>5. \A i \in Instances, q \in Requests : context'[i][q] = context[i][q] \/ (q = r /\ context'[i][q] = p)
    BY <2>1, <2>2, <2>3
  <2>6. ASSUME NEW i \in Instances, NEW q \in Requests, context'[i][q] # None
        PROVE  context'[i][q] \in PlacementsOf(q)
    <3>1. context[i][q] # None => context[i][q] \in PlacementsOf(q)
      BY <1>1 DEF ContextTrue
    <3>2. CASE context'[i][q] = context[i][q]
      BY <2>6, <3>1, <3>2
    <3>3. CASE q = r /\ context'[i][q] = p
      BY <2>3, <3>3
    <3> QED BY <2>5, <3>2, <3>3
  <2> QED BY <2>4, <2>6 DEF ContextTrue
<1>5. BidTypes'
  BY <1>0, <1>1, <1>2, <1>3, <1>4 DEF BidTypes
<1>6. HandlerAt(r)'
  <2>1. shown[r] = <<>> /\ \A y \in PlacementSet : opportunity[r][y] \notin Reported
    BY <1>0, <1>1 DEF RequestAt, HandlerAt
  <2> QED BY <1>0, <1>2, <2>1, StillWorking
<1>7. ASSUME NEW y \in PlacementSet PROVE EvaluationAt(r, y)'
  <2>1. winner[r][y] = NoAd
    BY <1>0, <1>1 DEF RequestAt, HandlerAt, EvaluationAt
  <2> QED BY <1>0, <1>3, <2>1 DEF EvaluationAt
<1>8. MoneyAt(r)'
  BY <1>0, <1>1 DEF RequestAt, MoneyAt, ModeOf
<1>9. EventsTrue' /\ OnlyMoves(r)
  BY <1>0, <1>1, <1>2, <1>3 DEF EventsTrue, OnlyMoves
<1> QED BY <1>4, <1>5, <1>6, <1>7, <1>8, <1>9, OthersKeep DEF RequestAt

LEMMA AnswerKeeps ==
  ASSUME ConstantsAssumption, BidInv, NEW r \in Requests, Answer(r)
  PROVE  BidInv'
<1>0. /\ stage[r] = "loggingEvent"
      /\ UNCHANGED <<step, position, winner, logged, opportunity, delivered, context, account, failedCalls, events>>
  BY DEF Answer, records, budget
<1>1. BidTypes /\ RequestAt(r) /\ ContextTrue /\ EventsTrue
  BY DEF BidInv
<1>2. /\ stage' \in [Requests -> Stages] /\ stage'[r] = "answered"
      /\ \A x \in Requests \ {r} : stage'[x] = stage[x]
  <2>1. stage \in [Requests -> Stages] /\ "answered" \in Stages /\ stage' = [stage EXCEPT ![r] = "answered"]
    BY <1>1 DEF BidTypes, Answer, Stages
  <2> QED BY <2>1, UpdateRow
<1>3. Choice(r) = <<>> \/ \E p \in PlacementsOf(r) : p \in PlacementSet /\ winner[r][p] \in Ads
                                                     /\ Choice(r) = <<p, winner[r][p]>>
  <2>1. CASE Served(r) = {}
    BY <2>1 DEF Choice
  <2>2. CASE Served(r) # {}
    <3>1. Winner(r) \in Served(r) /\ Choice(r) = <<Winner(r), winner[r][Winner(r)]>>
      BY <1>1, <2>2, OneWins
    <3>2. Winner(r) \in PlacementsOf(r) /\ winner[r][Winner(r)] # NoAd /\ Winner(r) \in PlacementSet
      BY <3>1, ScopeTyped DEF Served
    <3>3. winner[r][Winner(r)] \in Ads
      BY <1>1, <3>2 DEF BidTypes
    <3> QED BY <3>1, <3>2, <3>3
  <2> QED BY <2>1, <2>2
<1>4. /\ shown' \in [Requests -> {<<>>} \cup PlacementSet \X Ads] /\ shown'[r] = Choice(r)
      /\ \A x \in Requests \ {r} : shown'[x] = shown[x]
  <2>1. shown \in [Requests -> {<<>>} \cup PlacementSet \X Ads] /\ shown' = [shown EXCEPT ![r] = Choice(r)]
    BY <1>1 DEF BidTypes, Answer
  <2>2. Choice(r) \in {<<>>} \cup PlacementSet \X Ads
    BY <1>3
  <2> QED BY <2>1, <2>2, UpdateRow
<1>5. BidTypes'
  BY <1>0, <1>1, <1>2, <1>4 DEF BidTypes
<1>6. HandlerAt(r)'
  <2>1. HandlerAt(r) /\ shown[r] = <<>> /\ \A y \in PlacementSet : opportunity[r][y] \notin Reported
    BY <1>0, <1>1 DEF RequestAt, HandlerAt
  <2>2. (\A p \in PlacementsOf(r) : step[r][p] = "done") /\ r \in logged
    BY <1>0, <2>1 DEF HandlerAt
  <2>3. shown'[r] # <<>> => \E p \in PlacementsOf(r) : winner[r][p] # NoAd /\ shown'[r] = <<p, winner[r][p]>>
    BY <1>3, <1>4 DEF ConstantsAssumption
  <2> QED BY <1>0, <1>2, <2>1, <2>2, <2>3 DEF HandlerAt
<1>7. \A y \in PlacementSet : EvaluationAt(r, y)'
  BY <1>0, <1>1, EvaluationKept DEF RequestAt, SameEvaluation
<1>8. MoneyAt(r)'
  BY <1>0, <1>1 DEF RequestAt, MoneyAt, ModeOf
<1>9. EventsTrue'
  <2>1. \A n \in DOMAIN events : events[n].request \in Requests
    BY <1>1, ReportTyped
  <2>2. shown[r] = <<>>
    BY <1>0, <1>1 DEF RequestAt, HandlerAt
  <2>3. \A n \in DOMAIN events : events[n].request \in Requests \ {r}
    BY <1>1, <2>1, <2>2 DEF EventsTrue
  <2> QED BY <1>0, <1>1, <1>4, <2>3 DEF EventsTrue
<1>10. ContextTrue' /\ OnlyMoves(r)
  BY <1>0, <1>1, <1>2, <1>4 DEF ContextTrue, OnlyMoves
<1> QED BY <1>5, <1>6, <1>7, <1>8, <1>9, <1>10, OthersKeep DEF RequestAt

LEMMA ExpireKeeps ==
  ASSUME ConstantsAssumption, BidInv, NEW r \in Requests, Expire(r)
  PROVE  BidInv'
<1> DEFINE open == {b \in {r} \X Ads : account[b] = "open"}
<1>0. /\ UNCHANGED <<stage, step, position, winner, shown, logged, opportunity, delivered, context, failedCalls, events>>
      /\ account' = [b \in Requests \X Ads |-> IF b \in open THEN "released" ELSE account[b]]
  BY DEF Expire, handlers, records, Budget!Release
<1>1. BidTypes /\ RequestAt(r) /\ ContextTrue /\ EventsTrue
  BY DEF BidInv
<1>2. account' \in [Requests \X Ads -> {"none", "open", "released"}]
  BY <1>0, <1>1 DEF BidTypes
<1>3. \A ad \in Ads : \/ account'[<<r, ad>>] = account[<<r, ad>>]
                      \/ (account[<<r, ad>>] = "open" /\ account'[<<r, ad>>] = "released")
  BY <1>0
<1>4. \A x \in Requests \ {r} : \A ad \in Ads : account'[<<x, ad>>] = account[<<x, ad>>]
  BY <1>0
<1>5. BidTypes'
  BY <1>0, <1>1, <1>2 DEF BidTypes
<1>6. HandlerAt(r)'
  BY <1>0, <1>1 DEF RequestAt, HandlerAt
<1>7. \A y \in PlacementSet : EvaluationAt(r, y)'
  BY <1>0, <1>1, EvaluationKept DEF RequestAt, SameEvaluation
<1>8. MoneyAt(r)'
  <2>1. winner \in [Requests -> [PlacementSet -> Ads \cup {NoAd}]] /\ MoneyAt(r)
    BY <1>1 DEF BidTypes, RequestAt
  <2>2. winner'[r] = winner[r] /\ failedCalls \subseteq failedCalls'
    BY <1>0
  <2> QED BY <1>3, <2>1, <2>2, MoneyKept
<1>9. ContextTrue' /\ EventsTrue' /\ OnlyMoves(r)
  BY <1>0, <1>1, <1>4 DEF ContextTrue, EventsTrue, OnlyMoves
<1> QED BY <1>5, <1>6, <1>7, <1>8, <1>9, OthersKeep DEF RequestAt

LEMMA CrashKeeps ==
  ASSUME ConstantsAssumption, BidInv, NEW i \in Instances, Crash(i)
  PROVE  BidInv'
<1> DEFINE Over(r) == stage[r] \in {"idle", "answered", "no bid", "lost"}
           Dies(r) == InstanceOf[r] = i
<1>0. UNCHANGED <<position, winner, shown, logged, opportunity, delivered, account, failedCalls, events>>
  BY DEF Crash, records, budget
<1>1. BidTypes /\ (\A r \in Requests : RequestAt(r)) /\ ContextTrue /\ EventsTrue
  BY DEF BidInv
<1>2. /\ stage \in [Requests -> Stages] /\ step \in [Requests -> [PlacementSet -> Statements]]
      /\ context \in [Instances -> [Requests -> PlacementSet \cup {None}]]
  BY <1>1 DEF BidTypes
<1>3. /\ stage' \in [Requests -> Stages]
      /\ \A r \in Requests : stage'[r] = IF Dies(r) /\ ~Over(r) THEN "lost" ELSE stage[r]
  <2>1. stage' = [r \in Requests |-> IF Dies(r) /\ ~Over(r) THEN "lost" ELSE stage[r]]
    BY DEF Crash
  <2>2. "lost" \in Stages
    BY DEF Stages
  <2> QED BY <1>2, <2>1, <2>2
<1>4. /\ step' \in [Requests -> [PlacementSet -> Statements]]
      /\ \A r \in Requests, p \in PlacementSet :
           step'[r][p] = IF Dies(r) /\ stage[r] # "idle" /\ step[r][p] \notin {"none", "done"}
                         THEN "failed" ELSE step[r][p]
  <2>1. step' = [r \in Requests |-> IF Dies(r) /\ stage[r] # "idle"
                   THEN [p \in PlacementSet |-> IF step[r][p] \in {"none", "done"} THEN step[r][p] ELSE "failed"]
                   ELSE step[r]]
    BY DEF Crash
  <2>2. "failed" \in Statements
    BY DEF Statements
  <2>3. ASSUME NEW r \in Requests
        PROVE  /\ step'[r] \in [PlacementSet -> Statements]
               /\ \A p \in PlacementSet :
                    step'[r][p] = IF Dies(r) /\ stage[r] # "idle" /\ step[r][p] \notin {"none", "done"}
                                  THEN "failed" ELSE step[r][p]
    <3>1. CASE Dies(r) /\ stage[r] # "idle"
      <4>1. step'[r] = [p \in PlacementSet |-> IF step[r][p] \in {"none", "done"} THEN step[r][p] ELSE "failed"]
        BY <2>1, <3>1
      <4> QED BY <1>2, <2>2, <3>1, <4>1
    <3>2. CASE ~ (Dies(r) /\ stage[r] # "idle")
      BY <1>2, <2>1, <3>2
    <3> QED BY <3>1, <3>2
  <2> QED BY <2>1, <2>3
<1>5. /\ context' \in [Instances -> [Requests -> PlacementSet \cup {None}]]
      /\ \A j \in Instances, r \in Requests : context'[j][r] \in {context[j][r], None}
  BY <1>2 DEF Crash
<1>6. BidTypes'
  BY <1>0, <1>1, <1>3, <1>4, <1>5 DEF BidTypes
<1>7. ASSUME NEW r \in Requests PROVE RequestAt(r)'
  <2>1. HandlerAt(r) /\ MoneyAt(r) /\ \A p \in PlacementSet : EvaluationAt(r, p)
    BY <1>1 DEF RequestAt
  <2>2. /\ stage'[r] \in {stage[r], "lost"}
        /\ stage[r] = "idle" => \A p \in PlacementSet : step'[r][p] = step[r][p]
        /\ \A p \in PlacementSet : step'[r][p] = step[r][p] \/ (step'[r][p] = "failed" /\ step[r][p] \notin {"none", "done"})
        /\ stage[r] = "answered" => stage'[r] = "answered"
    <3>1. stage'[r] \in {stage[r], "lost"}
      BY <1>3
    <3>2. stage[r] = "answered" => stage'[r] = "answered"
      BY <1>3
    <3>3. stage[r] = "idle" => \A p \in PlacementSet : step'[r][p] = step[r][p]
      BY <1>4
    <3>4. ASSUME NEW p \in PlacementSet, step'[r][p] # step[r][p]
          PROVE  step'[r][p] = "failed" /\ step[r][p] \notin {"none", "done"}
      BY <1>4, <3>4
    <3> QED BY <3>1, <3>2, <3>3, <3>4
  <2>3. PlacementsOf(r) \subseteq PlacementSet
    BY ScopeTyped
  <2>4. HandlerAt(r)'
    BY <1>0, <2>1, <2>2, <2>3 DEF HandlerAt
  <2>5. ASSUME NEW p \in PlacementSet PROVE EvaluationAt(r, p)'
    <3>1. EvaluationAt(r, p)
      BY <2>1
    <3>2. CASE step'[r][p] = step[r][p]
      BY <1>0, <3>1, <3>2 DEF EvaluationAt
    <3>3. CASE step'[r][p] = "failed"
      BY <3>3 DEF EvaluationAt
    <3> QED BY <2>2, <3>2, <3>3
  <2>6. MoneyAt(r)'
    BY <1>0, <2>1 DEF MoneyAt, ModeOf
  <2> QED BY <2>4, <2>5, <2>6 DEF RequestAt
<1>8. ContextTrue'
  BY <1>1, <1>5 DEF ContextTrue
<1>9. EventsTrue'
  BY <1>0, <1>1 DEF EventsTrue
<1> QED BY <1>6, <1>7, <1>8, <1>9 DEF BidInv

LEMMA StoreEventKeeps ==
  ASSUME ConstantsAssumption, BidInv, NEW i \in Instances, NEW r \in Requests, NEW kind \in EventKinds,
         StoreEvent(i, r, kind)
  PROVE  BidInv'
<1> DEFINE e == [request |-> r, kind |-> kind, target |-> context[i][r], applied |-> FALSE]
<1>0. /\ shown[r] # <<>> /\ events' = Append(events, e)
      /\ UNCHANGED <<stage, step, position, winner, shown, logged, opportunity, delivered, context, account, failedCalls>>
  BY DEF StoreEvent, Resolve, handlers, records, budget
<1>1. BidTypes /\ (\A x \in Requests : RequestAt(x)) /\ ContextTrue /\ EventsTrue
  BY DEF BidInv
<1>2. events \in Seq(Reports) /\ context[i][r] \in PlacementSet \cup {None}
  BY <1>1 DEF BidTypes
<1>3. e \in Reports
  BY <1>2 DEF Reports
<1>4. /\ events' \in Seq(Reports)
      /\ \A n \in DOMAIN events' : events'[n] = e \/ (n \in DOMAIN events /\ events'[n] = events[n])
  <2> HIDE DEF e
  <2> QED BY <1>0, <1>2, <1>3
<1>5. BidTypes'
  BY <1>0, <1>1, <1>4 DEF BidTypes
<1>6. \A x \in Requests : RequestAt(x)'
  <2> SUFFICES ASSUME NEW x \in Requests PROVE RequestAt(x)'
    OBVIOUS
  <2>1. HandlerAt(x) /\ MoneyAt(x) /\ \A p \in PlacementSet : EvaluationAt(x, p)
    BY <1>1 DEF RequestAt
  <2> QED BY <1>0, <2>1 DEF RequestAt, HandlerAt, MoneyAt, EvaluationAt, ModeOf
<1>7. ContextTrue'
  BY <1>0, <1>1 DEF ContextTrue
<1>8. EventsTrue'
  <2> SUFFICES ASSUME NEW n \in DOMAIN events'
               PROVE  /\ shown'[events'[n].request] # <<>>
                      /\ events'[n].target # None => events'[n].target \in PlacementsOf(events'[n].request)
    BY DEF EventsTrue
  <2>1. CASE events'[n] = e
    BY <1>0, <1>1, <2>1 DEF ContextTrue
  <2>2. CASE n \in DOMAIN events /\ events'[n] = events[n]
    BY <1>0, <1>1, <2>2 DEF EventsTrue
  <2> QED BY <1>4, <2>1, <2>2
<1> QED BY <1>5, <1>6, <1>7, <1>8 DEF BidInv

LEMMA ApplyEventKeeps ==
  ASSUME ConstantsAssumption, BidInv, NEW n \in DOMAIN events, ApplyEvent(n)
  PROVE  /\ BidInv'
         /\ \A x \in Requests, y \in PlacementSet : opportunity[x][y] \in Reported => opportunity'[x][y] \in Reported
<1>1. BidTypes /\ ContextTrue /\ EventsTrue
  BY DEF BidInv
<1>2. events \in Seq(Reports) /\ n \in 1 .. Len(events) /\ events[n] \in Reports
  BY <1>1, ReportTyped DEF BidTypes
<1>3. PICK r \in Requests, p \in PlacementSet :
        r = events[n].request /\ p = events[n].target /\ p \in PlacementsOf(r) /\ shown[r] # <<>>
  <2>1. events[n].target # None /\ events[n].target \in PlacementSet \cup {None} /\ events[n].request \in Requests
    BY <1>1, ReportTyped DEF ApplyEvent
  <2> QED BY <1>1, <2>1 DEF EventsTrue
<1>4. UNCHANGED <<stage, step, position, winner, shown, logged, delivered, context, account, failedCalls>>
  BY DEF ApplyEvent, handlers, budget
<1>5. PICK state \in Reported : opportunity' = [opportunity EXCEPT ![r][p] = state]
  BY <1>3 DEF ApplyEvent, StateOf, Reported
<1>6. /\ opportunity' \in [Requests -> [PlacementSet -> States]] /\ opportunity'[r][p] \in Reported
      /\ \A y \in PlacementSet \ {p} : opportunity'[r][y] = opportunity[r][y]
      /\ \A x \in Requests \ {r} : opportunity'[x] = opportunity[x]
  <2>1. opportunity \in [Requests -> [PlacementSet -> States]] /\ state \in States
    BY <1>1 DEF BidTypes, States
  <2> QED BY <1>5, <2>1, UpdateOne
<1>7. /\ events' \in Seq(Reports) /\ DOMAIN events' = DOMAIN events
      /\ \A m \in DOMAIN events : events'[m].request = events[m].request /\ events'[m].target = events[m].target
  <2>1. events' = [events EXCEPT ![n] = [events[n] EXCEPT !.applied = TRUE]]
    BY DEF ApplyEvent
  <2>3. PICK e : e = [events[n] EXCEPT !.applied = TRUE]
    OBVIOUS
  <2>4. e \in Reports /\ e.request = events[n].request /\ e.target = events[n].target
    BY <1>2, <2>3 DEF Reports
  <2>5. events' = [events EXCEPT ![n] = e]
    BY <2>1, <2>3
  <2>6. events' \in Seq(Reports) /\ DOMAIN events' = DOMAIN events /\ \A m \in DOMAIN events : events'[m] = IF m = n THEN e ELSE events[m]
    BY <1>2, <2>4, <2>5
  <2> QED BY <2>4, <2>6
<1>8. BidTypes'
  BY <1>1, <1>4, <1>6, <1>7 DEF BidTypes
<1>9. RequestAt(r)'
  <2>1. HandlerAt(r) /\ MoneyAt(r) /\ \A y \in PlacementSet : EvaluationAt(r, y)
    BY DEF BidInv, RequestAt
  <2>2. HandlerAt(r)'
    BY <1>3, <1>4, <2>1 DEF HandlerAt
  <2>3. MoneyAt(r)'
    BY <1>4, <2>1 DEF MoneyAt, ModeOf
  <2>4. ASSUME NEW y \in PlacementSet PROVE EvaluationAt(r, y)'
    <3>1. EvaluationAt(r, y)
      BY <2>1
    <3>2. CASE y = p
      BY <1>4, <1>6, <3>1, <3>2 DEF EvaluationAt, Reported
    <3>3. CASE y # p
      BY <1>4, <1>6, <3>1, <3>3 DEF EvaluationAt
    <3> QED BY <3>2, <3>3
  <2> QED BY <2>2, <2>3, <2>4 DEF RequestAt
<1>10. ContextTrue' /\ EventsTrue' /\ OnlyMoves(r)
  BY <1>1, <1>4, <1>6, <1>7 DEF ContextTrue, EventsTrue, OnlyMoves
<1>11. BidInv'
  BY <1>8, <1>9, <1>10, OthersKeep
<1>12. \A x \in Requests, y \in PlacementSet : opportunity[x][y] \in Reported => opportunity'[x][y] \in Reported
  BY <1>6
<1> QED BY <1>11, <1>12

----------------------------------------------------------------------------
(* The theorems *)

LEMMA BidStarts == ConstantsAssumption /\ Init => BidInv
<1> SUFFICES ASSUME ConstantsAssumption, Init PROVE BidInv
  OBVIOUS
<1>1. BidTypes
  BY DEF Init, BidTypes, Budget!Init, Stages, Statements, States
<1>2. \A r \in Requests : RequestAt(r)
  <2> SUFFICES ASSUME NEW r \in Requests PROVE RequestAt(r)
    OBVIOUS
  <2>1. HandlerAt(r)
    BY DEF Init, HandlerAt, Reported
  <2>2. MoneyAt(r)
    BY DEF Init, MoneyAt, Budget!Init
  <2>3. \A p \in PlacementSet : EvaluationAt(r, p)
    BY DEF Init, EvaluationAt
  <2> QED BY <2>1, <2>2, <2>3 DEF RequestAt
<1>3. ContextTrue /\ EventsTrue
  BY DEF Init, ContextTrue, EventsTrue
<1> QED BY <1>1, <1>2, <1>3 DEF BidInv

LEMMA BidStep == ConstantsAssumption /\ BidInv /\ [Next]_vars => BidInv'
<1> SUFFICES ASSUME ConstantsAssumption, BidInv, [Next]_vars PROVE BidInv'
  OBVIOUS
<1>1. ASSUME NEW r \in Requests, Receive(r) \/ RequestStep(r) \/ Expire(r) PROVE BidInv'
  <2>1. CASE Receive(r)
    BY <2>1, ReceiveKeeps
  <2>2. CASE Expire(r)
    BY <2>2, ExpireKeeps
  <2>3. CASE \E p \in PlacementsOf(r) :
               \/ InsertOpportunity(r, p) \/ Select(r, p) \/ InsertDelivery(r, p)
               \/ UpdateState(r, p) \/ EvaluationFails(r, p)
    BY <2>3, InsertOpportunityKeeps, SelectKeeps, InsertDeliveryKeeps, UpdateStateKeeps, EvaluationFailsKeeps
  <2>4. CASE Auction(r) \/ LogDecision(r) \/ Answer(r) \/ LogFails(r)
    BY <2>4, AuctionKeeps, LogDecisionKeeps, AnswerKeeps, LogFailsKeeps
  <2> QED BY <1>1, <2>1, <2>2, <2>3, <2>4 DEF RequestStep
<1>2. ASSUME NEW i \in Instances, Crash(i) \/ \E r \in Requests, kind \in EventKinds : StoreEvent(i, r, kind)
      PROVE  BidInv'
  BY <1>2, CrashKeeps, StoreEventKeeps
<1>3. ASSUME NEW n \in DOMAIN events, ApplyEvent(n) PROVE BidInv'
  BY <1>3, ApplyEventKeeps
<1>4. CASE UNCHANGED vars
  <2>1. UNCHANGED <<stage, step, position, winner, shown, logged, opportunity, delivered, context, account,
                    failedCalls, events>>
    BY <1>4 DEF vars, handlers, records, budget
  <2>2. ASSUME NEW r \in Requests PROVE RequestAt(r)'
    <3>1. HandlerAt(r) /\ MoneyAt(r) /\ \A p \in PlacementSet : EvaluationAt(r, p)
      BY DEF BidInv, RequestAt
    <3> QED BY <2>1, <3>1 DEF RequestAt, HandlerAt, MoneyAt, EvaluationAt, ModeOf
  <2>3. BidTypes' /\ ContextTrue' /\ EventsTrue'
    BY <2>1 DEF BidInv, BidTypes, ContextTrue, EventsTrue
  <2> QED BY <2>2, <2>3 DEF BidInv
<1> QED BY <1>1, <1>2, <1>3, <1>4 DEF Next

(* For any requests, placements, rankings and processes, and whatever statements
   fail: a bid is answered only when its decision and the delivery of the placement
   shown are recorded. *)
THEOREM AnswersRecorded == Spec => []AnswerIsRecorded
<1>1. BidInv => AnswerIsRecorded
  <2> SUFFICES ASSUME BidInv, NEW r \in Requests, shown[r] # <<>>
               PROVE  /\ r \in logged /\ delivered[r][shown[r][1]] = "served"
                      /\ opportunity[r][shown[r][1]] \notin {"none", "received"}
    BY DEF AnswerIsRecorded
  <2>1. HandlerAt(r) /\ \A p \in PlacementSet : EvaluationAt(r, p)
    BY DEF BidInv, RequestAt
  <2>2. PICK p \in PlacementsOf(r) : winner[r][p] # NoAd /\ shown[r] = <<p, winner[r][p]>>
    BY <2>1 DEF HandlerAt
  <2>3. step[r][p] = "done" /\ r \in logged
    BY <2>1 DEF HandlerAt
  <2>4. EvaluationAt(r, p)
    BY <2>1, ScopeTyped, ConstantsAssumption
  <2> QED BY <2>2, <2>3, <2>4 DEF EvaluationAt
<1> QED BY <1>1, BidStarts, BidStep, ConstantsAssumption, PTL DEF Spec

(* With budgets enforced the ad shown had its money set aside, and what a request
   holds is for an ad it would serve, or a reservation whose call reported an error:
   for any ranking, and any overlap of the placements of a request. *)
THEOREM MoneyCorrect == Spec => []MoneyFollowsAds
<1>1. BidInv => MoneyFollowsAds
  <2> SUFFICES ASSUME BidInv, NEW r \in Requests
               PROVE  /\ ModeOf(r) = "on" /\ shown[r] # <<>> => account[<<r, shown[r][2]>>] \in {"open", "released"}
                      /\ \A ad \in Ads : account[<<r, ad>>] = "open" =>
                           \/ <<r, ad>> \in failedCalls
                           \/ \E p \in PlacementSet : winner[r][p] = ad
    BY DEF MoneyFollowsAds
  <2>1. HandlerAt(r) /\ MoneyAt(r) /\ PlacementsOf(r) \subseteq PlacementSet
    BY ScopeTyped, ConstantsAssumption DEF BidInv, RequestAt
  <2>2. shown[r] # <<>> => \E p \in PlacementsOf(r) : winner[r][p] # NoAd /\ shown[r] = <<p, winner[r][p]>>
    BY <2>1 DEF HandlerAt
  <2> QED BY <2>1, <2>2 DEF MoneyAt
<1> QED BY <1>1, BidStarts, BidStep, ConstantsAssumption, PTL DEF Spec

(* Events go to an opportunity of their own request that was delivered, and an
   opportunity that was reported on stays so, however late its events come and
   whichever process takes them. *)
THEOREM EventsCorrect == Spec => EventsReachDelivery
<1> DEFINE Reaches == \A n \in DOMAIN events :
                        LET r == events[n].request
                            p == events[n].target
                        IN  p # None =>
                              /\ p \in PlacementsOf(r) /\ delivered[r][p] # "none"
                              /\ Len(Scope[r]) = 1 => p = shown[r][1]
           Stays == \A r \in Requests, p \in PlacementSet :
                      opportunity[r][p] \in Reported => opportunity'[r][p] \in Reported
<1>1. BidInv => Reaches
  <2> SUFFICES ASSUME BidInv, NEW n \in DOMAIN events, events[n].target # None
               PROVE  /\ events[n].target \in PlacementsOf(events[n].request)
                      /\ delivered[events[n].request][events[n].target] # "none"
                      /\ Len(Scope[events[n].request]) = 1 => events[n].target = shown[events[n].request][1]
    OBVIOUS
  <2>1. PICK r, p : r = events[n].request /\ p = events[n].target
    OBVIOUS
  <2>2. r \in Requests
    BY <2>1, ReportTyped DEF BidInv
  <2>3. p \in PlacementsOf(r) /\ shown[r] # <<>>
    BY <2>1 DEF BidInv, EventsTrue
  <2>4. HandlerAt(r) /\ p \in PlacementSet /\ EvaluationAt(r, p)
    BY <2>2, <2>3, ScopeTyped, ConstantsAssumption DEF BidInv, RequestAt
  <2>5. step[r][p] = "done"
    BY <2>3, <2>4 DEF HandlerAt
  <2>6. delivered[r][p] # "none"
    BY <2>4, <2>5 DEF EvaluationAt
  <2>7. PICK q \in PlacementsOf(r) : shown[r] = <<q, winner[r][q]>>
    BY <2>3, <2>4 DEF HandlerAt
  <2>8. Len(Scope[r]) = 1 => p = q
    BY <2>2, <2>3, ScopeTyped, ConstantsAssumption
  <2> QED BY <2>1, <2>3, <2>6, <2>7, <2>8
<1>2. ConstantsAssumption /\ BidInv /\ [Next]_vars => [Stays]_vars
  <2> SUFFICES ASSUME ConstantsAssumption, BidInv, Next,
                      NEW r \in Requests, NEW p \in PlacementSet, opportunity[r][p] \in Reported
               PROVE  opportunity'[r][p] \in Reported
    BY DEF vars
  <2>1. HandlerAt(r) /\ shown[r] # <<>>
    BY DEF BidInv, RequestAt, HandlerAt
  <2>2. ASSUME NEW q \in Requests, NEW y \in PlacementsOf(q), InsertOpportunity(q, y) \/ UpdateState(q, y)
        PROVE  opportunity'[r] = opportunity[r]
    <3>1. step[q][y] # "done" /\ step[q][y] # "none"
      BY <2>2 DEF InsertOpportunity, UpdateState
    <3>2. q # r
      BY <2>1, <3>1 DEF HandlerAt
    <3>3. opportunity \in [Requests -> [PlacementSet -> States]]
      BY DEF BidInv, BidTypes
    <3> QED BY <2>2, <3>2, <3>3 DEF InsertOpportunity, UpdateState
  <2>3. CASE opportunity' = opportunity
    BY <2>3
  <2>4. CASE \E n \in DOMAIN events : ApplyEvent(n)
    BY <2>4, ApplyEventKeeps
  <2>5. CASE \E q \in Requests : \E y \in PlacementsOf(q) : InsertOpportunity(q, y) \/ UpdateState(q, y)
    BY <2>2, <2>5
  <2>6. \/ opportunity' = opportunity
        \/ \E n \in DOMAIN events : ApplyEvent(n)
        \/ \E q \in Requests : \E y \in PlacementsOf(q) : InsertOpportunity(q, y) \/ UpdateState(q, y)
    <3>1. ASSUME NEW q \in Requests, Receive(q) \/ Expire(q) \/ Auction(q) \/ LogDecision(q) \/ Answer(q) \/ LogFails(q)
          PROVE  opportunity' = opportunity
      BY <3>1 DEF Receive, Expire, Auction, LogDecision, Answer, LogFails, records
    <3>2. ASSUME NEW q \in Requests, NEW y \in PlacementsOf(q),
                 Select(q, y) \/ InsertDelivery(q, y) \/ EvaluationFails(q, y)
          PROVE  opportunity' = opportunity
      BY <3>2 DEF Select, NoWinner, TakeWithoutBudget, Reserved, Refused, ReservedWithError, NotReserved, Deliver,
                  InsertDelivery, EvaluationFails, records
    <3>3. ASSUME NEW i \in Instances, Crash(i) \/ \E q \in Requests, kind \in EventKinds : StoreEvent(i, q, kind)
          PROVE  opportunity' = opportunity
      BY <3>3 DEF Crash, StoreEvent, records
    <3> QED BY <3>1, <3>2, <3>3 DEF Next, RequestStep
  <2> QED BY <2>3, <2>4, <2>5, <2>6
<1> HIDE DEF Reaches, Stays
<1>3. Spec => []Reaches
  BY <1>1, BidStarts, BidStep, ConstantsAssumption, PTL DEF Spec
<1>4. Spec => [][Stays]_vars
  BY <1>2, BidStarts, BidStep, ConstantsAssumption, PTL DEF Spec
<1> USE DEF Reaches, Stays
<1> QED BY <1>3, <1>4, PTL DEF EventsReachDelivery
=============================================================================
