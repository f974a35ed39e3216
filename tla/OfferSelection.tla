---------------------------- MODULE OfferSelection ----------------------------
(***************************************************************************)
(* How the ad of one placement is found (opportunity-retrieval.js,         *)
(* relevance-model.js, pricing-model.js, opportunity-ranking.js, and       *)
(* evaluateSinglePlacementOpportunity of the gateway): two queries of the  *)
(* inventory, which changes between them, their fusion, the relevance      *)
(* gate, the auction order, and the walk down it past what the floor, the  *)
(* risk rules and the budgets refuse.                                      *)
(*                                                                         *)
(* What texts have in common is a trait of an offer; scores are integers,  *)
(* 80 for 1.0.                                                             *)
(***************************************************************************)
EXTENDS Integers, Sequences, FiniteSets

CONSTANTS
  Inventory,   \* offer ids, numbers: the last tie-break
  Profiles,    \* what an offer may be like: [network, lexical, vector, family,
               \*   overlap, support, merit, bid, synthetic, campaign]
  Requested,   \* what may be asked: [enabled, permitted, bidders, house, target,
               \*   locked, policy, relaxes, budgets, risk, store, allowed]: policy is [on,
               \*   mode, percent, bucket], allowed the networks that are enabled
  LexicalTop, VectorTop, FinalTop,
  ScoreFloor, Strict, Relaxed, MinLexical, MinVector

ASSUME SelectionAssumption ==
  /\ Inventory \subseteq Nat /\ IsFiniteSet(Inventory)
  /\ Profiles \subseteq [network : {"house", "cj", "partnerstack"}, lexical : Nat, vector : -80..80,
                         family : STRING, overlap : Nat, support : Nat, merit : Int, bid : Int,
                         synthetic : BOOLEAN, campaign : BOOLEAN]
  /\ {LexicalTop, VectorTop, FinalTop} \subseteq Nat \ {0}
  /\ {ScoreFloor, Strict, Relaxed, MinLexical, MinVector} \subseteq Int
  /\ Relaxed <= Strict

VARIABLES
  trait,       \* offer -> its profile
  active,      \* the offers whose row is active (environment)
  wanted,      \* what is asked
  selecting,   \* "received", "reading", "walking" or "done"
  hits,        \* the answers so far: "lexical" and "vector", each a set of offers
  ranked,      \* the auction order
  position,    \* how far down the walk is
  passed,      \* offer -> why it was passed over
  chosen,      \* <<the ad>>, or <<>>
  reason

selectVars == <<trait, active, wanted, selecting, hits, ranked, position, passed, chosen, reason>>

Highest(S) == CHOOSE x \in S : \A y \in S : x >= y
Lowest(S) == CHOOSE x \in S : \A y \in S : x <= y
Clamped(x, low, high) == IF x < low THEN low ELSE IF x > high THEN high ELSE x
First(n, S, Score(_)) ==
  {o \in S : Cardinality({p \in S : Score(p) > Score(o) \/ (Score(p) = Score(o) /\ p < o)}) < n}

----------------------------------------------------------------------------
(* Retrieval.  `f` is the answer of both queries.                          *)

Lexical(f, o) == IF o \in f.lexical THEN trait[o].lexical ELSE 0
Vector(f, o) == IF o \in f.vector THEN trait[o].vector ELSE 0
FoundBy(f) == f.lexical \cup f.vector

\* The sparse score is spread over what was found, the dense one shifted.
FusedScore(f, o) ==
  LET sparse == {Lexical(f, p) : p \in FoundBy(f)}
      range  == Highest(sparse) - Lowest(sparse)
  IN  (7 * (Vector(f, o) + 80)) \div 40
        + CASE range > 0 -> (52 * (Lexical(f, o) - Lowest(sparse))) \div range
            [] range = 0 /\ Lexical(f, o) > 0 -> 52
            [] OTHER -> 0

\* House offers made from a template count only when words match.
LowInfo(f, o) ==
  trait[o].network = "house" /\ trait[o].synthetic /\ Lexical(f, o) < MinLexical

Candidates(f) ==
  LET rest == {o \in FoundBy(f) : ~LowInfo(f, o)}
  IN  First(FinalTop, rest, LAMBDA o : FusedScore(f, o))

----------------------------------------------------------------------------
(* Relevance.                                                              *)

Native(f, o) == Highest({FusedScore(f, o), Vector(f, o), Lexical(f, o)})
SameFamily(o) == wanted.target = "general" \/ trait[o].family = wanted.target

TopicScore(f, o) ==
  LET base == CASE wanted.target = "general" -> 21
                [] wanted.target # "general" /\ SameFamily(o) -> 46
                [] OTHER -> 5
      score == Lowest({80, base + trait[o].overlap + (16 * Native(f, o)) \div 100})
  IN  IF wanted.locked /\ ~SameFamily(o) THEN Lowest({score, 19}) ELSE score

\* `support` stands for the entity, intent and quality scores.
RelevanceScore(f, o) == (45 * TopicScore(f, o) + 55 * trait[o].support) \div 100

\* A rollout enforces the gate for a share of the requests.
Gate ==
  LET policy == wanted.policy
  IN  CASE ~policy.on -> "off"
        [] policy.on /\ policy.mode = "enforce" /\ policy.bucket >= policy.percent -> "shadow"
        [] OTHER -> policy.mode

Near(f, o) == Lexical(f, o) >= MinLexical \/ Vector(f, o) >= MinVector
Strictly(f) == {o \in Candidates(f) : Near(f, o) /\ RelevanceScore(f, o) >= Strict}

\* Fault: the relaxed stage takes offers of any family.
EligibleOfAnyFamily(f) ==
  IF Strictly(f) # {} THEN Strictly(f)
  ELSE {o \in Candidates(f) : Near(f, o) /\ RelevanceScore(f, o) >= Relaxed}

\* The offers that go on to the auction: of the gate's first stage or, if there are
\* none, of the same family in its second.
Relaxes(f) == Gate = "enforce" /\ Candidates(f) # {} /\ Strictly(f) = {}
Eligible(f) ==
  CASE Gate # "enforce" -> Candidates(f)
    [] Gate = "enforce" /\ ~Relaxes(f) -> Strictly(f)
    [] Relaxes(f) /\ wanted.relaxes /\ wanted.target # "general" ->
         {o \in Candidates(f) : Near(f, o) /\ SameFamily(o) /\ RelevanceScore(f, o) >= Relaxed}
    [] OTHER -> {}

----------------------------------------------------------------------------
(* Price and rank.                                                         *)

\* The bid of a network as a factor, in percent: house discounts of up to 40, CJ's
\* dollars of up to 40, PartnerStack's rates of up to 10.  One dollar or less of CJ is
\* a share of an order of 80 dollars.
SignalFactor(o) ==
  LET bid == trait[o].bid
      dollars == CASE trait[o].network = "cj" /\ bid <= 1 -> 80 * bid
                   [] trait[o].network = "partnerstack"    -> 4 * bid
                   [] OTHER                                -> bid
      low == IF trait[o].network = "house" THEN 90 ELSE 70
      width == IF trait[o].network = "house" THEN 20 ELSE 60
  IN  IF bid <= 0 THEN 100 ELSE low + (width * Clamped(dollars, 0, 40)) \div 40

\* In cents, within its bounds.
CpaCents(o) == Clamped((5 * SignalFactor(o)) \div 2, 180, 320)
EconomicScore(f, o) ==
  LET ecpm == CpaCents(o) * (48 + FusedScore(f, o)) IN (80 * ecpm) \div (ecpm + 20000)

\* In percent.  A gate that is off scores no relevance; one in shadow does.
RankScore(f, o) ==
  LET similarity == IF Gate = "off" THEN Native(f, o)
                    ELSE Highest({Native(f, o), RelevanceScore(f, o)})
  IN  35 * similarity + 65 * trait[o].merit
AuctionScore(f, o) == 65 * RankScore(f, o) + 3500 * EconomicScore(f, o)

\* The offers in the order of their marks, of which an earlier one counts first.
Ahead(m, n) == \E i \in DOMAIN m : m[i] > n[i] /\ \A j \in 1 .. i - 1 : m[j] = n[j]
Ordered(S, marks) ==
  LET rank(o) == Cardinality({p \in S : Ahead(marks[p], marks[o])})
  IN  [k \in 1 .. Cardinality(S) |-> CHOOSE o \in S : rank(o) = k - 1]
Marks(f, o) ==
  <<AuctionScore(f, o), RankScore(f, o), IF Gate = "off" THEN 0 ELSE RelevanceScore(f, o),
    FusedScore(f, o), -o>>

\* Fault: the auction order is the order of the rank alone.
RankOrder(f) == Ordered(Eligible(f), [o \in Eligible(f) |-> Tail(Marks(f, o))])

AuctionOrder(f) == Ordered(Eligible(f), [o \in Eligible(f) |-> Marks(f, o)])

\* The ranking names a winner of its own: the first of the auction or, if it is enough
\* better in rank, the first of the rank.  All that is read of it is whether it passes.
RankingPasses ==
  LET first == RankScore(hits, ranked[1])
      top   == Highest({RankScore(hits, ranked[i]) : i \in DOMAIN ranked})
  IN  first >= ScoreFloor \/ (top >= Highest({ScoreFloor, 4000}) /\ top - first >= 800)

----------------------------------------------------------------------------
(* The evaluation of the placement.                                        *)

Ends(how) == selecting' = "done" /\ reason' = how

\* A placement that is off, a topic that is blocked, an intent that is too weak.
TurnAway ==
  /\ selecting = "received"
  /\ ~wanted.enabled \/ ~wanted.permitted
  /\ Ends(IF ~wanted.enabled THEN "placement_unavailable" ELSE "policy_blocked")
  /\ UNCHANGED <<trait, active, wanted, hits, ranked, position, passed, chosen>>

PassGate ==
  /\ selecting = "received" /\ wanted.enabled /\ wanted.permitted
  /\ selecting' = "reading"
  /\ UNCHANGED <<trait, active, wanted, hits, ranked, position, passed, chosen, reason>>

ToAuction(f) ==
  /\ selecting' = "walking"
  /\ ranked' = AuctionOrder(f)
  /\ UNCHANGED <<trait, active, wanted, position, passed, chosen, reason>>

\* The bidders of the placement, or all there are; where none of them is enabled,
\* whatever is.
AskedNetworks ==
  LET bidders == IF wanted.bidders = {} THEN wanted.allowed ELSE wanted.bidders
      asked   == (bidders \cup IF wanted.house THEN {"house"} ELSE {}) \cap wanted.allowed
  IN  IF asked # {} THEN asked ELSE wanted.allowed
Readable == {o \in active : trait[o].network \in AskedNetworks}

\* The queries are sent at once, and answered from the rows of their moment.
ReadAnswer(kind, rows) ==
  /\ selecting = "reading" /\ wanted.store /\ kind \notin DOMAIN hits
  /\ hits' = [k \in DOMAIN hits \cup {kind} |-> IF k = kind THEN rows ELSE hits[k]]
  /\ IF DOMAIN hits' = {"lexical", "vector"} THEN ToAuction(hits')
     ELSE UNCHANGED <<trait, active, wanted, selecting, ranked, position, passed, chosen, reason>>

FetchLexicalCandidates ==
  ReadAnswer("lexical", First(LexicalTop, {o \in Readable : trait[o].lexical > 0},
                              LAMBDA o : trait[o].lexical))
FetchVectorCandidates ==
  ReadAnswer("vector", First(VectorTop, Readable, LAMBDA o : trait[o].vector))

\* Without a store, a simulated catalog is searched as a whole, if that is enabled.
FallBack ==
  /\ selecting = "reading" /\ ~wanted.store
  /\ \E catalog \in {Readable, {}} : hits' = [lexical |-> catalog, vector |-> catalog]
  /\ ToAuction(hits')

----------------------------------------------------------------------------
(* selectWinnerWithBudgetAndRisk.                                          *)

Here == ranked[position]
Walks == selecting = "walking" /\ position \in DOMAIN ranked

PassOver(why) ==
  /\ passed' = [passed EXCEPT ![Here] = why]
  /\ position' = position + 1
  /\ UNCHANGED <<trait, active, wanted, selecting, hits, ranked, chosen, reason>>
Choose ==
  /\ chosen' = <<Here>>
  /\ Ends(IF Relaxes(hits) /\ RankingPasses THEN "relevance_pass_relaxed_same_vertical" ELSE "served")
  /\ UNCHANGED <<trait, active, wanted, hits, ranked, position, passed>>

BelowFloor == Walks /\ RankScore(hits, Here) < ScoreFloor /\ PassOver("floor")

Standing == Walks /\ RankScore(hits, Here) >= ScoreFloor
Unconfigured == wanted.budgets = "on" /\ ~trait[Here].campaign
\* What the risk rules say of a campaign changes with the clicks of others.
Consider(risky, affordable) ==
  /\ Standing
  /\ CASE Unconfigured -> PassOver("unconfigured")
       [] ~Unconfigured /\ risky /\ wanted.risk -> PassOver("risk")
       [] ~Unconfigured /\ ~(risky /\ wanted.risk)
            /\ wanted.budgets = "on" /\ ~affordable -> PassOver("budget")
       [] OTHER -> Choose

Passed(why) == {o \in Inventory : passed[o] = why}
Stood == {o \in Inventory : passed[o] \in {"unconfigured", "risk", "budget"}}

\* A query fails, or a reservation does; what it reserved stays with the budget.
UpstreamFails(how) ==
  /\ \/ selecting = "reading" /\ wanted.store
     \/ Standing /\ ~Unconfigured /\ wanted.budgets # "off"
  /\ Ends(how)
  /\ UNCHANGED <<trait, active, wanted, hits, ranked, position, passed, chosen>>

\* Whatever the ranking found in the way of it, nothing standing is no match.
NoWinnerReason ==
  CASE Passed("unconfigured") # {} /\ Stood = Passed("unconfigured") -> "budget_unconfigured"
    [] Passed("budget") # {} -> "budget_exhausted"
    [] Passed("risk") # {} /\ Stood = Passed("risk") -> "risk_blocked"
    [] OTHER -> "inventory_no_match"

\* `ready` is what was found of the inventory before the request began.
EndOfWalk(ready) ==
  /\ selecting = "walking" /\ position > Len(ranked)
  /\ Ends(IF NoWinnerReason = "inventory_no_match" /\ Candidates(hits) = {} /\ ~ready
          THEN "inventory_empty" ELSE NoWinnerReason)
  /\ UNCHANGED <<trait, active, wanted, hits, ranked, position, passed, chosen>>

\* A synchronization withdraws an offer, or brings one.
RowChanges(o) ==
  /\ selecting = "reading" /\ hits # <<>> /\ wanted.store
  /\ active' = IF o \in active THEN active \ {o} ELSE active \cup {o}
  /\ UNCHANGED <<trait, wanted, selecting, hits, ranked, position, passed, chosen, reason>>

SelectInit ==
  /\ trait \in [Inventory -> Profiles] /\ active \in SUBSET Inventory
  /\ wanted \in Requested
  /\ selecting = "received" /\ hits = <<>> /\ ranked = <<>> /\ position = 1
  /\ passed = [o \in Inventory |-> "no"] /\ chosen = <<>> /\ reason = "none"

SelectNext ==
  \/ TurnAway \/ PassGate \/ FetchLexicalCandidates \/ FetchVectorCandidates \/ FallBack
  \/ \E how \in {"upstream_error", "upstream_timeout"} : UpstreamFails(how)
  \/ BelowFloor \/ \E risky, affordable \in BOOLEAN : Consider(risky, affordable)
  \/ \E ready \in BOOLEAN : EndOfWalk(ready)
  \/ \E o \in Inventory : RowChanges(o)

SelectSpec == SelectInit /\ [][SelectNext]_selectVars

----------------------------------------------------------------------------
(* The ad that is served is the best of what was found and stands: it is of a
   network that is enabled and, below the strict gate, of the family that was
   asked for; and whatever sells better was passed over for what still holds, was
   cut off, or fails the strict gate. *)
ServedIsBest ==
  \A o \in {chosen[i] : i \in DOMAIN chosen} :
    /\ trait[o].network \in wanted.allowed
    /\ Gate = "enforce" =>
         RelevanceScore(hits, o) >= Strict \/ trait[o].family = wanted.target
    /\ \A p \in Candidates(hits) : AuctionScore(hits, p) > AuctionScore(hits, o) =>
         \/ Gate = "enforce" /\ (~Near(hits, p) \/ RelevanceScore(hits, p) < Strict)
         \/ passed[p] = "floor" /\ RankScore(hits, p) < ScoreFloor
         \/ passed[p] = "unconfigured" /\ ~trait[p].campaign
         \/ passed[p] = "risk" /\ wanted.risk
         \/ passed[p] = "budget" /\ wanted.budgets = "on"

(* Of two offers that are alike but for their bids, the one that bids more is
   not behind - as long as both bid, and none of them CJ's dollar or less. *)
BidsPay ==
  \A i, k \in DOMAIN ranked :
    LET o == trait[ranked[i]]  p == trait[ranked[k]]
    IN  /\ i < k /\ [o EXCEPT !.bid = p.bid] = p
        /\ ~(o.network = "cj" /\ Lowest({o.bid, p.bid}) <= 1)
        /\ \A q \in {ranked[i], ranked[k]} : q \in hits.lexical \cap hits.vector
        /\ o.bid > 0 /\ p.bid > 0
        => o.bid >= p.bid \/ AuctionScore(hits, ranked[i]) = AuctionScore(hits, ranked[k])

=============================================================================
