--------------------------- MODULE ContractProofs ---------------------------
(***************************************************************************)
(* What MCContractRoute checks on four sources holds for any sources,      *)
(* policies, strategies, budgets, claims, placements and devices, and for  *)
(* any triggers, emissions and delays: what is shown is permitted, a walk  *)
(* without a fill has asked everything, an old stop spares a new           *)
(* registration, the consumer takes one event of an opportunity, and what  *)
(* is traded of a packet stands.                                           *)
(*                                                                         *)
(* The sources of a tier are put in an order by their declarations, which  *)
(* the first part shows to be one; the walk over the plan is followed by   *)
(* the steps that are still open in each tier.                             *)
(***************************************************************************)
EXTENDS ContractRoute, IngressEvents, SignalNormalization, FiniteSetTheorems, SequenceTheorems,
        WellFoundedInduction, TLAPS

LEMMA Induction ==
  ASSUME NEW Good, 0 \in Good, \A n \in Nat : n \in Good => n + 1 \in Good
  PROVE  Nat \subseteq Good
<1> DEFINE Left == Nat \ Good
           Less == {pair \in Nat \X Nat : pair[1] < pair[2]}
<1> SUFFICES ASSUME Left # {} PROVE FALSE
  OBVIOUS
<1>1. PICK x \in Left : \A y \in Left : ~ (<<y, x>> \in Less)
  <2>1. IsWellFoundedOn(Less, Nat)
    BY NatLessThanWellFounded DEF OpToRel
  <2> HIDE DEF Less
  <2> QED BY <2>1, WFMin
<1>2. x \in Nat /\ x # 0 /\ x \notin Good
  OBVIOUS
<1>3. x - 1 \in Nat /\ (x - 1) + 1 = x /\ <<x - 1, x>> \in Less
  BY <1>2
<1>4. x - 1 \in Good
  BY <1>1, <1>3
<1> QED BY <1>2, <1>3, <1>4

(* The least of some natural numbers is one of them. *)
LEMMA MinIsLeast ==
  ASSUME NEW S, S \subseteq Nat, S # {}
  PROVE  Min(S) \in S /\ \A x \in S : Min(S) <= x
<1> DEFINE Less == {pair \in Nat \X Nat : pair[1] < pair[2]}
<1>1. PICK x \in S : \A y \in S : ~ (<<y, x>> \in Less)
  <2>1. IsWellFoundedOn(Less, Nat)
    BY NatLessThanWellFounded DEF OpToRel
  <2> HIDE DEF Less
  <2> QED BY <2>1, WFMin
<1>2. \A y \in S : y < x => <<y, x>> \in Less
  OBVIOUS
<1> HIDE DEF Less
<1>3. \A y \in S : x <= y
  <2> TAKE y \in S
  <2>1. ~(y < x)
    BY <1>1, <1>2
  <2>2. x \in Nat /\ y \in Nat
    OBVIOUS
  <2> QED BY <2>1, <2>2
<1> QED BY <1>3 DEF Min

----------------------------------------------------------------------------
(* The order of the sources *)

Known == DOMAIN SourceRecords

LEMMA KeyTyped ==
  ASSUME NEW s \in Known
  PROVE  /\ \A i \in 1 .. 5 : SortKey(s)[i] \in Int
         /\ SortKey(s)[5] = SourceRecords[s].name
<1> DEFINE r == SourceRecords[s]
<1>1. r.priority \in Int /\ r.success \in Int /\ r.latency \in Int /\ r.cost \in Int /\ r.name \in Int
  BY SourceAssumption DEF Known
<1>3. -r.priority \in Int /\ -r.success \in Int
  BY <1>1
<1> DEFINE key == <<-r.priority, -r.success, r.latency, r.cost, r.name>>
<1>5. /\ key[1] \in Int /\ key[2] \in Int /\ key[3] \in Int /\ key[4] \in Int /\ key[5] \in Int
      /\ key[5] = r.name
  BY <1>1, <1>3
<1>6. SortKey(s) = key
  BY DEF SortKey
<1> HIDE DEF key
<1> QED BY <1>5, <1>6

(* Of two sources exactly one comes first, and what comes before what comes
   first does too. *)
LEMMA OrderIsTotal ==
  /\ \A a \in Known : ~Precedes(a, a)
  /\ \A a, b \in Known : a # b => Precedes(a, b) \/ Precedes(b, a)
  /\ \A a, b, c \in Known : Precedes(a, b) /\ Precedes(b, c) => Precedes(a, c)
<1>1. \A a \in Known : ~Precedes(a, a)
  BY KeyTyped DEF Precedes
<1>2. ASSUME NEW a \in Known, NEW b \in Known, a # b
      PROVE  Precedes(a, b) \/ Precedes(b, a)
  <2> DEFINE Differ == {i \in 1 .. 5 : SortKey(a)[i] # SortKey(b)[i]}
             first == Min(Differ)
  <2>1. 5 \in Differ
    BY <1>2, KeyTyped, SourceAssumption DEF Known
  <2>2. first \in Differ /\ \A j \in Differ : first <= j
    BY <2>1, MinIsLeast
  <2> HIDE DEF first
  <2>3. first \in 1 .. 5 /\ \A j \in 1 .. 5 : j < first => SortKey(a)[j] = SortKey(b)[j]
    BY <2>2
  <2>4. SortKey(a)[first] < SortKey(b)[first] \/ SortKey(b)[first] < SortKey(a)[first]
    <3>1. SortKey(a)[first] \in Int /\ SortKey(b)[first] \in Int
      BY <2>3, KeyTyped
    <3> QED BY <2>2, <3>1
  <2> QED BY <2>3, <2>4 DEF Precedes
<1>3. ASSUME NEW a \in Known, NEW b \in Known, NEW c \in Known, Precedes(a, b), Precedes(b, c)
      PROVE  Precedes(a, c)
  <2>1. PICK i \in 1 .. 5 : /\ SortKey(a)[i] < SortKey(b)[i]
                            /\ \A j \in 1 .. 5 : j < i => SortKey(a)[j] = SortKey(b)[j]
    BY <1>3 DEF Precedes
  <2>2. PICK k \in 1 .. 5 : /\ SortKey(b)[k] < SortKey(c)[k]
                            /\ \A j \in 1 .. 5 : j < k => SortKey(b)[j] = SortKey(c)[j]
    BY <1>3 DEF Precedes
  <2>3. \A j \in 1 .. 5 : SortKey(a)[j] \in Int /\ SortKey(b)[j] \in Int /\ SortKey(c)[j] \in Int
    BY KeyTyped
  <2> DEFINE l == IF i <= k THEN i ELSE k
  <2>4. l \in 1 .. 5 /\ SortKey(a)[l] < SortKey(c)[l]
    BY <2>1, <2>2, <2>3
  <2>5. \A j \in 1 .. 5 : j < l => SortKey(a)[j] = SortKey(c)[j]
    BY <2>1, <2>2, <2>3
  <2> HIDE DEF l
  <2> QED BY <2>4, <2>5 DEF Precedes
<1> QED BY <1>1, <1>2, <1>3

(* Of some sources one comes last. *)
LEMMA OneComesLast ==
  ASSUME NEW n \in Nat
  PROVE  \A S \in SUBSET Known : Cardinality(S) = n + 1 =>
           \E m \in S : \A x \in S \ {m} : Precedes(x, m)
<1> DEFINE HasLast(S) == \E m \in S : \A x \in S \ {m} : Precedes(x, m)
           Good == {i \in Nat : \A S \in SUBSET Known : Cardinality(S) = i + 1 => HasLast(S)}
<1>0. \A S \in SUBSET Known : IsFiniteSet(S)
  BY SourceAssumption, FS_Subset DEF Known
<1>1. ASSUME NEW S \in SUBSET Known, Cardinality(S) = 0 + 1 PROVE HasLast(S)
  <2>1. PICK m : S = {m}
    BY <1>0, <1>1, FS_Singleton
  <2> QED BY <2>1
<1>2. ASSUME NEW i \in Nat, i \in Good, NEW S \in SUBSET Known, Cardinality(S) = i + 1 + 1
      PROVE  HasLast(S)
  <2>1. S # {}
    BY <1>2, FS_EmptySet
  <2>2. PICK x : x \in S
    BY <2>1
  <2> DEFINE T == S \ {x}
  <2>3. T \in SUBSET Known /\ Cardinality(T) = i + 1
    BY <1>0, <1>2, <2>2, FS_RemoveElement
  <2>4. PICK m \in T : \A y \in T \ {m} : Precedes(y, m)
    BY <1>2, <2>3
  <2>5. x \in Known /\ m \in Known /\ x # m
    BY <2>2, <2>4
  <2>6. CASE Precedes(x, m)
    BY <2>4, <2>6
  <2>7. CASE Precedes(m, x)
    <3>1. \A y \in S \ {x} : Precedes(y, x)
      BY <2>4, <2>5, <2>7, OrderIsTotal
    <3> QED BY <2>2, <3>1
  <2> QED BY <2>5, <2>6, <2>7, OrderIsTotal
<1>3. Nat \subseteq Good
  <2>1. 0 \in Good
    BY <1>1
  <2>2. \A i \in Nat : i \in Good => i + 1 \in Good
    BY <1>2
  <2> HIDE DEF Good
  <2> QED BY <2>1, <2>2, Induction
<1> QED BY <1>3

Sorted(order, S) ==
  \A i, j \in 1 .. Cardinality(S) : i < j => Precedes(order[i], order[j])

(* Some sources can be put in order. *)
LEMMA OrderExists ==
  ASSUME NEW n \in Nat
  PROVE  \A S \in SUBSET Known : Cardinality(S) = n =>
           \E order \in [1 .. Cardinality(S) -> S] : Sorted(order, S)
<1> DEFINE HasOrder(S) == \E order \in [1 .. Cardinality(S) -> S] : Sorted(order, S)
           Good == {i \in Nat : \A S \in SUBSET Known : Cardinality(S) = i => HasOrder(S)}
<1>0. \A S \in SUBSET Known : IsFiniteSet(S)
  BY SourceAssumption, FS_Subset DEF Known
<1>1. ASSUME NEW S \in SUBSET Known, Cardinality(S) = 0 PROVE HasOrder(S)
  <2>1. [i \in 1 .. Cardinality(S) |-> 0] \in [1 .. Cardinality(S) -> S]
    BY <1>1
  <2>2. Sorted([i \in 1 .. Cardinality(S) |-> 0], S)
    BY <1>1 DEF Sorted
  <2> QED BY <2>1, <2>2
<1>2. ASSUME NEW i \in Nat, i \in Good, NEW S \in SUBSET Known, Cardinality(S) = i + 1
      PROVE  HasOrder(S)
  <2>1. PICK m \in S : \A x \in S \ {m} : Precedes(x, m)
    BY <1>2, OneComesLast
  <2> DEFINE T == S \ {m}
  <2>2. T \in SUBSET Known /\ Cardinality(T) = i
    BY <1>0, <1>2, FS_RemoveElement
  <2>3. PICK order \in [1 .. Cardinality(T) -> T] : Sorted(order, T)
    BY <1>2, <2>2
  <2> DEFINE longer == [j \in 1 .. i + 1 |-> IF j <= i THEN order[j] ELSE m]
  <2>4. longer \in [1 .. Cardinality(S) -> S]
    BY <1>2, <2>2, <2>3
  <2>5. Sorted(longer, S)
    <3> SUFFICES ASSUME NEW j \in 1 .. i + 1, NEW k \in 1 .. i + 1, j < k
                 PROVE  Precedes(longer[j], longer[k])
      BY <1>2 DEF Sorted
    <3>0. j \in 1 .. i /\ longer[j] = order[j]
      OBVIOUS
    <3>1. order[j] \in T
      BY <2>2, <2>3, <3>0
    <3>2. CASE k <= i
      <4>1. longer[k] = order[k] /\ k \in 1 .. i
        BY <3>2
      <4> QED BY <2>2, <2>3, <3>0, <4>1 DEF Sorted
    <3>3. CASE ~ (k <= i)
      <4>1. longer[k] = m
        BY <3>3
      <4> QED BY <2>1, <3>0, <3>1, <4>1
    <3> QED BY <3>2, <3>3
  <2> HIDE DEF longer
  <2> QED BY <2>4, <2>5
<1>3. Nat \subseteq Good
  <2>1. 0 \in Good
    BY <1>1
  <2>2. \A i \in Nat : i \in Good => i + 1 \in Good
    BY <1>2
  <2> HIDE DEF Good
  <2> QED BY <2>1, <2>2, Induction
<1> QED BY <1>3

(* The order of some sources names them, each once. *)
LEMMA OrderNamesEachOnce ==
  ASSUME NEW S \in SUBSET Known
  PROVE  /\ InOrder(S) \in Seq(S)
         /\ \A i, j \in 1 .. Len(InOrder(S)) : InOrder(S)[i] = InOrder(S)[j] => i = j
<1> DEFINE N == Cardinality(S)
<1>1. N \in Nat
  BY SourceAssumption, FS_Subset, FS_CardinalityType DEF Known
<1>2. \E order \in [1 .. N -> S] : Sorted(order, S)
  BY <1>1, OrderExists
<1>3. InOrder(S) \in [1 .. N -> S] /\ Sorted(InOrder(S), S)
  BY <1>2 DEF InOrder, Sorted
<1>4. InOrder(S) \in Seq(S) /\ Len(InOrder(S)) = N
  BY <1>1, <1>3
<1>5. ASSUME NEW i \in 1 .. N, NEW j \in 1 .. N, InOrder(S)[i] = InOrder(S)[j], i # j PROVE FALSE
  <2>1. i < j \/ j < i
    BY <1>1, <1>5
  <2>2. Precedes(InOrder(S)[i], InOrder(S)[j]) \/ Precedes(InOrder(S)[j], InOrder(S)[i])
    BY <1>3, <2>1 DEF Sorted
  <2>3. InOrder(S)[i] \in Known
    BY <1>3
  <2> QED BY <1>5, <2>2, <2>3, OrderIsTotal
<1> QED BY <1>4, <1>5

----------------------------------------------------------------------------
(* The steps of a plan *)

Once(seq) == \A i, j \in 1 .. Len(seq) : seq[i] = seq[j] => i = j
OfTier(seq, pool, tier) ==
  seq \in Seq(pool) /\ Once(seq) /\ \A i \in 1 .. Len(seq) : TierOf[seq[i]] = tier

LEMMA TierInOrder ==
  ASSUME NEW pool \in SUBSET Known, NEW tier
  PROVE  OfTier(TierSources(pool, tier), pool, tier)
<1> DEFINE S == {s \in pool : TierOf[s] = tier}
<1>1. InOrder(S) \in Seq(S) /\ Once(InOrder(S))
  BY OrderNamesEachOnce DEF Once
<1>2. \A i \in 1 .. Len(InOrder(S)) : InOrder(S)[i] \in S
  BY <1>1
<1>3. InOrder(S) \in Seq(pool)
  BY <1>1, <1>2
<1> QED BY <1>1, <1>2, <1>3 DEF OfTier, TierSources

LEMMA TakeKeeps ==
  ASSUME NEW pool, NEW tier, NEW seq, OfTier(seq, pool, tier), NEW n \in Nat
  PROVE  OfTier(Take(seq, n), pool, tier)
<1>1. seq \in Seq(pool) /\ Len(seq) \in Nat
  BY DEF OfTier
<1>2. Min({n, Len(seq)}) \in Nat /\ Min({n, Len(seq)}) <= Len(seq)
  <2>1. {n, Len(seq)} \subseteq Nat /\ {n, Len(seq)} # {}
    BY <1>1
  <2> QED BY <2>1, MinIsLeast
<1>3. PICK m \in Nat : m = Min({n, Len(seq)}) /\ m <= Len(seq)
  BY <1>2
<1>4. Take(seq, n) = SubSeq(seq, 1, m)
  BY <1>3 DEF Take
<1>5. SubSeq(seq, 1, m) \in Seq(pool) /\ Len(SubSeq(seq, 1, m)) = m
  <2>1. \A i \in 1 .. m : seq[i] \in pool
    BY <1>1, <1>3
  <2>2. SubSeq(seq, 1, m) \in Seq(pool)
    BY <2>1, SubSeqProperties
  <2>3. Len(SubSeq(seq, 1, m)) = m
    BY <1>1, <1>3
  <2> QED BY <2>2, <2>3
<1>6. \A i \in 1 .. m : SubSeq(seq, 1, m)[i] = seq[i] /\ i \in 1 .. Len(seq)
  BY <1>1, <1>3
<1> DEFINE part == SubSeq(seq, 1, m)
<1> HIDE DEF part
<1>7. Once(part)
  BY <1>5, <1>6 DEF OfTier, Once, part
<1>8. \A i \in 1 .. Len(part) : TierOf[part[i]] = tier
  BY <1>5, <1>6 DEF OfTier, part
<1> QED BY <1>4, <1>5, <1>7, <1>8 DEF OfTier, part

LEMMA NoneOfTier ==
  ASSUME NEW pool, NEW tier
  PROVE  OfTier(<<>>, pool, tier)
BY DEF OfTier, Once

LEMMA TiersInTurn ==
  ASSUME NEW pool, NEW a, NEW b, NEW c,
         OfTier(a, pool, "primary"), OfTier(b, pool, "secondary"), OfTier(c, pool, "fallback")
  PROVE  LET all == a \o b \o c
         IN  /\ all \in Seq(pool) /\ Once(all)
             /\ \A i \in 1 .. Len(all) :
                  /\ TierOf[all[i]] \in Tiers
                  /\ TierOf[all[i]] = "secondary" => b # <<>>
                  /\ TierOf[all[i]] = "fallback" => c # <<>>
<1> DEFINE all == a \o b \o c
<1>1. a \in Seq(pool) /\ b \in Seq(pool) /\ c \in Seq(pool)
  BY DEF OfTier
<1>2. PICK l \in Nat, m \in Nat, n \in Nat : l = Len(a) /\ m = Len(b) /\ n = Len(c)
  BY <1>1
<1>3. all \in Seq(pool) /\ Len(all) = l + m + n
  BY <1>1, <1>2
<1>4. ASSUME NEW i \in 1 .. l + m + n
      PROVE  /\ i <= l => all[i] = a[i]
             /\ i > l /\ i <= l + m => all[i] = b[i - l]
             /\ i > l + m => all[i] = c[i - (l + m)]
  <2>1. a \o b \in Seq(pool) /\ Len(a \o b) = l + m
    BY <1>1, <1>2
  <2> QED BY <1>1, <1>2, <2>1
<1> HIDE DEF all
<1>5. \A i \in 1 .. l + m + n :
        /\ i <= l => i \in 1 .. Len(a) /\ TierOf[all[i]] = "primary"
        /\ i > l /\ i <= l + m => i - l \in 1 .. Len(b) /\ TierOf[all[i]] = "secondary"
        /\ i > l + m => i - (l + m) \in 1 .. Len(c) /\ TierOf[all[i]] = "fallback"
  <2> SUFFICES ASSUME NEW i \in 1 .. l + m + n
               PROVE  /\ i <= l => i \in 1 .. Len(a) /\ TierOf[all[i]] = "primary"
                      /\ i > l /\ i <= l + m => i - l \in 1 .. Len(b) /\ TierOf[all[i]] = "secondary"
                      /\ i > l + m => i - (l + m) \in 1 .. Len(c) /\ TierOf[all[i]] = "fallback"
    OBVIOUS
  <2>1. CASE i <= l
    <3>1. i \in 1 .. Len(a) /\ all[i] = a[i]
      BY <1>2, <1>4, <2>1
    <3> QED BY <1>2, <2>1, <3>1 DEF OfTier
  <2>2. CASE i > l /\ i <= l + m
    <3>1. i - l \in 1 .. Len(b) /\ all[i] = b[i - l]
      BY <1>2, <1>4, <2>2
    <3> QED BY <1>2, <2>2, <3>1 DEF OfTier
  <2>3. CASE i > l + m
    <3>1. i - (l + m) \in 1 .. Len(c) /\ all[i] = c[i - (l + m)]
      BY <1>2, <1>4, <2>3
    <3> QED BY <1>2, <2>3, <3>1 DEF OfTier
  <2> QED BY <2>1, <2>2, <2>3
<1>6. Once(all)
  <2> SUFFICES ASSUME NEW i \in 1 .. l + m + n, NEW j \in 1 .. l + m + n, all[i] = all[j]
               PROVE  i = j
    BY <1>3 DEF Once
  <2>1. CASE i <= l
    <3>1. j <= l
      BY <1>5, <2>1
    <3> QED BY <1>4, <1>5, <2>1, <3>1 DEF OfTier, Once
  <2>2. CASE i > l /\ i <= l + m
    <3>1. j > l /\ j <= l + m
      BY <1>5, <2>2
    <3>2. i - l = j - l
      BY <1>4, <1>5, <2>2, <3>1 DEF OfTier, Once
    <3> QED BY <3>2
  <2>3. CASE i > l + m
    <3>1. j > l + m
      BY <1>5, <2>3
    <3>2. i - (l + m) = j - (l + m)
      BY <1>4, <1>5, <2>3, <3>1 DEF OfTier, Once
    <3> QED BY <3>2
  <2> QED BY <2>1, <2>2, <2>3
<1>7. ASSUME NEW i \in 1 .. l + m + n
      PROVE  /\ TierOf[all[i]] \in Tiers
             /\ TierOf[all[i]] = "secondary" => b # <<>>
             /\ TierOf[all[i]] = "fallback" => c # <<>>
  <2>1. CASE i <= l
    BY <1>5, <2>1 DEF Tiers
  <2>2. CASE i > l /\ i <= l + m
    <3>1. b # <<>>
      BY <1>5, <2>2
    <3> QED BY <1>5, <2>2, <3>1 DEF Tiers
  <2>3. CASE i > l + m
    <3>1. c # <<>>
      BY <1>5, <2>3
    <3> QED BY <1>5, <2>3, <3>1 DEF Tiers
  <2> QED BY <2>1, <2>2, <2>3
<1> QED BY <1>3, <1>6, <1>7 DEF all

(* What a plan made from a pool holds: each source at most once, no source from
   elsewhere, and no tier the strategy leaves out. *)
StepsFit(made, pool, strategy) ==
  /\ DOMAIN made \subseteq Nat \ {0}
  /\ \A k \in DOMAIN made :
       /\ made[k].source \in pool /\ made[k].tier \in Tiers
       /\ made[k].tier = "fallback" => strategy.fallback # "disabled"
       /\ made[k].tier = "secondary" => ~(strategy.type = "bidding" /\ ~strategy.secondBidding)
  /\ \A k, j \in DOMAIN made : made[k].source = made[j].source => k = j

LEMMA PlannedStepsFit ==
  ASSUME NEW pool \in SUBSET Known, NEW strategy, strategy.fanout \in Nat, NEW budget
  PROVE  StepsFit(RouteSteps(pool, strategy, budget), pool, strategy)
<1> DEFINE primary == TierSources(pool, "primary")
           second  == TierSources(pool, "secondary")
           last    == IF ShouldCreateFallbackSteps(strategy) THEN TierSources(pool, "fallback") ELSE <<>>
           taken   == IF strategy.secondBidding THEN Take(second, strategy.fanout) ELSE <<>>
           found   == StepSources(pool, strategy)
<1>1. /\ OfTier(primary, pool, "primary") /\ OfTier(second, pool, "secondary")
      /\ OfTier(Take(primary, strategy.fanout), pool, "primary")
      /\ OfTier(Take(second, strategy.fanout), pool, "secondary")
  BY TierInOrder, TakeKeeps
<1>2. OfTier(last, pool, "fallback") /\ (last # <<>> => strategy.fallback # "disabled")
  BY TierInOrder, NoneOfTier DEF ShouldCreateFallbackSteps
<1>3. OfTier(taken, pool, "secondary") /\ (taken # <<>> => strategy.secondBidding)
  BY <1>1, NoneOfTier
<1>4. /\ found \in Seq(pool) /\ Once(found)
      /\ \A i \in 1 .. Len(found) :
           /\ TierOf[found[i]] \in Tiers
           /\ TierOf[found[i]] = "secondary" => ~(strategy.type = "bidding" /\ ~strategy.secondBidding)
           /\ TierOf[found[i]] = "fallback" => strategy.fallback # "disabled"
  <2> HIDE DEF primary, second, last, taken, found
  <2>1. CASE strategy.type = "waterfall"
    <3>1. found = primary \o second \o last
      BY <2>1 DEF found, primary, second, last, StepSources
    <3> QED BY <1>1, <1>2, <2>1, <3>1, TiersInTurn
  <2>2. CASE strategy.type = "bidding"
    <3>1. found = Take(primary, strategy.fanout) \o taken \o last
      BY <2>2 DEF found, primary, second, last, taken, StepSources
    <3> QED BY <1>1, <1>2, <1>3, <2>2, <3>1, TiersInTurn
  <2>3. CASE strategy.type \notin {"waterfall", "bidding"}
    <3>1. found = Take(primary, strategy.fanout) \o second \o last
      BY <2>3 DEF found, primary, second, last, StepSources
    <3> QED BY <1>1, <1>2, <2>3, <3>1, TiersInTurn
  <2> QED BY <2>1, <2>2, <2>3
<1> DEFINE left == Remaining(found, strategy, budget)
           made == RouteSteps(pool, strategy, budget)
<1>5. made = [k \in 1 .. Len(found) |->
                [source |-> found[k], tier |-> TierOf[found[k]],
                 budget |-> AllocateStepBudget(left[k], found[k], strategy)]]
  BY DEF RouteSteps
<1> HIDE DEF primary, second, last, taken, found, left, made
<1>6. DOMAIN made = 1 .. Len(found) /\ Len(found) \in Nat
  BY <1>4, <1>5
<1>7. \A k \in 1 .. Len(found) : made[k].source = found[k] /\ made[k].tier = TierOf[found[k]]
  BY <1>5
<1>8. \A k \in 1 .. Len(found) : found[k] \in pool
  BY <1>4
<1>9. StepsFit(made, pool, strategy)
  BY <1>4, <1>6, <1>7, <1>8 DEF StepsFit, Once
<1> QED BY <1>9 DEF made

----------------------------------------------------------------------------
(* The policy *)

(* A policy that lets an opportunity through was refused by none of its gates. *)
LEMMA GatesPassed ==
  ASSUME NEW q, PolicyDecision(q).routable,
         q.snapshot \in {"fresh", "expired_open", "expired_closed", "missing"}
  PROVE  /\ q.snapshot \in {"fresh", "expired_open"}
         /\ \A i \in 1..4 : GateAction(GateOrder[i], q) # "block"
<1> DEFINE Blocks(i) == GateAction(GateOrder[i], q) = "block"
           actions == {GateAction(GateOrder[i], q) : i \in ExecutedGates(q)}
<1>1. FinalPolicyAction(q) \in {"allow", "degrade"}
  BY DEF PolicyDecision
<1>2. InputAccepted(q) /\ "block" \notin actions
  BY <1>1 DEF FinalPolicyAction
<1>3. q.snapshot \in {"fresh", "expired_open"}
  BY <1>2 DEF InputAccepted
<1>4. ExecutedGates(q) = {i \in 1..4 : \A j \in 1..(i - 1) : ~Blocks(j)}
  BY DEF ExecutedGates
<1>5. \A i \in ExecutedGates(q) : ~Blocks(i)
  BY <1>2
<1> HIDE DEF Blocks, actions
<1>6. ~Blocks(1)
  BY <1>4, <1>5
<1>7. ~Blocks(2)
  BY <1>4, <1>5, <1>6
<1>8. ~Blocks(3)
  BY <1>4, <1>5, <1>6, <1>7
<1>9. ~Blocks(4)
  BY <1>4, <1>5, <1>6, <1>7, <1>8
<1> QED BY <1>3, <1>6, <1>7, <1>8, <1>9 DEF Blocks

----------------------------------------------------------------------------
(* The conclusion of a route *)

Offers == [source : Sources, price : {0, 1}, tier : Tiers \cup {""}]

AskTyped ==
  ask \in [policy : Policies, strategy : Strategies, budget : Budgets, want : Wants, claim : Claims]

PlanStands ==
  /\ pc = "policy" => steps = <<>>
  /\ steps # <<>> => Planned
  /\ StepsFit(steps, filter.effective, Strategy)
  /\ filter.effective \subseteq Sources \ ask.policy.blocked
  /\ Decision.constraints.selection = "allowlist_only"
       => filter.effective \subseteq Decision.constraints.allowed
  /\ filter.filteredOut \subseteq ask.policy.blocked
  /\ \A s \in filter.effective : Supports(s, ask.want.type)

CandidatesAsked ==
  /\ candidates \in Seq(Offers)
  /\ \A i \in DOMAIN candidates :
       \E k \in walk.tried \cap DOMAIN steps : steps[k].source = candidates[i].source

Concluded == out = DOutput(Claimed, candidates, steps, filter, walk.switches, Decision.constraints)

LEMMA WinnerIsACandidate ==
  ASSUME NEW claim, NEW given \in Seq(Offers),
         LET offered == [i \in DOMAIN given |-> OutputCandidate(given[i])]
         IN FindWinnerCandidate(claim, offered) # NoOne
  PROVE  LET offered == [i \in DOMAIN given |-> OutputCandidate(given[i])]
         IN \E i \in DOMAIN given : FindWinnerCandidate(claim, offered).source = given[i].source
<1> DEFINE offered == [i \in DOMAIN given |-> OutputCandidate(given[i])]
           named == IF claim.auction # "" THEN claim.auction ELSE claim.ref
           hits  == {i \in DOMAIN offered : offered[i].source = named}
<1> SUFFICES \E i \in DOMAIN given : FindWinnerCandidate(claim, offered).source = given[i].source
  OBVIOUS
<1>1. PICK n \in Nat : DOMAIN given = 1 .. n
  OBVIOUS
<1>2. \A i \in 1 .. n : offered[i].source = given[i].source
  <2> TAKE i \in 1 .. n
  <2>1. given[i] \in Offers
    BY <1>1
  <2>2. offered[i] = OutputCandidate(given[i])
    BY <1>1
  <2> QED BY <2>1, <2>2 DEF OutputCandidate, Offers
<1>3. DOMAIN offered = 1 .. n
  BY <1>1
<1>4. FindWinnerCandidate(claim, offered) =
        IF offered = <<>> THEN NoOne ELSE IF hits = {} THEN offered[1] ELSE offered[Min(hits)]
  BY DEF FindWinnerCandidate
<1>5. hits \subseteq 1 .. n
  BY <1>3
<1> HIDE DEF offered, hits
<1>6. offered # <<>>
  BY <1>4 DEF offered
<1>7. n # 0
  BY <1>1, <1>6 DEF offered
<1>8. CASE hits = {}
  BY <1>1, <1>2, <1>4, <1>6, <1>7, <1>8
<1>9. CASE hits # {}
  <2>1. hits \subseteq Nat
    BY <1>5
  <2>2. Min(hits) \in hits
    BY <1>9, <2>1, MinIsLeast
  <2>3. Min(hits) \in 1 .. n
    BY <1>5, <2>2
  <2> QED BY <1>1, <1>2, <1>4, <1>6, <1>9, <2>3
<1> QED BY <1>8, <1>9

(* The winner of a route that served is the source of a step that was asked,
   which the audit names. *)
LEMMA WinnerWasAsked ==
  ASSUME AskTyped, PlanStands, CandidatesAsked, Concluded, out.ok, out.served, RouteAssumption
  PROVE  /\ Planned
         /\ ask.claim.ref \in {"", out.winner.source}
         /\ out.winner.source \in filter.effective
         /\ out.winner.source \in out.audit.pool \ out.audit.filteredOut
         /\ out.audit.hitStep \in walk.tried
         /\ steps[out.audit.hitStep].source = out.winner.source
         /\ out.constraints.disallow = ask.policy.disallow \cap {"webview", "video_vast_container"}
<1> DEFINE offered == [i \in DOMAIN candidates |-> OutputCandidate(candidates[i])]
           outcome == ResolveRouteOutcome(Claimed, offered)
           winner  == IF outcome = "served_candidate" THEN FindWinnerCandidate(Claimed, offered) ELSE NoOne
           conclusion == RouteConclusion(Claimed, winner, outcome)
           audit   == RouteAudit(steps, filter, conclusion, winner.source, walk.switches)
<1>1. /\ out.winner = winner /\ out.audit = audit
      /\ out.served <=> outcome = "served_candidate"
      /\ out.constraints = NormalizePolicyConstraints(Decision.constraints)
  BY DEF Concluded, DOutput
<1>2. AuctionAgrees(Claimed, winner, outcome)
  BY DEF Concluded, DOutput
<1>3. Claimed.ref = ask.claim.ref
  BY DEF AskTyped, RouteAssumption, Claimed
<1> HIDE DEF outcome
<1>4. outcome = "served_candidate" /\ winner # NoOne /\ ask.claim.ref \in {"", winner.source}
  BY <1>1, <1>2, <1>3 DEF AuctionAgrees
<1>5. winner = FindWinnerCandidate(Claimed, offered)
  BY <1>4
<1>6. PICK i \in DOMAIN candidates : winner.source = candidates[i].source
  <2>1. candidates \in Seq(Offers) /\ FindWinnerCandidate(Claimed, offered) # NoOne
    BY <1>4, <1>5 DEF CandidatesAsked
  <2>2. \E i \in DOMAIN candidates : FindWinnerCandidate(Claimed, offered).source = candidates[i].source
    BY <2>1, WinnerIsACandidate
  <2> QED BY <1>5, <2>2
<1> HIDE DEF winner, conclusion
<1>7. PICK k \in walk.tried \cap DOMAIN steps : steps[k].source = winner.source
  BY <1>6 DEF CandidatesAsked
<1>8. steps # <<>> /\ Planned
  BY <1>7 DEF PlanStands
<1>9. winner.source \in filter.effective /\ winner.source \notin filter.filteredOut
  BY <1>7 DEF PlanStands, StepsFit
<1>10. audit.hitStep = k
  <2> DEFINE of == {j \in DOMAIN steps : steps[j].source = winner.source}
  <2>1. of = {k} /\ k \in Nat
    BY <1>7 DEF PlanStands, StepsFit
  <2>2. Min(of) = k
    BY <2>1, MinIsLeast
  <2> QED BY <2>1, <2>2 DEF RouteAudit
<1>11. audit.pool = {steps[j].source : j \in DOMAIN steps} /\ audit.filteredOut = filter.filteredOut
  BY <1>8 DEF RouteAudit
<1>12. out.constraints.disallow = ask.policy.disallow \cap {"webview", "video_vast_container"}
  BY <1>1 DEF NormalizePolicyConstraints, Decision, PolicyDecision, ConstraintsLite
<1> HIDE DEF audit
<1>13. out.winner.source \in out.audit.pool \ out.audit.filteredOut
  BY <1>1, <1>7, <1>9, <1>11
<1>14. out.audit.hitStep = k
  BY <1>1, <1>10
<1>15. out.winner.source = winner.source
  BY <1>1
<1> QED BY <1>4, <1>7, <1>8, <1>9, <1>12, <1>13, <1>14, <1>15

----------------------------------------------------------------------------
(* The composition *)

Mode(want, constraints) ==
  LET eligible == EligibleModes(want, constraints)
  IN IF eligible = {} THEN "none" ELSE want.allowed[Min(eligible)]

(* The mode that is composed is one that the placement, the device and the policy
   agree on, and there is one when they do. *)
LEMMA ModeIsEligible ==
  ASSUME NEW want, DOMAIN want.allowed \subseteq Nat, NEW constraints
  PROVE  /\ Mode(want, constraints) # "none" =>
              /\ Mode(want, constraints) \in RenderModes \ constraints.disallow
              /\ \E i \in DOMAIN want.allowed : want.allowed[i] = Mode(want, constraints)
              /\ Mode(want, constraints) # "native_card" =>
                   Mode(want, constraints) \in want.supported \cap want.enabled
         /\ RenderGateHint(want, constraints) = "served" => Mode(want, constraints) # "none"
<1> DEFINE eligible == EligibleModes(want, constraints)
           device == NormalizeDeviceCapabilities(want)
<1>1. eligible = {i \in DOMAIN want.allowed :
                    /\ want.allowed[i] \in RenderModes
                    /\ want.allowed[i] \in device.modes
                    /\ want.allowed[i] = "native_card" \/ want.allowed[i] \in device.enabled
                    /\ want.allowed[i] \notin constraints.disallow}
  BY DEF EligibleModes, NormalizePlacementSpec, KnownModes, ModeSupportedByDevice
<1>2. /\ want.known => device.modes = want.supported \cap RenderModes /\ device.enabled = want.enabled
      /\ ~want.known => device.modes = {"native_card"} /\ device.enabled = {}
  BY DEF NormalizeDeviceCapabilities
<1>3. "none" \notin RenderModes
  BY DEF RenderModes
<1>4. /\ eligible = {} => Mode(want, constraints) = "none"
      /\ eligible # {} => Mode(want, constraints) = want.allowed[Min(eligible)]
  BY DEF Mode
<1> HIDE DEF device, eligible
<1>5. eligible # {} => Min(eligible) \in eligible
  <2> SUFFICES ASSUME eligible # {} PROVE Min(eligible) \in eligible
    OBVIOUS
  <2>1. eligible \subseteq Nat
    BY <1>1
  <2> QED BY <2>1, MinIsLeast
<1>6. ASSUME Mode(want, constraints) # "none"
      PROVE  /\ Mode(want, constraints) \in RenderModes \ constraints.disallow
             /\ \E i \in DOMAIN want.allowed : want.allowed[i] = Mode(want, constraints)
             /\ Mode(want, constraints) # "native_card" =>
                  Mode(want, constraints) \in want.supported \cap want.enabled
  <2>1. PICK i \in eligible : Mode(want, constraints) = want.allowed[i]
    BY <1>4, <1>5, <1>6
  <2>2. /\ i \in DOMAIN want.allowed
        /\ want.allowed[i] \in RenderModes \ constraints.disallow
        /\ want.allowed[i] \in device.modes
        /\ want.allowed[i] = "native_card" \/ want.allowed[i] \in device.enabled
    BY <1>1
  <2>3. want.allowed[i] # "native_card" => want.allowed[i] \in want.supported \cap want.enabled
    BY <1>2, <2>2
  <2> QED BY <2>1, <2>2, <2>3
<1>7. ASSUME RenderGateHint(want, constraints) = "served"
      PROVE  Mode(want, constraints) # "none"
  <2>1. PICK j \in 1..4 : GatePasses(ModeChain[j], want, constraints)
    BY <1>7 DEF RenderGateHint
  <2>2. ModeChain[j] \in RenderModes
    BY <2>1 DEF ModeChain, RenderModes
  <2>3. PICK i \in DOMAIN want.allowed : want.allowed[i] = ModeChain[j]
    BY <2>1 DEF GatePasses
  <2>4. /\ want.known /\ ModeChain[j] \in want.supported
        /\ ModeChain[j] = "native_card" \/ ModeChain[j] \in want.enabled
        /\ ModeChain[j] \notin constraints.disallow
    BY <2>1 DEF GatePasses
  <2>5. i \in eligible
    BY <1>1, <1>2, <2>2, <2>3, <2>4
  <2>6. want.allowed[Min(eligible)] \in RenderModes
    BY <1>1, <1>5, <2>5
  <2> QED BY <1>3, <1>4, <2>5, <2>6
<1> QED BY <1>6, <1>7

Delivered == plan = Compose(out, ask.want) /\ plan.ok /\ response = DeliveryResponse(out, plan)

LEMMA ComposedAsAgreed ==
  ASSUME RouteAssumption, AskTyped, Delivered
  PROVE  /\ response.status = "served" =>
              /\ out.served /\ response.source = out.winner.source
              /\ response.mode \notin out.constraints.disallow
              /\ \E i \in DOMAIN ask.want.allowed : ask.want.allowed[i] = response.mode
              /\ response.mode # "native_card" =>
                   response.mode \in ask.want.supported \cap ask.want.enabled
              /\ plan.container.type = response.mode /\ response.source \notin plan.dropped
         /\ out.served /\ RenderGateHint(ask.want, out.constraints) = "served"
              => response.status = "served"
<1> DEFINE mode     == Mode(ask.want, out.constraints)
           selected == SelectedCandidate(out, mode)
           status   == ComposeDeliveryStatus(out, selected, mode)
           shown    == IF status = "served" THEN mode ELSE "none"
<1>1. DOMAIN ask.want.allowed \subseteq Nat
  <2>1. ask.want \in Wants
    BY DEF AskTyped
  <2>2. ask.want.allowed \in Seq(STRING)
    BY <2>1 DEF RouteAssumption
  <2> QED BY <2>2
<1>2. /\ plan.status = status /\ plan.mode = shown /\ plan.selected = selected
      /\ plan.container = RenderContainer(shown, ask.want, selected)
      /\ plan.dropped = DropRefs(out, selected)
      /\ ComposeRefusal(out, ask.want) = "none"
  BY DEF Delivered, Compose, Mode
<1>3. /\ response.status = status /\ response.mode = shown
      /\ status = "served" => response.source = selected.source
  BY <1>2 DEF Delivered, DeliveryResponse
<1>4. status = "served" <=> out.served /\ selected # NoCandidate /\ mode # "none"
  BY DEF ComposeDeliveryStatus
<1>5. mode # "none" /\ out.served => selected = out.winner
  BY DEF SelectedCandidate
<1>6. /\ mode # "none" =>
           /\ mode \in RenderModes \ out.constraints.disallow
           /\ \E i \in DOMAIN ask.want.allowed : ask.want.allowed[i] = mode
           /\ mode # "native_card" => mode \in ask.want.supported \cap ask.want.enabled
      /\ RenderGateHint(ask.want, out.constraints) = "served" => mode # "none"
  BY <1>1, ModeIsEligible
<1> HIDE DEF mode, selected, status
<1>7. status = "served" => plan.container.type = mode
  <2> SUFFICES ASSUME status = "served" PROVE plan.container.type = mode
    OBVIOUS
  <2>1. shown = mode /\ mode \in RenderModes
    BY <1>4, <1>6
  <2>2. RenderContainer(shown, ask.want, selected).type = mode
    BY <2>1 DEF RenderContainer, RenderModes
  <2> QED BY <1>2, <2>2
<1>8. selected.source \notin plan.dropped
  BY <1>2 DEF DropRefs
<1>9. out.served => out.winner # NoCandidate
  <2> SUFFICES ASSUME out.served, ~ValidateDOutput(out) PROVE FALSE
    BY DEF ValidateDOutput
  <2> DEFINE checks == ComposeChecks(out, ask.want)
             failed == {i \in 1..5 : checks[i].fails}
  <2>1. checks[1].fails
    BY DEF ComposeChecks
  <2>2. \A i \in 1..5 : checks[i].as # "none"
    BY DEF ComposeChecks
  <2> HIDE DEF checks
  <2>3. failed # {} /\ failed \subseteq Nat
    BY <2>1
  <2>4. Min(failed) \in failed
    BY <2>3, MinIsLeast
  <2>5. ComposeRefusal(out, ask.want) = checks[Min(failed)].as
    BY <2>3 DEF ComposeRefusal, checks
  <2> HIDE DEF failed
  <2>6. Min(failed) \in 1..5
    BY <2>4 DEF failed
  <2> QED BY <1>2, <2>2, <2>5, <2>6
<1>10. response.status = "served" =>
         /\ out.served /\ response.source = out.winner.source
         /\ response.mode = mode /\ mode # "none" /\ response.source = selected.source
  BY <1>3, <1>4, <1>5
<1>11. out.served /\ RenderGateHint(ask.want, out.constraints) = "served" => response.status = "served"
  BY <1>3, <1>4, <1>5, <1>6, <1>9
<1> QED BY <1>3, <1>6, <1>7, <1>8, <1>10, <1>11

----------------------------------------------------------------------------
(* The walk *)

Outcomes == {"none", "served", "no_fill", "error", "timeout", "budget_exhausted"}
Skipped == Strategy.type = "waterfall" /\ walk.switches = <<"strategy_fallback">>

(* Where the walk is: the tiers before its own are closed, but for a secondary tier
   that a waterfall skipped; its own is open while it goes on. *)
WalkStands ==
  /\ DOMAIN walk = {"tier", "tried", "asking", "last", "switches"}
  /\ walk.tier \in {"start"} \cup Tiers /\ walk.last \in Outcomes
  /\ pc = "policy" => walk.tried = {} /\ walk.asking = 0 /\ walk.last = "none" /\ walk.switches = <<>>
  /\ pc = "walking" =>
       /\ Open(CurrentTier) # {}
       /\ walk.asking # 0 => walk.asking \in Open(CurrentTier)
       /\ CurrentTier = "primary" => walk.switches = <<>>
       /\ CurrentTier # "primary" => Open("primary") = {}
       /\ CurrentTier = "fallback" => Open("secondary") = {} \/ Skipped
  /\ pc \notin {"policy", "walking"} /\ walk.last = "no_fill" =>
       /\ Open("primary") = {} /\ Open("fallback") = {}
       /\ Open("secondary") = {} \/ Skipped

(* What the router answers to an outcome. *)
LEMMA TransitionAnswers ==
  ASSUME NEW strategy, NEW at, NEW outcome, NEW retryable,
         at.tier \in Tiers
  PROVE  LET next == ResolveRouteTransition(strategy, at, outcome, retryable)
             skips == /\ strategy.type = "waterfall" => outcome = "error" /\ retryable
                      /\ strategy.type = "bidding" => ~strategy.secondBidding
                      /\ strategy.type \in {"waterfall", "bidding"}
         IN  /\ next.action = "continue_same_tier" => at.remaining
             /\ next.action = "switch_tier" =>
                  /\ ~at.remaining
                  /\ \/ next.tier = "secondary" /\ at.tier = "primary" /\ at.secondary
                     \/ /\ next.tier = "fallback" /\ at.fallback /\ next.reason = "strategy_fallback"
                        /\ at.tier = "secondary" \/ (at.tier = "primary" /\ (~at.secondary \/ skips))
             /\ next.action \notin {"continue_same_tier", "switch_tier"} /\ outcome = "no_fill" =>
                  /\ ~at.remaining
                  /\ at.tier = "primary" => ~at.secondary \/ (strategy.type = "bidding" /\ ~strategy.secondBidding)
                  /\ at.tier \in {"primary", "secondary"} => ~at.fallback \/ strategy.fallback = "disabled"
<1> DEFINE next == ResolveRouteTransition(strategy, at, outcome, retryable)
           canFallback == ShouldFallbackForOutcome(outcome, strategy.fallback) /\ at.fallback
           canSecond == CASE strategy.type = "waterfall" -> outcome # "error" \/ ~retryable
                          [] strategy.type = "bidding"   -> strategy.secondBidding
                          [] OTHER                       -> TRUE
<1>1. CASE outcome = "served"
  BY <1>1 DEF ResolveRouteTransition
<1>2. CASE outcome \in TerminalOutcomes
  BY <1>2 DEF ResolveRouteTransition, TerminalOutcomes
<1>3. CASE outcome \notin {"served"} \cup TerminalOutcomes /\ at.remaining
  <2>1. next.action = "continue_same_tier"
    BY <1>3 DEF ResolveRouteTransition
  <2> QED BY <1>3, <2>1
<1>4. CASE outcome \notin {"served"} \cup TerminalOutcomes /\ ~at.remaining
           /\ at.tier = "primary" /\ at.secondary /\ canSecond
  <2>1. next.action = "switch_tier" /\ next.tier = "secondary"
    BY <1>4 DEF ResolveRouteTransition
  <2> QED BY <1>4, <2>1
<1> DEFINE stays == at.tier = "primary" /\ at.secondary /\ canSecond
<1>5. CASE outcome \notin {"served"} \cup TerminalOutcomes /\ ~at.remaining /\ ~stays
           /\ at.tier \in {"primary", "secondary"} /\ canFallback
  <2>1. next.action = "switch_tier" /\ next.tier = "fallback" /\ next.reason = "strategy_fallback"
    BY <1>5 DEF ResolveRouteTransition
  <2>2. ~canSecond =>
          /\ strategy.type = "waterfall" => outcome = "error" /\ retryable
          /\ strategy.type = "bidding" => ~strategy.secondBidding
          /\ strategy.type \in {"waterfall", "bidding"}
    OBVIOUS
  <2> HIDE DEF canSecond
  <2> QED BY <1>5, <2>1, <2>2
<1>6. CASE outcome \notin {"served"} \cup TerminalOutcomes /\ ~at.remaining /\ ~stays
           /\ ~(at.tier \in {"primary", "secondary"} /\ canFallback)
  <2>1. next.action = "exhausted"
    BY <1>6 DEF ResolveRouteTransition
  <2>2. outcome = "no_fill" /\ ~canSecond => strategy.type = "bidding" /\ ~strategy.secondBidding
    OBVIOUS
  <2>3. outcome = "no_fill" /\ ~canFallback => ~at.fallback \/ strategy.fallback = "disabled"
    BY DEF ShouldFallbackForOutcome
  <2> HIDE DEF canSecond, canFallback
  <2> QED BY <1>6, <2>1, <2>2, <2>3
<1> QED BY <1>1, <1>2, <1>3, <1>4, <1>5, <1>6

(* The steps that are open are steps of the plan, and of no tier that the strategy
   leaves out. *)
LEMMA OpenSteps ==
  ASSUME PlanStands
  PROVE  /\ \A tier : Open(tier) \subseteq DOMAIN steps
         /\ \A tier : Open(tier) # {} => Planned
         /\ \A k \in DOMAIN steps : steps[k].budget > 0 /\ k \notin walk.tried =>
              k \in Open("primary") \cup Open("secondary") \cup Open("fallback")
         /\ Strategy.fallback = "disabled" => Open("fallback") = {}
         /\ Strategy.type = "bidding" /\ ~Strategy.secondBidding => Open("secondary") = {}
<1>1. \A tier : Open(tier) \subseteq DOMAIN steps
  BY DEF Open
<1>2. \A tier : Open(tier) # {} => steps # <<>>
  BY <1>1
<1>3. \A k \in DOMAIN steps : steps[k].tier \in Tiers
  BY DEF PlanStands, StepsFit
<1>4. \A k \in DOMAIN steps : steps[k].budget > 0 /\ k \notin walk.tried =>
        k \in Open("primary") \cup Open("secondary") \cup Open("fallback")
  BY <1>3 DEF Open, Tiers
<1>5. Strategy.fallback = "disabled" => Open("fallback") = {}
  BY DEF Open, PlanStands, StepsFit
<1>6. Strategy.type = "bidding" /\ ~Strategy.secondBidding => Open("secondary") = {}
  BY DEF Open, PlanStands, StepsFit
<1> QED BY <1>1, <1>2, <1>4, <1>5, <1>6 DEF PlanStands

(* A step that is concluded leaves the walk where it may be. *)
LEMMA WalkGoesOn ==
  ASSUME PlanStands, WalkStands, pc = "walking",
         NEW k \in Open(CurrentTier), NEW outcome \in Outcomes \ {"none"}, NEW retryable \in BOOLEAN,
         Conclude(k, outcome, retryable), UNCHANGED <<ask, steps, filter>>
  PROVE  WalkStands' /\ pc' \in {"walking", "walked"} /\ walk'.tried = walk.tried \cup {k}
<1> DEFINE all    == IF walk.last = "served" THEN "served" ELSE outcome
           cur    == CurrentTier
           left(tier) == Open(tier) \ {k}
           at     == [tier |-> cur, remaining |-> left(cur) # {},
                      secondary |-> left("secondary") # {}, fallback |-> left("fallback") # {}]
           next   == ResolveRouteTransition(Strategy, at, all, retryable)
           waits  == Parallel(cur) /\ Open(cur) # {k}
           goesOn == waits \/ next.action \in {"switch_tier", "continue_same_tier"}
           moves  == ~waits /\ next.action = "switch_tier"
<1>1. \A tier : ({j \in Open(tier) : j \notin {k}} # {}) = (left(tier) # {})
  OBVIOUS
<1>2. After({k}, all, retryable) = next
  BY <1>1 DEF After
<1>3. /\ walk' = [tier |-> IF moves THEN next.tier ELSE cur,
                  tried |-> walk.tried \cup {k}, asking |-> 0, last |-> all,
                  switches |-> IF moves THEN Append(walk.switches, next.reason) ELSE walk.switches]
      /\ pc' = IF goesOn THEN "walking" ELSE "walked"
  BY <1>2 DEF Conclude
<1>4. /\ walk'.tier = IF moves THEN next.tier ELSE cur
      /\ walk'.tried = walk.tried \cup {k} /\ walk'.asking = 0 /\ walk'.last = all
      /\ walk'.switches = IF moves THEN Append(walk.switches, next.reason) ELSE walk.switches
      /\ DOMAIN walk' = {"tier", "tried", "asking", "last", "switches"}
  BY <1>3
<1>5. /\ left(cur) # {} <=> at.remaining
      /\ left("secondary") # {} <=> at.secondary
      /\ left("fallback") # {} <=> at.fallback
      /\ at.tier = cur
  OBVIOUS
<1>6. cur \in Tiers /\ all \in Outcomes
  BY DEF WalkStands, CurrentTier, FirstTier, Tiers, Outcomes
<1>7. \A tier : Open(tier)' = left(tier)
  BY <1>4 DEF Open
<1>8. Strategy' = Strategy
  BY DEF Strategy
<1> DEFINE skips == /\ Strategy.type = "waterfall" => all = "error" /\ retryable
                    /\ Strategy.type = "bidding" => ~Strategy.secondBidding
                    /\ Strategy.type \in {"waterfall", "bidding"}
<1>9. /\ next.action = "continue_same_tier" => at.remaining
      /\ next.action = "switch_tier" =>
           /\ ~at.remaining
           /\ \/ next.tier = "secondary" /\ at.tier = "primary" /\ at.secondary
              \/ /\ next.tier = "fallback" /\ at.fallback /\ next.reason = "strategy_fallback"
                 /\ at.tier = "secondary" \/ (at.tier = "primary" /\ (~at.secondary \/ skips))
      /\ next.action \notin {"continue_same_tier", "switch_tier"} /\ all = "no_fill" =>
           /\ ~at.remaining
           /\ at.tier = "primary" =>
                ~at.secondary \/ (Strategy.type = "bidding" /\ ~Strategy.secondBidding)
           /\ at.tier \in {"primary", "secondary"} => ~at.fallback \/ Strategy.fallback = "disabled"
  BY <1>5, <1>6, TransitionAnswers
<1>10. /\ Strategy.fallback = "disabled" => Open("fallback") = {}
       /\ Strategy.type = "bidding" /\ ~Strategy.secondBidding => Open("secondary") = {}
  BY OpenSteps
<1>11. /\ cur = "primary" => walk.switches = <<>>
       /\ cur # "primary" => Open("primary") = {}
       /\ cur = "fallback" => Open("secondary") = {} \/ Skipped
  BY DEF WalkStands
<1>12. skips => Strategy.type = "waterfall" \/ Open("secondary") = {}
  BY <1>10
<1>13. waits => left(cur) # {}
  BY DEF Open
<1> HIDE DEF at, next, waits, all, cur, skips
<1>14. CASE goesOn /\ ~moves
  <2>1. walk'.tier = cur /\ walk'.switches = walk.switches /\ pc' = "walking"
    BY <1>3, <1>4, <1>14
  <2>2. left(cur) # {}
    BY <1>5, <1>9, <1>13, <1>14
  <2>3. CurrentTier' = cur /\ (cur = "fallback" => (Open("secondary") = {} \/ Skipped))
    BY <1>6, <1>11, <2>1 DEF CurrentTier, Tiers
  <2>4. Skipped => Skipped'
    BY <1>8, <2>1 DEF Skipped
  <2>5. Open(CurrentTier)' # {} /\ (cur # "primary" => Open("primary")' = {})
        /\ (cur = "fallback" => (Open("secondary")' = {} \/ Skipped'))
    BY <1>7, <1>11, <2>2, <2>3, <2>4
  <2> QED BY <1>4, <1>6, <1>11, <2>1, <2>3, <2>5 DEF WalkStands, Tiers
<1>15. CASE moves
  <2>1. walk'.tier = next.tier /\ walk'.switches = Append(walk.switches, next.reason) /\ pc' = "walking"
    BY <1>3, <1>4, <1>15
  <2>2. /\ ~at.remaining
        /\ \/ next.tier = "secondary" /\ at.tier = "primary" /\ at.secondary
           \/ /\ next.tier = "fallback" /\ at.fallback /\ next.reason = "strategy_fallback"
              /\ at.tier = "secondary" \/ (at.tier = "primary" /\ (~at.secondary \/ skips))
    BY <1>9, <1>15
  <2>3. left(cur) = {} /\ cur \in {"primary", "secondary"}
    BY <1>5, <2>2
  <2>4. left("primary") = {}
    BY <1>11, <2>3
  <2>5. CASE next.tier = "secondary"
    <3>1. CurrentTier' = "secondary" /\ left("secondary") # {}
      BY <1>5, <2>1, <2>2, <2>5 DEF CurrentTier
    <3>2. Open(CurrentTier)' # {} /\ Open("primary")' = {}
      BY <1>7, <2>4, <3>1
    <3> QED BY <1>4, <1>6, <2>1, <2>5, <3>1, <3>2 DEF WalkStands, Tiers
  <2>6. CASE next.tier = "fallback"
    <3>1. CurrentTier' = "fallback" /\ left("fallback") # {} /\ next.reason = "strategy_fallback"
      BY <1>5, <2>1, <2>2, <2>6 DEF CurrentTier
    <3>2. left("secondary") = {} \/ Skipped'
      <4>1. CASE cur = "secondary"
        BY <2>3, <4>1
      <4>2. CASE cur = "primary"
        <5>1. left("secondary") = {} \/ skips
          BY <1>5, <2>2, <2>6, <4>2
        <5>2. walk'.switches = <<"strategy_fallback">>
          <6>1. walk'.switches = Append(<<>>, "strategy_fallback")
            BY <1>11, <2>1, <3>1, <4>2
          <6>2. Append(<<>>, "strategy_fallback") = <<"strategy_fallback">>
            OBVIOUS
          <6> QED BY <6>1, <6>2
        <5>3. skips => Open("secondary") = {} \/ Skipped'
          BY <1>8, <1>12, <5>2 DEF Skipped
        <5> QED BY <5>1, <5>3
      <4> QED BY <2>3, <4>1, <4>2
    <3>3. Open(CurrentTier)' # {} /\ Open("primary")' = {} /\ (Open("secondary")' = {} \/ Skipped')
      BY <1>7, <2>4, <3>1, <3>2
    <3> QED BY <1>4, <1>6, <2>1, <2>6, <3>1, <3>3 DEF WalkStands, Tiers
  <2> QED BY <2>2, <2>5, <2>6
<1>16. CASE ~goesOn
  <2>1. walk'.tier = cur /\ walk'.switches = walk.switches /\ pc' = "walked"
    BY <1>3, <1>4, <1>16
  <2>2. ASSUME all = "no_fill"
        PROVE  /\ Open("primary")' = {} /\ Open("fallback")' = {}
               /\ Open("secondary")' = {} \/ Skipped'
    <3>1. /\ ~at.remaining
          /\ at.tier = "primary" =>
               ~at.secondary \/ (Strategy.type = "bidding" /\ ~Strategy.secondBidding)
          /\ at.tier \in {"primary", "secondary"} => ~at.fallback \/ Strategy.fallback = "disabled"
      BY <1>9, <1>16, <2>2
    <3>2. left(cur) = {}
      BY <1>5, <3>1
    <3>3. Skipped => Skipped'
      BY <1>8, <2>1 DEF Skipped
    <3>4. left("primary") = {}
      BY <1>11, <3>2
    <3>5. left("fallback") = {}
      BY <1>5, <1>6, <1>10, <3>1, <3>2 DEF Tiers
    <3>6. left("secondary") = {} \/ Skipped
      BY <1>5, <1>6, <1>10, <1>11, <3>1, <3>2 DEF Tiers
    <3> QED BY <1>7, <3>3, <3>4, <3>5, <3>6
  <2> QED BY <1>4, <1>6, <2>1, <2>2 DEF WalkStands, Tiers
<1> QED BY <1>3, <1>4, <1>14, <1>15, <1>16

----------------------------------------------------------------------------
(* The steps of an opportunity *)

ConclusionStands ==
  /\ pc \in {"policy", "walking", "walked", "blocked", "composing", "delivered"}
  /\ pc # "delivered" => response = Nothing
  /\ pc \in {"composing", "delivered"} => Concluded /\ out.ok
  /\ pc = "delivered" => Delivered
  /\ \A e \in reported : e.type = "impression" /\ e.told = Untold =>
       pc = "delivered" /\ response.status = "served"

RouteInv == AskTyped /\ PlanStands /\ WalkStands /\ CandidatesAsked /\ ConclusionStands

LEMMA StrategyNormalized ==
  ASSUME RouteAssumption, AskTyped
  PROVE  Strategy.fanout \in Nat
<1>1. ask.strategy \in Strategies
  BY DEF AskTyped
<1>2. /\ DOMAIN ask.strategy = {"type", "fanout", "fallback", "secondBidding", "timeout"}
      /\ ask.strategy.fanout \in Int
  BY <1>1 DEF RouteAssumption
<1> DEFINE type == IF ask.strategy.type = "" THEN "waterfall" ELSE ask.strategy.type
<1>3. Strategy.fanout = IF type = "waterfall" THEN 1 ELSE AtLeastOne(ask.strategy.fanout)
  BY <1>2 DEF Strategy, NormalizeExecutionStrategy
<1>4. \A n \in Int : AtLeastOne(n) \in Nat
  BY DEF AtLeastOne
<1> HIDE DEF type
<1> QED BY <1>2, <1>3, <1>4

LEMMA RouteInvInit ==
  RouteInit => RouteInv
<1> SUFFICES ASSUME RouteInit PROVE RouteInv
  OBVIOUS
<1>1. AskTyped
  BY DEF RouteInit, AskTyped
<1>2. PlanStands
  BY DEF RouteInit, PlanStands, StepsFit
<1>3. WalkStands
  BY DEF RouteInit, WalkStands, Tiers, Outcomes
<1>4. CandidatesAsked
  BY DEF RouteInit, CandidatesAsked
<1>5. ConclusionStands
  BY DEF RouteInit, ConclusionStands
<1> QED BY <1>1, <1>2, <1>3, <1>4, <1>5 DEF RouteInv

LEMMA PlanKeeps ==
  ASSUME RouteAssumption, RouteInv, Plan
  PROVE  RouteInv'
<1>1. /\ AskTyped /\ PlanStands /\ WalkStands /\ CandidatesAsked /\ ConclusionStands
      /\ pc = "policy" /\ UNCHANGED <<ask, candidates, out, plan, response, terminals, reported>>
  BY DEF RouteInv, Plan, eventVars
<1>2. /\ filter' = IF Planned THEN SourceFilterSnapshot(ListRoutableAdapters(ask.want.type), Decision.constraints) ELSE filter
      /\ steps' = IF Planned THEN RouteSteps(filter'.effective, Strategy, ask.budget) ELSE <<>>
      /\ pc' = CASE ~Planned -> "blocked"
                 [] Planned /\ RoutePlanStatus(steps') = "terminated" -> "walked"
                 [] OTHER -> "walking"
      /\ walk' = [walk EXCEPT !.tier =
                    IF \E k \in DOMAIN steps' : steps'[k].tier = "primary" /\ steps'[k].budget > 0
                    THEN "primary" ELSE "start"]
  BY DEF Plan
<1>3. Strategy' = Strategy /\ Decision' = Decision /\ Planned' = Planned /\ AskTyped'
  BY <1>1 DEF Strategy, Decision, Planned, AskTyped
<1>4. /\ DOMAIN walk' = {"tier", "tried", "asking", "last", "switches"}
      /\ walk'.tried = {} /\ walk'.asking = 0 /\ walk'.last = "none" /\ walk'.switches = <<>>
      /\ walk'.tier = IF \E k \in DOMAIN steps' : steps'[k].tier = "primary" /\ steps'[k].budget > 0
                      THEN "primary" ELSE "start"
  BY <1>1, <1>2 DEF WalkStands
<1>5. PlanStands' /\ (\A k \in DOMAIN steps' : steps'[k].tier \in Tiers)
  <2>1. CASE ~Planned
    <3>1. steps' = <<>> /\ filter' = filter
      BY <1>2, <2>1
    <3>2. StepsFit(<<>>, filter.effective, Strategy)
      BY DEF StepsFit
    <3> QED BY <1>1, <1>3, <3>1, <3>2 DEF PlanStands
  <2>2. CASE Planned
    <3> DEFINE constraints == Decision.constraints
               pool == EffectivePool(ListRoutableAdapters(ask.want.type), constraints)
    <3>1. filter' = SourceFilterSnapshot(ListRoutableAdapters(ask.want.type), constraints)
          /\ steps' = RouteSteps(filter'.effective, Strategy, ask.budget)
      BY <1>2, <2>2
    <3>2. filter'.effective = pool
          /\ filter'.filteredOut \subseteq constraints.blocked
      BY <3>1 DEF SourceFilterSnapshot
    <3>3. constraints.blocked = ask.policy.blocked
      BY DEF Decision, PolicyDecision, ConstraintsLite
    <3>4. pool \subseteq Sources \ ask.policy.blocked
          /\ (constraints.selection = "allowlist_only" => pool \subseteq constraints.allowed)
      BY <3>3 DEF EffectivePool, ListRoutableAdapters
    <3>9. \A s \in pool : Supports(s, ask.want.type)
      BY DEF EffectivePool, ListRoutableAdapters, Routable
    <3>5. pool \in SUBSET Known
      BY <3>4 DEF Known, RouteAssumption
    <3> HIDE DEF pool, constraints
    <3>6. StepsFit(steps', filter'.effective, Strategy)
      BY <1>1, <3>1, <3>2, <3>5, PlannedStepsFit, StrategyNormalized
    <3>7. pc' # "policy"
      BY <1>2
    <3>8. \A k \in DOMAIN steps' : steps'[k].tier \in Tiers
      BY <3>6 DEF StepsFit
    <3> QED BY <1>1, <1>3, <2>2, <3>2, <3>3, <3>4, <3>6, <3>7, <3>8, <3>9 DEF PlanStands, constraints
  <2> QED BY <2>1, <2>2
<1>6. WalkStands'
  <2>1. pc' \in {"blocked", "walked", "walking"}
    BY <1>2
  <2>2. ASSUME pc' = "walking"
        PROVE  /\ Open(CurrentTier)' # {} /\ CurrentTier' \in Tiers
               /\ CurrentTier' # "primary" => Open("primary")' = {}
               /\ CurrentTier' = "fallback" => Open("secondary")' = {}
    <3>1. \A tier : Open(tier)' = {k \in DOMAIN steps' : steps'[k].tier = tier /\ steps'[k].budget > 0}
      BY <1>4 DEF Open
    <3>2. \E k \in DOMAIN steps' : steps'[k].budget > 0
      BY <1>2, <2>2 DEF RoutePlanStatus
    <3>3. Open("primary")' # {} \/ Open("secondary")' # {} \/ Open("fallback")' # {}
      BY <1>5, <3>1, <3>2 DEF Tiers
    <3>4. walk'.tier = IF Open("primary")' # {} THEN "primary" ELSE "start"
      BY <1>4, <3>1
    <3>5. CurrentTier' = IF walk'.tier = "start"
                         THEN IF Open("secondary")' # {} THEN "secondary" ELSE "fallback"
                         ELSE walk'.tier
      BY DEF CurrentTier, FirstTier
    <3> QED BY <3>3, <3>4, <3>5 DEF Tiers
  <2> QED BY <1>4, <2>1, <2>2 DEF WalkStands, Tiers, Outcomes
<1>7. CandidatesAsked'
  BY <1>1, <1>4 DEF CandidatesAsked, WalkStands
<1>8. ConclusionStands'
  BY <1>1, <1>2 DEF ConclusionStands
<1> QED BY <1>3, <1>5, <1>6, <1>7, <1>8 DEF RouteInv

LEMMA AskSourceKeeps ==
  ASSUME RouteInv, NEW k \in DOMAIN steps, AskSource(k)
  PROVE  RouteInv'
<1>1. /\ AskTyped /\ PlanStands /\ WalkStands /\ CandidatesAsked /\ ConclusionStands
      /\ pc = "walking" /\ k \in Open(CurrentTier)
      /\ UNCHANGED <<pc, ask, steps, filter, candidates, out, plan, response, terminals, reported>>
  BY DEF RouteInv, AskSource, eventVars
<1>2. walk' = [walk EXCEPT !.asking = k] /\ DOMAIN walk = {"tier", "tried", "asking", "last", "switches"}
  BY <1>1 DEF AskSource, WalkStands
<1>3. /\ walk'.tier = walk.tier /\ walk'.tried = walk.tried /\ walk'.asking = k
      /\ walk'.last = walk.last /\ walk'.switches = walk.switches
      /\ DOMAIN walk' = {"tier", "tried", "asking", "last", "switches"}
  BY <1>2
<1>4. Strategy' = Strategy /\ Decision' = Decision /\ Planned' = Planned /\ AskTyped'
  BY <1>1 DEF Strategy, Decision, Planned, AskTyped
<1>5. PlanStands'
  BY <1>1, <1>4 DEF PlanStands
<1>6. WalkStands'
  <2>1. \A tier : Open(tier)' = Open(tier)
    BY <1>1, <1>3 DEF Open
  <2>2. CurrentTier' = CurrentTier
    BY <1>3, <2>1 DEF CurrentTier, FirstTier
  <2>3. Skipped' <=> Skipped
    BY <1>3, <1>4 DEF Skipped
  <2> QED BY <1>1, <1>3, <2>1, <2>2, <2>3 DEF WalkStands
<1>7. CandidatesAsked'
  BY <1>1, <1>3 DEF CandidatesAsked
<1>8. ConclusionStands'
  BY <1>1 DEF ConclusionStands
<1> QED BY <1>4, <1>5, <1>6, <1>7, <1>8 DEF RouteInv

(* A sequence with one more element. *)
LEMMA OneMore ==
  ASSUME NEW S, NEW q \in Seq(S), NEW x \in S
  PROVE  /\ Len(q) \in Nat /\ DOMAIN q = 1 .. Len(q) /\ Append(q, x) \in Seq(S)
         /\ DOMAIN Append(q, x) = 1 .. Len(q) + 1 /\ Append(q, x)[Len(q) + 1] = x
         /\ \A i \in 1 .. Len(q) : Append(q, x)[i] = q[i]
<1>1. Len(q) \in Nat /\ DOMAIN q = 1 .. Len(q)
  OBVIOUS
<1>2. Append(q, x) \in Seq(S) /\ Len(Append(q, x)) = Len(q) + 1
  OBVIOUS
<1>3. DOMAIN Append(q, x) = 1 .. Len(q) + 1
  BY <1>2
<1>4. Append(q, x)[Len(q) + 1] = x
  OBVIOUS
<1>5. ASSUME NEW i \in 1 .. Len(q) PROVE Append(q, x)[i] = q[i]
  OBVIOUS
<1> QED BY <1>1, <1>2, <1>3, <1>4, <1>5

(* A step that is concluded adds its source's candidate. *)
LEMMA AskedAddsOne ==
  ASSUME CandidatesAsked, NEW offer \in Offers, NEW k \in DOMAIN steps,
         offer.source = steps[k].source, candidates' = Append(candidates, offer),
         steps' = steps, walk'.tried = walk.tried \cup {k}
  PROVE  CandidatesAsked'
<1>1. candidates \in Seq(Offers)
  BY DEF CandidatesAsked
<1>2. /\ Len(candidates) \in Nat /\ DOMAIN candidates = 1 .. Len(candidates)
      /\ candidates' \in Seq(Offers) /\ DOMAIN candidates' = 1 .. Len(candidates) + 1
      /\ candidates'[Len(candidates) + 1] = offer
      /\ \A i \in 1 .. Len(candidates) : candidates'[i] = candidates[i]
  BY <1>1, OneMore
<1>3. ASSUME NEW i \in DOMAIN candidates'
      PROVE  \E j \in walk'.tried \cap DOMAIN steps : steps[j].source = candidates'[i].source
  <2>1. CASE i = Len(candidates) + 1
    BY <1>2, <2>1
  <2>2. CASE i # Len(candidates) + 1
    <3>1. i \in DOMAIN candidates /\ candidates'[i] = candidates[i]
      BY <1>2, <2>2
    <3> QED BY <3>1 DEF CandidatesAsked
  <2> QED BY <2>1, <2>2
<1> QED BY <1>2, <1>3 DEF CandidatesAsked

(* A step is concluded with what its source answered. *)
LEMMA ConcludeKeeps ==
  ASSUME RouteInv, pc = "walking",
         NEW k \in Open(CurrentTier), NEW outcome \in Outcomes \ {"none"}, NEW retryable \in BOOLEAN,
         Conclude(k, outcome, retryable),
         UNCHANGED <<ask, steps, filter>>, UNCHANGED <<out, plan, response, reported>>
  PROVE  walk'.tried = walk.tried \cup {k} /\ (CandidatesAsked' => RouteInv')
<1>1. /\ AskTyped /\ PlanStands /\ WalkStands /\ CandidatesAsked /\ ConclusionStands
  BY DEF RouteInv
<1>2. WalkStands' /\ pc' \in {"walking", "walked"} /\ walk'.tried = walk.tried \cup {k}
  BY <1>1, WalkGoesOn
<1>3. Strategy' = Strategy /\ Decision' = Decision /\ Planned' = Planned /\ AskTyped'
  BY <1>1 DEF Strategy, Decision, Planned, AskTyped
<1>4. PlanStands'
  BY <1>1, <1>2, <1>3 DEF PlanStands
<1>5. ConclusionStands'
  BY <1>1, <1>2 DEF ConclusionStands
<1> QED BY <1>2, <1>3, <1>4, <1>5 DEF RouteInv

LEMMA SourcesKeep ==
  ASSUME RouteInv,
         \/ \E k \in DOMAIN steps : RefuseSource(k)
         \/ \E price \in {0, 1}, stated \in BOOLEAN : SourceServes(price, stated)
         \/ \E outcome \in {"no_fill", "error", "timeout", "budget_exhausted"}, retryable \in BOOLEAN :
              SourceFails(outcome, retryable)
  PROVE  RouteInv'
<1>1. CandidatesAsked /\ {"error", "served", "no_fill", "timeout", "budget_exhausted"} \subseteq Outcomes \ {"none"}
  BY DEF RouteInv, Outcomes
<1>2. ASSUME NEW k \in Open(CurrentTier), pc = "walking",
             NEW outcome \in Outcomes \ {"none"}, NEW retryable \in BOOLEAN,
             Conclude(k, outcome, retryable),
             UNCHANGED <<ask, steps, filter, candidates, out, plan, response, reported>>
      PROVE  RouteInv'
  <2>1. walk'.tried = walk.tried \cup {k} /\ (CandidatesAsked' => RouteInv')
    <3>1. UNCHANGED <<ask, steps, filter>> /\ UNCHANGED <<out, plan, response, reported>>
      BY <1>2
    <3> QED BY <1>2, <3>1, ConcludeKeeps
  <2>2. CandidatesAsked'
    BY <1>1, <1>2, <2>1 DEF CandidatesAsked
  <2> QED BY <2>1, <2>2
<1>3. ASSUME NEW k \in DOMAIN steps, RefuseSource(k) PROVE RouteInv'
  <2>1. /\ pc = "walking" /\ k \in Open(CurrentTier) /\ Conclude(k, "error", FALSE)
        /\ UNCHANGED <<ask, steps, filter, candidates, out, plan, response, reported>>
    BY <1>3 DEF RefuseSource, eventVars
  <2> QED BY <1>1, <1>2, <2>1
<1>4. ASSUME pc = "walking", walk.asking # 0 PROVE walk.asking \in Open(CurrentTier)
  BY <1>4 DEF RouteInv, WalkStands
<1>5. ASSUME NEW outcome \in {"no_fill", "error", "timeout", "budget_exhausted"}, NEW retryable \in BOOLEAN,
             SourceFails(outcome, retryable)
      PROVE  RouteInv'
  <2>1. /\ pc = "walking" /\ walk.asking # 0 /\ Conclude(walk.asking, outcome, retryable)
        /\ UNCHANGED <<ask, steps, filter, candidates, out, plan, response, reported>>
    BY <1>5 DEF SourceFails, eventVars
  <2>2. walk.asking \in Open(CurrentTier) /\ outcome \in Outcomes \ {"none"}
    BY <1>1, <1>4, <2>1
  <2> QED BY <1>2, <2>1, <2>2
<1>6. ASSUME NEW price \in {0, 1}, NEW stated \in BOOLEAN, SourceServes(price, stated) PROVE RouteInv'
  <2> PICK k : k = walk.asking
    OBVIOUS
  <2> PICK tier : tier = IF stated THEN steps[k].tier ELSE ""
    OBVIOUS
  <2> PICK offer : offer = [source |-> steps[k].source, price |-> price, tier |-> tier]
    OBVIOUS
  <2>1. /\ pc = "walking" /\ k # 0 /\ Conclude(k, "served", FALSE)
        /\ UNCHANGED <<ask, steps, filter>> /\ UNCHANGED <<out, plan, response, reported>>
        /\ candidates' = Append(candidates, offer)
    BY <1>6 DEF SourceServes, eventVars
  <2>2. k \in Open(CurrentTier)
    BY <1>4, <2>1
  <2>3. walk'.tried = walk.tried \cup {k} /\ (CandidatesAsked' => RouteInv')
    BY <1>1, <2>1, <2>2, ConcludeKeeps
  <2>4. k \in DOMAIN steps /\ steps[k].source \in Sources /\ steps[k].tier \in Tiers
    BY <2>2 DEF Open, RouteInv, PlanStands, StepsFit
  <2>5. offer \in Offers /\ offer.source = steps[k].source
    BY <1>6, <2>4 DEF Offers
  <2>6. CandidatesAsked'
    BY <1>1, <2>1, <2>3, <2>4, <2>5, AskedAddsOne
  <2> QED BY <2>3, <2>6
<1> QED BY <1>3, <1>5, <1>6

LEMMA RouteInvNext ==
  ASSUME RouteAssumption, RouteInv, RouteNext \/ UNCHANGED allRouteVars
  PROVE  RouteInv'
<1>1. AskTyped /\ PlanStands /\ WalkStands /\ CandidatesAsked /\ ConclusionStands
  BY DEF RouteInv
<1>2. ASSUME UNCHANGED <<pc, ask, steps, filter, walk, candidates, out, plan, response>>,
             UNCHANGED reported
      PROVE  RouteInv'
  <2>1. Strategy' = Strategy /\ Decision' = Decision /\ Planned' = Planned /\ Claimed' = Claimed
    BY <1>2 DEF Strategy, Decision, Planned, Claimed
  <2>2. \A tier : Open(tier)' = Open(tier)
    BY <1>2 DEF Open
  <2>3. CurrentTier' = CurrentTier /\ (Skipped' <=> Skipped)
    BY <1>2, <2>1, <2>2 DEF CurrentTier, FirstTier, Skipped
  <2>4. (Concluded' <=> Concluded) /\ (Delivered' <=> Delivered)
    BY <1>2, <2>1 DEF Concluded, Delivered
  <2>5. AskTyped' /\ PlanStands'
    BY <1>1, <1>2, <2>1 DEF AskTyped, PlanStands
  <2>6. WalkStands' /\ CandidatesAsked'
    BY <1>1, <1>2, <2>1, <2>2, <2>3 DEF WalkStands, CandidatesAsked
  <2>7. ConclusionStands'
    BY <1>1, <1>2, <2>1, <2>4 DEF ConclusionStands
  <2> QED BY <2>5, <2>6, <2>7 DEF RouteInv
<1>3. ASSUME UNCHANGED <<ask, steps, filter, walk, candidates>>,
             pc \notin {"policy", "walking"}, pc' \notin {"policy", "walking"}
      PROVE  AskTyped' /\ PlanStands' /\ WalkStands' /\ CandidatesAsked'
             /\ Decision' = Decision /\ Claimed' = Claimed
  BY <1>1, <1>3 DEF AskTyped, PlanStands, WalkStands, CandidatesAsked,
     Open, CurrentTier, FirstTier, Strategy, Decision, Planned, Skipped, Claimed
<1>4. CASE Operators
  BY <1>2, <1>4 DEF Operators, routeVars, eventVars
<1>5. CASE Plan
  BY <1>5, PlanKeeps
<1>6. CASE Output
  <2>1. /\ pc = "walked" /\ pc' = (IF out'.ok THEN "composing" ELSE "blocked")
        /\ out' = DOutput(Claimed, candidates, steps, filter, walk.switches, Decision.constraints)
        /\ UNCHANGED <<ask, steps, filter, walk, candidates, plan, response, terminals, reported>>
    BY <1>6 DEF Output, eventVars
  <2>2. AskTyped' /\ PlanStands' /\ WalkStands' /\ CandidatesAsked'
        /\ Decision' = Decision /\ Claimed' = Claimed
    BY <1>3, <2>1
  <2>3. ConclusionStands'
    BY <1>1, <2>1, <2>2 DEF ConclusionStands, Concluded
  <2> QED BY <2>2, <2>3 DEF RouteInv
<1>7. CASE Deliver
  <2>1. /\ pc = "composing" /\ pc' = (IF plan'.ok THEN "delivered" ELSE "blocked")
        /\ plan' = Compose(out, ask.want)
        /\ response' = IF plan'.ok THEN DeliveryResponse(out, plan') ELSE Nothing
        /\ UNCHANGED <<ask, steps, filter, walk, candidates, out, terminals, reported>>
    BY <1>7 DEF Deliver, eventVars
  <2>2. AskTyped' /\ PlanStands' /\ WalkStands' /\ CandidatesAsked'
        /\ Decision' = Decision /\ Claimed' = Claimed
    BY <1>3, <2>1
  <2>3. ConclusionStands'
    BY <1>1, <2>1, <2>2 DEF ConclusionStands, Concluded, Delivered
  <2> QED BY <2>2, <2>3 DEF RouteInv
<1>8. ASSUME NEW k \in DOMAIN steps, AskSource(k) \/ RefuseSource(k) PROVE RouteInv'
  BY <1>8, AskSourceKeeps, SourcesKeep
<1>9. ASSUME NEW a \in Attempts, NEW r \in {"ad_rendered", "ad_render_failed", "on_click"},
             NEW told, Report(a, r, told)
      PROVE  RouteInv'
  <2>1. /\ pc = "delivered" /\ UNCHANGED <<pc, ask, steps, filter, walk, candidates, out, plan, response>>
        /\ BuildEvent(response, a, r, told)
    BY <1>9 DEF Report, routeVars
  <2>2. AskTyped' /\ PlanStands' /\ WalkStands' /\ CandidatesAsked'
        /\ Decision' = Decision /\ Claimed' = Claimed
    BY <1>3, <2>1
  <2>3. \A e \in reported' : e.type = "impression" /\ e.told = Untold => response.status = "served"
    BY <1>1, <2>1 DEF ConclusionStands, BuildEvent
  <2>4. ConclusionStands'
    BY <1>1, <2>1, <2>2, <2>3 DEF ConclusionStands, Concluded, Delivered
  <2> QED BY <2>2, <2>4 DEF RouteInv
<1>10. CASE UNCHANGED allRouteVars
  BY <1>2, <1>10 DEF allRouteVars, routeVars, eventVars
<1> QED BY <1>4, <1>5, <1>6, <1>7, <1>8, <1>9, <1>10, SourcesKeep DEF RouteNext, OpportunityNext

(* What is shown was permitted by the policy, won the auction after its source was
   asked, and is in a mode that the placement, the device and the policy agree on;
   what may be shown is.  (policy-engine.js, route-planner.js, route-audit.js,
   output-builder.js, compose.js, render-gate.js, event-output.js) *)
LEMMA ShownOfInv ==
  ASSUME RouteAssumption, RouteInv
  PROVE  ShownIsPermitted
<1>1. AskTyped /\ PlanStands /\ WalkStands /\ CandidatesAsked /\ ConclusionStands
  BY DEF RouteInv
<1>2. ASSUME Shown PROVE SourceIsPermitted /\ SourceIsTheWinner /\ ModeIsPermitted
  <2>1. pc = "delivered" /\ response.status = "served"
    BY <1>1, <1>2 DEF Shown, ConclusionStands, Nothing
  <2>2. Concluded /\ out.ok /\ Delivered
    BY <1>1, <2>1 DEF ConclusionStands
  <2>3. /\ out.served /\ response.source = out.winner.source
        /\ response.mode \notin out.constraints.disallow
        /\ \E i \in DOMAIN ask.want.allowed : ask.want.allowed[i] = response.mode
        /\ response.mode # "native_card" =>
             response.mode \in ask.want.supported \cap ask.want.enabled
        /\ plan.container.type = response.mode /\ response.source \notin plan.dropped
    BY <1>1, <2>1, <2>2, ComposedAsAgreed
  <2>4. /\ Planned
        /\ ask.claim.ref \in {"", response.source}
        /\ response.source \in filter.effective
        /\ response.source \in out.audit.pool \ out.audit.filteredOut
        /\ out.audit.hitStep \in walk.tried
        /\ steps[out.audit.hitStep].source = response.source
        /\ out.constraints.disallow = ask.policy.disallow \cap {"webview", "video_vast_container"}
    BY <1>1, <2>2, <2>3, WinnerWasAsked
  <2>5. SourceIsPermitted
    <3>1. ask.policy \in Policies
      BY <1>1 DEF AskTyped
    <3>2. /\ ask.policy.snapshot \in {"fresh", "expired_open"}
          /\ \A i \in 1..4 : GateAction(GateOrder[i], ask.policy) # "block"
      BY <2>4, <3>1, GatesPassed DEF RouteAssumption, Planned, Decision
    <3>3. response.source \notin ask.policy.blocked /\ Supports(response.source, ask.want.type)
      BY <1>1, <2>4 DEF PlanStands
    <3>4. ask.policy.selection = "allowlist_only" /\ ~(ask.policy.allowed \subseteq ask.policy.blocked)
            => response.source \in ask.policy.allowed
      <4> SUFFICES ASSUME ask.policy.selection = "allowlist_only",
                          ~(ask.policy.allowed \subseteq ask.policy.blocked)
                   PROVE  response.source \in ask.policy.allowed
        OBVIOUS
      <4>1. Decision.constraints.selection = "allowlist_only"
            /\ Decision.constraints.allowed = ask.policy.allowed \ ask.policy.blocked
        BY DEF Decision, PolicyDecision, ConstraintsLite
      <4> QED BY <1>1, <2>4, <4>1 DEF PlanStands
    <3> QED BY <3>2, <3>3, <3>4 DEF SourceIsPermitted
  <2>6. SourceIsTheWinner
    BY <2>4 DEF SourceIsTheWinner
  <2>7. ModeIsPermitted
    BY <2>3, <2>4 DEF ModeIsPermitted
  <2> QED BY <2>5, <2>6, <2>7
<1>3. pc = "delivered" /\ out.served /\ RenderGateHint(ask.want, out.constraints) = "served"
        => response.status = "served"
  BY <1>1, ComposedAsAgreed DEF ConclusionStands
<1> QED BY <1>2, <1>3 DEF ShownIsPermitted

(* A walk without a fill has asked every step that was given time, but for what a
   waterfall skips.  (route-planner.js:490) *)
LEMMA NoFillOfInv ==
  ASSUME RouteInv
  PROVE  NoFillTriesAll
<1> SUFFICES ASSUME pc \notin {"policy", "walking", "blocked"}, walk.last = "no_fill",
                    NEW k \in DOMAIN steps, steps[k].budget > 0, k \notin walk.tried
             PROVE  /\ Strategy.type = "waterfall" /\ steps[k].tier = "secondary"
                    /\ walk.switches = <<"strategy_fallback">>
  BY DEF NoFillTriesAll
<1>1. k \in Open("primary") \cup Open("secondary") \cup Open("fallback")
  BY OpenSteps DEF RouteInv
<1>2. /\ Open("primary") = {} /\ Open("fallback") = {}
      /\ Open("secondary") = {} \/ Skipped
  BY DEF RouteInv, WalkStands
<1> QED BY <1>1, <1>2 DEF Open, Skipped

(* Whatever is shown of any opportunity is permitted, and whatever may be shown is. *)
THEOREM PermittedIsShown == RouteSpec => []ShownIsPermitted
<1>1. RouteInit => RouteInv
  BY RouteInvInit
<1>2. RouteInv /\ [RouteNext]_allRouteVars => RouteInv'
  BY RouteAssumption, RouteInvNext
<1>3. RouteInv => ShownIsPermitted
  BY RouteAssumption, ShownOfInv
<1> QED BY <1>1, <1>2, <1>3, PTL DEF RouteSpec

(* No walk ends without a fill before everything it should ask was asked. *)
THEOREM NothingIsLeftOut == RouteSpec => []NoFillTriesAll
<1>1. RouteInit => RouteInv
  BY RouteInvInit
<1>2. RouteInv /\ [RouteNext]_allRouteVars => RouteInv'
  BY RouteAssumption, RouteInvNext
<1>3. RouteInv => NoFillTriesAll
  BY NoFillOfInv
<1> QED BY <1>1, <1>2, <1>3, PTL DEF RouteSpec

----------------------------------------------------------------------------
(* The register.  A registration is numbered, and a call remembers the number.   *)

Registrations ==
  [status : Statuses \cup {"absent"}, life : {"running", "stopped", "absent"}, gen : Nat]

RegistryTyped == entry \in [Sources -> Registrations]

LEMMA RegistryKeeps ==
  ASSUME RegistryTyped, RegistryNext
  PROVE  /\ RegistryTyped'
         /\ \A s \in Sources :
              entry[s].life = "running" /\ entry'[s].life = "stopped" =>
                \E call \in lifecycle : call.source = s /\ call.gen = entry[s].gen
<1> DEFINE Spared ==
      \A s \in Sources :
        entry[s].life = "running" /\ entry'[s].life = "stopped" =>
          \E call \in lifecycle : call.source = s /\ call.gen = entry[s].gen
<1>1. entry \in [Sources -> Registrations]
  BY DEF RegistryTyped
<1>2. ASSUME NEW s \in Sources, NEW new \in Registrations,
             entry' = [entry EXCEPT ![s] = new], new.life = "stopped" => entry[s].life = "stopped"
      PROVE  RegistryTyped' /\ Spared
  <2>1. RegistryTyped'
    BY <1>1, <1>2 DEF RegistryTyped
  <2>2. \A x \in Sources : entry'[x] = IF x = s THEN new ELSE entry[x]
    BY <1>1, <1>2
  <2> QED BY <1>2, <2>1, <2>2
<1>3. ASSUME NEW s \in Sources, NEW status \in Statuses, RegisterAdapter(s, status)
      PROVE  RegistryTyped' /\ Spared
  <2>1. PICK new : new = [status |-> status, life |-> "running", gen |-> entry[s].gen + 1]
    OBVIOUS
  <2>2. entry' = [entry EXCEPT ![s] = new]
    BY <1>1, <1>3, <2>1 DEF RegisterAdapter
  <2>3. new \in Registrations /\ new.life = "running"
    BY <1>1, <2>1 DEF Registrations
  <2> QED BY <1>2, <2>2, <2>3
<1>4. ASSUME NEW s \in Sources, NEW status \in Statuses, UpdateAdapterStatus(s, status)
      PROVE  RegistryTyped' /\ Spared
  <2>1. PICK new : new = [entry[s] EXCEPT !.status = status]
    OBVIOUS
  <2>2. entry' = [entry EXCEPT ![s] = new]
    BY <1>1, <1>4, <2>1 DEF UpdateAdapterStatus
  <2>3. entry[s] \in Registrations
    BY <1>1
  <2>4. new \in Registrations /\ new.life = entry[s].life
    BY <2>1, <2>3 DEF Registrations
  <2> QED BY <1>2, <2>2, <2>4
<1>5. ASSUME NEW s \in Sources, UnregisterAdapter(s) PROVE RegistryTyped' /\ Spared
  <2>1. entry' = [entry EXCEPT ![s] = Absent(entry[s].gen)]
    BY <1>1, <1>5 DEF UnregisterAdapter
  <2>2. Absent(entry[s].gen) \in Registrations /\ Absent(entry[s].gen).life = "absent"
    BY <1>1 DEF Absent, Registrations
  <2> QED BY <1>2, <2>1, <2>2
<1>6. ASSUME UNCHANGED entry PROVE RegistryTyped' /\ Spared
  BY <1>1, <1>6 DEF RegistryTyped
<1>7. ASSUME NEW s \in Sources, NEW goal \in {"running", "stopped"}, CallLifecycle(s, goal)
      PROVE  RegistryTyped' /\ Spared
  BY <1>6, <1>7 DEF CallLifecycle
<1>8. ASSUME NEW call \in lifecycle, LifecycleFailed(call) PROVE RegistryTyped' /\ Spared
  BY <1>6, <1>8 DEF LifecycleFailed
<1>9. ASSUME NEW call \in lifecycle, NEW life \in {"running", "stopped"},
             entry' = IF Registered(call.source) /\ entry[call.source].gen = call.gen
                      THEN [entry EXCEPT ![call.source].life = life] ELSE entry
      PROVE  RegistryTyped' /\ Spared
  <2>1. CASE ~(Registered(call.source) /\ entry[call.source].gen = call.gen)
    BY <1>6, <1>9, <2>1
  <2>2. CASE entry[call.source].gen = call.gen /\ call.source \notin Sources
    BY <1>1, <1>9, <2>2 DEF RegistryTyped
  <2>3. CASE entry[call.source].gen = call.gen /\ call.source \in Sources
    <3>1. \A x \in Sources :
            /\ x # call.source => entry'[x] = entry[x]
            /\ entry'[x] \in Registrations
      <4>1. entry[call.source] \in Registrations
        BY <1>1, <2>3
      <4>2. [entry[call.source] EXCEPT !.life = life] \in Registrations
        BY <1>9, <4>1 DEF Registrations
      <4> QED BY <1>1, <1>9, <2>3, <4>2
    <3>2. RegistryTyped'
      BY <1>1, <1>9, <3>1 DEF RegistryTyped
    <3>3. Spared
      BY <2>3, <3>1
    <3> QED BY <3>2, <3>3
  <2> QED BY <2>1, <2>2, <2>3
<1>10. ASSUME NEW call \in lifecycle, AdapterStarted(call) \/ AdapterStopped(call)
       PROVE  RegistryTyped' /\ Spared
  BY <1>9, <1>10 DEF AdapterStarted, AdapterStopped
<1> HIDE DEF Spared
<1>11. RegistryTyped' /\ Spared
  BY <1>3, <1>4, <1>5, <1>7, <1>8, <1>10 DEF RegistryNext
<1> QED BY <1>11 DEF Spared

(* However the operators' calls and the adapters' answers interleave, an adapter stops
   only for a call that was made of its own registration.  (adapter-registry.js:339) *)
THEOREM OldStopsSpare == RouteSpec => OldStopSparesNew
<1> DEFINE Spares ==
      \A s \in Sources :
        entry[s].life = "running" /\ entry'[s].life = "stopped" =>
          \E call \in lifecycle : call.source = s /\ call.gen = entry[s].gen
<1>1. RouteInit => RegistryTyped
  BY DEF RouteInit, RegistryInit, RegistryTyped, Registrations, Statuses
<1>2. RegistryTyped /\ [RouteNext]_allRouteVars => RegistryTyped' /\ Spares
  <2> SUFFICES ASSUME RegistryTyped, [RouteNext]_allRouteVars PROVE RegistryTyped' /\ Spares
    OBVIOUS
  <2>1. CASE Operators
    BY <2>1, RegistryKeeps DEF Operators
  <2>2. ASSUME UNCHANGED registryVars PROVE RegistryTyped' /\ Spares
    BY <2>2 DEF registryVars, RegistryTyped
  <2>3. CASE OpportunityNext
    BY <2>2, <2>3 DEF OpportunityNext, Plan, Output, Deliver, AskSource, RefuseSource,
       SourceServes, SourceFails, Report
  <2>4. CASE UNCHANGED allRouteVars
    BY <2>2, <2>4 DEF allRouteVars
  <2> QED BY <2>1, <2>3, <2>4 DEF RouteNext
<1>3. [Spares]_allRouteVars => [Spares]_allRouteVars
  OBVIOUS
<1> QED BY <1>1, <1>2, PTL DEF RouteSpec, OldStopSparesNew

----------------------------------------------------------------------------
(* The emitters.  What is on its way to the consumer is what the store remembers. *)

Stored(store, e) ==
  /\ IdempotencyKey(e.kind, e.opportunity) \in DOMAIN store
  /\ store[IdempotencyKey(e.kind, e.opportunity)] = e

EmissionsStored ==
  /\ DOMAIN emission = Emissions
  /\ \A c \in Emissions : /\ DOMAIN emission[c] = {"pc", "event", "attempt", "since", "wake"}
                          /\ emission[c].pc \in {"asking", "waiting"} => Stored(eventStore, emission[c].event)
  /\ \A e \in received : Stored(eventStore, e)

(* A call that goes on keeps the event it has; nothing is forgotten. *)
LEMMA CallGoesOn ==
  ASSUME EmissionsStored, NEW c \in Emissions, NEW new, emission' = [emission EXCEPT ![c] = new],
         DOMAIN new = {"pc", "event", "attempt", "since", "wake"},
         emission[c].pc = "idle" \/ emission[c].pc \in {"asking", "waiting"},
         new.pc \in {"asking", "waiting"} =>
           emission[c].pc \in {"asking", "waiting"} /\ new.event = emission[c].event,
         received' \subseteq received \cup
           (IF emission[c].pc = "asking" THEN {emission[c].event} ELSE {}),
         UNCHANGED eventStore
  PROVE  EmissionsStored'
<1>2. /\ DOMAIN emission' = Emissions
      /\ \A x \in Emissions : emission'[x] = IF x = c THEN new ELSE emission[x]
  BY DEF EmissionsStored
<1>3. \A x \in Emissions : /\ DOMAIN emission'[x] = {"pc", "event", "attempt", "since", "wake"}
                           /\ emission'[x].pc \in {"asking", "waiting"} => Stored(eventStore, emission'[x].event)
  BY <1>2 DEF EmissionsStored
<1>4. \A x \in received' : Stored(eventStore, x)
  BY DEF EmissionsStored
<1>5. eventStore' = eventStore
  OBVIOUS
<1> QED BY <1>2, <1>3, <1>4, <1>5 DEF EmissionsStored

LEMMA EmitFirstKeeps ==
  ASSUME EmissionsStored, NEW c \in Emissions, NEW kind, NEW o, NEW at, EmitFirst(c, kind, o, at)
  PROVE  EmissionsStored'
<1> PICK event : event = EventMade(c, kind, o, at)
  OBVIOUS
<1>1. event.kind = kind /\ event.opportunity = o
  BY DEF EventMade
<1> PICK key : key = IdempotencyKey(kind, o)
  OBVIOUS
<1>2. /\ key \notin DOMAIN eventStore /\ DOMAIN eventStore' = DOMAIN eventStore \cup {key}
      /\ eventStore'[key] = event
      /\ \A k \in DOMAIN eventStore : eventStore'[k] = eventStore[k]
  BY DEF EmitFirst, Remember
<1>3. \A e : Stored(eventStore, e) =>
        /\ IdempotencyKey(e.kind, e.opportunity) \in DOMAIN eventStore'
        /\ eventStore'[IdempotencyKey(e.kind, e.opportunity)] = e
  BY <1>2 DEF Stored
<1>4. /\ IdempotencyKey(event.kind, event.opportunity) \in DOMAIN eventStore'
      /\ eventStore'[IdempotencyKey(event.kind, event.opportunity)] = event
  BY <1>1, <1>2
<1> PICK new : new = [pc |-> "asking", event |-> event, attempt |-> 1, since |-> ingressTime, wake |-> 0]
  OBVIOUS
<1>5. /\ DOMAIN emission' = Emissions
      /\ \A x \in Emissions : emission'[x] = IF x = c THEN new ELSE emission[x]
      /\ received' = received
  BY DEF EmitFirst, EmissionsStored
<1>6. \A x \in Emissions : /\ DOMAIN emission'[x] = {"pc", "event", "attempt", "since", "wake"}
                           /\ emission'[x].pc \in {"asking", "waiting"} => Stored(eventStore', emission'[x].event)
  <2> TAKE x \in Emissions
  <2>1. CASE x = c
    BY <1>4, <1>5, <2>1 DEF Stored
  <2>2. CASE x # c
    BY <1>3, <1>5, <2>2 DEF Stored, EmissionsStored
  <2> QED BY <2>1, <2>2
<1>7. \A e \in received' : Stored(eventStore', e)
  BY <1>3, <1>5 DEF Stored, EmissionsStored
<1> QED BY <1>5, <1>6, <1>7 DEF EmissionsStored

LEMMA EmissionsKeep ==
  ASSUME EmissionsStored, IngressNext \/ UNCHANGED ingressVars
  PROVE  EmissionsStored'
<1>1. ASSUME UNCHANGED <<emission, eventStore, received>> PROVE EmissionsStored'
  BY <1>1 DEF EmissionsStored, Stored
<1>2. ASSUME NEW c \in Emissions, NEW kind, NEW o, NEW at, emission[c].pc = "idle", EmitAgain(c, kind, o, at)
      PROVE  EmissionsStored'
  <2> PICK new : new = [emission[c] EXCEPT !.pc =
           IF eventStore[IdempotencyKey(kind, o)].at = at THEN "duplicate_noop" ELSE "payload_conflict"]
    OBVIOUS
  <2>1. DOMAIN emission[c] = {"pc", "event", "attempt", "since", "wake"} /\ DOMAIN emission = Emissions
    BY DEF EmissionsStored
  <2>2. /\ emission' = [emission EXCEPT ![c] = new]
        /\ DOMAIN new = {"pc", "event", "attempt", "since", "wake"}
        /\ new.pc \notin {"asking", "waiting"} /\ UNCHANGED <<eventStore, received>>
    BY <1>2, <2>1 DEF EmitAgain
  <2> QED BY <1>2, <2>2, CallGoesOn
<1>3. ASSUME NEW c \in Emissions, Acknowledged(c) \/ Refused(c) PROVE EmissionsStored'
  <2>1. DOMAIN emission[c] = {"pc", "event", "attempt", "since", "wake"} /\ DOMAIN emission = Emissions
    BY DEF EmissionsStored
  <2>2. PICK answer \in {"emitted", "rejected"} : emission' = [emission EXCEPT ![c].pc = answer]
    BY <1>3 DEF Acknowledged, Refused
  <2> PICK new : new = [emission[c] EXCEPT !.pc = answer]
    OBVIOUS
  <2>3. /\ emission' = [emission EXCEPT ![c] = new]
        /\ DOMAIN new = {"pc", "event", "attempt", "since", "wake"}
        /\ new.pc \notin {"asking", "waiting"}
    BY <2>1, <2>2
  <2>4. /\ emission[c].pc = "asking" /\ UNCHANGED eventStore
        /\ received' \subseteq received \cup {emission[c].event}
    BY <1>3 DEF Acknowledged, Refused, MayHaveTaken
  <2> QED BY <2>3, <2>4, CallGoesOn
<1>4. ASSUME NEW c \in Emissions, RejectedForNow(c) PROVE EmissionsStored'
  <2>1. DOMAIN emission[c] = {"pc", "event", "attempt", "since", "wake"} /\ DOMAIN emission = Emissions
    BY DEF EmissionsStored
  <2> PICK new : new = [emission[c] EXCEPT
           !.pc = IF ingressTime - emission[c].since + Delay(c) > RetryWindow
                  THEN "retry_exhausted" ELSE "waiting",
           !.wake = ingressTime + Delay(c)]
    OBVIOUS
  <2>2. /\ emission' = [emission EXCEPT ![c] = new]
        /\ DOMAIN new = {"pc", "event", "attempt", "since", "wake"}
        /\ new.event = emission[c].event
    BY <1>4, <2>1 DEF RejectedForNow
  <2>3. /\ emission[c].pc = "asking" /\ UNCHANGED eventStore
        /\ received' \subseteq received \cup {emission[c].event}
    BY <1>4 DEF RejectedForNow, MayHaveTaken
  <2> QED BY <2>2, <2>3, CallGoesOn
<1>5. ASSUME NEW c \in Emissions, AskAgain(c) PROVE EmissionsStored'
  <2>1. DOMAIN emission[c] = {"pc", "event", "attempt", "since", "wake"} /\ DOMAIN emission = Emissions
    BY DEF EmissionsStored
  <2> PICK new : new = [emission[c] EXCEPT !.pc = "asking", !.attempt = @ + 1]
    OBVIOUS
  <2>2. /\ emission' = [emission EXCEPT ![c] = new]
        /\ DOMAIN new = {"pc", "event", "attempt", "since", "wake"}
        /\ new.event = emission[c].event
    BY <1>5, <2>1 DEF AskAgain
  <2>3. emission[c].pc = "waiting" /\ UNCHANGED <<eventStore, received>>
    BY <1>5 DEF AskAgain
  <2> QED BY <2>2, <2>3, CallGoesOn
<1>6. ASSUME NEW c \in Emissions, NEW o, NEW at,
             EmitOpportunityCreated(c, o, at) \/ EmitSignalNormalized(c, o, at)
      PROVE  EmissionsStored'
  BY <1>2, <1>6, EmitFirstKeeps DEF EmitOpportunityCreated, EmitSignalNormalized
<1>7. CASE (\E t \in Triggers : Trigger(t)) \/ IngressTick \/ UNCHANGED ingressVars
  BY <1>1, <1>7 DEF Trigger, IngressTick, ingressVars
<1>8. ASSUME NEW t, NEW d, NEW p, NEW own, CreateOpportunity(t, d, p, own) PROVE EmissionsStored'
  BY <1>1, <1>8 DEF CreateOpportunity
<1> QED BY <1>3, <1>4, <1>5, <1>6, <1>7, <1>8 DEF IngressNext

(* Whatever calls overlap, are repeated or retried, the consumer takes one event of an
   opportunity and a kind.  (opportunity-event-emitter.js:387, signal-event-emitter.js:346) *)
THEOREM OneEventEach == IngressSpec => []OneEventPerOpportunity
<1>1. IngressInit => EmissionsStored
  BY DEF IngressInit, EmissionsStored, NotCalled
<1>2. EmissionsStored /\ [IngressNext]_ingressVars => EmissionsStored'
  BY EmissionsKeep
<1>3. EmissionsStored => OneEventPerOpportunity
  BY DEF EmissionsStored, Stored, OneEventPerOpportunity
<1> QED BY <1>1, <1>2, <1>3, PTL DEF IngressSpec

----------------------------------------------------------------------------
(* The packet that is traded *)

\* Of finitely many numbers one is the greatest.
LEMMA OneIsMost ==
  ASSUME NEW S, IsFiniteSet(S), S # {}, NEW rank \in [S -> Int]
  PROVE  \E x \in S : \A y \in S : rank[x] >= rank[y]
<1> DEFINE HasMost(T) == \E x \in T : \A y \in T : rank[x] >= rank[y]
           Good == {i \in Nat : \A T \in SUBSET S : Cardinality(T) = i + 1 => HasMost(T)}
<1>0. \A T \in SUBSET S : IsFiniteSet(T)
  BY FS_Subset
<1>1. ASSUME NEW T \in SUBSET S, Cardinality(T) = 0 + 1 PROVE HasMost(T)
  <2>1. IsFiniteSet(T) /\ Cardinality(T) = 1
    BY <1>0, <1>1
  <2>2. PICK x : T = {x}
    BY <2>1, FS_Singleton, Zenon
  <2>3. rank[x] \in Int
    BY <2>2
  <2> QED BY <2>2, <2>3
<1>2. ASSUME NEW i \in Nat, i \in Good, NEW T \in SUBSET S, Cardinality(T) = i + 1 + 1
      PROVE  HasMost(T)
  <2>1. T # {}
    BY <1>2, FS_EmptySet
  <2>2. PICK x : x \in T
    BY <2>1
  <2> DEFINE U == T \ {x}
  <2>3. U \in SUBSET S /\ Cardinality(U) = i + 1
    <3>1. IsFiniteSet(T)
      BY <1>0
    <3>2. Cardinality(U) = Cardinality(T) - 1
      BY <2>2, <3>1, FS_RemoveElement
    <3> QED BY <1>2, <3>2
  <2>4. PICK m \in U : \A y \in U : rank[m] >= rank[y]
    BY <1>2, <2>3
  <2>5. rank[x] \in Int /\ rank[m] \in Int /\ \A y \in U : rank[y] \in Int
    BY <2>2, <2>4
  <2>6. CASE rank[m] >= rank[x]
    <3>1. \A y \in T : rank[m] >= rank[y]
      BY <2>4, <2>6
    <3> QED BY <2>4, <3>1
  <2>7. CASE ~(rank[m] >= rank[x])
    <3>1. \A y \in T : rank[x] >= rank[y]
      BY <2>4, <2>5, <2>7
    <3> QED BY <2>2, <3>1
  <2> QED BY <2>6, <2>7
<1>3. Nat \subseteq Good
  <2>1. 0 \in Good
    BY <1>1
  <2>2. \A i \in Nat : i \in Good => i + 1 \in Good
    BY <1>2
  <2> HIDE DEF Good
  <2> QED BY <2>1, <2>2, Induction
<1>4. Cardinality(S) \in Nat /\ Cardinality(S) # 0
  BY FS_CardinalityType, FS_EmptySet
<1>5. Cardinality(S) - 1 \in Nat /\ Cardinality(S) = Cardinality(S) - 1 + 1
  BY <1>4
<1>6. Cardinality(S) - 1 \in Good
  BY <1>3, <1>5
<1> QED BY <1>5, <1>6

\* A candidate as the resolver compares it.
Comparable(c) ==
  c.priority \in Int /\ c.at \in Int /\ c.sequence \in Int /\ LocaleRank[CanonicalKey(c.value)] \in Int

LEMMA ForemostIsThere ==
  ASSUME NEW cs, IsFiniteSet(cs), cs # {}, \A c \in cs : Comparable(c)
  PROVE  /\ Foremost(cs, LAMBDA c : -c.priority) # {}
         /\ Foremost(cs, LAMBDA c : c.at) # {}
         /\ Foremost(cs, LAMBDA c : c.sequence) # {}
         /\ \E c \in cs : \A d \in cs :
              LocaleRank[CanonicalKey(c.value)] <= LocaleRank[CanonicalKey(d.value)]
<1>1. Foremost(cs, LAMBDA c : -c.priority) # {}
  <2> DEFINE rank == [c \in cs |-> -c.priority]
  <2>1. rank \in [cs -> Int]
    BY DEF Comparable
  <2>2. \A c \in cs : rank[c] = -c.priority
    OBVIOUS
  <2> HIDE DEF rank
  <2> QED BY <2>1, <2>2, OneIsMost DEF Foremost
<1>2. Foremost(cs, LAMBDA c : c.at) # {}
  <2> DEFINE rank == [c \in cs |-> c.at]
  <2>1. rank \in [cs -> Int]
    BY DEF Comparable
  <2>2. \A c \in cs : rank[c] = c.at
    OBVIOUS
  <2> HIDE DEF rank
  <2> QED BY <2>1, <2>2, OneIsMost DEF Foremost
<1>3. Foremost(cs, LAMBDA c : c.sequence) # {}
  <2> DEFINE rank == [c \in cs |-> c.sequence]
  <2>1. rank \in [cs -> Int]
    BY DEF Comparable
  <2>2. \A c \in cs : rank[c] = c.sequence
    OBVIOUS
  <2> HIDE DEF rank
  <2> QED BY <2>1, <2>2, OneIsMost DEF Foremost
<1>4. \E c \in cs : \A d \in cs : LocaleRank[CanonicalKey(c.value)] <= LocaleRank[CanonicalKey(d.value)]
  <2> DEFINE rank == [c \in cs |-> -LocaleRank[CanonicalKey(c.value)]]
  <2>1. rank \in [cs -> Int] /\ \A c \in cs : LocaleRank[CanonicalKey(c.value)] \in Int
    BY DEF Comparable
  <2>2. \A c \in cs : rank[c] = -LocaleRank[CanonicalKey(c.value)]
    OBVIOUS
  <2> HIDE DEF rank
  <2>3. PICK c \in cs : \A d \in cs : rank[c] >= rank[d]
    BY <2>1, OneIsMost
  <2>4. \A d \in cs : LocaleRank[CanonicalKey(c.value)] <= LocaleRank[CanonicalKey(d.value)]
    BY <2>1, <2>2, <2>3
  <2> QED BY <2>4
<1> QED BY <1>1, <1>2, <1>3, <1>4

LEMMA TieBreakIsOne ==
  ASSUME NEW cs, IsFiniteSet(cs), cs # {}, \A c \in cs : Comparable(c)
  PROVE  TieBreakSamePriority(cs) \in cs
<1> DEFINE known  == {c \in cs : ~IsUnknownValue(c.value)}
           kept   == IF known = {} THEN cs ELSE known
           latest == Foremost(kept, LAMBDA c : c.at)
           last   == Foremost(latest, LAMBDA c : c.sequence)
           Least(c) == \A d \in last : LocaleRank[CanonicalKey(c.value)] <= LocaleRank[CanonicalKey(d.value)]
<1>1. kept \in SUBSET cs /\ kept # {} /\ IsFiniteSet(kept) /\ \A c \in kept : Comparable(c)
  BY FS_Subset
<1>2. latest \in SUBSET kept /\ latest # {} /\ IsFiniteSet(latest) /\ \A c \in latest : Comparable(c)
  <2> HIDE DEF kept
  <2>1. latest \in SUBSET kept
    BY DEF Foremost
  <2>2. latest # {}
    BY <1>1, ForemostIsThere
  <2> HIDE DEF latest
  <2> QED BY <1>1, <2>1, <2>2, FS_Subset
<1>3. last \in SUBSET latest /\ last # {} /\ IsFiniteSet(last) /\ \A c \in last : Comparable(c)
  <2> HIDE DEF latest
  <2>1. last \in SUBSET latest
    BY DEF Foremost
  <2>2. last # {}
    BY <1>2, ForemostIsThere
  <2> HIDE DEF last
  <2> QED BY <1>2, <2>1, <2>2, FS_Subset
<1>4. \E c \in last : Least(c)
  <2> HIDE DEF last
  <2> QED BY <1>3, ForemostIsThere
<1>5. TieBreakSamePriority(cs) = CHOOSE c \in last : Least(c)
  BY DEF TieBreakSamePriority
<1>6. (CHOOSE c \in last : Least(c)) \in last
  <2> HIDE DEF last, Least
  <2> QED BY <1>4, Zenon
<1> HIDE DEF kept, latest, last, Least
<1> QED BY <1>1, <1>2, <1>3, <1>5, <1>6

\* What was stated of a slot, as the resolver compares it.
LEMMA CandidateKept ==
  ASSUME NEW p \in Packets, NEW slot \in DOMAIN p.stated, NEW i \in DOMAIN p.stated[slot], NEW k
  PROVE  LET c == CandidatesOf(p, slot)[i]
             d == NormalizeCandidate(c, k)
         IN  /\ d.value = c.value
             /\ slot \in SemanticNames =>
                  /\ \E x : c.value = Text(x)
                  /\ k \in Int => Comparable(d)
             /\ p.stated[slot][i].sequence # -1 => d = NormalizeCandidate(c, i)
<1> DEFINE r == p.stated[slot][i]
           c == CandidatesOf(p, slot)[i]
           d == NormalizeCandidate(c, k)
<1>1. /\ DOMAIN r = {"source", "value", "priority", "at", "sequence"}
      /\ r.priority \in Int /\ r.at \in Int /\ r.sequence \in Int
      /\ slot \in SemanticNames => LocaleRank[CanonicalKey(c.value)] \in Int
  BY SignalAssumption
<1>2. c = IF slot \in SemanticNames
          THEN [r EXCEPT !.value = Text(ResolveCanonicalEnum(slot, r.value).value)] ELSE r
  BY DEF CandidatesOf
<1> HIDE DEF c, r
<1>3. /\ DOMAIN c = {"source", "value", "priority", "at", "sequence"}
      /\ c.priority = r.priority /\ c.at = r.at /\ c.sequence = r.sequence
      /\ slot \in SemanticNames => \E x : c.value = Text(x)
  BY <1>1, <1>2
<1>4. /\ d.value = c.value /\ d.at = c.at
      /\ k \in Int => d.sequence \in Int
      /\ d.priority \in Int
  <2>1. \A s \in DOMAIN SourcePriority : SourcePriority[s] \in Int
    BY DEF SourcePriority
  <2> QED BY <1>1, <1>3, <2>1 DEF NormalizeCandidate
<1>5. r.sequence # -1 => d = NormalizeCandidate(c, i)
  BY <1>3 DEF NormalizeCandidate
<1> QED BY <1>1, <1>3, <1>4, <1>5 DEF Comparable, c, r

LEMMA ValueKept ==
  ASSUME NEW p \in Packets, NEW slot \in DOMAIN p.stated, NEW i \in DOMAIN p.stated[slot], NEW k
  PROVE  NormalizeCandidate(CandidatesOf(p, slot)[i], k).value = CandidatesOf(p, slot)[i].value
BY CandidateKept

LEMMA StatingIsFinite ==
  ASSUME packet \in Packets, NEW slot \in DOMAIN packet.stated
  PROVE  IsFiniteSet(Stating(slot))
<1> DEFINE n == Len(packet.stated[slot])
           f == [i \in 1 .. n |-> NormalizeCandidate(CandidatesOf(packet, slot)[i], i)]
<1>1. n \in Nat /\ DOMAIN packet.stated[slot] = 1 .. n
  BY SignalAssumption
<1>2. 1 \in Int /\ n \in Int
  BY <1>1
<1>3. IsFiniteSet(1 .. n)
  BY <1>2, FS_Interval, Zenon
<1>4. f \in Surjection(1 .. n, Stating(slot))
  BY <1>1 DEF Surjection, Stating
<1> HIDE DEF f
<1> QED BY <1>3, <1>4, FS_Surjection

LEMMA SettledIsBacked ==
  ASSUME packet \in Packets, NEW slot \in DOMAIN packet.stated \ SetLikeSlots, NEW value,
         value = ResolveFieldConflict(slot, FieldStrategy(slot, packet.strategy),
                                      CandidatesOf(packet, slot)).value,
         slot \in GatingSlots => Has(value)
  PROVE  Backed(slot, value)
<1> DEFINE stated == CandidatesOf(packet, slot)
           cs == Stating(slot)
           keys == {CanonicalKey(c.value) : c \in cs}
           best == Foremost(cs, LAMBDA c : -c.priority)
<1>1. /\ slot \in SemanticNames /\ IsFiniteSet(cs)
      /\ DOMAIN stated = 1 .. Len(packet.stated[slot]) /\ Len(packet.stated[slot]) \in Nat
      /\ DOMAIN stated = DOMAIN packet.stated[slot]
  <2>1. slot \in SemanticNames
    BY SignalAssumption DEF Slots
  <2>2. IsFiniteSet(cs)
    BY StatingIsFinite
  <2>3. DOMAIN stated = DOMAIN packet.stated[slot]
    BY DEF CandidatesOf
  <2>4. /\ DOMAIN packet.stated[slot] = 1 .. Len(packet.stated[slot])
        /\ Len(packet.stated[slot]) \in Nat
    BY SignalAssumption
  <2> HIDE DEF cs, stated
  <2> QED BY <2>1, <2>2, <2>3, <2>4
<1>2. \A c \in cs : Comparable(c) /\ \E x : c.value = Text(x)
  BY <1>1, CandidateKept DEF Stating
<1>3. cs = {NormalizeCandidate(stated[i], i) : i \in DOMAIN stated}
  BY <1>1 DEF Stating
<1>4. best \in SUBSET cs /\ (cs # {} => best # {}) /\ IsFiniteSet(best) /\ \A c \in best : Comparable(c)
  <2> HIDE DEF cs
  <2>1. best \in SUBSET cs
    BY DEF Foremost
  <2>2. cs # {} => best # {}
    BY <1>1, <1>2, ForemostIsThere
  <2> HIDE DEF best
  <2> QED BY <1>1, <1>2, <2>1, <2>2, FS_Subset
<1>5. CASE cs = {}
  BY <1>5 DEF Backed
<1>6. CASE cs # {} /\ Cardinality(keys) = 1
  <2>1. 1 \in DOMAIN stated /\ NormalizeCandidate(stated[1], 1) \in cs
    <3>1. DOMAIN stated # {}
      BY <1>3, <1>6
    <3> HIDE DEF cs, stated
    <3> QED BY <1>1, <1>3, <3>1
  <2>2. value = stated[1].value
    BY <1>3, <1>6 DEF ResolveFieldConflict, Settled
  <2>3. NormalizeCandidate(stated[1], 1).value = value
    <3>1. 1 \in DOMAIN packet.stated[slot]
      BY <1>1, <2>1
    <3>2. NormalizeCandidate(stated[1], 1).value = stated[1].value
      BY <3>1, ValueKept
    <3> QED BY <2>2, <3>2
  <2>4. \A c \in cs : CanonicalKey(c.value) = CanonicalKey(value)
    <3>1. IsFiniteSet(keys)
      <4> DEFINE f == [c \in cs |-> CanonicalKey(c.value)]
      <4>1. f \in Surjection(cs, keys)
        BY DEF Surjection
      <4> HIDE DEF f, cs, keys
      <4> QED BY <1>1, <4>1, FS_Surjection
    <3>2. PICK x : keys = {x}
      <4> HIDE DEF keys
      <4> QED BY <1>6, <3>1, FS_Singleton, Zenon
    <3> QED BY <2>1, <2>3, <3>2
  <2>5. \A c \in cs : c.value = value
    <3> SUFFICES ASSUME NEW c \in cs PROVE c.value = value
      OBVIOUS
    <3>1. PICK x : c.value = Text(x)
      BY <1>2
    <3>2. PICK y : value = Text(y)
      BY <1>2, <2>1, <2>3
    <3>3. CanonicalKey(Text(x)).items = CanonicalKey(Text(y)).items
      BY <2>4, <3>1, <3>2
    <3>4. x = y
      BY <3>3 DEF CanonicalKey, Text
    <3> QED BY <3>1, <3>2, <3>4
  <2> HIDE DEF cs, best
  <2>6. \E c \in best : c.value = value
    BY <1>4, <1>6, <2>5
  <2>7. CASE slot \in GatingSlots
    BY <2>5, <2>7 DEF Backed, cs
  <2>8. CASE slot \notin GatingSlots
    BY <2>6, <2>8 DEF Backed, cs, best
  <2> QED BY <2>7, <2>8
<1>7. CASE cs # {} /\ Cardinality(keys) # 1 /\ slot \in GatingSlots
  <2>1. value = Unsettled.value
    BY <1>3, <1>7 DEF ResolveFieldConflict, Gates
  <2>2. value.form = "null"
    BY <2>1 DEF Unsettled, Settled
  <2>3. ~Has(value)
    BY <2>2 DEF Has
  <2> HIDE DEF cs, keys
  <2> QED BY <1>7, <2>3
<1>8. CASE /\ cs # {} /\ Cardinality(keys) # 1 /\ slot \notin GatingSlots
           /\ FieldStrategy(slot, packet.strategy) = "scalar"
  <2>1. value = TieBreakSamePriority(best).value
    BY <1>3, <1>8 DEF ResolveFieldConflict, Gates, Settled
  <2> HIDE DEF cs, best
  <2>2. TieBreakSamePriority(best) \in best
    BY <1>4, <1>8, TieBreakIsOne
  <2>3. \E c \in best : c.value = value
    BY <2>1, <2>2
  <2> QED BY <1>8, <2>3 DEF Backed, cs, best
<1>9. CASE slot \notin GatingSlots /\ FieldStrategy(slot, packet.strategy) # "scalar"
  BY <1>9 DEF Backed
<1> QED BY <1>5, <1>6, <1>7, <1>8, <1>9

LEMMA OrderDoesNotMatter ==
  ASSUME packet \in Packets, NEW slot \in DOMAIN packet.stated,
         \A i \in DOMAIN packet.stated[slot] : packet.stated[slot][i].sequence # -1,
         work.selected[slot].value =
           ResolveFieldConflict(slot, FieldStrategy(slot, packet.strategy), CandidatesOf(packet, slot)).value
  PROVE  SettledInAnyOrder(slot)
<1> SUFFICES ASSUME NEW turn \in Orders(DOMAIN packet.stated[slot])
             PROVE  CanonicalKey(ResolveFieldConflict(slot, FieldStrategy(slot, packet.strategy),
                                   [i \in DOMAIN turn |-> CandidatesOf(packet, slot)[turn[i]]]).value)
                      = CanonicalKey(work.selected[slot].value)
  BY DEF SettledInAnyOrder
<1> DEFINE stated == CandidatesOf(packet, slot)
           turned == [i \in DOMAIN turn |-> stated[turn[i]]]
           how == FieldStrategy(slot, packet.strategy)
           D == DOMAIN packet.stated[slot]
           cs == {NormalizeCandidate(stated[i], i) : i \in DOMAIN stated}
           ds == {NormalizeCandidate(turned[i], i) : i \in DOMAIN turned}
           Rest(es) ==
             CASE Gates(slot) -> Unsettled
               [] ~Gates(slot) /\ how = "set_like" ->
                    IF Unmergeable(es) THEN Unsettled ELSE Settled("merge", UnionSetCandidates(es))
               [] ~Gates(slot) /\ how = "scalar" ->
                    Settled("override", TieBreakSamePriority(Foremost(es, LAMBDA c : -c.priority)).value)
               [] OTHER -> Unsettled
           Settles(es, v) ==
             CASE es = {} -> Unsettled
               [] Cardinality({CanonicalKey(c.value) : c \in es}) = 1 -> Settled("none", v)
               [] OTHER -> Rest(es)
           same(es) == Cardinality({CanonicalKey(c.value) : c \in es}) = 1
<1>1. /\ ResolveFieldConflict(slot, how, stated) = Settles(cs, stated[1].value)
      /\ ResolveFieldConflict(slot, how, turned) = Settles(ds, turned[1].value)
  BY DEF ResolveFieldConflict
<1>2. DOMAIN stated = D /\ DOMAIN turned = D /\ \A i \in D : turn[i] \in D /\ turned[i] = stated[turn[i]]
  <2>1. DOMAIN stated = D
    BY DEF CandidatesOf
  <2>2. turn \in [D -> D]
    BY DEF Orders
  <2> HIDE DEF D, stated
  <2> QED BY <2>1, <2>2
<1>3. \A i \in D : \A k : NormalizeCandidate(stated[i], k) = NormalizeCandidate(stated[i], i)
  BY CandidateKept
<1>4. \A i \in D : \E k \in D : turn[k] = i
  BY DEF Orders
<1>5. cs = ds
  <2> HIDE DEF stated, turned
  <2>1. \A i \in D : NormalizeCandidate(turned[i], i) = NormalizeCandidate(stated[turn[i]], turn[i])
    BY <1>2, <1>3
  <2>2. ds = {NormalizeCandidate(stated[turn[i]], turn[i]) : i \in D}
    BY <1>2, <2>1
  <2>3. cs = {NormalizeCandidate(stated[i], i) : i \in D}
    BY <1>2
  <2> HIDE DEF cs, ds, D
  <2> QED BY <1>2, <1>4, <2>2, <2>3
<1>6. CASE cs # {} /\ same(cs)
  <2>1. 1 \in D
    <3>1. D = 1 .. Len(packet.stated[slot]) /\ Len(packet.stated[slot]) \in Nat
      BY SignalAssumption
    <3>2. D # {}
      BY <1>2, <1>6
    <3> HIDE DEF D
    <3> QED BY <3>1, <3>2
  <2>2. /\ NormalizeCandidate(stated[1], 1).value = stated[1].value
        /\ NormalizeCandidate(turned[1], 1).value = turned[1].value
    <3>1. turn[1] \in D /\ turned[1] = stated[turn[1]]
      BY <1>2, <2>1
    <3>2. NormalizeCandidate(stated[1], 1).value = stated[1].value
      BY <2>1, ValueKept
    <3>3. NormalizeCandidate(stated[turn[1]], 1).value = stated[turn[1]].value
      BY <3>1, ValueKept
    <3> HIDE DEF turned, stated
    <3> QED BY <3>1, <3>2, <3>3
  <2>3. NormalizeCandidate(stated[1], 1) \in cs /\ NormalizeCandidate(turned[1], 1) \in ds
    BY <1>2, <2>1
  <2>4. \A c, d \in cs : CanonicalKey(c.value) = CanonicalKey(d.value)
    <3> DEFINE keys == {CanonicalKey(c.value) : c \in cs}
    <3>1. cs = Stating(slot)
      BY <1>2 DEF Stating
    <3>2. IsFiniteSet(cs)
      BY <3>1, StatingIsFinite
    <3>3. IsFiniteSet(keys)
      <4> DEFINE f == [c \in cs |-> CanonicalKey(c.value)]
      <4>1. f \in Surjection(cs, keys)
        BY DEF Surjection
      <4> HIDE DEF f, cs, keys
      <4> QED BY <3>2, <4>1, FS_Surjection
    <3>4. PICK x : keys = {x}
      <4>1. Cardinality(keys) = 1
        BY <1>6
      <4> HIDE DEF keys
      <4> QED BY <3>3, <4>1, FS_Singleton, Zenon
    <3> QED BY <3>4
  <2>5. CanonicalKey(stated[1].value) = CanonicalKey(turned[1].value)
    <3> HIDE DEF cs, ds, stated, turned
    <3> QED BY <1>5, <2>2, <2>3, <2>4
  <2>6. Settles(cs, stated[1].value).value = stated[1].value
        /\ Settles(cs, turned[1].value).value = turned[1].value
    <3> HIDE DEF cs, stated, turned
    <3> QED BY <1>6 DEF Settled
  <2> HIDE DEF Settles, cs, ds, stated
  <2> QED BY <1>1, <1>5, <2>5, <2>6 DEF stated
<1>7. CASE ~(cs # {} /\ same(cs))
  <2>1. Settles(cs, stated[1].value) = Settles(cs, turned[1].value)
    <3> HIDE DEF cs, stated, turned, Rest
    <3> QED BY <1>7
  <2> HIDE DEF Settles, cs, ds, stated
  <2> QED BY <1>1, <1>5, <2>1 DEF stated
<1> QED BY <1>6, <1>7

\* What the work of a packet is, from step to step.
WorkShaped ==
  /\ packet \in Packets
  /\ work = [normalized |-> work.normalized, selected |-> work.selected, buckets |-> work.buckets,
             redaction |-> work.redaction, projection |-> work.projection, audit |-> work.audit]
  /\ DOMAIN work.selected = Slots
SelectedStand ==
  \A s \in DOMAIN packet.stated : work.selected[s].made =>
    work.selected[s] = ResolveFieldConflict(s, FieldStrategy(s, packet.strategy), CandidatesOf(packet, s))
RedactionStands == work.redaction.made => work.redaction = ApplyRedaction(packet.policy, packet.values)
ProjectionStands ==
  work.projection.made /\ work.projection.ok =>
    /\ ~Settling /\ work.redaction.made /\ work.redaction.ok
    /\ work.normalized.made /\ work.projection.request = BidRequest
    /\ \A s \in GatingSlots : Has(Field(s))
AuditStands ==
  work.audit.made /\ work.audit.ok =>
    ~Settling /\ work.normalized.made /\ work.audit.records = [s \in Slots |-> Field(s)]
SignalInv == WorkShaped /\ SelectedStand /\ RedactionStands /\ ProjectionStands /\ AuditStands

\* An answer is given once; whoever reads an earlier one finds it unchanged.
LEMMA AnswerKeeps ==
  ASSUME SignalInv, UNCHANGED packet, WorkShaped', SelectedStand', RedactionStands',
         work.normalized.made => UNCHANGED work.normalized,
         ~Settling => UNCHANGED work.selected,
         work.redaction.made => UNCHANGED work.redaction,
         ProjectionStands' \/ UNCHANGED work.projection,
         AuditStands' \/ UNCHANGED work.audit
  PROVE  SignalInv'
<1>1. ASSUME work.normalized.made, ~Settling
      PROVE  /\ ~Settling' /\ \A s : Field(s)' = Field(s)
             /\ UNCHANGED <<work.normalized, work.selected>>
  BY <1>1 DEF Settling, Field
<1>2. ASSUME UNCHANGED work.projection PROVE ProjectionStands'
  <2>1. ASSUME work.projection.made, work.projection.ok
        PROVE  /\ ~Settling' /\ work'.redaction.made /\ work'.redaction.ok
               /\ work'.normalized.made /\ work'.projection.request = BidRequest'
               /\ \A s \in GatingSlots : Has(Field(s))'
    <3>1. /\ ~Settling /\ work.redaction.made /\ work.redaction.ok
          /\ work.normalized.made /\ work.projection.request = BidRequest
          /\ \A s \in GatingSlots : Has(Field(s))
      BY <2>1 DEF SignalInv, ProjectionStands
    <3>2. UNCHANGED work.redaction
      BY <3>1
    <3>3. BidRequest' = BidRequest
      BY <1>1, <3>1, <3>2 DEF BidRequest, RedactedAt
    <3>4. \A s \in GatingSlots : Has(Field(s))'
      BY <1>1, <3>1 DEF Has
    <3> QED BY <1>1, <1>2, <3>1, <3>2, <3>3, <3>4
  <2> QED BY <1>2, <2>1 DEF ProjectionStands
<1>3. ASSUME UNCHANGED work.audit PROVE AuditStands'
  BY <1>1, <1>3 DEF SignalInv, AuditStands
<1> QED BY <1>2, <1>3 DEF SignalInv

LEMMA NormalizeKeeps == ASSUME SignalInv, NormalizeInput PROVE SignalInv'
<1>1. /\ packet' = packet /\ ~work.normalized.made
      /\ work' = [work EXCEPT !.normalized = NormalizedOf(packet)]
  BY DEF NormalizeInput
<1>2. UNCHANGED <<work.selected, work.buckets, work.redaction, work.projection, work.audit>>
  BY <1>1 DEF SignalInv, WorkShaped
<1>3. WorkShaped'
  BY <1>1, <1>2 DEF SignalInv, WorkShaped
<1>4. SelectedStand' /\ RedactionStands'
  BY <1>1, <1>2 DEF SignalInv, SelectedStand, RedactionStands
<1> QED BY <1>1, <1>2, <1>3, <1>4, AnswerKeeps

LEMMA ResolveKeeps == ASSUME SignalInv, NEW slot \in Slots, Resolve(slot) PROVE SignalInv'
<1> DEFINE settled ==
      ResolveFieldConflict(slot, FieldStrategy(slot, packet.strategy), CandidatesOf(packet, slot))
<1>1. /\ packet' = packet /\ slot \in DOMAIN packet.stated /\ ~work.selected[slot].made
      /\ work' = [work EXCEPT !.selected[slot] = settled]
  BY DEF Resolve
<1>2. UNCHANGED <<work.normalized, work.buckets, work.redaction, work.projection, work.audit>>
  BY <1>1 DEF SignalInv, WorkShaped
<1>3. work'.selected = [work.selected EXCEPT ![slot] = settled]
  BY <1>1 DEF SignalInv, WorkShaped
<1>4. WorkShaped'
  <2> HIDE DEF settled
  <2> QED BY <1>1, <1>2, <1>3 DEF SignalInv, WorkShaped
<1>5. SelectedStand'
  <2> SUFFICES ASSUME NEW s \in DOMAIN packet.stated, work'.selected[s].made
               PROVE  work'.selected[s] =
                 ResolveFieldConflict(s, FieldStrategy(s, packet.strategy), CandidatesOf(packet, s))
    BY <1>1 DEF SelectedStand
  <2>1. CASE s = slot
    BY <1>3, <2>1 DEF SignalInv, WorkShaped
  <2>2. CASE s # slot
    BY <1>3, <2>2 DEF SignalInv, WorkShaped, SelectedStand
  <2> QED BY <2>1, <2>2
<1>6. RedactionStands'
  BY <1>1, <1>2 DEF SignalInv, RedactionStands
<1>7. Settling
  BY <1>1 DEF Settling
<1> QED BY <1>1, <1>2, <1>4, <1>5, <1>6, <1>7, AnswerKeeps

LEMMA BucketizeKeeps == ASSUME SignalInv, BucketizeNumbers PROVE SignalInv'
<1>1. packet' = packet /\ work' = [work EXCEPT !.buckets = Bucketize(packet.numbers, packet.dict)]
  BY DEF BucketizeNumbers
<1>2. UNCHANGED <<work.normalized, work.selected, work.redaction, work.projection, work.audit>>
  BY <1>1 DEF SignalInv, WorkShaped
<1>3. WorkShaped'
  BY <1>1, <1>2 DEF SignalInv, WorkShaped
<1>4. SelectedStand' /\ RedactionStands'
  BY <1>1, <1>2 DEF SignalInv, SelectedStand, RedactionStands
<1> QED BY <1>1, <1>2, <1>3, <1>4, AnswerKeeps

LEMMA RedactKeeps == ASSUME SignalInv, Redact PROVE SignalInv'
<1>1. /\ packet' = packet /\ ~work.redaction.made
      /\ work' = [work EXCEPT !.redaction = ApplyRedaction(packet.policy, packet.values)]
  BY DEF Redact
<1>2. /\ UNCHANGED <<work.normalized, work.selected, work.buckets, work.projection, work.audit>>
      /\ work'.redaction = ApplyRedaction(packet.policy, packet.values)
  BY <1>1 DEF SignalInv, WorkShaped
<1>3. WorkShaped'
  BY <1>1, <1>2 DEF SignalInv, WorkShaped
<1>4. SelectedStand' /\ RedactionStands'
  BY <1>1, <1>2 DEF SignalInv, SelectedStand, RedactionStands
<1> QED BY <1>1, <1>2, <1>3, <1>4, AnswerKeeps

\* A trade that is made has all that it requires, the gating slots among it.
LEMMA TradeHasAll ==
  ASSUME Projection(packet).ok
  PROVE  /\ work.redaction.made /\ work.redaction.ok /\ Projection(packet).request = BidRequest
         /\ \A s \in GatingSlots : Has(Field(s))
<1>1. /\ work.redaction.made /\ work.redaction.ok /\ Projection(packet).request = BidRequest
      /\ \A t \in DOMAIN RequiredTargets(packet) : RequiredTargets(packet)[t]
  BY DEF Projection, NoTrade
<1>2. /\ RequiredTargets(packet).trigger_decision /\ RequiredTargets(packet).decision_outcome
      /\ RequiredTargets(packet).hit_type
  <2>1. {"trigger_decision", "decision_outcome", "hit_type"} \subseteq DOMAIN RequiredTargets(packet)
    BY DEF RequiredTargets
  <2> QED BY <1>1, <2>1
<1>3. Has(Field("triggerDecision")) /\ Has(Field("decisionOutcome")) /\ Has(Field("hitType"))
  BY <1>2 DEF RequiredTargets
<1> QED BY <1>1, <1>3 DEF GatingSlots

LEMMA ProjectKeeps == ASSUME SignalInv, Project PROVE SignalInv'
<1>1. /\ packet' = packet /\ ~Settling /\ work.normalized.made
      /\ work' = [work EXCEPT !.projection = Projection(packet)]
  BY DEF Project, GoesOn
<1>2. /\ UNCHANGED <<work.normalized, work.selected, work.buckets, work.redaction, work.audit>>
      /\ work'.projection = Projection(packet)
  BY <1>1 DEF SignalInv, WorkShaped
<1>3. WorkShaped'
  BY <1>1, <1>2 DEF SignalInv, WorkShaped
<1>4. SelectedStand' /\ RedactionStands'
  BY <1>1, <1>2 DEF SignalInv, SelectedStand, RedactionStands
<1>5. ProjectionStands'
  <2>1. ~Settling' /\ \A s : Field(s)' = Field(s)
    BY <1>1, <1>2 DEF Settling, Field
  <2>2. BidRequest' = BidRequest
    BY <1>2, <2>1 DEF BidRequest, RedactedAt
  <2>3. ASSUME Projection(packet).ok
        PROVE  /\ work'.redaction.made /\ work'.redaction.ok /\ work'.projection.request = BidRequest'
               /\ \A s \in GatingSlots : Has(Field(s))'
    <3>1. /\ work.redaction.made /\ work.redaction.ok /\ Projection(packet).request = BidRequest
          /\ \A s \in GatingSlots : Has(Field(s))
      BY <2>3, TradeHasAll
    <3>2. \A s \in GatingSlots : Has(Field(s))'
      BY <2>1, <3>1 DEF Has
    <3> QED BY <1>2, <2>2, <3>1, <3>2
  <2> QED BY <1>1, <1>2, <2>1, <2>3 DEF ProjectionStands
<1> QED BY <1>1, <1>2, <1>3, <1>4, <1>5, AnswerKeeps

LEMMA AuditKeeps == ASSUME SignalInv, Audit PROVE SignalInv'
<1>1. /\ packet' = packet /\ ~Settling /\ work.normalized.made
      /\ work' = [work EXCEPT !.audit = BuildFromConflictResolution(packet)]
  BY DEF Audit, GoesOn
<1>2. /\ UNCHANGED <<work.normalized, work.selected, work.buckets, work.redaction, work.projection>>
      /\ work'.audit = BuildFromConflictResolution(packet)
  BY <1>1 DEF SignalInv, WorkShaped
<1>3. WorkShaped'
  BY <1>1, <1>2 DEF SignalInv, WorkShaped
<1>4. SelectedStand' /\ RedactionStands'
  BY <1>1, <1>2 DEF SignalInv, SelectedStand, RedactionStands
<1>5. AuditStands'
  <2>1. ~Settling' /\ \A s : Field(s)' = Field(s)
    BY <1>1, <1>2 DEF Settling, Field
  <2>2. work'.audit.ok => work'.audit.records = [s \in Slots |-> Field(s)]
    BY <1>2 DEF BuildFromConflictResolution, SignalInv, WorkShaped
  <2>3. [s \in Slots |-> Field(s)]' = [s \in Slots |-> Field(s)]
    BY <2>1
  <2> QED BY <1>1, <1>2, <2>1, <2>2, <2>3 DEF AuditStands
<1> QED BY <1>1, <1>2, <1>3, <1>4, <1>5, AnswerKeeps

LEMMA SignalHolds == SignalSpec => []SignalInv
<1>1. SignalInit => SignalInv
  <2> SUFFICES ASSUME SignalInit PROVE SignalInv
    OBVIOUS
  <2>1. /\ packet \in Packets
        /\ work = [normalized |-> NotYet, selected |-> [s \in Slots |-> NotYet], buckets |-> NotYet,
                   redaction |-> NotYet, projection |-> NotYet, audit |-> NotYet]
    BY DEF SignalInit
  <2>2. /\ work.selected = [s \in Slots |-> NotYet] /\ ~work.redaction.made
        /\ ~work.projection.made /\ ~work.audit.made
    BY <2>1 DEF NotYet
  <2>3. WorkShaped
    BY <2>1 DEF WorkShaped
  <2>4. SelectedStand
    <3>1. DOMAIN packet.stated \subseteq Slots
      BY <2>1, SignalAssumption
    <3> QED BY <2>2, <3>1 DEF SelectedStand, NotYet
  <2> QED BY <2>2, <2>3, <2>4 DEF SignalInv, RedactionStands, ProjectionStands, AuditStands
<1>2. SignalInv /\ [SignalNext]_signalVars => SignalInv'
  <2> SUFFICES ASSUME SignalInv, [SignalNext]_signalVars PROVE SignalInv'
    OBVIOUS
  <2>1. CASE UNCHANGED signalVars
    <3>1. packet' = packet /\ work' = work
      BY <2>1 DEF signalVars
    <3>2. WorkShaped' /\ SelectedStand' /\ RedactionStands'
      BY <3>1 DEF SignalInv, WorkShaped, SelectedStand, RedactionStands
    <3> QED BY <3>1, <3>2, AnswerKeeps
  <2> QED BY <2>1, NormalizeKeeps, ResolveKeeps, BucketizeKeeps, RedactKeeps, ProjectKeeps, AuditKeeps
          DEF SignalNext
<1> QED BY <1>1, <1>2, PTL DEF SignalSpec

\* What a redaction that succeeded makes of a field the policy protects.
LEMMA ProtectedIsRedacted ==
  ASSUME SignalInv, work.redaction.made, work.redaction.ok, NEW path,
         Protects(FieldRule(packet.policy, path))
  PROVE  RedactedAt(path)[1] # "pass"
<1> DEFINE rule == FieldRule(packet.policy, path)
           x == packet.values[path]
<1>1. work.redaction = ApplyRedaction(packet.policy, packet.values)
  BY DEF SignalInv, RedactionStands
<1>2. /\ work.redaction.values =
           [p \in DOMAIN packet.values |-> RedactedValue(FieldRule(packet.policy, p), packet.values[p])]
      /\ \A p \in DOMAIN packet.values : ~Forbidden(FieldRule(packet.policy, p))
  BY <1>1 DEF ApplyRedaction
<1>3. CASE path \in DOMAIN packet.values
  <2>1. RedactedAt(path) = RedactedValue(rule, x) /\ ~Forbidden(rule)
    BY <1>2, <1>3 DEF RedactedAt
  <2>2. rule.action \in {"hash", "coarsen", "drop"}
    BY <2>1 DEF Protects, Forbidden, RedactionActions
  <2> HIDE DEF rule, x
  <2>3. RedactedValue(rule, x)[1] \in {"hash", "coarsen", "drop"}
    BY <2>2 DEF RedactedValue, NoValue
  <2> QED BY <2>1, <2>3
<1>4. CASE path \notin DOMAIN packet.values
  BY <1>2, <1>4 DEF RedactedAt, NoValue
<1> QED BY <1>3, <1>4

LEMMA TradeStands == ASSUME SignalInv PROVE TradedSignalsStand
<1> SUFFICES ASSUME work.projection.made, work.projection.ok PROVE TradedSignalsStand
  BY DEF TradedSignalsStand
<1> DEFINE request == work.projection.request
<1>1. /\ ~Settling /\ work.redaction.made /\ work.redaction.ok /\ request = BidRequest
      /\ \A s \in GatingSlots : Has(Field(s))
  BY DEF SignalInv, ProjectionStands
<1>2. /\ packet \in Packets /\ DOMAIN work.selected = Slots /\ DOMAIN packet.stated \subseteq Slots
  BY SignalAssumption DEF SignalInv, WorkShaped
<1>3. /\ request.signals = [s \in Slots |-> Field(s)]
      /\ request.user = RedactedAt("sessionKey") /\ request.device = RedactedAt("deviceId")
  BY <1>1, <1>2 DEF BidRequest
<1>4. \A s \in DOMAIN packet.stated :
        /\ work.selected[s] =
             ResolveFieldConflict(s, FieldStrategy(s, packet.strategy), CandidatesOf(packet, s))
        /\ Field(s) = work.selected[s].value
  BY <1>1 DEF Settling, SignalInv, SelectedStand, Field
<1>5. ASSUME NEW s \in DOMAIN packet.stated \ SetLikeSlots PROVE Backed(s, request.signals[s])
  <2>1. request.signals[s] = Field(s)
    BY <1>2, <1>3
  <2>2. PICK value : value = Field(s)
    OBVIOUS
  <2>3. value = ResolveFieldConflict(s, FieldStrategy(s, packet.strategy), CandidatesOf(packet, s)).value
    BY <1>4, <2>2
  <2>4. Backed(s, value)
    BY <1>1, <1>2, <2>2, <2>3, SettledIsBacked
  <2> QED BY <2>1, <2>2, <2>4
<1>6. ASSUME NEW s \in DOMAIN packet.stated,
             \A i \in DOMAIN packet.stated[s] : packet.stated[s][i].sequence # -1
      PROVE  SettledInAnyOrder(s)
  BY <1>2, <1>4, <1>6, OrderDoesNotMatter
<1>7. \A f \in {<<"sessionKey", request.user>>, <<"deviceId", request.device>>} :
        Protects(FieldRule(packet.policy, f[1])) => f[2][1] # "pass"
  <2>1. Protects(FieldRule(packet.policy, "sessionKey")) => request.user[1] # "pass"
    BY <1>1, <1>3, ProtectedIsRedacted
  <2>2. Protects(FieldRule(packet.policy, "deviceId")) => request.device[1] # "pass"
    BY <1>1, <1>3, ProtectedIsRedacted
  <2> HIDE DEF request
  <2> QED BY <2>1, <2>2
<1>8. work.audit.made /\ work.audit.ok => work.audit.records = request.signals
  BY <1>3 DEF SignalInv, AuditStands
<1> QED BY <1>5, <1>6, <1>7, <1>8 DEF TradedSignalsStand

(* What is traded holds whoever is asked later: for any packets, dictionaries of texts,
   orders of values and policies, a slot that its sources disagree on opens no trade when
   it gates, another carries a value of its most trusted sources in whatever order they
   were listed, no identifier that the policy protects leaves in clear, and the audit
   tells the same. *)
THEOREM TradesHold == SignalSpec => []TradedSignalsStand
<1>1. SignalInv => TradedSignalsStand
  BY TradeStands
<1> QED BY <1>1, SignalHolds, PTL

============================================================================
