---------------------------- MODULE InventoryProofs ----------------------------
(***************************************************************************)
(* Proofs about the fetch of a network, the synchronization of the         *)
(* inventory, the pipeline that asks networks for a placement, and the     *)
(* choice of an offer from the inventory.                                  *)
(***************************************************************************)
EXTENDS InventorySync, NetworkFetch, PlacementRuntime, OfferSelection, FiniteSetTheorems,
        SequenceTheorems, WellFoundedInduction, TLAPS

----------------------------------------------------------------------------
(* Least numbers, best elements and ranks *)

LEMMA HasLeast ==
  ASSUME NEW S \in SUBSET Nat, S # {}
  PROVE  \E n \in S : \A m \in S : n <= m
<1> DEFINE Less == {pair \in Nat \X Nat : pair[1] < pair[2]}
<1>1. PICK n \in S : \A m \in S : ~ (<<m, n>> \in Less)
  <2>1. IsWellFoundedOn(Less, Nat)
    BY NatLessThanWellFounded DEF OpToRel
  <2> HIDE DEF Less
  <2> QED BY <2>1, WFMin
<1>2. \A m \in S : m < n => <<m, n>> \in Less
  OBVIOUS
<1> HIDE DEF Less
<1>3. ASSUME NEW m \in S PROVE n <= m
  <2>1. ~ (m < n) /\ m \in Nat /\ n \in Nat
    BY <1>1, <1>2
  <2> QED BY <2>1
<1> QED BY <1>3

LEMMA PartsCount ==
  ASSUME NEW S, IsFiniteSet(S), NEW T \in SUBSET S
  PROVE  IsFiniteSet(T) /\ Cardinality(T) \in Nat
<1>1. IsFiniteSet(T)
  BY FS_Subset
<1> QED BY <1>1, FS_CardinalityType

\* Those of a set that beat one of them.
Above(S, Beats, x) == {y \in S : <<y, x>> \in Beats}

LEMMA AboveCount ==
  ASSUME NEW S, IsFiniteSet(S), NEW Beats, NEW x
  PROVE  /\ Above(S, Beats, x) \in SUBSET S /\ IsFiniteSet(Above(S, Beats, x))
         /\ Cardinality(Above(S, Beats, x)) \in Nat
<1>1. Above(S, Beats, x) \in SUBSET S
  BY DEF Above
<1> QED BY <1>1, PartsCount

\* Of a finite set something is not beaten, by a relation that is a strict order.
LEMMA HasBest ==
  ASSUME NEW S, IsFiniteSet(S), S # {}, NEW Beats,
         \A x \in S : <<x, x>> \notin Beats,
         \A x, y, z \in S : <<x, y>> \in Beats /\ <<y, z>> \in Beats => <<x, z>> \in Beats
  PROVE  \E x \in S : \A y \in S : <<y, x>> \notin Beats
<1> DEFINE number(x) == Cardinality(Above(S, Beats, x))
           N == {number(x) : x \in S}
<1>1. \A x \in S : IsFiniteSet(Above(S, Beats, x)) /\ number(x) \in Nat
  BY AboveCount
<1> HIDE DEF number
<1>2. N \in SUBSET Nat /\ N # {}
  <2>1. \A m \in N : m \in Nat
    BY <1>1
  <2>2. PICK x \in S : TRUE
    OBVIOUS
  <2>3. number(x) \in N
    OBVIOUS
  <2> QED BY <2>1, <2>3
<1>3. PICK n \in N : \A m \in N : n <= m
  <2> HIDE DEF N
  <2> QED BY <1>2, HasLeast
<1>4. PICK x \in S : number(x) = n
  OBVIOUS
<1>5. ASSUME NEW y \in S, <<y, x>> \in Beats PROVE FALSE
  <2>1. Above(S, Beats, y) \in SUBSET Above(S, Beats, x)
    BY <1>5 DEF Above
  <2>2. y \in Above(S, Beats, x) /\ y \notin Above(S, Beats, y)
    BY <1>5 DEF Above
  <2>3. number(y) \in N /\ n <= number(y)
    BY <1>3
  <2>4. Cardinality(Above(S, Beats, y)) <= Cardinality(Above(S, Beats, x))
        /\ Cardinality(Above(S, Beats, y)) # Cardinality(Above(S, Beats, x))
    BY <1>1, <2>1, <2>2, FS_Subset
  <2>5. number(y) <= number(x) /\ number(y) # number(x)
    BY <2>4 DEF number
  <2> QED BY <1>1, <1>4, <2>3, <2>5
<1> QED BY <1>5

----------------------------------------------------------------------------
(* The fetch of a network *)

Results == {"asking", "found", "empty", "absent", "failed"}
Requests == [path : 1..Paths, attempt : 0..MaxRetries, result : Results]

\* What the network has lies no lower than where a walk has come to, and what the
\* walk found or failed to find is so.
WalkTrue(w, has) ==
  /\ \A p \in has : w.path <= p
  /\ w.result \in {"found", "empty"} => w.path \in has
  /\ w.result = "absent" => has = {}
  /\ w.result = "failed" => w.path \in has \/ w.attempt = MaxRetries

FetchTyped ==
  /\ exists \in [Lists -> SUBSET (1..Paths)]
  /\ connector \in {"cj", "partnerstack"}
  /\ listing \in [attempt : 0..MaxRetries, result : Results]
  /\ walk \in [Lists -> Requests]

FetchInv == FetchTyped /\ \A l \in Lists : WalkTrue(walk[l], exists[l])

\* A request of a list, with what its answer makes of it.
LEMMA RequestStands ==
  ASSUME NEW w \in Requests, NEW has \in SUBSET (1..Paths), NEW answer \in Answers,
         WalkTrue(w, has), w.result = "asking",
         (answer = "404") <=> (w.path \notin has /\ answer \notin RetryableAnswers)
  PROVE  /\ NextPath(Attempted(w, answer)) \in Requests
         /\ WalkTrue(NextPath(Attempted(w, answer)), has)
<1> USE FetchAssumption DEF Requests, Results
<1>1. CASE answer \in RetryableAnswers /\ w.attempt < MaxRetries
  <2>1. Attempted(w, answer) = [path |-> w.path, attempt |-> w.attempt + 1, result |-> "asking"]
    BY <1>1 DEF Attempted
  <2>2. NextPath(Attempted(w, answer)) = Attempted(w, answer)
    BY <2>1 DEF NextPath
  <2> QED BY <1>1, <2>1, <2>2 DEF WalkTrue
<1>2. CASE answer = "404"
  <2>1. Attempted(w, answer) = [path |-> w.path, attempt |-> w.attempt, result |-> "absent"]
    BY <1>2 DEF Attempted, RetryableAnswers
  <2>2. \A p \in has : w.path + 1 <= p
    BY <1>2 DEF WalkTrue
  <2>3. CASE w.path < Paths
    <3>1. NextPath(Attempted(w, answer)) = [path |-> w.path + 1, attempt |-> 0, result |-> "asking"]
      BY <2>1, <2>3 DEF NextPath
    <3> QED BY <2>2, <2>3, <3>1 DEF WalkTrue
  <2>4. CASE ~(w.path < Paths)
    <3>1. NextPath(Attempted(w, answer)) = Attempted(w, answer)
      BY <2>1, <2>4 DEF NextPath
    <3>2. has = {}
      BY <2>2, <2>4
    <3> QED BY <2>1, <3>1, <3>2 DEF WalkTrue
  <2> QED BY <2>3, <2>4
<1>3. CASE answer \in {"ok", "no list"}
  <2>1. PICK result \in {"found", "empty"} :
          Attempted(w, answer) = [path |-> w.path, attempt |-> w.attempt, result |-> result]
    <3>1. CASE answer = "ok"
      BY <3>1 DEF Attempted, RetryableAnswers
    <3>2. CASE answer = "no list"
      BY <3>2 DEF Attempted, RetryableAnswers
    <3> QED BY <1>3, <3>1, <3>2
  <2>2. NextPath(Attempted(w, answer)) = Attempted(w, answer)
    BY <2>1 DEF NextPath
  <2>3. w.path \in has
    BY <1>3 DEF RetryableAnswers
  <2> QED BY <2>1, <2>2, <2>3 DEF WalkTrue
<1>4. CASE /\ ~(answer \in RetryableAnswers /\ w.attempt < MaxRetries)
           /\ answer # "404" /\ answer \notin {"ok", "no list"}
  <2>1. Attempted(w, answer) = [path |-> w.path, attempt |-> w.attempt, result |-> "failed"]
    BY <1>4 DEF Attempted
  <2>2. NextPath(Attempted(w, answer)) = Attempted(w, answer)
    BY <2>1 DEF NextPath
  <2>3. CASE answer \in RetryableAnswers
    <3>0. w.attempt \in 0 .. MaxRetries /\ ~(w.attempt < MaxRetries) /\ MaxRetries \in Nat
      BY <1>4, <2>3
    <3>1. w.attempt = MaxRetries
      <4> HIDE DEF Requests
      <4> QED BY <3>0
    <3> QED BY <2>1, <2>2, <3>1 DEF WalkTrue
  <2>4. CASE answer \notin RetryableAnswers
    <3>1. w.path \in has
      BY <1>4, <2>4
    <3> QED BY <2>1, <2>2, <3>1 DEF WalkTrue
  <2> QED BY <2>3, <2>4
<1> QED BY <1>1, <1>2, <1>3, <1>4

LEMMA FetchHolds == FetchSpec => []FetchInv
<1>1. FetchInit => FetchInv
  BY FetchAssumption DEF FetchInit, FetchInv, FetchTyped, WalkTrue, Requests, Results
<1>2. ASSUME FetchInv, [FetchNext]_fetchVars PROVE FetchInv'
  <2> USE <1>2
  <2>1. ASSUME NEW answer \in Answers, PartnershipsAnswer(answer) PROVE FetchInv'
    <3> DEFINE again == answer \in RetryableAnswers /\ listing.attempt < MaxRetries
    <3>0. listing' = Attempted(listing, answer) /\ listing \in [attempt : 0..MaxRetries, result : Results]
      BY <2>1 DEF PartnershipsAnswer, FetchInv, FetchTyped
    <3>1. listing' \in [attempt : 0..MaxRetries, result : Results]
      <4>1. CASE again
        BY <3>0, <4>1, FetchAssumption DEF Attempted
      <4>2. CASE ~again
        <5>1. PICK result \in Results : listing' = [listing EXCEPT !.result = result]
          BY <3>0, <4>2 DEF Attempted, Results
        <5> QED BY <3>0, <5>1
      <4> QED BY <4>1, <4>2
    <3> QED BY <2>1, <3>1 DEF PartnershipsAnswer, FetchInv, FetchTyped
  <2>2. ASSUME NEW answer \in Answers, NEW l \in Lists, ListAnswers(l, answer) PROVE FetchInv'
    <3> DEFINE next == NextPath(Attempted(walk[l], answer))
    <3>1. next \in Requests /\ WalkTrue(next, exists[l])
      BY <2>2, RequestStands DEF ListAnswers, FetchInv, FetchTyped
    <3>2. walk' = [walk EXCEPT ![l] = next] /\ UNCHANGED <<exists, connector, listing>>
      BY <2>2 DEF ListAnswers
    <3> HIDE DEF next
    <3>3. FetchTyped'
      BY <3>1, <3>2 DEF FetchInv, FetchTyped
    <3>4. ASSUME NEW k \in Lists PROVE WalkTrue(walk'[k], exists'[k])
      BY <3>1, <3>2 DEF FetchInv, FetchTyped
    <3> QED BY <3>3, <3>4 DEF FetchInv
  <2>3. CASE UNCHANGED fetchVars
    BY <2>3 DEF fetchVars, FetchInv, FetchTyped
  <2> QED BY <2>1, <2>2, <2>3 DEF FetchNext
<1> QED BY <1>1, <1>2, PTL DEF FetchSpec

\* Every place holds an offer, and there are finitely many.
LEMMA PlacesHold ==
  /\ IsFiniteSet(AllGathered)
  /\ \A p \in AllGathered :
       /\ p = <<p[1], p[2]>> /\ p[1] \in Nat /\ p[2] \in Nat
       /\ OfferAt(p) \in NetworkOffers /\ OfferAt(p).priority \in Int
<1>1. \A l \in Lists : Gathered(l) \in Seq(NetworkOffers)
  BY FetchAssumption, EmptySeq DEF Gathered
<1>2. \A l \in Lists : DOMAIN Gathered(l) = 1 .. Len(Gathered(l)) /\ Len(Gathered(l)) \in Nat
  BY <1>1, LenProperties
<1> DEFINE part == [l \in Lists |-> {l} \X DOMAIN Gathered(l)]
           Parts == {part[l] : l \in Lists}
<1>3. AllGathered = UNION Parts
  BY DEF AllGathered
<1>4. \A l \in Lists : IsFiniteSet(part[l])
  <2> SUFFICES ASSUME NEW l \in Lists PROVE IsFiniteSet({l} \X DOMAIN Gathered(l))
    OBVIOUS
  <2>1. IsFiniteSet({l})
    BY FS_Singleton, Zenon
  <2>2. 1 \in Int /\ Len(Gathered(l)) \in Int
    BY <1>2
  <2>3. IsFiniteSet(1 .. Len(Gathered(l)))
    BY <2>2, FS_Interval, Zenon
  <2>4. IsFiniteSet(DOMAIN Gathered(l))
    BY <1>2, <2>3
  <2> QED BY <2>1, <2>4, FS_Product
<1>5. part \in Surjection(Lists, Parts)
  BY DEF Surjection
<1>6. \A T \in Parts : IsFiniteSet(T)
  BY <1>4
<1>7. IsFiniteSet(AllGathered)
  <2> HIDE DEF part, Parts
  <2>1. IsFiniteSet(Parts)
    BY <1>5, FetchAssumption, FS_Surjection
  <2> QED BY <1>3, <1>6, <2>1, FS_UNION
<1>8. ASSUME NEW p \in AllGathered
      PROVE  /\ p = <<p[1], p[2]>> /\ p[1] \in Nat /\ p[2] \in Nat
             /\ OfferAt(p) \in NetworkOffers /\ OfferAt(p).priority \in Int
  <2>1. PICK l \in Lists : p \in {l} \X DOMAIN Gathered(l)
    BY DEF AllGathered
  <2>2. p = <<l, p[2]>> /\ p[1] = l /\ p[2] \in DOMAIN Gathered(l)
    BY <2>1
  <2>3. p[2] \in 1 .. Len(Gathered(l))
    BY <1>2, <2>2
  <2>4. OfferAt(p) \in NetworkOffers
    BY <1>1, <2>2, <2>3, ElementOfSeq DEF OfferAt
  <2> QED BY <1>2, <2>2, <2>3, <2>4, FetchAssumption
<1> QED BY <1>7, <1>8

\* Of the places of one key exactly one is preferred to all others.
LEMMA OneOffered ==
  ASSUME NEW p \in AllGathered
  PROVE  \E o \in FetchedOffers :
           /\ o.key = OfferAt(p).key /\ o.priority >= OfferAt(p).priority
           /\ \A other \in FetchedOffers : other.key = o.key => other = o
<1> DEFINE Same == {q \in AllGathered : OfferAt(q).key = OfferAt(p).key}
           Beats == {pair \in Same \X Same : Preferred(pair[1], pair[2])}
<1>1. \A q \in AllGathered :
        /\ q = <<q[1], q[2]>> /\ q[1] \in Nat /\ q[2] \in Nat /\ OfferAt(q).priority \in Int
  BY PlacesHold
<1>2. IsFiniteSet(Same) /\ Same # {} /\ Same \in SUBSET AllGathered
  <2>1. Same \in SUBSET AllGathered /\ p \in Same
    OBVIOUS
  <2> QED BY <2>1, PlacesHold, FS_Subset
<1>3. \A x, y \in Same : <<x, y>> \in Beats <=> Preferred(x, y)
  OBVIOUS
<1>4. \A x \in Same : ~Preferred(x, x)
  BY <1>1 DEF Preferred, Before
<1>5. ASSUME NEW x \in Same, NEW y \in Same, NEW z \in Same, Preferred(x, y), Preferred(y, z)
      PROVE  Preferred(x, z)
  BY <1>1, <1>5 DEF Preferred, Before
<1>6. PICK b \in Same : \A y \in Same : ~Preferred(y, b)
  <2> HIDE DEF Same, Beats
  <2>1. \A x \in Same : <<x, x>> \notin Beats
    BY <1>3, <1>4
  <2>2. \A x, y, z \in Same : <<x, y>> \in Beats /\ <<y, z>> \in Beats => <<x, z>> \in Beats
    BY <1>3, <1>5
  <2>3. \E b \in Same : \A y \in Same : <<y, b>> \notin Beats
    BY <1>2, <2>1, <2>2, HasBest
  <2> QED BY <1>3, <2>3
<1>7. \A x, y \in AllGathered :
        OfferAt(x).key = OfferAt(y).key => Preferred(x, y) \/ Preferred(y, x) \/ x = y
  BY <1>1 DEF Preferred, Before
<1>8. \A q \in AllGathered : ~Preferred(q, b)
  BY <1>6 DEF Preferred
<1>9. OfferAt(b) \in FetchedOffers /\ OfferAt(b).key = OfferAt(p).key
  BY <1>8 DEF FetchedOffers
<1>10. OfferAt(b).priority >= OfferAt(p).priority
  BY <1>1, <1>8 DEF Preferred
<1>11. ASSUME NEW other \in FetchedOffers, other.key = OfferAt(b).key PROVE other = OfferAt(b)
  <2>1. PICK q \in AllGathered : other = OfferAt(q) /\ \A r \in AllGathered : ~Preferred(r, q)
    BY DEF FetchedOffers
  <2> QED BY <1>7, <1>8, <1>11, <2>1
<1> QED BY <1>9, <1>10, <1>11

(* A list that a fetch does not report as failed was answered by the first path there is,
   or is not there, and of the offers of a key exactly one is taken, for any number of
   lists, paths, retries and offers.  An answer that holds no list counts as one. *)
THEOREM FetchCorrect == FetchSpec => []MissingIsReported
<1>1. FetchInv => MissingIsReported
  <2> SUFFICES ASSUME FetchInv, FetchEnds PROVE MissingIsReported
    BY DEF MissingIsReported
  <2>1. ASSUME NEW l \in Lists \ FailedLists
        PROVE  IF exists[l] = {} THEN walk[l].result = "absent"
               ELSE walk[l].result \in {"found", "empty"} /\ \A p \in exists[l] : walk[l].path <= p
    BY DEF FetchEnds, FetchInv, FetchTyped, WalkTrue, Requests, Results, FailedLists
  <2>2. ASSUME NEW l \in FailedLists PROVE walk[l].path \in exists[l] \/ walk[l].attempt = MaxRetries
    BY DEF FetchInv, WalkTrue, FailedLists
  <2> QED BY <2>1, <2>2, OneOffered DEF MissingIsReported
<1> QED BY <1>1, FetchHolds, PTL

----------------------------------------------------------------------------
(* Pages and rows *)

LEMMA HasGreatest ==
  ASSUME NEW S \in SUBSET Nat, IsFiniteSet(S), S # {}
  PROVE  \E n \in S : \A m \in S : m <= n
<1> DEFINE More == {pair \in S \X S : pair[1] > pair[2]}
<1>1. \A x, y \in S : <<x, y>> \in More <=> x > y
  OBVIOUS
<1>2. /\ \A x \in S : <<x, x>> \notin More
      /\ \A x, y, z \in S : <<x, y>> \in More /\ <<y, z>> \in More => <<x, z>> \in More
  BY <1>1
<1> HIDE DEF More
<1>3. PICK n \in S : \A m \in S : <<m, n>> \notin More
  BY <1>2, HasBest
<1>4. ASSUME NEW m \in S PROVE m <= n
  <2>1. ~(m > n) /\ m \in Nat /\ n \in Nat
    BY <1>1, <1>3
  <2> QED BY <2>1
<1> QED BY <1>4

\* The ranks of finitely many numbers tell them apart, and count through.
LEMMA RanksOfNumbers ==
  ASSUME NEW ids \in SUBSET Nat, IsFiniteSet(ids)
  PROVE  /\ IsFiniteSet(ids) /\ Cardinality(ids) \in Nat
         /\ \A o \in ids : Rank(ids, o) \in 1 .. Cardinality(ids)
         /\ \A o, p \in ids : o <= p => Rank(ids, o) <= Rank(ids, p)
         /\ \A o, p \in ids : Rank(ids, o) = Rank(ids, p) => o = p
         /\ \A i \in 1 .. Cardinality(ids) : \E o \in ids : Rank(ids, o) = i
<1> DEFINE upTo(o) == {p \in ids : p <= o}
           n == Cardinality(ids)
<1>1. IsFiniteSet(ids) /\ n \in Nat /\ \A o \in ids : o \in Nat
  BY FS_CardinalityType
<1>2. ASSUME NEW o \in ids
      PROVE  /\ upTo(o) \in SUBSET ids /\ IsFiniteSet(upTo(o))
             /\ Rank(ids, o) = Cardinality(upTo(o)) /\ Rank(ids, o) \in 1 .. n
  <2>1. upTo(o) \in SUBSET ids /\ o \in upTo(o) /\ Rank(ids, o) = Cardinality(upTo(o))
    BY <1>1 DEF Rank
  <2> HIDE DEF upTo
  <2>2. IsFiniteSet(upTo(o)) /\ Cardinality(upTo(o)) <= n
    BY <1>1, <2>1, FS_Subset
  <2>3. Cardinality(upTo(o)) \in Nat /\ Cardinality(upTo(o)) # 0
    BY <2>1, <2>2, FS_CardinalityType, FS_EmptySet
  <2> HIDE DEF n
  <2> QED BY <1>1, <2>1, <2>2, <2>3
<1>3. ASSUME NEW o \in ids, NEW p \in ids, o <= p PROVE Rank(ids, o) <= Rank(ids, p)
  <2>1. ASSUME NEW q \in ids, q <= o PROVE q <= p
    <3>1. q \in Nat /\ o \in Nat /\ p \in Nat
      BY <1>1
    <3> QED BY <1>3, <2>1, <3>1
  <2>2. upTo(o) \in SUBSET upTo(p)
    BY <2>1
  <2> HIDE DEF upTo
  <2> QED BY <1>2, <2>2, FS_Subset
<1>4. ASSUME NEW o \in ids, NEW p \in ids, o < p PROVE Rank(ids, o) # Rank(ids, p)
  <2>1. ASSUME NEW q \in ids, q <= o PROVE q <= p
    <3>1. q \in Nat /\ o \in Nat /\ p \in Nat
      BY <1>1
    <3> QED BY <1>4, <2>1, <3>1
  <2>2. o \in Nat /\ p \in Nat
    BY <1>1
  <2>3. upTo(o) \in SUBSET upTo(p)
    BY <2>1
  <2>4. p \in upTo(p) /\ p \notin upTo(o)
    BY <1>4, <2>2
  <2> HIDE DEF upTo
  <2> QED BY <1>2, <2>3, <2>4, FS_Subset
<1> HIDE DEF upTo, n
<1>5. \A o, p \in ids : Rank(ids, o) = Rank(ids, p) => o = p
  BY <1>1, <1>4
<1>6. \A i \in 1 .. n : \E o \in ids : Rank(ids, o) = i
  <2> DEFINE rank == [o \in ids |-> Rank(ids, o)]
             R == {Rank(ids, o) : o \in ids}
  <2>1. rank \in Bijection(ids, R)
    BY <1>5 DEF Bijection, Injection, Surjection, IsInjective
  <2>2. R \in SUBSET (1 .. n)
    BY <1>2
  <2>3. 1 \in Int /\ n \in Int
    BY <1>1
  <2>4. IsFiniteSet(1 .. n) /\ Cardinality(1 .. n) = n
    <3>1. IsFiniteSet(1 .. n) /\ Cardinality(1 .. n) = IF 1 > n THEN 0 ELSE n - 1 + 1
      BY <2>3, FS_Interval, Zenon
    <3> QED BY <1>1, <3>1
  <2> HIDE DEF R
  <2>5. IsFiniteSet(R) /\ Cardinality(R) = n
    <3>1. ExistsBijection(ids, R)
      BY <2>1 DEF ExistsBijection
    <3> QED BY <1>1, <3>1, FS_Bijection DEF n
  <2>6. R = 1 .. n
    BY <2>2, <2>4, <2>5, FS_Subset
  <2> QED BY <2>6 DEF R
<1> QED BY <1>1, <1>2, <1>3, <1>5, <1>6 DEF n

LEMMA RanksCount ==
  ASSUME NEW ids \in SUBSET Offers
  PROVE  /\ IsFiniteSet(ids) /\ Cardinality(ids) \in Nat
         /\ \A o \in ids : Rank(ids, o) \in 1 .. Cardinality(ids)
         /\ \A o, p \in ids : o <= p => Rank(ids, o) <= Rank(ids, p)
         /\ \A o, p \in ids : Rank(ids, o) = Rank(ids, p) => o = p
         /\ \A i \in 1 .. Cardinality(ids) : \E o \in ids : Rank(ids, o) = i
<1>1. ids \in SUBSET Nat /\ IsFiniteSet(ids)
  BY SyncAssumption, FS_Subset
<1> QED BY <1>1, RanksOfNumbers

\* The rows made of a set of offers are of each of it one.
LEMMA RowsTell ==
  ASSUME NEW ids \in SUBSET Offers, NEW version \in [Offers -> Nat]
  PROVE  /\ Rows(ids, version) \in Seq(Offers \X Nat)
         /\ Len(Rows(ids, version)) = Cardinality(ids)
         /\ \A i \in 1 .. Cardinality(ids) :
              /\ Rows(ids, version)[i][1] \in ids
              /\ Rows(ids, version)[i][2] = version[Rows(ids, version)[i][1]]
         /\ \A o \in ids : \E i \in 1 .. Cardinality(ids) : Rows(ids, version)[i][1] = o
<1> DEFINE n == Cardinality(ids)
           rows == Rows(ids, version)
<1>1. /\ IsFiniteSet(ids) /\ n \in Nat
      /\ \A o \in ids : Rank(ids, o) \in 1 .. n
      /\ \A o, p \in ids : Rank(ids, o) = Rank(ids, p) => o = p
      /\ \A i \in 1 .. n : \E o \in ids : Rank(ids, o) = i
  BY RanksCount
<1>2. ASSUME NEW i \in 1 .. n PROVE Ranked(ids, i) \in ids /\ Rank(ids, Ranked(ids, i)) = i
  BY <1>1 DEF Ranked
<1>3. rows = [i \in 1 .. n |-> <<Ranked(ids, i), version[Ranked(ids, i)]>>]
  BY DEF Rows
<1> HIDE DEF rows
<1>4. rows \in [1 .. n -> Offers \X Nat]
  BY <1>2, <1>3
<1>5. rows \in Seq(Offers \X Nat) /\ Len(rows) = n
  <2> HIDE DEF n
  <2> QED BY <1>1, <1>4
<1>6. \A i \in 1 .. n : rows[i][1] \in ids /\ rows[i][2] = version[rows[i][1]]
  BY <1>2, <1>3
<1>7. ASSUME NEW o \in ids PROVE \E i \in 1 .. n : rows[i][1] = o
  BY <1>1, <1>2, <1>3
<1> QED BY <1>5, <1>6, <1>7 DEF rows

\* The next page holds what is behind the cursor up to its own last offer, and is
\* empty only when nothing is.
LEMMA PagesReach ==
  ASSUME NEW rows \in SUBSET Offers, NEW cursor \in Nat
  PROVE  /\ Page(rows, cursor) \in SUBSET {o \in rows : o > cursor}
         /\ Page(rows, cursor) = {} => \A o \in rows : o <= cursor
         /\ \A last \in Page(rows, cursor), o \in rows :
              cursor < o /\ o <= last => o \in Page(rows, cursor)
<1> DEFINE after == {o \in rows : o > cursor}
<1>1. after \in SUBSET Offers /\ \A o \in rows : o \in Nat
  BY SyncAssumption
<1>2. PageSize \in Nat /\ PageSize >= 1
  BY SyncAssumption
<1>3. Page(rows, cursor) = {o \in after : Rank(after, o) <= PageSize}
  BY DEF Page
<1>4. /\ IsFiniteSet(after) /\ Cardinality(after) \in Nat
      /\ \A o \in after : Rank(after, o) \in 1 .. Cardinality(after)
      /\ \A o, p \in after : o <= p => Rank(after, o) <= Rank(after, p)
      /\ \A i \in 1 .. Cardinality(after) : \E o \in after : Rank(after, o) = i
  <2> HIDE DEF after
  <2> QED BY <1>1, RanksCount
<1>5. ASSUME Page(rows, cursor) = {} PROVE after = {}
  <2> SUFFICES ASSUME after # {} PROVE FALSE
    OBVIOUS
  <2> HIDE DEF after
  <2>1. Cardinality(after) >= 1
    BY <1>4
  <2>2. PICK o \in after : Rank(after, o) = 1
    BY <1>4, <2>1
  <2> QED BY <1>2, <1>3, <1>5, <2>2
<1>6. ASSUME NEW last \in Page(rows, cursor), NEW o \in rows, cursor < o, o <= last
      PROVE  o \in Page(rows, cursor)
  <2>1. last \in after /\ o \in after /\ Rank(after, last) <= PageSize
    BY <1>1, <1>3, <1>6
  <2> HIDE DEF after
  <2>2. Rank(after, o) <= Rank(after, last)
    BY <1>4, <1>6, <2>1
  <2> QED BY <1>2, <1>3, <1>4, <2>1, <2>2
<1>7. Page(rows, cursor) \in SUBSET after
  BY <1>3
<1> QED BY <1>1, <1>5, <1>6, <1>7

----------------------------------------------------------------------------
(* The synchronization: types *)

Stages == {"idle", "begin run", "fetch", "raw", "norm", "give up", "select", "embed", "create",
           "begin", "truncate", "insert", "commit", "rollback", "count", "200", "500", "dead"}
AtRefresh == {"truncate", "insert", "commit", "rollback"}
AtNetwork == {"fetch", "raw", "norm", "give up"}
NetworkNames == {"house", "cj", "partnerstack"}
Snapshots == [Offers -> Nat \X Nat]
Databases ==
  [raw : [Offers -> Nat], norm : [Offers -> Nat], emb : [Offers -> Nat], snap : Snapshots,
   runs : [Jobs \X NetworkNames -> {"none", "running", "success", "partial", "failed"}]]
Transactions == [open : BOOLEAN, aborted : BOOLEAN, before : Databases \cup {<<>>}]
JobRecords(j) ==
  [at : Stages, want : Wants[j] \cup {<<>>}, nets : Seq(NetworkNames),
   rows : Seq(Offers \X Nat), errors : BOOLEAN, cursor : Nat, due : SUBSET Offers,
   alone : BOOLEAN, undone : BOOLEAN, reading : Snapshots \cup {<<>>}]

SyncTyped ==
  /\ upstream \in [Offers -> Nat]
  /\ db \in Databases
  /\ txn \in Transactions
  /\ txn.open => txn.before \in Databases
  /\ txn.aborted => txn.open
  /\ DOMAIN jobs = Jobs /\ jobs = [j \in Jobs |-> jobs[j]]
  /\ \A j \in Jobs : jobs[j] \in JobRecords(j)

\* A refresh that has its transaction for itself: what stands in the snapshot.
RefreshTrue(t, x, d, read) ==
  /\ t.at = "truncate" => d.snap = x.before.snap
  /\ t.at = "insert"   => d.snap = NoSnapshot
  /\ t.at = "commit"   => d.snap = t.reading /\ t.reading \in read

\* A refresh that no statement came between: besides, nothing has failed.
AloneTrue(t, x, d) ==
  t.alone =>
    /\ t.at \in {"truncate", "insert", "commit"} => x.open /\ ~x.aborted
    /\ t.at = "insert" => d.snap = NoSnapshot
    /\ t.at = "commit" => d.snap = t.reading

\* A job is at a network of its list; and of a rebuild, what is due and not reached
\* yet is behind the cursor or in the rows that it holds, all of which are of something.
JobTrue(t, d) ==
  /\ t.at \in AtNetwork => t.nets # <<>>
  /\ t.at = "norm" => t.rows # <<>>
  /\ t.at = "embed" => \A i \in 1 .. Len(t.rows) : t.rows[i][2] # 0
  /\ t.at \in {"select", "embed"} /\ t.want.embed = "full" /\ ~t.undone =>
       \A o \in t.due :
         /\ Active(d.norm[o])
         /\ \/ d.emb[o] # 0
            \/ o > t.cursor
            \/ t.at = "embed" /\ \E i \in 1 .. Len(t.rows) : t.rows[i][1] = o

Sole(j) == \A k \in Jobs \ {j} : jobs[k].at \notin AtRefresh

SyncInv ==
  /\ SyncTyped
  /\ txn.open => \E j \in Jobs : jobs[j].at \in AtRefresh
  /\ \A j \in Jobs :
       /\ txn.open /\ jobs[j].at \in AtRefresh /\ Sole(j) => RefreshTrue(jobs[j], txn, db, readings)
       /\ AloneTrue(jobs[j], txn, db)
       /\ JobTrue(jobs[j], db)

\* What the two action properties say of a step.
SnapshotStep ==
  /\ StoredDb'.snap # StoredDb.snap => StoredDb'.snap \in readings' \/ Entangled
  /\ \A j \in Jobs :
       (jobs[j].at = "commit" /\ jobs'[j].at = "count" /\ jobs[j].alone)
       => StoredDb'.snap = jobs[j].reading
RebuildStep ==
  \A j \in Jobs :
    (/\ jobs[j].at = "select" /\ jobs'[j].at \in {"create", "count"}
     /\ jobs[j].want.embed = "full" /\ ~jobs[j].undone)
    => \A o \in jobs[j].due : db.emb[o] # 0
Good == SyncInv' /\ SnapshotStep /\ RebuildStep

\* What a statement of another job makes of a record, and the end of its transaction.
Disturbed(t, u) == u = [t EXCEPT !.alone = FALSE]
TakenBack(t, u) == u = [t EXCEPT !.alone = FALSE, !.undone = TRUE]

LEMMA GoesOnTells ==
  ASSUME SyncTyped, NEW j \in Jobs, NEW next \in JobRecords(j), GoesOn(j, next)
  PROVE  /\ DOMAIN jobs' = Jobs /\ jobs' = [k \in Jobs |-> jobs'[k]]
         /\ jobs'[j] = next
         /\ \A k \in Jobs \ {j} : Disturbed(jobs[k], jobs'[k])
  BY DEF GoesOn, Disturbed

\* What is read of a record of a job whose flags alone change.
LEMMA FlagsOnly ==
  ASSUME NEW j \in Jobs, NEW t \in JobRecords(j), NEW u,
         Disturbed(t, u) \/ TakenBack(t, u)
  PROVE  /\ u \in JobRecords(j)
         /\ u.at = t.at /\ u.want = t.want /\ u.nets = t.nets /\ u.rows = t.rows
         /\ u.cursor = t.cursor /\ u.due = t.due /\ u.reading = t.reading
         /\ ~u.alone
         /\ Disturbed(t, u) => u.undone = t.undone
         /\ TakenBack(t, u) => u.undone
<1>1. CASE Disturbed(t, u)
  BY <1>1 DEF JobRecords, Disturbed, TakenBack
<1>2. CASE TakenBack(t, u)
  BY <1>2 DEF JobRecords, Disturbed, TakenBack
<1> QED BY <1>1, <1>2

----------------------------------------------------------------------------
(* Statements that leave the snapshot alone *)

\* Such a statement of a job that is in no refresh, before it or after it.
LEMMA PlainStep ==
  ASSUME SyncInv, NEW j \in Jobs, NEW next \in JobRecords(j), GoesOn(j, next),
         jobs[j].at \notin AtRefresh, next.at \notin AtRefresh,
         txn' = txn \/ txn' = [txn EXCEPT !.aborted = txn.open],
         db' \in Databases, db'.snap = db.snap, db'.norm = db.norm,
         \A o \in Offers : db.emb[o] # 0 => db'.emb[o] # 0,
         JobTrue(next, db'),
         (/\ jobs[j].at = "select" /\ next.at \in {"create", "count"}
          /\ jobs[j].want.embed = "full" /\ ~jobs[j].undone)
           => \A o \in jobs[j].due : db.emb[o] # 0,
         upstream' = upstream, readings' = readings
  PROVE  Good
<1>1. /\ DOMAIN jobs' = Jobs /\ jobs' = [k \in Jobs |-> jobs'[k]]
      /\ jobs'[j] = next
      /\ \A k \in Jobs \ {j} : Disturbed(jobs[k], jobs'[k])
  BY GoesOnTells DEF SyncInv
<1>2. ASSUME NEW k \in Jobs, k # j
      PROVE  /\ jobs'[k] \in JobRecords(k)
             /\ jobs'[k].at = jobs[k].at /\ jobs'[k].want = jobs[k].want
             /\ jobs'[k].nets = jobs[k].nets
             /\ jobs'[k].rows = jobs[k].rows /\ jobs'[k].cursor = jobs[k].cursor
             /\ jobs'[k].due = jobs[k].due /\ jobs'[k].reading = jobs[k].reading
             /\ jobs'[k].undone = jobs[k].undone /\ ~jobs'[k].alone
  <2>1. jobs[k] \in JobRecords(k) /\ Disturbed(jobs[k], jobs'[k])
    BY <1>1, <1>2 DEF SyncInv, SyncTyped
  <2> QED BY <2>1, FlagsOnly
<1>3. /\ txn' \in Transactions /\ txn'.open = txn.open /\ txn'.before = txn.before
      /\ txn'.aborted => txn'.open
  BY DEF SyncInv, SyncTyped, Transactions
<1>4. SyncTyped'
  BY <1>1, <1>2, <1>3 DEF SyncInv, SyncTyped
<1>5. \A k \in Jobs : jobs'[k].at \in AtRefresh <=> k # j /\ jobs[k].at \in AtRefresh
  BY <1>1, <1>2
<1>6. txn'.open => \E k \in Jobs : jobs'[k].at \in AtRefresh
  BY <1>3, <1>5 DEF SyncInv
<1>7. ASSUME NEW k \in Jobs, txn'.open, jobs'[k].at \in AtRefresh, Sole(k)'
      PROVE  RefreshTrue(jobs'[k], txn', db', readings')
  <2>1. k # j /\ jobs[k].at \in AtRefresh /\ Sole(k)
    BY <1>5, <1>7 DEF Sole
  <2>2. RefreshTrue(jobs[k], txn, db, readings)
    BY <1>3, <1>7, <2>1 DEF SyncInv
  <2> QED BY <1>2, <1>3, <2>1, <2>2 DEF RefreshTrue
<1>8. ASSUME NEW k \in Jobs PROVE AloneTrue(jobs'[k], txn', db')
  <2>1. CASE k = j
    BY <1>1, <2>1 DEF AloneTrue, AtRefresh
  <2>2. CASE k # j
    BY <1>2, <2>2 DEF AloneTrue
  <2> QED BY <2>1, <2>2
<1>9. ASSUME NEW k \in Jobs PROVE JobTrue(jobs'[k], db')
  <2>1. CASE k = j
    BY <1>1, <2>1
  <2>2. CASE k # j
    <3>1. JobTrue(jobs[k], db) /\ jobs[k].due \in SUBSET Offers
      BY DEF SyncInv, SyncTyped, JobRecords
    <3> QED BY <1>2, <2>2, <3>1 DEF JobTrue
  <2> QED BY <2>1, <2>2
<1>10. SyncInv'
  BY <1>4, <1>6, <1>7, <1>8, <1>9 DEF SyncInv
<1>11. SnapshotStep
  <2>1. StoredDb'.snap = StoredDb.snap
    BY <1>3 DEF StoredDb
  <2>2. \A k \in Jobs : ~(jobs[k].at = "commit" /\ jobs'[k].at = "count")
    BY <1>2 DEF AtRefresh
  <2> QED BY <2>1, <2>2 DEF SnapshotStep
<1>12. RebuildStep
  BY <1>1, <1>2 DEF RebuildStep
<1> QED BY <1>10, <1>11, <1>12 DEF Good

\* A statement that has to do with neither refreshes nor embeddings.
LEMMA QuietStep ==
  ASSUME SyncInv, NEW j \in Jobs, NEW next \in JobRecords(j), GoesOn(j, next),
         jobs[j].at \notin AtRefresh \cup {"select"},
         next.at \notin AtRefresh \cup {"select", "embed", "norm"},
         next.at \in AtNetwork => next.nets # <<>>,
         txn' = txn \/ txn' = [txn EXCEPT !.aborted = txn.open],
         db' \in Databases, db'.snap = db.snap, db'.norm = db.norm, db'.emb = db.emb,
         upstream' = upstream, readings' = readings
  PROVE  Good
<1>1. JobTrue(next, db')
  BY DEF JobTrue
<1> QED BY <1>1, PlainStep

\* A statement that fails.
LEMMA FailedStep ==
  ASSUME SyncInv, NEW j \in Jobs, NEW next \in JobRecords(j), Fails(j, next),
         jobs[j].at \notin AtRefresh,
         next.at \in {"500", "raw", "give up"},
         next.at \in AtNetwork => next.nets # <<>>
  PROVE  Good
<1>1. JobTrue(next, db')
  BY DEF JobTrue
<1>2. /\ GoesOn(j, next) /\ upstream' = upstream /\ db' = db /\ readings' = readings
      /\ txn' = txn \/ txn' = [txn EXCEPT !.aborted = txn.open]
  BY DEF Fails
<1>3. db' \in Databases
  BY <1>2 DEF SyncInv, SyncTyped
<1> QED BY <1>1, <1>2, <1>3, PlainStep DEF AtRefresh

LEMMA EndsTyped ==
  ASSUME SyncInv, NEW j \in Jobs, NEW how \in Stages
  PROVE  /\ EndsWith(j, how) \in JobRecords(j)
         /\ EndsWith(j, how).at = how /\ EndsWith(j, how).nets = jobs[j].nets
<1>1. jobs[j] \in JobRecords(j)
  BY DEF SyncInv, SyncTyped
<1> QED BY <1>1 DEF EndsWith, JobRecords

\* A statement that fails, and the request with it.
LEMMA EndedStep ==
  ASSUME SyncInv, NEW j \in Jobs, Fails(j, EndsWith(j, "500")), jobs[j].at \notin AtRefresh
  PROVE  Good
<1>1. "500" \in Stages
  BY DEF Stages
<1>2. EndsWith(j, "500") \in JobRecords(j) /\ EndsWith(j, "500").at = "500"
  BY <1>1, EndsTyped
<1> QED BY <1>2, FailedStep DEF AtNetwork

LEMMA RecordedTyped ==
  ASSUME SyncInv, NEW j \in Jobs, NEW status \in {"running", "success", "partial", "failed"}
  PROVE  /\ Recorded(j, status) \in Databases
         /\ Recorded(j, status).snap = db.snap /\ Recorded(j, status).norm = db.norm
         /\ Recorded(j, status).emb = db.emb
  BY DEF SyncInv, SyncTyped, Databases, Recorded

LEMMA NextNetworkTyped ==
  ASSUME SyncInv, NEW j \in Jobs, jobs[j].nets # <<>>
  PROVE  NextNetwork(j) \in JobRecords(j) /\ NextNetwork(j).at = "begin run"
<1>1. jobs[j] \in JobRecords(j) /\ Tail(jobs[j].nets) \in Seq(NetworkNames)
  BY HeadTailProperties DEF SyncInv, SyncTyped, JobRecords
<1> QED BY <1>1 DEF NextNetwork, JobRecords, Stages

----------------------------------------------------------------------------
(* The runs of the networks *)

\* A change of one job's record alone.
LEMMA InnerStep ==
  ASSUME SyncInv, NEW j \in Jobs, NEW next \in JobRecords(j), jobs' = [jobs EXCEPT ![j] = next],
         jobs[j].at \notin AtRefresh \cup {"select"}, next.at \notin AtRefresh,
         JobTrue(next, db),
         UNCHANGED <<upstream, db, txn, readings>>
  PROVE  Good
<1>1. /\ DOMAIN jobs' = Jobs /\ jobs' = [k \in Jobs |-> jobs'[k]]
      /\ jobs'[j] = next /\ \A k \in Jobs : k # j => jobs'[k] = jobs[k]
  BY DEF SyncInv, SyncTyped
<1>2. SyncTyped'
  BY <1>1 DEF SyncInv, SyncTyped
<1>3. \A k \in Jobs : jobs'[k].at \in AtRefresh <=> k # j /\ jobs[k].at \in AtRefresh
  BY <1>1
<1>4. txn'.open => \E k \in Jobs : jobs'[k].at \in AtRefresh
  BY <1>3 DEF SyncInv
<1>5. ASSUME NEW k \in Jobs, txn'.open, jobs'[k].at \in AtRefresh, Sole(k)'
      PROVE  RefreshTrue(jobs'[k], txn', db', readings')
  <2>1. k # j /\ jobs[k].at \in AtRefresh /\ Sole(k)
    BY <1>3, <1>5 DEF Sole
  <2> QED BY <1>1, <1>5, <2>1 DEF SyncInv
<1>6. ASSUME NEW k \in Jobs PROVE AloneTrue(jobs'[k], txn', db') /\ JobTrue(jobs'[k], db')
  BY <1>1 DEF SyncInv, AloneTrue, AtRefresh
<1>7. SyncInv'
  BY <1>2, <1>4, <1>5, <1>6 DEF SyncInv
<1>8. SnapshotStep
  BY <1>1 DEF SnapshotStep, StoredDb, AtRefresh
<1>9. RebuildStep
  BY <1>1 DEF RebuildStep
<1> QED BY <1>7, <1>8, <1>9 DEF Good

LEMMA AsksKeeps ==
  ASSUME SyncInv, NEW j \in Jobs, NEW want \in Wants[j], Asks(j, want)
  PROVE  Good
<1> DEFINE next == [NotYet EXCEPT !.at = "begin run", !.want = want, !.nets = want.networks]
<1>1. want.networks \in Seq(NetworkNames)
  BY SyncAssumption DEF NetworkNames
<1>2. <<>> \in Seq(NetworkNames) /\ <<>> \in Seq(Offers \X Nat)
  BY EmptySeq
<1>3. next \in JobRecords(j) /\ next.at = "begin run"
  BY <1>1, <1>2 DEF NotYet, JobRecords, Stages
<1>4. JobTrue(next, db)
  <2> HIDE DEF next
  <2> QED BY <1>3 DEF JobTrue, AtNetwork
<1>5. jobs' = [jobs EXCEPT ![j] = next] /\ jobs[j].at = "idle" /\ UNCHANGED <<upstream, db, txn, readings>>
  BY DEF Asks
<1> HIDE DEF next
<1> QED BY <1>3, <1>4, <1>5, InnerStep DEF AtRefresh

LEMMA NetworksDoneKeeps ==
  ASSUME SyncInv, NEW j \in Jobs, NetworksDone(j)
  PROVE  Good
<1> DEFINE want == jobs[j].want
           stage == CASE want.embed # "none" -> "select"
                      [] want.embed = "none" /\ want.refresh -> "create"
                      [] OTHER -> "count"
           next == [jobs[j] EXCEPT !.at = stage, !.cursor = 0, !.due = ActiveRows, !.undone = FALSE]
<1>1. jobs[j] \in JobRecords(j)
  BY DEF SyncInv, SyncTyped
<1>2. stage \in {"select", "create", "count"}
  OBVIOUS
<1>3. ActiveRows \in SUBSET Offers
  BY DEF ActiveRows
<1>4. jobs' = [jobs EXCEPT ![j] = next] /\ jobs[j].at = "begin run" /\ UNCHANGED <<upstream, db, txn, readings>>
  BY DEF NetworksDone
<1> HIDE DEF stage
<1>5. /\ next \in JobRecords(j) /\ next.at = stage /\ next.cursor = 0 /\ next.due = ActiveRows
  BY <1>1, <1>2, <1>3 DEF JobRecords, Stages
<1> HIDE DEF next
<1>6. JobTrue(next, db)
  <2>1. \A o \in Offers : o \in Nat /\ o > 0
    BY SyncAssumption
  <2> QED BY <1>2, <1>5, <2>1 DEF JobTrue, ActiveRows, AtNetwork
<1> QED BY <1>2, <1>4, <1>5, <1>6, InnerStep DEF AtRefresh

LEMMA BeginRunKeeps ==
  ASSUME SyncInv, NEW j \in Jobs, BeginRun(j)
  PROVE  Good
<1> DEFINE next == [jobs[j] EXCEPT !.at = "fetch", !.cursor = 0, !.errors = FALSE]
<1>1. jobs[j] \in JobRecords(j) /\ jobs[j].at = "begin run" /\ jobs[j].nets # <<>>
  BY DEF SyncInv, SyncTyped, BeginRun
<1>2. next \in JobRecords(j) /\ next.at = "fetch" /\ next.nets = jobs[j].nets
  BY <1>1 DEF JobRecords, Stages
<1>3. CASE Executes(j, Recorded(j, "running"), next)
  <2> HIDE DEF next
  <2>1. /\ db' = Recorded(j, "running") /\ GoesOn(j, next)
        /\ upstream' = upstream /\ txn' = txn /\ readings' = readings
    BY <1>3 DEF Executes
  <2> QED BY <1>1, <1>2, <2>1, RecordedTyped, QuietStep DEF AtRefresh
<1>4. CASE Fails(j, EndsWith(j, "500"))
  BY <1>1, <1>4, EndedStep DEF AtRefresh
<1> QED BY <1>3, <1>4 DEF BeginRun

LEMMA FinishRunKeeps ==
  ASSUME SyncInv, NEW j \in Jobs, FinishRun(j)
  PROVE  Good
<1> DEFINE status == IF jobs[j].errors THEN "partial" ELSE "success"
           next == [jobs[j] EXCEPT !.at = "give up"]
<1>1. jobs[j] \in JobRecords(j) /\ jobs[j].at = "raw" /\ jobs[j].nets # <<>>
  BY DEF SyncInv, SyncTyped, FinishRun, JobTrue, AtNetwork
<1>2. next \in JobRecords(j) /\ next.at = "give up" /\ next.nets = jobs[j].nets
  BY <1>1 DEF JobRecords, Stages
<1>3. CASE Executes(j, Recorded(j, status), NextNetwork(j))
  <2>1. /\ db' = Recorded(j, status) /\ GoesOn(j, NextNetwork(j))
        /\ upstream' = upstream /\ txn' = txn /\ readings' = readings
    BY <1>3 DEF Executes
  <2>2. status \in {"running", "success", "partial", "failed"}
    OBVIOUS
  <2> HIDE DEF status
  <2> QED BY <1>1, <2>1, <2>2, NextNetworkTyped, RecordedTyped, QuietStep DEF AtRefresh, AtNetwork
<1>4. CASE Fails(j, next)
  <2> HIDE DEF next
  <2> QED BY <1>1, <1>2, <1>4, FailedStep DEF AtRefresh
<1> QED BY <1>3, <1>4 DEF FinishRun

LEMMA GiveUpRunKeeps ==
  ASSUME SyncInv, NEW j \in Jobs, GiveUpRun(j)
  PROVE  Good
<1>1. jobs[j] \in JobRecords(j) /\ jobs[j].at = "give up" /\ jobs[j].nets # <<>>
  BY DEF SyncInv, SyncTyped, GiveUpRun, JobTrue, AtNetwork
<1>2. CASE Executes(j, Recorded(j, "failed"), NextNetwork(j))
  <2>1. /\ db' = Recorded(j, "failed") /\ GoesOn(j, NextNetwork(j))
        /\ upstream' = upstream /\ txn' = txn /\ readings' = readings
    BY <1>2 DEF Executes
  <2> QED BY <1>1, <2>1, NextNetworkTyped, RecordedTyped, QuietStep DEF AtRefresh, AtNetwork
<1>3. CASE Fails(j, EndsWith(j, "500"))
  BY <1>1, <1>3, EndedStep DEF AtRefresh
<1> QED BY <1>2, <1>3 DEF GiveUpRun

LEMMA FetchFromNetworkKeeps ==
  ASSUME SyncInv, NEW j \in Jobs, FetchFromNetwork(j)
  PROVE  Good
<1>1. /\ jobs[j] \in JobRecords(j) /\ jobs[j].at = "fetch" /\ jobs[j].nets # <<>>
      /\ UNCHANGED <<upstream, db, txn, readings>> /\ db \in Databases
      /\ upstream \in [Offers -> Nat]
  BY DEF SyncInv, SyncTyped, FetchFromNetwork, JobTrue, AtNetwork
<1>2. ASSUME NEW ids \in SUBSET Offers,
             GoesOn(j, [jobs[j] EXCEPT !.at = "raw", !.rows = Rows(ids, upstream)])
      PROVE  Good
  <2> DEFINE next == [jobs[j] EXCEPT !.at = "raw", !.rows = Rows(ids, upstream)]
  <2>1. Rows(ids, upstream) \in Seq(Offers \X Nat)
    BY <1>1, RowsTell
  <2>2. next \in JobRecords(j) /\ next.at = "raw" /\ next.nets = jobs[j].nets
    BY <1>1, <2>1 DEF JobRecords, Stages
  <2> HIDE DEF next
  <2>3. GoesOn(j, next)
    BY <1>2 DEF next
  <2> QED BY <1>1, <2>2, <2>3, QuietStep DEF AtRefresh
<1>3. CASE GoesOn(j, [jobs[j] EXCEPT !.at = "give up"])
  <2> DEFINE next == [jobs[j] EXCEPT !.at = "give up"]
  <2>1. next \in JobRecords(j) /\ next.at = "give up" /\ next.nets = jobs[j].nets
    BY <1>1 DEF JobRecords, Stages
  <2> HIDE DEF next
  <2>2. GoesOn(j, next)
    BY <1>3 DEF next
  <2> QED BY <1>1, <2>1, <2>2, QuietStep DEF AtRefresh
<1>4. \A lists : {o \in Offered(Net(j)) : ListOf[o] \in lists} \in SUBSET Offers
  BY DEF Offered
<1> QED BY <1>2, <1>3, <1>4 DEF FetchFromNetwork

LEMMA FetchHousePageKeeps ==
  ASSUME SyncInv, NEW j \in Jobs, FetchHousePage(j)
  PROVE  Good
<1> DEFINE offered == {o \in Offered("house") : Active(upstream[o])}
           page == Page(offered, jobs[j].cursor)
<1>1. /\ jobs[j] \in JobRecords(j) /\ jobs[j].at = "fetch" /\ jobs[j].nets # <<>>
      /\ db \in Databases /\ upstream \in [Offers -> Nat]
      /\ jobs[j].cursor \in Nat /\ jobs[j].rows \in Seq(Offers \X Nat)
  BY DEF SyncInv, SyncTyped, FetchHousePage, JobRecords, JobTrue, AtNetwork
<1>2. offered \in SUBSET Offers
  BY DEF Offered
<1>3. page \in SUBSET Offers
  <2> HIDE DEF offered
  <2> QED BY <1>1, <1>2, PagesReach
<1> HIDE DEF offered
<1>4. CASE Executes(j, db, [jobs[j] EXCEPT !.at = "raw"])
  <2> DEFINE next == [jobs[j] EXCEPT !.at = "raw"]
  <2>1. next \in JobRecords(j) /\ next.at = "raw" /\ next.nets = jobs[j].nets
    BY <1>1 DEF JobRecords, Stages
  <2> HIDE DEF next
  <2>2. /\ db' = db /\ GoesOn(j, next) /\ upstream' = upstream /\ txn' = txn /\ readings' = readings
    BY <1>4 DEF Executes, next
  <2> QED BY <1>1, <2>1, <2>2, QuietStep DEF AtRefresh
<1> DEFINE last == CHOOSE o \in page : \A p \in page : p <= o
<1>5. CASE page # {} /\ Executes(j, db, [jobs[j] EXCEPT !.rows = @ \o Rows(page, upstream), !.cursor = last])
  <2> DEFINE next == [jobs[j] EXCEPT !.rows = @ \o Rows(page, upstream), !.cursor = last]
  <2>1. last \in page /\ last \in Nat
    <3> HIDE DEF page
    <3>1. page \in SUBSET Nat /\ IsFiniteSet(page)
      BY <1>3, SyncAssumption, FS_Subset
    <3>2. \E o \in page : \A p \in page : p <= o
      BY <1>5, <3>1, HasGreatest
    <3> QED BY <3>1, <3>2
  <2>2. jobs[j].rows \o Rows(page, upstream) \in Seq(Offers \X Nat)
    <3> HIDE DEF page
    <3>1. Rows(page, upstream) \in Seq(Offers \X Nat)
      BY <1>1, <1>3, RowsTell
    <3> QED BY <1>1, <3>1, ConcatProperties
  <2> HIDE DEF page, last
  <2>3. next \in JobRecords(j) /\ next.at = "fetch" /\ next.nets = jobs[j].nets
    BY <1>1, <2>1, <2>2 DEF JobRecords, Stages
  <2> HIDE DEF next
  <2>4. /\ db' = db /\ GoesOn(j, next) /\ upstream' = upstream /\ txn' = txn /\ readings' = readings
    BY <1>5 DEF Executes, next
  <2> QED BY <1>1, <2>3, <2>4, QuietStep DEF AtRefresh
<1>6. CASE Fails(j, [jobs[j] EXCEPT !.at = "give up", !.rows = <<>>])
  <2> DEFINE next == [jobs[j] EXCEPT !.at = "give up", !.rows = <<>>]
  <2>1. <<>> \in Seq(Offers \X Nat)
    BY EmptySeq
  <2>2. next \in JobRecords(j) /\ next.at = "give up" /\ next.nets = jobs[j].nets
    BY <1>1, <2>1 DEF JobRecords, Stages
  <2> HIDE DEF next
  <2>3. Fails(j, next)
    BY <1>6 DEF next
  <2> QED BY <1>1, <2>2, <2>3, FailedStep DEF AtRefresh
<1> QED BY <1>4, <1>5, <1>6 DEF FetchHousePage, offered

----------------------------------------------------------------------------
(* The rows *)

LEMMA RowFailedTyped ==
  ASSUME SyncInv, NEW j \in Jobs, jobs[j].rows # <<>>
  PROVE  /\ RowFailed(j) \in JobRecords(j)
         /\ RowFailed(j).at = "raw" /\ RowFailed(j).nets = jobs[j].nets
<1>1. jobs[j] \in JobRecords(j) /\ Tail(jobs[j].rows) \in Seq(Offers \X Nat)
  BY HeadTailProperties DEF SyncInv, SyncTyped, JobRecords
<1> QED BY <1>1 DEF RowFailed, JobRecords, Stages

LEMMA UpsertRawKeeps ==
  ASSUME SyncInv, NEW j \in Jobs, UpsertRaw(j)
  PROVE  Good
<1> DEFINE row == Head(jobs[j].rows)
           next == [jobs[j] EXCEPT !.at = "norm"]
           d == [db EXCEPT !.raw[row[1]] = row[2]]
<1>1. /\ jobs[j] \in JobRecords(j) /\ jobs[j].at = "raw" /\ jobs[j].nets # <<>>
      /\ jobs[j].rows # <<>> /\ jobs[j].rows \in Seq(Offers \X Nat) /\ db \in Databases
  BY DEF SyncInv, SyncTyped, UpsertRaw, JobTrue, AtNetwork, JobRecords
<1>2. row \in Offers \X Nat
  BY <1>1, HeadTailProperties
<1>3. CASE Executes(j, d, next)
  <2>1. /\ next \in JobRecords(j) /\ next.at = "norm"
        /\ next.nets = jobs[j].nets /\ next.rows = jobs[j].rows
    BY <1>1 DEF JobRecords, Stages
  <2>2. d \in Databases /\ d.snap = db.snap /\ d.norm = db.norm /\ d.emb = db.emb
    <3> HIDE DEF row
    <3> QED BY <1>1, <1>2 DEF Databases
  <2> HIDE DEF row, next, d
  <2>3. /\ db' = d /\ GoesOn(j, next) /\ upstream' = upstream /\ txn' = txn /\ readings' = readings
    BY <1>3 DEF Executes
  <2>4. JobTrue(next, db')
    BY <1>1, <2>1 DEF JobTrue
  <2> QED BY <1>1, <2>1, <2>2, <2>3, <2>4, PlainStep DEF AtRefresh
<1>4. CASE Fails(j, RowFailed(j))
  BY <1>1, <1>4, RowFailedTyped, FailedStep DEF AtRefresh
<1> QED BY <1>3, <1>4 DEF UpsertRaw

Withdrawn(t, u, due) == u = [t EXCEPT !.alone = FALSE, !.due = due]

LEMMA WithdrawnTells ==
  ASSUME NEW k \in Jobs, NEW t \in JobRecords(k), NEW u, NEW due \in SUBSET Offers,
         Withdrawn(t, u, due)
  PROVE  /\ u \in JobRecords(k)
         /\ u.at = t.at /\ u.want = t.want /\ u.nets = t.nets /\ u.rows = t.rows
         /\ u.cursor = t.cursor /\ u.due = due /\ u.reading = t.reading
         /\ u.undone = t.undone /\ ~u.alone
  BY DEF JobRecords, Withdrawn

\* A row that is withdrawn is no longer due for the others.
LEMMA UpsertNormKeeps ==
  ASSUME SyncInv, NEW j \in Jobs, UpsertNorm(j)
  PROVE  Good
<1> DEFINE row == Head(jobs[j].rows)
           next == [jobs[j] EXCEPT !.at = "raw", !.rows = Tail(@)]
           kept(k) == IF Active(row[2]) THEN jobs[k].due ELSE jobs[k].due \ {row[1]}
<1>1. /\ jobs[j] \in JobRecords(j) /\ jobs[j].at = "norm" /\ jobs[j].nets # <<>>
      /\ jobs[j].rows # <<>> /\ jobs[j].rows \in Seq(Offers \X Nat) /\ db \in Databases
  BY DEF SyncInv, SyncTyped, UpsertNorm, JobTrue, AtNetwork, JobRecords
<1>2. row \in Offers \X Nat /\ Tail(jobs[j].rows) \in Seq(Offers \X Nat)
  BY <1>1, HeadTailProperties
<1>3. CASE /\ db' = [db EXCEPT !.norm[row[1]] = row[2]]
           /\ jobs' = [k \in Jobs |->
                IF k = j THEN next
                ELSE [jobs[k] EXCEPT !.alone = FALSE,
                                     !.due = IF Active(row[2]) THEN @ ELSE @ \ {row[1]}]]
           /\ UNCHANGED <<upstream, txn, readings>>
  <2>1. next \in JobRecords(j) /\ next.at = "raw" /\ next.nets = jobs[j].nets
    BY <1>1, <1>2 DEF JobRecords, Stages
  <2>2. /\ db' \in Databases /\ db'.snap = db.snap /\ db'.emb = db.emb
        /\ db'.norm = [db.norm EXCEPT ![row[1]] = row[2]]
    <3> HIDE DEF row
    <3> QED BY <1>1, <1>2, <1>3 DEF Databases
  <2> HIDE DEF next, row
  <2>3. DOMAIN jobs' = Jobs /\ jobs' = [k \in Jobs |-> jobs'[k]] /\ jobs'[j] = next
    BY <1>3
  <2>4. ASSUME NEW k \in Jobs, k # j
        PROVE  /\ jobs'[k] \in JobRecords(k)
               /\ jobs'[k].at = jobs[k].at /\ jobs'[k].want = jobs[k].want
               /\ jobs'[k].nets = jobs[k].nets
               /\ jobs'[k].rows = jobs[k].rows /\ jobs'[k].cursor = jobs[k].cursor
               /\ jobs'[k].due = kept(k) /\ jobs'[k].reading = jobs[k].reading
               /\ jobs'[k].undone = jobs[k].undone /\ ~jobs'[k].alone
    <3>1. /\ jobs[k] \in JobRecords(k)
          /\ Withdrawn(jobs[k], jobs'[k], kept(k))
      <4>1. jobs[k] \in JobRecords(k)
        BY DEF SyncInv, SyncTyped
      <4>2. jobs'[k] = [jobs[k] EXCEPT !.alone = FALSE, !.due = kept(k)]
        BY <1>3, <2>4, Zenon
      <4> QED BY <4>1, <4>2 DEF Withdrawn
    <3>2. kept(k) \in SUBSET Offers
      BY <3>1 DEF JobRecords
    <3> HIDE DEF kept
    <3>3. /\ jobs[k] \in JobRecords(k)
          /\ Withdrawn(jobs[k], jobs'[k], kept(k))
      BY <3>1
    <3>4. /\ jobs'[k] \in JobRecords(k)
          /\ jobs'[k].at = jobs[k].at /\ jobs'[k].want = jobs[k].want
          /\ jobs'[k].nets = jobs[k].nets /\ jobs'[k].rows = jobs[k].rows
          /\ jobs'[k].cursor = jobs[k].cursor /\ jobs'[k].due = kept(k)
          /\ jobs'[k].reading = jobs[k].reading
          /\ jobs'[k].undone = jobs[k].undone /\ ~jobs'[k].alone
      <4> DEFINE t == jobs[k]
                 u == jobs'[k]
                 due == kept(k)
      <4>1. t \in JobRecords(k) /\ due \in SUBSET Offers /\ Withdrawn(t, u, due)
        BY <3>2, <3>3
      <4> HIDE DEF t, u, due
      <4>2. /\ u \in JobRecords(k)
            /\ u.at = t.at /\ u.want = t.want /\ u.nets = t.nets /\ u.rows = t.rows
            /\ u.cursor = t.cursor /\ u.due = due /\ u.reading = t.reading
            /\ u.undone = t.undone /\ ~u.alone
        BY <4>1, WithdrawnTells, SMTT(30)
      <4> QED BY <4>2 DEF t, u, due
    <3> QED BY <3>4, Zenon
  <2>5. SyncTyped'
    BY <1>3, <2>1, <2>2, <2>3, <2>4, Zenon DEF SyncInv, SyncTyped
  <2>6. \A k \in Jobs : jobs'[k].at \in AtRefresh <=> k # j /\ jobs[k].at \in AtRefresh
    BY <2>1, <2>3, <2>4 DEF AtRefresh
  <2>7. txn'.open => \E k \in Jobs : jobs'[k].at \in AtRefresh
    BY <1>1, <1>3, <2>6 DEF SyncInv, AtRefresh
  <2>8. ASSUME NEW k \in Jobs, txn'.open, jobs'[k].at \in AtRefresh, Sole(k)'
        PROVE  RefreshTrue(jobs'[k], txn', db', readings')
    <3>1. k # j /\ jobs[k].at \in AtRefresh /\ Sole(k)
      BY <1>1, <2>6, <2>8 DEF Sole, AtRefresh
    <3>2. RefreshTrue(jobs[k], txn, db, readings)
      BY <1>3, <2>8, <3>1 DEF SyncInv
    <3>3. /\ jobs'[k].at = jobs[k].at /\ jobs'[k].reading = jobs[k].reading
          /\ txn' = txn /\ readings' = readings /\ db'.snap = db.snap
      BY <1>3, <2>2, <2>4, <3>1
    <3> QED BY <3>2, <3>3 DEF RefreshTrue
  <2>9. ASSUME NEW k \in Jobs PROVE AloneTrue(jobs'[k], txn', db')
    BY <2>1, <2>3, <2>4 DEF AloneTrue
  <2>10. ASSUME NEW k \in Jobs PROVE JobTrue(jobs'[k], db')
    <3>1. CASE k = j
      BY <1>1, <2>1, <2>3, <3>1 DEF JobTrue
    <3>2. CASE k # j
      <4>1. JobTrue(jobs[k], db) /\ jobs[k].due \in SUBSET Offers /\ kept(k) \in SUBSET jobs[k].due
        BY DEF SyncInv, SyncTyped, JobRecords
      <4>2. \A o \in kept(k) : Active(db.norm[o]) => Active(db'.norm[o])
        <5>1. db.norm \in [Offers -> Nat] /\ row[1] \in Offers
          BY <1>1, <1>2 DEF Databases
        <5>2. \A o \in Offers : db'.norm[o] = IF o = row[1] THEN row[2] ELSE db.norm[o]
          BY <2>2, <5>1
        <5> QED BY <4>1, <5>2
      <4> HIDE DEF kept
      <4> QED BY <2>2, <2>4, <3>2, <4>1, <4>2 DEF JobTrue
    <3> QED BY <3>1, <3>2
  <2>11. SyncInv'
    BY <2>5, <2>7, <2>8, <2>9, <2>10 DEF SyncInv
  <2>12. SnapshotStep
    <3>1. StoredDb'.snap = StoredDb.snap
      BY <1>3, <2>2 DEF StoredDb
    <3>2. \A k \in Jobs : ~(jobs[k].at = "commit" /\ jobs'[k].at = "count")
      BY <1>1, <2>1, <2>3, <2>4
    <3> QED BY <3>1, <3>2 DEF SnapshotStep
  <2>13. RebuildStep
    BY <1>1, <2>1, <2>3, <2>4 DEF RebuildStep
  <2> QED BY <2>11, <2>12, <2>13 DEF Good
<1>4. CASE Fails(j, RowFailed(j))
  BY <1>1, <1>4, RowFailedTyped, FailedStep DEF AtRefresh
<1> QED BY <1>3, <1>4 DEF UpsertNorm

----------------------------------------------------------------------------
(* The embeddings *)

LEMMA EmbeddedTyped ==
  ASSUME SyncInv, NEW j \in Jobs
  PROVE  Embedded(j) \in JobRecords(j) /\ Embedded(j).at \in {"create", "count"}
<1> DEFINE stage == IF jobs[j].want.refresh THEN "create" ELSE "count"
<1>1. jobs[j] \in JobRecords(j) /\ <<>> \in Seq(Offers \X Nat)
  BY EmptySeq DEF SyncInv, SyncTyped
<1>2. stage \in {"create", "count"}
  OBVIOUS
<1>3. Embedded(j) = [jobs[j] EXCEPT !.at = stage, !.rows = <<>>, !.due = {}]
  BY DEF Embedded
<1> HIDE DEF stage
<1> QED BY <1>1, <1>2, <1>3 DEF JobRecords, Stages

LEMMA SelectForEmbeddingKeeps ==
  ASSUME SyncInv, NEW j \in Jobs, SelectForEmbedding(j)
  PROVE  Good
<1> DEFINE full == jobs[j].want.embed = "full"
           page == IF full THEN Page(ActiveRows, jobs[j].cursor) ELSE ActiveRows
           last == CHOOSE o \in page : \A p \in page : p <= o
           next == [jobs[j] EXCEPT !.at = "embed", !.rows = Rows(page, db.norm), !.cursor = last]
<1>1. /\ jobs[j] \in JobRecords(j) /\ jobs[j].at = "select" /\ jobs[j].cursor \in Nat
      /\ db \in Databases /\ db.norm \in [Offers -> Nat] /\ jobs[j].due \in SUBSET Offers
      /\ JobTrue(jobs[j], db)
  BY DEF SyncInv, SyncTyped, SelectForEmbedding, JobRecords, Databases
<1>2. ActiveRows \in SUBSET Offers /\ \A o \in Offers : Active(db.norm[o]) <=> o \in ActiveRows
  BY DEF ActiveRows
<1>3. /\ page \in SUBSET ActiveRows
      /\ full /\ page = {} => \A o \in ActiveRows : o <= jobs[j].cursor
      /\ full => \A p \in page, o \in ActiveRows :
                   jobs[j].cursor < o /\ o <= p => o \in page
  BY <1>1, <1>2, PagesReach
<1>4. CASE page = {} /\ Executes(j, db, Embedded(j))
  <2>1. /\ db' = db /\ GoesOn(j, Embedded(j))
        /\ upstream' = upstream /\ txn' = txn /\ readings' = readings
    BY <1>4 DEF Executes
  <2>2. JobTrue(Embedded(j), db')
    BY EmbeddedTyped DEF JobTrue, AtNetwork
  <2>3. full /\ ~jobs[j].undone => \A o \in jobs[j].due : db.emb[o] # 0
    <3> SUFFICES ASSUME full, ~jobs[j].undone, NEW o \in jobs[j].due, db.emb[o] = 0 PROVE FALSE
      OBVIOUS
    <3>1. o \in Nat /\ o > jobs[j].cursor /\ o \in ActiveRows
      BY <1>1, <1>2, SyncAssumption DEF JobTrue
    <3> HIDE DEF page, full
    <3> QED BY <1>1, <1>3, <1>4, <3>1
  <2> HIDE DEF page
  <2> QED BY <1>1, <2>1, <2>2, <2>3, EmbeddedTyped, PlainStep DEF AtRefresh
<1>5. CASE page # {} /\ Executes(j, db, next)
  <2>1. last \in page /\ last \in Nat /\ \A p \in page : p <= last
    <3> HIDE DEF page
    <3>1. page \in SUBSET Nat /\ IsFiniteSet(page)
      BY <1>2, <1>3, SyncAssumption, FS_Subset
    <3>2. \E o \in page : \A p \in page : p <= o
      BY <1>5, <3>1, HasGreatest
    <3> QED BY <3>1, <3>2
  <2> HIDE DEF page, last
  <2>2. page \in SUBSET Offers
    BY <1>2, <1>3
  <2>3. /\ Rows(page, db.norm) \in Seq(Offers \X Nat)
        /\ Len(Rows(page, db.norm)) = Cardinality(page)
        /\ \A i \in 1 .. Cardinality(page) :
              /\ Rows(page, db.norm)[i][1] \in page
              /\ Rows(page, db.norm)[i][2] = db.norm[Rows(page, db.norm)[i][1]]
        /\ \A o \in page : \E i \in 1 .. Cardinality(page) : Rows(page, db.norm)[i][1] = o
    BY <1>1, <2>2, RowsTell
  <2>4. /\ next \in JobRecords(j) /\ next.at = "embed" /\ next.rows = Rows(page, db.norm)
        /\ next.cursor = last /\ next.due = jobs[j].due /\ next.want = jobs[j].want
        /\ next.undone = jobs[j].undone
    BY <1>1, <2>1, <2>3 DEF JobRecords, Stages
  <2> HIDE DEF next
  <2>5. /\ db' = db /\ GoesOn(j, next) /\ upstream' = upstream /\ txn' = txn /\ readings' = readings
    BY <1>5 DEF Executes
  <2>6. \A i \in 1 .. Len(next.rows) : next.rows[i][2] # 0
    BY <1>2, <1>3, <2>2, <2>3, <2>4 DEF Active
  <2>7. ASSUME full, ~jobs[j].undone, NEW o \in jobs[j].due
        PROVE  /\ Active(db.norm[o])
               /\ \/ db.emb[o] # 0
                  \/ o > last
                  \/ \E i \in 1 .. Len(next.rows) : next.rows[i][1] = o
    <3>1. Active(db.norm[o]) /\ o \in ActiveRows /\ o \in Nat
      BY <1>1, <1>2, <2>7, SyncAssumption DEF JobTrue
    <3>2. CASE o > jobs[j].cursor /\ ~(o > last)
      <4>1. o \in page
        BY <1>1, <1>3, <2>1, <2>7, <3>1, <3>2
      <4> QED BY <2>3, <2>4, <3>1, <4>1
    <3>3. CASE ~(o > jobs[j].cursor)
      BY <1>1, <2>7, <3>1, <3>3 DEF JobTrue
    <3> QED BY <3>1, <3>2, <3>3
  <2>8. JobTrue(next, db')
    BY <2>4, <2>5, <2>6, <2>7 DEF JobTrue, AtNetwork
  <2> QED BY <1>1, <2>4, <2>5, <2>8, PlainStep DEF AtRefresh
<1>6. CASE Fails(j, EndsWith(j, "500"))
  BY <1>1, <1>6, EndedStep DEF AtRefresh
<1> QED BY <1>4, <1>5, <1>6 DEF SelectForEmbedding

LEMMA LeastTells ==
  ASSUME NEW S, NEW x \in S, \A y \in S : x <= y
  PROVE  Least(S) \in S /\ \A y \in S : Least(S) <= y
  BY ZenonT(30) DEF Least

LEMMA LeastOf ==
  ASSUME NEW m \in Nat, NEW n \in Nat
  PROVE  Least({m, n}) \in {m, n} /\ Least({m, n}) <= m /\ Least({m, n}) <= n
<1>1. PICK x \in {m, n} : \A y \in {m, n} : x <= y
  <2>1. m <= n \/ n <= m
    OBVIOUS
  <2> QED BY <2>1
<1>2. PICK S : S = {m, n}
  BY Zenon
<1>3. Least(S) \in S /\ \A y \in S : Least(S) <= y
  BY <1>1, <1>2, LeastTells
<1> QED BY <1>2, <1>3

LEMMA UpsertEmbeddingsKeeps ==
  ASSUME SyncInv, NEW j \in Jobs, UpsertEmbeddings(j)
  PROVE  Good
<1> DEFINE rows == jobs[j].rows
           size == Least({ChunkSize, Len(rows)})
           ids == {rows[i][1] : i \in 1..size}
           place(o) == CHOOSE i \in 1..size : rows[i][1] = o
           version(o) == rows[place(o)][2]
           rest == SubSeq(rows, size + 1, Len(rows))
           next == CASE rest # <<>> -> [jobs[j] EXCEPT !.rows = rest]
                     [] rest = <<>> /\ jobs[j].want.embed = "full" ->
                          [jobs[j] EXCEPT !.at = "select", !.rows = <<>>]
                     [] OTHER -> Embedded(j)
           d == [db EXCEPT !.emb = [o \in Offers |-> IF o \in ids THEN version(o) ELSE @[o]]]
<1>1. /\ jobs[j] \in JobRecords(j) /\ jobs[j].at = "embed" /\ JobTrue(jobs[j], db)
      /\ db \in Databases /\ db.emb \in [Offers -> Nat] /\ jobs[j].due \in SUBSET Offers
      /\ rows \in Seq(Offers \X Nat)
  BY DEF SyncInv, SyncTyped, UpsertEmbeddings, JobRecords, Databases
<1>2. Len(rows) \in Nat /\ size \in 0 .. Len(rows)
  <2> HIDE DEF rows
  <2>1. Len(rows) \in Nat /\ ChunkSize \in Nat
    BY <1>1, LenProperties, SyncAssumption
  <2>2. size \in {ChunkSize, Len(rows)} /\ size <= Len(rows)
    BY <2>1, LeastOf
  <2> HIDE DEF size
  <2> QED BY <2>1, <2>2
<1>3. \A i \in 1 .. Len(rows) : rows[i] \in Offers \X Nat /\ rows[i][2] # 0
  BY <1>1, ElementOfSeq DEF JobTrue
<1>4. CASE Executes(j, d, next)
  <2>1. \A o \in ids : place(o) \in 1 .. size /\ rows[place(o)][1] = o
    OBVIOUS
  <2>2. \A o \in ids : o \in Offers /\ version(o) \in Nat /\ version(o) # 0
    <3> SUFFICES ASSUME NEW o \in ids PROVE o \in Offers /\ version(o) \in Nat /\ version(o) # 0
      OBVIOUS
    <3> HIDE DEF place, rows, size
    <3>1. place(o) \in 1 .. Len(rows) /\ rows[place(o)][1] = o
      BY <1>2, <2>1
    <3> QED BY <1>3, <3>1
  <2> HIDE DEF version
  <2>3. /\ d \in Databases /\ d.snap = db.snap /\ d.norm = db.norm
        /\ d.emb = [o \in Offers |-> IF o \in ids THEN version(o) ELSE db.emb[o]]
    <3> HIDE DEF ids
    <3>1. [o \in Offers |-> IF o \in ids THEN version(o) ELSE db.emb[o]] \in [Offers -> Nat]
      BY <1>1, <2>2
    <3> QED BY <1>1, <3>1 DEF Databases
  <2>4. \A o \in Offers : (db.emb[o] # 0 \/ o \in ids) => d.emb[o] # 0
    BY <2>2, <2>3
  <2> HIDE DEF d
  <2>5. /\ db' = d /\ GoesOn(j, next) /\ upstream' = upstream /\ txn' = txn /\ readings' = readings
    BY <1>4 DEF Executes
  <2>6. /\ rest \in Seq(Offers \X Nat) /\ Len(rest) = Len(rows) - size
        /\ \A i \in 1 .. Len(rest) : rest[i] = rows[size + i]
    <3> HIDE DEF rows, size
    <3>1. Len(rows) \in Nat /\ size \in Nat /\ size <= Len(rows)
      BY <1>2
    <3> QED BY <1>1, <3>1, SubSeqProperties
  <2>7. rest = <<>> => size = Len(rows)
    <3> HIDE DEF rows, size, rest
    <3>1. Len(<<>>) = 0
      BY EmptySeq
    <3> QED BY <1>2, <2>6, <3>1
  <2>8. ASSUME NEW o \in jobs[j].due, jobs[j].want.embed = "full", ~jobs[j].undone
        PROVE  /\ Active(d.norm[o])
               /\ \/ d.emb[o] # 0
                  \/ o > jobs[j].cursor
                  \/ \E i \in 1 .. Len(rest) : rest[i][1] = o
    <3>1. /\ Active(db.norm[o]) /\ o \in Offers
          /\ db.emb[o] # 0 \/ o > jobs[j].cursor \/ \E i \in 1 .. Len(rows) : rows[i][1] = o
      BY <1>1, <2>8 DEF JobTrue
    <3>2. ASSUME NEW i \in 1 .. Len(rows), rows[i][1] = o
          PROVE  d.emb[o] # 0 \/ \E k \in 1 .. Len(rest) : rest[k][1] = o
      <4>1. CASE i <= size
        <5>1. o \in ids
          BY <1>2, <3>2, <4>1
        <5> QED BY <2>4, <3>1, <5>1
      <4>2. CASE i > size
        <5> HIDE DEF rows, size, rest
        <5>1. PICK k \in 1 .. Len(rest) : size + k = i
          <6>1. i - size \in 1 .. Len(rest) /\ size + (i - size) = i
            BY <1>2, <2>6, <4>2
          <6> QED BY <6>1
        <5>2. rest[k] = rows[i]
          BY <2>6, <5>1
        <5>3. rest[k][1] = o
          BY <3>2, <5>2
        <5> QED BY <5>3, Zenon
      <4>3. i <= size \/ i > size
        <5> HIDE DEF rows, size
        <5> QED BY <1>2
      <4> QED BY <4>1, <4>2, <4>3
    <3> QED BY <2>3, <2>4, <3>1, <3>2
  <2>9. CASE rest # <<>>
    <3> DEFINE step == [jobs[j] EXCEPT !.rows = rest]
    <3>1. next = step
      BY <2>9
    <3>2. \A i \in 1 .. Len(rest) : rest[i][2] # 0
      <4> HIDE DEF rows, size, rest
      <4>1. \A i \in 1 .. Len(rest) : size + i \in 1 .. Len(rows)
        BY <1>2, <2>6
      <4> QED BY <1>3, <2>6, <4>1
    <3> HIDE DEF rest, rows, next
    <3>3. /\ step \in JobRecords(j) /\ step.at = "embed" /\ step.rows = rest
          /\ step.cursor = jobs[j].cursor /\ step.due = jobs[j].due /\ step.want = jobs[j].want
          /\ step.undone = jobs[j].undone
      BY <1>1, <2>6 DEF JobRecords, Stages
    <3> HIDE DEF step
    <3>4. JobTrue(step, d)
      BY <2>8, <3>2, <3>3 DEF JobTrue, AtNetwork
    <3> QED BY <1>1, <2>3, <2>4, <2>5, <3>1, <3>3, <3>4, PlainStep DEF AtRefresh
  <2>10. CASE rest = <<>> /\ jobs[j].want.embed = "full"
    <3> DEFINE step == [jobs[j] EXCEPT !.at = "select", !.rows = <<>>]
    <3>1. next = step
      BY <2>10
    <3>2. <<>> \in Seq(Offers \X Nat) /\ \A i \in 1 .. Len(rest) : FALSE
      <4> HIDE DEF rest
      <4>1. Len(<<>>) = 0
        BY EmptySeq
      <4> QED BY <2>10, <4>1, EmptySeq
    <3> HIDE DEF rest, rows, next
    <3>3. /\ step \in JobRecords(j) /\ step.at = "select"
          /\ step.cursor = jobs[j].cursor /\ step.due = jobs[j].due /\ step.want = jobs[j].want
          /\ step.undone = jobs[j].undone
      BY <1>1, <3>2 DEF JobRecords, Stages
    <3> HIDE DEF step
    <3>4. JobTrue(step, d)
      BY <2>8, <3>2, <3>3 DEF JobTrue, AtNetwork
    <3> QED BY <1>1, <2>3, <2>4, <2>5, <3>1, <3>3, <3>4, PlainStep DEF AtRefresh
  <2>11. CASE rest = <<>> /\ jobs[j].want.embed # "full"
    <3>1. next = Embedded(j)
      BY <2>11
    <3> HIDE DEF rest, rows, next
    <3>2. JobTrue(Embedded(j), d)
      BY EmbeddedTyped DEF JobTrue, AtNetwork
    <3> QED BY <1>1, <2>3, <2>4, <2>5, <3>1, <3>2, EmbeddedTyped, PlainStep DEF AtRefresh
  <2> QED BY <2>9, <2>10, <2>11
<1>5. CASE Fails(j, EndsWith(j, "500"))
  BY <1>1, <1>5, EndedStep DEF AtRefresh
<1>6. CASE /\ txn' = [txn EXCEPT !.aborted = txn.open]
           /\ GoesOn(j, EndsWith(j, "500")) /\ UNCHANGED <<upstream, db, readings>>
  <2>1. EndsWith(j, "500") \in JobRecords(j) /\ EndsWith(j, "500").at = "500"
    BY EndsTyped DEF Stages
  <2> QED BY <1>1, <1>6, <2>1, QuietStep DEF AtRefresh, AtNetwork
<1> QED BY <1>4, <1>5, <1>6, Zenon DEF UpsertEmbeddings

----------------------------------------------------------------------------
(* The refresh of the snapshot *)

LEMMA CreateSnapshotKeeps ==
  ASSUME SyncInv, NEW j \in Jobs, CreateSnapshot(j)
  PROVE  Good
<1> DEFINE next == [jobs[j] EXCEPT !.at = "begin"]
<1>1. jobs[j] \in JobRecords(j) /\ jobs[j].at = "create" /\ db \in Databases
  BY DEF SyncInv, SyncTyped, CreateSnapshot
<1>2. CASE Executes(j, db, next)
  <2>1. next \in JobRecords(j) /\ next.at = "begin"
    BY <1>1 DEF JobRecords, Stages
  <2> HIDE DEF next
  <2>2. /\ db' = db /\ GoesOn(j, next) /\ upstream' = upstream /\ txn' = txn /\ readings' = readings
    BY <1>2 DEF Executes
  <2> QED BY <1>1, <2>1, <2>2, QuietStep DEF AtRefresh, AtNetwork
<1>3. CASE Fails(j, EndsWith(j, "500"))
  BY <1>1, <1>3, EndedStep DEF AtRefresh
<1> QED BY <1>2, <1>3 DEF CreateSnapshot

LEMMA CountKeeps ==
  ASSUME SyncInv, NEW j \in Jobs, Count(j)
  PROVE  Good
<1>1. jobs[j] \in JobRecords(j) /\ jobs[j].at = "count" /\ db \in Databases
  BY DEF SyncInv, SyncTyped, Count
<1>2. CASE Executes(j, db, EndsWith(j, "200"))
  <2>1. EndsWith(j, "200") \in JobRecords(j) /\ EndsWith(j, "200").at = "200"
    BY EndsTyped DEF Stages
  <2>2. /\ db' = db /\ GoesOn(j, EndsWith(j, "200"))
        /\ upstream' = upstream /\ txn' = txn /\ readings' = readings
    BY <1>2 DEF Executes
  <2> QED BY <1>1, <2>1, <2>2, QuietStep DEF AtRefresh, AtNetwork
<1>3. CASE Fails(j, EndsWith(j, "500"))
  BY <1>1, <1>3, EndedStep DEF AtRefresh
<1> QED BY <1>2, <1>3 DEF Count

\* A statement of a refresh, which leaves rows and embeddings alone: what it leaves to
\* show.
LEMMA RefreshStep ==
  ASSUME SyncInv, NEW j \in Jobs, NEW next \in JobRecords(j), GoesOn(j, next),
         jobs[j].at \in AtRefresh \cup {"begin"},
         next.at \in AtRefresh \cup {"500", "count"},
         txn' \in Transactions, txn'.open => txn'.before \in Databases, txn'.aborted => txn'.open,
         db' \in Databases, db'.norm = db.norm, db'.emb = db.emb,
         upstream' = upstream
  PROVE  /\ SyncTyped' /\ RebuildStep
         /\ jobs'[j] = next
         /\ \A k \in Jobs \ {j} : /\ jobs'[k].at = jobs[k].at
                                  /\ jobs'[k].reading = jobs[k].reading
         /\ \A k \in Jobs : JobTrue(jobs'[k], db')
         /\ \A k \in Jobs \ {j} : AloneTrue(jobs'[k], txn', db')
<1>1. /\ DOMAIN jobs' = Jobs /\ jobs' = [k \in Jobs |-> jobs'[k]]
      /\ jobs'[j] = next
      /\ \A k \in Jobs \ {j} : Disturbed(jobs[k], jobs'[k])
  BY GoesOnTells DEF SyncInv
<1>2. ASSUME NEW k \in Jobs, k # j
      PROVE  /\ jobs'[k] \in JobRecords(k)
             /\ jobs'[k].at = jobs[k].at /\ jobs'[k].want = jobs[k].want
             /\ jobs'[k].nets = jobs[k].nets
             /\ jobs'[k].rows = jobs[k].rows /\ jobs'[k].cursor = jobs[k].cursor
             /\ jobs'[k].due = jobs[k].due /\ jobs'[k].reading = jobs[k].reading
             /\ jobs'[k].undone = jobs[k].undone /\ ~jobs'[k].alone
  <2>1. jobs[k] \in JobRecords(k) /\ Disturbed(jobs[k], jobs'[k])
    BY <1>1, <1>2 DEF SyncInv, SyncTyped
  <2> QED BY <2>1, FlagsOnly
<1>3. SyncTyped'
  BY <1>1, <1>2 DEF SyncInv, SyncTyped
<1>4. ASSUME NEW k \in Jobs PROVE JobTrue(jobs'[k], db')
  <2>1. CASE k = j
    BY <1>1, <2>1 DEF JobTrue, AtRefresh, AtNetwork
  <2>2. CASE k # j
    <3>1. JobTrue(jobs[k], db)
      BY DEF SyncInv
    <3> QED BY <1>2, <2>2, <3>1 DEF JobTrue
  <2> QED BY <2>1, <2>2
<1>5. \A k \in Jobs \ {j} : AloneTrue(jobs'[k], txn', db')
  BY <1>2 DEF AloneTrue
<1>6. RebuildStep
  BY <1>1, <1>2 DEF RebuildStep, AtRefresh
<1> QED BY <1>1, <1>2, <1>3, <1>4, <1>5, <1>6

LEMMA BeginKeeps ==
  ASSUME SyncInv, NEW j \in Jobs, Begin(j)
  PROVE  Good
<1> DEFINE next == [jobs[j] EXCEPT !.at = "truncate", !.alone = ~txn.open]
<1>1. /\ jobs[j] \in JobRecords(j) /\ jobs[j].at = "begin" /\ db \in Databases
      /\ txn \in Transactions /\ txn.open \in BOOLEAN
      /\ txn.open => txn.before \in Databases
      /\ txn.aborted => txn.open
  BY DEF SyncInv, SyncTyped, Begin, Transactions
<1>2. CASE /\ ~txn.aborted
           /\ txn' = IF txn.open THEN txn ELSE [open |-> TRUE, aborted |-> FALSE, before |-> db]
           /\ GoesOn(j, next)
           /\ UNCHANGED <<upstream, db, readings, faults>>
  <2>1. next \in JobRecords(j) /\ next.at = "truncate" /\ next.alone = ~txn.open
    BY <1>1 DEF JobRecords, Stages
  <2> HIDE DEF next
  <2>2. /\ txn' \in Transactions /\ txn'.open /\ ~txn'.aborted /\ txn'.before \in Databases
        /\ txn'.before.snap = StoredDb.snap
        /\ txn.open => txn'.before = txn.before
        /\ ~txn.open => txn'.before = db
    BY <1>1, <1>2 DEF Transactions, StoredDb
  <2>3. db' = db /\ upstream' = upstream /\ readings' = readings
    BY <1>2
  <2>4. /\ SyncTyped' /\ RebuildStep
        /\ jobs'[j] = next
        /\ \A k \in Jobs \ {j} : jobs'[k].at = jobs[k].at /\ jobs'[k].reading = jobs[k].reading
        /\ \A k \in Jobs : JobTrue(jobs'[k], db')
        /\ \A k \in Jobs \ {j} : AloneTrue(jobs'[k], txn', db')
    BY <1>1, <1>2, <2>1, <2>2, <2>3, RefreshStep DEF AtRefresh
  <2>5. \E k \in Jobs : jobs'[k].at \in AtRefresh
    BY <2>1, <2>4 DEF AtRefresh
  <2>6. ASSUME NEW k \in Jobs, jobs'[k].at \in AtRefresh, Sole(k)'
        PROVE  RefreshTrue(jobs'[k], txn', db', readings')
    <3>1. k = j
      BY <2>1, <2>4, <2>6 DEF Sole, AtRefresh
    <3>2. ~txn.open
      <4> SUFFICES ASSUME txn.open PROVE FALSE
        OBVIOUS
      <4>1. PICK m \in Jobs : jobs[m].at \in AtRefresh
        BY DEF SyncInv
      <4>2. m # j
        BY <1>1, <4>1 DEF AtRefresh
      <4> QED BY <2>4, <2>6, <3>1, <4>1, <4>2 DEF Sole
    <3> QED BY <2>1, <2>2, <2>3, <2>4, <3>1, <3>2 DEF RefreshTrue
  <2>7. AloneTrue(jobs'[j], txn', db')
    BY <2>1, <2>2, <2>4 DEF AloneTrue
  <2>8. SyncInv'
    BY <2>4, <2>5, <2>6, <2>7 DEF SyncInv
  <2>9. SnapshotStep
    <3>1. StoredDb'.snap = StoredDb.snap
      BY <2>2 DEF StoredDb
    <3>2. \A k \in Jobs : ~(jobs[k].at = "commit" /\ jobs'[k].at = "count")
      BY <1>1, <2>1, <2>4
    <3> QED BY <3>1, <3>2 DEF SnapshotStep
  <2> QED BY <2>4, <2>8, <2>9 DEF Good
<1>3. CASE Fails(j, EndsWith(j, "500"))
  BY <1>1, <1>3, EndedStep DEF AtRefresh
<1> QED BY <1>2, <1>3 DEF Begin

\* A statement within a refresh, which goes on to its next one or to its rollback.
LEMMA InsideStep ==
  ASSUME SyncInv, NEW j \in Jobs, NEW next \in JobRecords(j), GoesOn(j, next),
         jobs[j].at \in {"truncate", "insert"}, next.at \in AtRefresh,
         txn' = txn \/ txn' = [txn EXCEPT !.aborted = txn.open],
         db' \in Databases, db'.norm = db.norm, db'.emb = db.emb,
         upstream' = upstream, readings \subseteq readings',
         txn.open /\ Sole(j) => RefreshTrue(next, txn, db', readings'),
         AloneTrue(next, txn', db')
  PROVE  Good
<1>1. /\ txn' \in Transactions /\ txn'.open = txn.open /\ txn'.before = txn.before
      /\ txn'.open => txn'.before \in Databases
      /\ txn'.aborted => txn'.open
  BY DEF SyncInv, SyncTyped, Transactions
<1>2. /\ SyncTyped' /\ RebuildStep
      /\ jobs'[j] = next
      /\ \A k \in Jobs \ {j} : jobs'[k].at = jobs[k].at /\ jobs'[k].reading = jobs[k].reading
      /\ \A k \in Jobs : JobTrue(jobs'[k], db')
      /\ \A k \in Jobs \ {j} : AloneTrue(jobs'[k], txn', db')
  BY <1>1, RefreshStep DEF AtRefresh
<1>3. \E k \in Jobs : jobs'[k].at \in AtRefresh
  BY <1>2
<1>4. ASSUME NEW k \in Jobs, txn'.open, jobs'[k].at \in AtRefresh, Sole(k)'
      PROVE  RefreshTrue(jobs'[k], txn', db', readings')
  <2>1. k = j
    BY <1>2, <1>4 DEF Sole
  <2>2. Sole(j)
    BY <1>2, <1>4, <2>1 DEF Sole
  <2> QED BY <1>1, <1>2, <1>4, <2>1, <2>2 DEF RefreshTrue
<1>5. SyncInv'
  BY <1>2, <1>3, <1>4 DEF SyncInv
<1>6. SnapshotStep
  <2>3. StoredDb'.snap # StoredDb.snap => Entangled
    <3>1. CASE txn.open
      BY <1>1, <3>1 DEF StoredDb
    <3>2. CASE ~txn.open
      BY <3>2 DEF Entangled, Refreshing
    <3> QED BY <3>1, <3>2
  <2>4. \A k \in Jobs : ~(jobs[k].at = "commit" /\ jobs'[k].at = "count")
    BY <1>2
  <2> QED BY <2>3, <2>4 DEF SnapshotStep
<1> QED BY <1>2, <1>5, <1>6 DEF Good

LEMMA TruncateKeeps ==
  ASSUME SyncInv, NEW j \in Jobs, Truncate(j)
  PROVE  Good
<1>1. /\ jobs[j] \in JobRecords(j) /\ jobs[j].at = "truncate" /\ db \in Databases
      /\ jobs[j].alone => txn.open /\ ~txn.aborted
  BY DEF SyncInv, SyncTyped, Truncate, AloneTrue
<1>2. CASE Executes(j, [db EXCEPT !.snap = NoSnapshot], [jobs[j] EXCEPT !.at = "insert"])
  <2> DEFINE next == [jobs[j] EXCEPT !.at = "insert"]
  <2>1. next \in JobRecords(j) /\ next.at = "insert" /\ next.alone = jobs[j].alone
    BY <1>1 DEF JobRecords, Stages
  <2>2. NoSnapshot \in Snapshots
    BY DEF NoSnapshot, Snapshots
  <2>3. /\ db' \in Databases /\ db'.norm = db.norm /\ db'.emb = db.emb /\ db'.snap = NoSnapshot
    BY <1>1, <1>2, <2>2 DEF Executes, Databases
  <2> HIDE DEF next
  <2>4. /\ GoesOn(j, next) /\ upstream' = upstream /\ txn' = txn /\ readings' = readings
    BY <1>2 DEF Executes, next
  <2>5. RefreshTrue(next, txn, db', readings') /\ AloneTrue(next, txn', db')
    BY <1>1, <2>1, <2>3, <2>4 DEF RefreshTrue, AloneTrue
  <2> QED BY <1>1, <2>1, <2>3, <2>4, <2>5, InsideStep DEF AtRefresh
<1>3. CASE Fails(j, [jobs[j] EXCEPT !.at = "rollback"])
  <2> DEFINE next == [jobs[j] EXCEPT !.at = "rollback"]
  <2>1. next \in JobRecords(j) /\ next.at = "rollback"
    BY <1>1 DEF JobRecords, Stages
  <2> HIDE DEF next
  <2>2. /\ GoesOn(j, next) /\ upstream' = upstream /\ db' = db /\ readings' = readings
        /\ txn' = txn \/ txn' = [txn EXCEPT !.aborted = txn.open]
    BY <1>3 DEF Fails, next
  <2>3. RefreshTrue(next, txn, db', readings') /\ AloneTrue(next, txn', db')
    BY <2>1 DEF RefreshTrue, AloneTrue
  <2> QED BY <1>1, <2>1, <2>2, <2>3, InsideStep DEF AtRefresh
<1> QED BY <1>2, <1>3 DEF Truncate

LEMMA InsertSnapshotKeeps ==
  ASSUME SyncInv, NEW j \in Jobs, InsertSnapshot(j)
  PROVE  Good
<1> DEFINE reading == [o \in Offers |-> IF o \in ActiveRows THEN <<db.norm[o], db.emb[o]>> ELSE <<0, 0>>]
           rows == {o \in Offers : reading[o] # <<0, 0>>}
           taken == {o \in Offers : db.snap[o] # <<0, 0>>}
           inserted == [o \in Offers |-> IF o \in rows THEN reading[o] ELSE db.snap[o]]
           next == [jobs[j] EXCEPT !.at = "commit", !.reading = reading]
           back == [jobs[j] EXCEPT !.at = "rollback"]
<1>1. /\ jobs[j] \in JobRecords(j) /\ jobs[j].at = "insert" /\ db \in Databases
      /\ jobs[j].alone => txn.open /\ ~txn.aborted /\ db.snap = NoSnapshot
      /\ txn.open /\ Sole(j) => db.snap = NoSnapshot
  BY DEF SyncInv, SyncTyped, InsertSnapshot, AloneTrue, RefreshTrue, AtRefresh
<1>2. /\ db.norm \in [Offers -> Nat] /\ db.emb \in [Offers -> Nat] /\ db.snap \in Snapshots
  BY <1>1 DEF Databases
<1>3. reading \in Snapshots
  BY <1>2 DEF Snapshots
<1>4. db.snap = NoSnapshot => inserted = reading
  BY <1>2 DEF NoSnapshot, Snapshots
<1>5. back \in JobRecords(j) /\ back.at = "rollback"
  BY <1>1 DEF JobRecords, Stages
<1>6. RefreshTrue(back, txn, db', readings') /\ AloneTrue(back, txn', db')
  <2> HIDE DEF back
  <2> QED BY <1>5 DEF RefreshTrue, AloneTrue
<1>7. CASE /\ ~txn.aborted
           /\ db' = [db EXCEPT !.snap = [o \in Offers |-> IF o \in rows THEN reading[o] ELSE @[o]]]
           /\ readings' = readings \cup {reading}
           /\ GoesOn(j, next)
           /\ UNCHANGED <<upstream, txn, faults>>
  <2>1. inserted \in Snapshots
    <3> HIDE DEF reading, rows
    <3> QED BY <1>2, <1>3 DEF Snapshots
  <2>2. /\ db' \in Databases /\ db'.norm = db.norm /\ db'.emb = db.emb /\ db'.snap = inserted
    <3> HIDE DEF reading, rows
    <3>1. db' = [db EXCEPT !.snap = inserted]
      BY <1>1, <1>7 DEF Databases
    <3> HIDE DEF inserted
    <3> QED BY <1>1, <2>1, <3>1 DEF Databases
  <2> HIDE DEF reading, rows, inserted
  <2>3. /\ next \in JobRecords(j) /\ next.at = "commit" /\ next.reading = reading
        /\ next.alone = jobs[j].alone
    BY <1>1, <1>3 DEF JobRecords, Stages
  <2> HIDE DEF next
  <2>4. txn.open /\ Sole(j) => RefreshTrue(next, txn, db', readings')
    BY <1>1, <1>4, <1>7, <2>2, <2>3 DEF RefreshTrue
  <2>5. AloneTrue(next, txn', db')
    BY <1>1, <1>4, <1>7, <2>2, <2>3 DEF AloneTrue
  <2>6. GoesOn(j, next) /\ upstream' = upstream /\ txn' = txn /\ readings \subseteq readings'
    BY <1>7
  <2> QED BY <1>1, <2>2, <2>3, <2>4, <2>5, <2>6, InsideStep DEF AtRefresh
<1>8. CASE /\ txn' = [txn EXCEPT !.aborted = txn.open]
           /\ GoesOn(j, back)
           /\ UNCHANGED <<upstream, db, readings, faults>>
  <2> HIDE DEF back
  <2> QED BY <1>1, <1>5, <1>6, <1>8, InsideStep DEF AtRefresh
<1>9. CASE Fails(j, back)
  <2> HIDE DEF back
  <2>1. /\ GoesOn(j, back) /\ upstream' = upstream /\ db' = db /\ readings' = readings
        /\ txn' = txn \/ txn' = [txn EXCEPT !.aborted = txn.open]
    BY <1>9 DEF Fails
  <2> QED BY <1>1, <1>5, <1>6, <2>1, InsideStep DEF AtRefresh
<1> QED BY <1>7, <1>8, <1>9 DEF InsertSnapshot

----------------------------------------------------------------------------
(* The end of a transaction *)

\* A transaction ends: by a statement of a refresh that leaves it, or for all others
\* as well.  What is stored, or what the connection saw, stands.
LEMMA EndStep ==
  ASSUME SyncInv, DOMAIN jobs' = Jobs, jobs' = [k \in Jobs |-> jobs'[k]],
         db' \in {db, StoredDb}, txn' = NoTxn, upstream' = upstream,
         \A k \in Jobs :
           /\ jobs'[k] \in JobRecords(k)
           /\ JobTrue(jobs'[k], db')
           /\ AloneTrue(jobs'[k], txn', db')
  PROVE  SyncInv'
<1>1. db' \in Databases
  BY DEF SyncInv, SyncTyped, StoredDb
<1>2. txn' \in Transactions /\ ~txn'.open /\ ~txn'.aborted
  BY DEF NoTxn, Transactions
<1>3. SyncTyped'
  BY <1>1, <1>2 DEF SyncInv, SyncTyped
<1> QED BY <1>2, <1>3 DEF SyncInv

\* Those whose statements were taken back know nothing of their rebuild any more.
LEMMA TakenBackTells ==
  ASSUME SyncInv, NEW k \in Jobs, NEW u, TakenBack(jobs[k], u), NEW d, NEW x
  PROVE  u \in JobRecords(k) /\ u.at = jobs[k].at /\ JobTrue(u, d) /\ AloneTrue(u, x, d)
<1>1. jobs[k] \in JobRecords(k) /\ JobTrue(jobs[k], db)
  BY DEF SyncInv, SyncTyped
<1>2. /\ u \in JobRecords(k)
      /\ u.at = jobs[k].at /\ u.want = jobs[k].want /\ u.nets = jobs[k].nets
      /\ u.rows = jobs[k].rows /\ ~u.alone /\ u.undone
  BY <1>1, FlagsOnly
<1>3. JobTrue(u, d)
  BY <1>1, <1>2 DEF JobTrue
<1>4. AloneTrue(u, x, d)
  BY <1>2 DEF AloneTrue
<1> QED BY <1>2, <1>3, <1>4

\* A refresh leaves its transaction, which is taken back.
LEMMA UndoneStep ==
  ASSUME SyncInv, NEW j \in Jobs, NEW next \in JobRecords(j), Undone(next, j),
         jobs[j].at \in {"commit", "rollback"}, next.at \in {"rollback", "500", "count"},
         jobs[j].at = "commit" /\ next.at = "count" => ~jobs[j].alone,
         db' \in {db, StoredDb},
         db'.snap # StoredDb.snap => db.snap \in readings \/ Entangled,
         txn' = NoTxn, upstream' = upstream, readings' = readings
  PROVE  Good
<1>1. /\ DOMAIN jobs' = Jobs /\ jobs' = [k \in Jobs |-> jobs'[k]]
      /\ jobs'[j] = next
      /\ \A k \in Jobs : k # j => TakenBack(jobs[k], jobs'[k])
  BY DEF Undone, TakenBack
<1>2. ASSUME NEW k \in Jobs, k # j
      PROVE  /\ jobs'[k] \in JobRecords(k) /\ jobs'[k].at = jobs[k].at
             /\ JobTrue(jobs'[k], db') /\ AloneTrue(jobs'[k], txn', db')
  BY <1>1, <1>2, TakenBackTells
<1>3. JobTrue(jobs'[j], db') /\ AloneTrue(jobs'[j], txn', db')
  BY <1>1 DEF JobTrue, AloneTrue, AtNetwork
<1>4. \A k \in Jobs :
           /\ jobs'[k] \in JobRecords(k)
           /\ JobTrue(jobs'[k], db')
           /\ AloneTrue(jobs'[k], txn', db')
  BY <1>1, <1>2, <1>3
<1>5. SyncInv'
  BY <1>1, <1>4, EndStep
<1>6. StoredDb' = db'
  BY DEF StoredDb, NoTxn
<1>7. SnapshotStep
  <2>1. StoredDb'.snap # StoredDb.snap => StoredDb'.snap \in readings' \/ Entangled
    BY <1>6
  <2>2. \A k \in Jobs : jobs[k].at = "commit" /\ jobs'[k].at = "count" => ~jobs[k].alone
    BY <1>1, <1>2
  <2> QED BY <2>1, <2>2 DEF SnapshotStep
<1>8. RebuildStep
  BY <1>1, <1>2 DEF RebuildStep
<1> QED BY <1>5, <1>7, <1>8 DEF Good

\* What a refresh is about to commit is a reading, when no other is under way.
LEMMA CommitsReading ==
  ASSUME SyncInv, NEW j \in Jobs, jobs[j].at = "commit"
  PROVE  db.snap # StoredDb.snap => db.snap \in readings \/ Entangled
<1> SUFFICES ASSUME db.snap # StoredDb.snap, ~Entangled PROVE db.snap \in readings
  OBVIOUS
<1>1. txn.open
  BY DEF StoredDb
<1>2. Sole(j)
  BY DEF Entangled, Refreshing, Sole, AtRefresh
<1> QED BY <1>1, <1>2 DEF SyncInv, RefreshTrue, AtRefresh

LEMMA CommitKeeps ==
  ASSUME SyncInv, NEW j \in Jobs, Commit(j)
  PROVE  Good
<1> DEFINE next == [jobs[j] EXCEPT !.at = "count"]
           back == [jobs[j] EXCEPT !.at = "rollback"]
<1>1. /\ jobs[j] \in JobRecords(j) /\ jobs[j].at = "commit" /\ db \in Databases
      /\ jobs[j].alone => txn.open /\ ~txn.aborted /\ db.snap = jobs[j].reading
      /\ txn.aborted => txn.open
  BY DEF SyncInv, SyncTyped, Commit, AloneTrue
<1>2. next \in JobRecords(j) /\ next.at = "count"
  BY <1>1 DEF JobRecords, Stages
<1>3. back \in JobRecords(j) /\ back.at = "rollback"
  BY <1>1 DEF JobRecords, Stages
<1> HIDE DEF next, back
<1>4. CASE txn.aborted /\ UndoTo(txn.before) /\ Undone(next, j)
  <2>1. db' = StoredDb /\ txn' = NoTxn /\ upstream' = upstream /\ readings' = readings
    BY <1>1, <1>4 DEF UndoTo, StoredDb
  <2>2. ~jobs[j].alone
    BY <1>1, <1>4
  <2> QED BY <1>1, <1>2, <1>4, <2>1, <2>2, UndoneStep
<1>5. CASE ~txn.aborted /\ UndoTo(db) /\ GoesOn(j, next)
  <2>1. db' = db /\ txn' = NoTxn /\ upstream' = upstream /\ readings' = readings
    BY <1>5 DEF UndoTo
  <2>2. txn' \in Transactions /\ ~txn'.open /\ ~txn'.aborted
    BY <2>1 DEF NoTxn, Transactions
  <2>3. /\ SyncTyped' /\ RebuildStep
        /\ jobs'[j] = next
        /\ \A k \in Jobs \ {j} : jobs'[k].at = jobs[k].at /\ jobs'[k].reading = jobs[k].reading
        /\ \A k \in Jobs : JobTrue(jobs'[k], db')
        /\ \A k \in Jobs \ {j} : AloneTrue(jobs'[k], txn', db')
    BY <1>1, <1>2, <1>5, <2>1, <2>2, RefreshStep DEF AtRefresh
  <2>4. AloneTrue(jobs'[j], txn', db')
    BY <1>2, <2>3 DEF AloneTrue
  <2>5. SyncInv'
    BY <2>2, <2>3, <2>4 DEF SyncInv
  <2>6. StoredDb' = db
    BY <2>1, <2>2 DEF StoredDb
  <2>7. StoredDb'.snap # StoredDb.snap => StoredDb'.snap \in readings' \/ Entangled
    BY <1>1, <2>1, <2>6, CommitsReading
  <2>8. \A k \in Jobs : jobs[k].at = "commit" /\ jobs'[k].at = "count" => k = j
    BY <2>3
  <2>9. SnapshotStep
    BY <1>1, <2>6, <2>7, <2>8 DEF SnapshotStep
  <2> QED BY <2>3, <2>5, <2>9 DEF Good
<1>6. ASSUME NEW state \in {db, StoredDb}, UndoTo(state), Undone(back, j)
      PROVE  Good
  <2>1. db' \in {db, StoredDb} /\ txn' = NoTxn /\ upstream' = upstream /\ readings' = readings
    BY <1>6 DEF UndoTo
  <2>2. db'.snap # StoredDb.snap => db.snap \in readings \/ Entangled
    BY <1>1, <2>1, CommitsReading
  <2> QED BY <1>1, <1>3, <1>6, <2>1, <2>2, UndoneStep
<1> QED BY <1>4, <1>5, <1>6 DEF Commit, next, back

LEMMA RollbackKeeps ==
  ASSUME SyncInv, NEW j \in Jobs, Rollback(j)
  PROVE  Good
<1>1. EndsWith(j, "500") \in JobRecords(j) /\ EndsWith(j, "500").at = "500"
  BY EndsTyped DEF Stages
<1>2. /\ jobs[j].at = "rollback" /\ Undone(EndsWith(j, "500"), j)
      /\ db' = StoredDb /\ txn' = NoTxn /\ upstream' = upstream /\ readings' = readings
  BY DEF Rollback, UndoTo
<1> QED BY <1>1, <1>2, UndoneStep

LEMMA ConnectionLostKeeps ==
  ASSUME SyncInv, ConnectionLost
  PROVE  Good
<1>1. /\ DOMAIN jobs' = Jobs /\ jobs' = [k \in Jobs |-> jobs'[k]]
      /\ \A k \in Jobs : TakenBack(jobs[k], jobs'[k])
  BY DEF ConnectionLost, TakenBack
<1>2. db' = StoredDb /\ txn' = NoTxn /\ upstream' = upstream /\ readings' = readings
  BY DEF ConnectionLost
<1>3. ASSUME NEW k \in Jobs
      PROVE  /\ jobs'[k] \in JobRecords(k) /\ jobs'[k].at = jobs[k].at
             /\ JobTrue(jobs'[k], db') /\ AloneTrue(jobs'[k], txn', db')
  BY <1>1, TakenBackTells
<1>4. SyncInv'
  BY <1>1, <1>2, <1>3, EndStep
<1>5. StoredDb' = StoredDb
  BY <1>2 DEF StoredDb, NoTxn
<1>6. SnapshotStep /\ RebuildStep
  BY <1>3, <1>5 DEF SnapshotStep, RebuildStep
<1> QED BY <1>4, <1>6 DEF Good

LEMMA CrashKeeps ==
  ASSUME SyncInv, Crash
  PROVE  Good
<1>1. /\ db' = StoredDb /\ txn' = NoTxn /\ upstream' = upstream /\ readings' = readings
      /\ jobs' = [j \in Jobs |-> IF jobs[j].at \in {"200", "500"} THEN jobs[j]
                                 ELSE [jobs[j] EXCEPT !.at = "dead"]]
  BY DEF Crash
<1>2. ASSUME NEW k \in Jobs
      PROVE  jobs'[k] \in JobRecords(k) /\ jobs'[k].at \in {"200", "500", "dead"}
  <2>1. jobs[k] \in JobRecords(k)
    BY DEF SyncInv, SyncTyped
  <2>2. [jobs[k] EXCEPT !.at = "dead"] \in JobRecords(k) /\ [jobs[k] EXCEPT !.at = "dead"].at = "dead"
    BY <2>1 DEF JobRecords, Stages
  <2>3. jobs'[k] = IF jobs[k].at \in {"200", "500"} THEN jobs[k] ELSE [jobs[k] EXCEPT !.at = "dead"]
    BY <1>1
  <2> QED BY <2>1, <2>2, <2>3
<1>3. ASSUME NEW k \in Jobs
      PROVE  JobTrue(jobs'[k], db') /\ AloneTrue(jobs'[k], txn', db')
  BY <1>2 DEF JobTrue, AloneTrue, AtNetwork
<1>4. DOMAIN jobs' = Jobs /\ jobs' = [k \in Jobs |-> jobs'[k]]
  BY <1>1
<1>5. SyncInv'
  BY <1>1, <1>2, <1>3, <1>4, EndStep
<1>6. StoredDb' = StoredDb
  BY <1>1 DEF StoredDb, NoTxn
<1>7. SnapshotStep /\ RebuildStep
  BY <1>2, <1>6 DEF SnapshotStep, RebuildStep
<1> QED BY <1>5, <1>7 DEF Good

LEMMA NetworkChangesKeeps ==
  ASSUME SyncInv, NEW o \in Offers, NetworkChanges(o)
  PROVE  Good
<1>1. UNCHANGED <<db, txn, jobs, readings>>
  BY DEF NetworkChanges
<1>2. upstream' \in [Offers -> Nat]
  BY DEF NetworkChanges, SyncInv, SyncTyped
<1>3. SyncTyped'
  BY <1>1, <1>2 DEF SyncInv, SyncTyped
<1>4. SyncInv'
  BY <1>1, <1>3 DEF SyncInv, Sole
<1>5. SnapshotStep /\ RebuildStep
  BY <1>1 DEF SnapshotStep, RebuildStep, StoredDb
<1> QED BY <1>4, <1>5 DEF Good

----------------------------------------------------------------------------
(* All steps *)

LEMMA SyncStarts == SyncInit => SyncInv
<1> SUFFICES ASSUME SyncInit PROVE SyncInv
  OBVIOUS
<1>1. upstream \in [Offers -> Nat] /\ txn = NoTxn /\ jobs = [j \in Jobs |-> NotYet]
  BY DEF SyncInit
<1>2. PICK synced \in {upstream, [o \in Offers |-> 0]} :
         db = [raw |-> synced, norm |-> synced, emb |-> synced,
               snap |-> [o \in Offers |-> <<synced[o], synced[o]>>],
               runs |-> [r \in Jobs \X {"house", "cj", "partnerstack"} |-> "none"]]
  BY DEF SyncInit
<1>3. db \in Databases
  BY <1>1, <1>2 DEF Databases, Snapshots, NetworkNames
<1>4. txn \in Transactions /\ ~txn.open /\ ~txn.aborted
  BY <1>1 DEF NoTxn, Transactions
<1>5. <<>> \in Seq(NetworkNames) /\ <<>> \in Seq(Offers \X Nat)
  BY EmptySeq
<1>6. \A j \in Jobs : NotYet \in JobRecords(j)
  BY <1>5 DEF NotYet, JobRecords, Stages
<1>7. \A d, x : JobTrue(NotYet, d) /\ AloneTrue(NotYet, x, d)
  BY DEF NotYet, JobTrue, AloneTrue, AtNetwork
<1>8. SyncTyped
  BY <1>1, <1>3, <1>4, <1>6 DEF SyncTyped
<1> QED BY <1>1, <1>4, <1>7, <1>8 DEF SyncInv

LEMMA SyncSteps ==
  ASSUME SyncInv, [SyncNext]_syncVars
  PROVE  Good
<1>1. CASE UNCHANGED syncVars
  <2>1. UNCHANGED <<upstream, db, txn, jobs, readings>>
    BY <1>1 DEF syncVars
  <2>2. SyncTyped'
    BY <2>1 DEF SyncInv, SyncTyped
  <2>3. SyncInv'
    BY <2>1, <2>2 DEF SyncInv, Sole
  <2>4. SnapshotStep /\ RebuildStep
    BY <2>1 DEF SnapshotStep, RebuildStep, StoredDb
  <2> QED BY <2>3, <2>4 DEF Good
<1>2. ASSUME NEW j \in Jobs,
             \/ \E want \in Wants[j] : Asks(j, want)
             \/ BeginRun(j) \/ FetchFromNetwork(j) \/ FetchHousePage(j)
             \/ UpsertRaw(j) \/ UpsertNorm(j) \/ FinishRun(j) \/ GiveUpRun(j)
             \/ NetworksDone(j) \/ SelectForEmbedding(j) \/ UpsertEmbeddings(j)
             \/ CreateSnapshot(j) \/ Begin(j) \/ Truncate(j) \/ InsertSnapshot(j)
             \/ Commit(j) \/ Rollback(j) \/ Count(j)
      PROVE  Good
  BY <1>2, AsksKeeps, BeginRunKeeps, FetchFromNetworkKeeps, FetchHousePageKeeps,
     UpsertRawKeeps, UpsertNormKeeps, FinishRunKeeps, GiveUpRunKeeps, NetworksDoneKeeps,
     SelectForEmbeddingKeeps, UpsertEmbeddingsKeeps, CreateSnapshotKeeps, BeginKeeps,
     TruncateKeeps, InsertSnapshotKeeps, CommitKeeps, RollbackKeeps, CountKeeps
<1> QED BY <1>1, <1>2, CrashKeeps, ConnectionLostKeeps, NetworkChangesKeeps DEF SyncNext

(* While refreshes keep apart, what others see of the snapshot changes only to what one
   statement read, and a refresh that none came between is there when it is answered
   for: for any offers, jobs, pages, chunks and faults. *)
THEOREM SnapshotsCorrect == SyncSpec => SnapshotIsOneReading
<1>1. SyncInv /\ [SyncNext]_syncVars => SyncInv'
  BY SyncSteps DEF Good
<1>2. SyncInv /\ [SyncNext]_syncVars => SnapshotStep
  BY SyncSteps DEF Good
<1> QED BY SyncStarts, <1>1, <1>2, PTL DEF SyncSpec, SnapshotIsOneReading, SnapshotStep

(* A full rebuild reaches every row that was active when it began and stayed so, unless
   a refresh on the same connection rolled back what it wrote: for any offers, jobs,
   pages, chunks and faults. *)
THEOREM RebuildsCorrect == SyncSpec => RebuildReachesAll
<1>1. SyncInv /\ [SyncNext]_syncVars => SyncInv'
  BY SyncSteps DEF Good
<1>2. SyncInv /\ [SyncNext]_syncVars => RebuildStep
  BY SyncSteps DEF Good
<1> QED BY SyncStarts, <1>1, <1>2, PTL DEF SyncSpec, RebuildReachesAll, RebuildStep

----------------------------------------------------------------------------
(* The caches: what holds of the entries of one *)

\* A cache that is set holds one more entry, or one instead of another.
LEMMA PutTells ==
  ASSUME NEW E, NEW cache \in Seq(E), NEW key, NEW value, NEW ttl, NEW room \in Nat,
         [key |-> key, value |-> value, left |-> ttl] \in E
  PROVE  Put(cache, key, value, ttl, room) \in Seq(E)
<1> DEFINE entry == [key |-> key, value |-> value, left |-> ttl]
           all == IF Has(cache, key)
                  THEN [i \in DOMAIN cache |-> IF cache[i].key = key THEN entry ELSE cache[i]]
                  ELSE Append(cache, entry)
           first == 1 + (IF Len(all) > room THEN Len(all) - room ELSE 0)
<1>1. all \in Seq(E)
  <2>1. Append(cache, entry) \in Seq(E)
    BY AppendProperties
  <2>2. [i \in DOMAIN cache |-> IF cache[i].key = key THEN entry ELSE cache[i]] \in Seq(E)
    <3> HIDE DEF entry
    <3>1. Len(cache) \in Nat /\ DOMAIN cache = 1 .. Len(cache) /\ entry \in E
      BY DEF entry
    <3>2. [i \in DOMAIN cache |-> IF cache[i].key = key THEN entry ELSE cache[i]]
          \in [1 .. Len(cache) -> E]
      BY <3>1
    <3> QED BY <3>1, <3>2
  <2> QED BY <2>1, <2>2
<1>2. Put(cache, key, value, ttl, room) = SubSeq(all, first, Len(all))
  BY DEF Put
<1> HIDE DEF all, entry
<1>3. first \in 1 .. Len(all) + 1
  BY <1>1
<1> HIDE DEF first
<1> QED BY <1>1, <1>2, <1>3

\* What is left of a cache after a unit of time is what had more than that left.
LEMMA ElapseTells ==
  ASSUME NEW E, NEW F, NEW cache \in Seq(E),
         \A e \in E : e.left > 1 => [e EXCEPT !.left = @ - 1] \in F
  PROVE  Elapse(cache) \in Seq(F)
<1> DEFINE kept == {i \in DOMAIN cache : cache[i].left > 1}
           n == Cardinality(kept)
           nth(k) == CHOOSE i \in kept : Rank(kept, i) = k
<1>1. kept \in SUBSET Nat /\ IsFiniteSet(kept)
  <2>1. Len(cache) \in Nat /\ DOMAIN cache = 1 .. Len(cache)
    OBVIOUS
  <2>2. IsFiniteSet(1 .. Len(cache))
    <3>1. 1 \in Int /\ Len(cache) \in Int
      BY <2>1
    <3> QED BY <3>1, FS_Interval, Zenon
  <2>3. kept \in SUBSET (1 .. Len(cache))
    BY <2>1
  <2> HIDE DEF kept
  <2> QED BY <2>1, <2>2, <2>3, FS_Subset
<1>2. Elapse(cache) = [k \in 1 .. n |-> [cache[nth(k)] EXCEPT !.left = @ - 1]]
  BY DEF Elapse, Rank
<1>3. \A i \in kept : cache[i] \in E /\ cache[i].left > 1
  OBVIOUS
<1> HIDE DEF kept
<1>4. n \in Nat /\ \A k \in 1 .. n : \E i \in kept : Rank(kept, i) = k
  BY <1>1, RanksOfNumbers
<1>5. \A k \in 1 .. n : nth(k) \in kept
  BY <1>4
<1> HIDE DEF n, nth
<1>6. Elapse(cache) \in [1 .. n -> F]
  BY <1>2, <1>3, <1>5
<1> QED BY <1>4, <1>6

LEMMA LookupTells ==
  ASSUME NEW E, NEW cache \in Seq(E), NEW key
  PROVE  Lookup(cache, key) = Absent \/ \E e \in E : Lookup(cache, key) = e.value
<1>1. CASE Has(cache, key)
  <2> DEFINE at == CHOOSE i \in DOMAIN cache : cache[i].key = key
  <2>1. at \in DOMAIN cache
    BY <1>1 DEF Has
  <2>2. Lookup(cache, key) = cache[at].value
    BY <1>1 DEF Lookup
  <2> HIDE DEF at
  <2>3. cache[at] \in E
    BY <2>1
  <2> QED BY <2>2, <2>3
<1>2. CASE ~Has(cache, key)
  BY <1>2 DEF Lookup
<1> QED BY <1>1, <1>2

----------------------------------------------------------------------------
(* The pipeline: the age of what is stored and the time it has left *)

Ages == Nat \cup {Absent}

SnapshotsUpTo(ttl) ==
  {e \in [key : Networks, value : Nat, left : Nat] : e.left >= 1 /\ e.value + e.left <= ttl}
AnswersUpTo(age) ==
  {e \in [key : Queries, value : [Networks -> Ages], left : Nat] :
     e.left >= 1 /\ \A n \in Networks : e.value[n] + e.left <= age}

\* What a network has brought to a call that has waited for so long.
Brought(waited) ==
  [at : {"checking", "fetching"}]
  \cup [at : {"done"}, offers : {age \in Ages : age <= SnapshotTtl - 1 + waited}]
CallsOf(waited) ==
  [at : {"asking"}, query : Queries, waited : {waited}, net : [Networks -> Brought(waited)]]

CallRecords == {Idle} \cup [at : {"recognising"}, query : Queries]
               \cup UNION {CallsOf(waited) : waited \in 0 .. MaxWait}

RuntimeInv ==
  /\ snapshots \in Seq(SnapshotsUpTo(SnapshotTtl))
  /\ answers \in Seq(AnswersUpTo(Recent - 1))
  /\ calls \in [Slots -> CallRecords]

LEMMA OlderTells ==
  ASSUME NEW age \in Ages
  PROVE  /\ Older(age) \in Ages
         /\ age = Absent => Older(age) = Absent
         /\ age # Absent => Older(age) \in Nat /\ Older(age) <= age + 1
<1>1. Recent \in Nat
  BY RuntimeAssumption DEF Recent
<1>2. CASE age # Absent
  <2>1. age + 1 \in Nat /\ Older(age) = Min({age + 1, Recent})
    BY <1>2 DEF Ages, Absent, Older
  <2>2. \E x \in {age + 1, Recent} : \A y \in {age + 1, Recent} : x <= y
    BY <1>1, <2>1
  <2>3. Min({age + 1, Recent}) \in {age + 1, Recent}
        /\ \A y \in {age + 1, Recent} : Min({age + 1, Recent}) <= y
    BY <2>2 DEF Min
  <2> QED BY <1>1, <1>2, <2>1, <2>3 DEF Ages, Absent
<1>3. CASE age = Absent
  BY <1>3 DEF Older, Ages
<1> QED BY <1>2, <1>3

\* What a call is given of a snapshot may be this old.
LEMMA SnapshotTells ==
  ASSUME RuntimeInv, NEW n
  PROVE  Done(Snapshot(n)) \in Brought(0)
<1>1. SnapshotTtl \in Nat \ {0}
  BY RuntimeAssumption
<1>2. snapshots \in Seq(SnapshotsUpTo(SnapshotTtl))
  BY DEF RuntimeInv
<1>3. \/ Lookup(snapshots, n) = Absent
      \/ \E e \in SnapshotsUpTo(SnapshotTtl) : Lookup(snapshots, n) = e.value
  BY <1>2, LookupTells
<1>4. \A e \in SnapshotsUpTo(SnapshotTtl) : e.value \in Nat /\ e.value <= SnapshotTtl - 1
  BY <1>1 DEF SnapshotsUpTo
<1>5. Lookup(snapshots, n) \in Ages /\ Lookup(snapshots, n) <= SnapshotTtl - 1 + 0
  BY <1>1, <1>3, <1>4 DEF Ages, Absent
<1> QED BY <1>5 DEF Done, Snapshot, Brought

LEMMA BroughtGrows ==
  ASSUME NEW w \in Nat
  PROVE  Brought(0) \in SUBSET Brought(w)
<1>1. \A age \in Ages : age \in Int
  BY DEF Ages, Absent
<1>2. SnapshotTtl \in Nat
  BY RuntimeAssumption
<1>3. \A age \in Ages : age <= SnapshotTtl - 1 + 0 => age <= SnapshotTtl - 1 + w
  BY <1>1, <1>2
<1> QED BY <1>3 DEF Brought

LEMMA AsksKnown ==
  ASSUME RuntimeInv, NEW n \in Networks
  PROVE  Ask(n) \in Brought(0)
<1>1. Done(Snapshot(n)) \in Brought(0)
  BY SnapshotTells
<1>2. Done(Absent) \in Brought(0)
  <2>1. SnapshotTtl - 1 + 0 \in Int /\ Absent <= SnapshotTtl - 1 + 0 /\ Absent \in Ages
    BY RuntimeAssumption DEF Absent, Ages
  <2> QED BY <2>1 DEF Done, Brought
<1>3. [at |-> "checking"] \in Brought(0) /\ [at |-> "fetching"] \in Brought(0)
  BY DEF Brought
<1> QED BY <1>1, <1>2, <1>3 DEF Ask

\* A network brings something to a call.
LEMMA BringsKeeps ==
  ASSUME RuntimeInv, NEW s \in Slots, NEW n \in Networks, calls[s].at = "asking",
         NEW brings \in Brought(0), calls' = [calls EXCEPT ![s].net[n] = brings]
  PROVE  calls' \in [Slots -> CallRecords]
<1>1. calls \in [Slots -> CallRecords]
  BY DEF RuntimeInv
<1>2. PICK w \in 0 .. MaxWait : calls[s] \in CallsOf(w)
  BY <1>1 DEF CallRecords, Idle
<1>3. w \in Nat
  BY <1>2
<1>4. brings \in Brought(w)
  BY <1>3, BroughtGrows
<1> DEFINE c == calls[s]
           d == [c EXCEPT !.net[n] = brings]
<1>5. c \in CallsOf(w)
  BY <1>2
<1>6. calls' = [calls EXCEPT ![s] = d]
  OBVIOUS
<1> HIDE DEF c
<1>7. d \in CallsOf(w)
  BY <1>4, <1>5 DEF CallsOf
<1> HIDE DEF d
<1> QED BY <1>1, <1>2, <1>6, <1>7 DEF CallRecords

LEMMA RespondKeeps ==
  ASSUME RuntimeInv, NEW s \in Slots, NEW n \in EnabledNetworks, Respond(s, n)
  PROVE  RuntimeInv'
<1>1. n \in Networks
  BY RuntimeAssumption
<1>2. Done(Snapshot(n)) \in Brought(0) /\ [at |-> "fetching"] \in Brought(0)
  BY SnapshotTells DEF Brought
<1>3. SnapshotTtl \in Nat \ {0} /\ SnapshotEntries \in Nat
  BY RuntimeAssumption
<1>4. CASE HealthCheckReturns(s, n)
  <2>1. PICK ok \in BOOLEAN :
          calls' = [calls EXCEPT ![s].net[n] = IF ok THEN [at |-> "fetching"] ELSE Done(Snapshot(n))]
    BY <1>4 DEF HealthCheckReturns
  <2>2. (IF ok THEN [at |-> "fetching"] ELSE Done(Snapshot(n))) \in Brought(0)
    BY <1>2
  <2>3. calls[s].at = "asking" /\ UNCHANGED <<snapshots, answers>>
    BY <1>4 DEF HealthCheckReturns, AtNet
  <2>4. calls' \in [Slots -> CallRecords]
    BY <1>1, <2>1, <2>2, <2>3, BringsKeeps
  <2> QED BY <2>3, <2>4 DEF RuntimeInv
<1>5. CASE FetchBringsOffers(s, n)
  <2>1. /\ calls[s].at = "asking" /\ calls' = [calls EXCEPT ![s].net[n] = Done(0)]
        /\ snapshots' = Put(snapshots, n, 0, SnapshotTtl, SnapshotEntries)
        /\ answers' = answers
    BY <1>5 DEF FetchBringsOffers, AtNet
  <2>2. Done(0) \in Brought(0)
    BY <1>3 DEF Done, Brought, Ages
  <2>3. calls' \in [Slots -> CallRecords]
    BY <1>1, <2>1, <2>2, BringsKeeps
  <2>4. [key |-> n, value |-> 0, left |-> SnapshotTtl] \in SnapshotsUpTo(SnapshotTtl)
    BY <1>1, <1>3 DEF SnapshotsUpTo
  <2>5. snapshots' \in Seq(SnapshotsUpTo(SnapshotTtl))
    <3>1. snapshots \in Seq(SnapshotsUpTo(SnapshotTtl))
      BY DEF RuntimeInv
    <3> QED BY <1>3, <2>1, <2>4, <3>1, PutTells
  <2> QED BY <2>1, <2>3, <2>5 DEF RuntimeInv
<1>6. CASE FetchIsEmpty(s, n) \/ FetchFails(s, n)
  <2>1. /\ calls[s].at = "asking" /\ calls' = [calls EXCEPT ![s].net[n] = Done(Snapshot(n))]
        /\ UNCHANGED <<snapshots, answers>>
    BY <1>6 DEF FetchIsEmpty, FetchFails, AtNet
  <2>2. calls' \in [Slots -> CallRecords]
    BY <1>1, <1>2, <2>1, BringsKeeps
  <2> QED BY <2>1, <2>2 DEF RuntimeInv
<1> QED BY <1>4, <1>5, <1>6 DEF Respond

LEMMA RecognisedKeeps ==
  ASSUME RuntimeInv, NEW s \in Slots, Recognised(s)
  PROVE  RuntimeInv'
<1>1. calls \in [Slots -> CallRecords] /\ calls[s].at = "recognising"
  BY DEF RuntimeInv, Recognised
<1>2. UNCHANGED <<snapshots, answers>>
  BY DEF Recognised
<1>3. CASE Answer(s)
  <2>1. calls' \in [Slots -> CallRecords]
    BY <1>1, <1>3 DEF Answer, CallRecords
  <2> QED BY <1>2, <2>1 DEF RuntimeInv
<1>4. CASE calls' = [calls EXCEPT ![s] = [at |-> "asking", query |-> calls[s].query, waited |-> 0,
                                          net |-> [n \in Networks |-> Ask(n)]]]
  <2> DEFINE c == [at |-> "asking", query |-> calls[s].query, waited |-> 0,
                   net |-> [n \in Networks |-> Ask(n)]]
  <2>1. calls[s].query \in Queries
    BY <1>1 DEF CallRecords, Idle, CallsOf
  <2>2. \A n \in Networks : Ask(n) \in Brought(0)
    BY AsksKnown
  <2>3. c \in CallsOf(0)
    BY <2>1, <2>2 DEF CallsOf
  <2>4. 0 \in 0 .. MaxWait
    BY RuntimeAssumption
  <2> HIDE DEF c
  <2>5. c \in CallRecords
    BY <2>3, <2>4 DEF CallRecords
  <2>6. calls' = [calls EXCEPT ![s] = c]
    BY <1>4 DEF c
  <2> QED BY <1>1, <1>2, <2>5, <2>6 DEF RuntimeInv
<1> QED BY <1>3, <1>4 DEF Recognised

\* What is taken of the offers of a call is cached for as long as answers are.
LEMMA FinishKeeps ==
  ASSUME RuntimeInv, NEW s \in Slots, Finish(s)
  PROVE  RuntimeInv'
<1>1. /\ calls \in [Slots -> CallRecords] /\ calls[s].at = "asking"
      /\ \A n \in Networks : calls[s].net[n].at = "done"
  BY DEF RuntimeInv, Finish, AllDone
<1>2. PICK w \in 0 .. MaxWait : calls[s] \in CallsOf(w)
  BY <1>1 DEF CallRecords, Idle
<1>3. calls[s].query \in Queries /\ calls[s].net \in [Networks -> Brought(w)]
  BY <1>2 DEF CallsOf
<1>4. /\ SnapshotTtl \in Nat \ {0} /\ QueryTtl \in Nat \ {0} /\ QueryEntries \in Nat
      /\ MaxWait \in Nat /\ w \in Nat /\ w <= MaxWait
  BY <1>2, RuntimeAssumption
<1>5. ASSUME NEW n \in Networks
      PROVE  /\ calls[s].net[n].offers \in Ages
             /\ calls[s].net[n].offers <= SnapshotTtl - 1 + w
  <2>1. calls[s].net[n] \in Brought(w) /\ calls[s].net[n].at = "done"
    BY <1>1, <1>3
  <2> QED BY <2>1 DEF Brought
<1>6. PICK ads \in Selections(calls[s].net) :
        answers' = Put(answers, calls[s].query, ads, QueryTtl, QueryEntries)
  BY DEF Finish
<1>7. ads \in [Networks -> Ages] /\ \A n \in Networks : ads[n] <= SnapshotTtl - 1 + w
  <2>1. PICK picked \in SUBSET Networks :
          ads = [n \in Networks |-> IF n \in picked THEN calls[s].net[n].offers ELSE Absent]
    BY <1>6 DEF Selections
  <2>2. Absent \in Ages /\ Absent <= SnapshotTtl - 1 + w
    BY <1>4 DEF Absent, Ages
  <2> QED BY <1>5, <2>1, <2>2
<1>8. [key |-> calls[s].query, value |-> ads, left |-> QueryTtl] \in AnswersUpTo(Recent - 1)
  <2>1. \A n \in Networks : ads[n] + QueryTtl <= Recent - 1
    <3>1. \A age \in Ages : age <= SnapshotTtl - 1 + w => age + QueryTtl <= Recent - 1
      BY <1>4 DEF Ages, Absent, Recent
    <3> QED BY <1>7, <3>1
  <2> QED BY <1>3, <1>4, <1>7, <2>1 DEF AnswersUpTo
<1>9. answers' \in Seq(AnswersUpTo(Recent - 1))
  <2>1. answers \in Seq(AnswersUpTo(Recent - 1))
    BY DEF RuntimeInv
  <2> QED BY <1>4, <1>6, <1>8, <2>1, PutTells
<1>10. calls' \in [Slots -> CallRecords]
  BY <1>1 DEF Finish, Answer, CallRecords
<1>11. snapshots' = snapshots
  BY DEF Finish
<1> QED BY <1>9, <1>10, <1>11 DEF RuntimeInv

\* Time passes: what is stored is older, and has less time left.
LEMMA TickAges ==
  ASSUME RuntimeInv, Tick
  PROVE  /\ snapshots' \in Seq(SnapshotsUpTo(SnapshotTtl))
         /\ answers' \in Seq(AnswersUpTo(Recent - 1))
<1>1. SnapshotTtl \in Nat \ {0} /\ Recent \in Nat \ {0}
  BY RuntimeAssumption DEF Recent
<1>2. /\ snapshots \in Seq(SnapshotsUpTo(SnapshotTtl))
      /\ answers \in Seq(AnswersUpTo(Recent - 1))
  BY DEF RuntimeInv
<1>3. snapshots' \in Seq(SnapshotsUpTo(SnapshotTtl))
  <2> DEFINE older(e) == [e EXCEPT !.value = Older(@)]
             all == [i \in DOMAIN snapshots |-> older(snapshots[i])]
             E == SnapshotsUpTo(SnapshotTtl + 1)
  <2>1. ASSUME NEW e \in SnapshotsUpTo(SnapshotTtl) PROVE older(e) \in E
    <3>1. e.value \in Nat /\ e.value # Absent
      BY DEF SnapshotsUpTo, Absent
    <3>2. Older(e.value) \in Nat /\ Older(e.value) <= e.value + 1
      BY <3>1, OlderTells DEF Ages
    <3> QED BY <1>1, <3>2 DEF SnapshotsUpTo
  <2>2. ASSUME NEW e \in E, e.left > 1
        PROVE  [e EXCEPT !.left = @ - 1] \in SnapshotsUpTo(SnapshotTtl)
    BY <1>1, <2>2 DEF SnapshotsUpTo
  <2>3. snapshots' = Elapse(all)
    BY DEF Tick
  <2> HIDE DEF E, older
  <2>4. all \in Seq(E)
    <3>1. all \in [1 .. Len(snapshots) -> E] /\ Len(snapshots) \in Nat
      BY <1>2, <2>1
    <3> QED BY <3>1
  <2> HIDE DEF all
  <2> QED BY <2>2, <2>3, <2>4, ElapseTells
<1>4. answers' \in Seq(AnswersUpTo(Recent - 1))
  <2> DEFINE older(e) == [e EXCEPT !.value = OlderAds(@)]
             all == [i \in DOMAIN answers |-> older(answers[i])]
             E == AnswersUpTo(Recent)
  <2>1. ASSUME NEW e \in AnswersUpTo(Recent - 1) PROVE older(e) \in E
    <3>1. e.value \in [Networks -> Ages] /\ e.left \in Nat
      BY DEF AnswersUpTo
    <3>2. ASSUME NEW n \in Networks
          PROVE  Older(e.value[n]) \in Ages /\ Older(e.value[n]) + e.left <= Recent
      <4>1. e.value[n] \in Ages /\ e.value[n] + e.left <= Recent - 1
        BY <3>1 DEF AnswersUpTo
      <4> DEFINE age == e.value[n]
      <4> HIDE DEF age
      <4>2. /\ Older(age) \in Ages /\ Older(age) <= age + 1
        BY <4>1, OlderTells DEF Ages, Absent, age
      <4> QED BY <1>1, <3>1, <4>1, <4>2 DEF Ages, Absent, age
    <3>3. OlderAds(e.value) \in [Networks -> Ages]
          /\ \A n \in Networks : OlderAds(e.value)[n] + e.left <= Recent
      BY <3>2 DEF OlderAds
    <3> QED BY <3>3 DEF AnswersUpTo
  <2>2. ASSUME NEW e \in E, e.left > 1
        PROVE  [e EXCEPT !.left = @ - 1] \in AnswersUpTo(Recent - 1)
    <3>1. /\ e.value \in [Networks -> Ages] /\ e.left \in Nat
          /\ \A n \in Networks : e.value[n] + e.left <= Recent
      BY DEF AnswersUpTo
    <3>2. \A age \in Ages : age + e.left <= Recent => age + (e.left - 1) <= Recent - 1
      BY <1>1, <3>1 DEF Ages, Absent
    <3> QED BY <2>2, <3>1, <3>2 DEF AnswersUpTo
  <2>3. answers' = Elapse(all)
    BY DEF Tick
  <2> HIDE DEF E, older
  <2>4. all \in Seq(E)
    <3>1. all \in [1 .. Len(answers) -> E] /\ Len(answers) \in Nat
      BY <1>2, <2>1
    <3> QED BY <3>1
  <2> HIDE DEF all
  <2> QED BY <2>2, <2>3, <2>4, ElapseTells
<1> QED BY <1>3, <1>4

LEMMA TickKeeps ==
  ASSUME RuntimeInv, Tick
  PROVE  RuntimeInv'
<1>1. calls \in [Slots -> CallRecords] /\ calls' = [s \in Slots |-> OlderCall(calls[s])]
  BY DEF RuntimeInv, Tick
<1>2. ASSUME NEW s \in Slots PROVE OlderCall(calls[s]) \in CallRecords
  <2>1. CASE calls[s].at # "asking"
    BY <1>1, <2>1 DEF OlderCall
  <2>2. CASE calls[s].at = "asking"
    <3>1. PICK w \in 0 .. MaxWait : calls[s] \in CallsOf(w)
      BY <1>1, <2>2 DEF CallRecords, Idle
    <3>2. calls[s].waited = w /\ w < MaxWait /\ MaxWait \in Nat /\ SnapshotTtl \in Nat \ {0}
      BY <2>2, <3>1, RuntimeAssumption DEF CallsOf, Tick
    <3>3. w + 1 \in 0 .. MaxWait /\ w \in Nat
      BY <3>1, <3>2
    <3>4. ASSUME NEW net \in Brought(w)
          PROVE  (IF net.at = "done" THEN Done(Older(net.offers)) ELSE net) \in Brought(w + 1)
      <4>1. CASE net.at = "done"
        <5>1. net.offers \in Ages /\ net.offers <= SnapshotTtl - 1 + w
          BY <4>1 DEF Brought
        <5>2. Older(net.offers) \in Ages /\ Older(net.offers) <= SnapshotTtl - 1 + (w + 1)
          <6> DEFINE age == net.offers
          <6> HIDE DEF age
          <6>1. Older(age) \in Ages /\ Older(age) <= age + 1
            BY <5>1, OlderTells DEF Ages, Absent, age
          <6> QED BY <3>2, <3>3, <5>1, <6>1 DEF Ages, Absent, age
        <5> QED BY <4>1, <5>2 DEF Done, Brought
      <4>2. CASE net.at # "done"
        BY <4>2 DEF Brought
      <4> QED BY <4>1, <4>2
    <3> DEFINE c == calls[s]
               net == [n \in Networks |-> IF c.net[n].at = "done" THEN Done(Older(c.net[n].offers))
                                          ELSE c.net[n]]
    <3>5. c \in CallsOf(w) /\ c.net \in [Networks -> Brought(w)] /\ c.waited = w
      BY <3>1, <3>2 DEF CallsOf
    <3>6. net \in [Networks -> Brought(w + 1)]
      BY <3>4, <3>5
    <3>7. OlderCall(calls[s]) = [c EXCEPT !.waited = w + 1, !.net = net]
      BY <2>2, <3>2 DEF OlderCall
    <3> HIDE DEF c, net
    <3>8. OlderCall(calls[s]) \in CallsOf(w + 1)
      BY <3>5, <3>6, <3>7 DEF CallsOf
    <3> QED BY <3>3, <3>8 DEF CallRecords
  <2> QED BY <2>1, <2>2
<1>3. calls' \in [Slots -> CallRecords]
  BY <1>1, <1>2
<1> QED BY <1>3, TickAges DEF RuntimeInv

LEMMA RuntimeHolds == Spec => []RuntimeInv
<1>1. Init => RuntimeInv
  <2> SUFFICES ASSUME Init PROVE RuntimeInv
    OBVIOUS
  <2>1. calls \in [Slots -> CallRecords]
    BY DEF Init, CallRecords
  <2> QED BY <2>1 DEF Init, RuntimeInv
<1>2. RuntimeInv /\ [Next]_vars => RuntimeInv'
  <2> SUFFICES ASSUME RuntimeInv, [Next]_vars PROVE RuntimeInv'
    OBVIOUS
  <2>1. CASE UNCHANGED vars
    BY <2>1 DEF vars, RuntimeInv
  <2>2. CASE Tick
    BY <2>2, TickKeeps
  <2>3. ASSUME NEW n \in FailingNetworks, GoUpOrDown(n) PROVE RuntimeInv'
    BY <2>3 DEF GoUpOrDown, RuntimeInv
  <2>4. ASSUME NEW s \in Slots, NEW q \in Queries, Start(s, q) PROVE RuntimeInv'
    BY <2>4 DEF Start, RuntimeInv, CallRecords
  <2>5. ASSUME NEW s \in Slots, Recognised(s) PROVE RuntimeInv'
    BY <2>5, RecognisedKeeps
  <2>6. ASSUME NEW s \in Slots, Finish(s) PROVE RuntimeInv'
    BY <2>6, FinishKeeps
  <2>7. ASSUME NEW s \in Slots, NEW n \in EnabledNetworks, Respond(s, n) PROVE RuntimeInv'
    BY <2>7, RespondKeeps
  <2> QED BY <2>1, <2>2, <2>3, <2>4, <2>5, <2>6, <2>7 DEF Next
<1> QED BY <1>1, <1>2, PTL DEF Spec

(* No ad that is given, or cached to be given, is older than a snapshot may be, plus the
   wait of one call, plus the time an answer is cached: whatever networks there are and
   however often they fail, calls overlap and caches make room. *)
THEOREM AgesBounded == Spec => []AnswersAreRecent
<1>1. RuntimeInv => AnswersAreRecent
  <2> SUFFICES ASSUME RuntimeInv, NEW n \in Networks
               PROVE  /\ \A s \in Slots : AllDone(s) => calls[s].net[n].offers < SnapshotTtl + MaxWait
                      /\ \A i \in DOMAIN answers : answers[i].value[n] < Recent
    BY DEF AnswersAreRecent
  <2>1. SnapshotTtl \in Nat \ {0} /\ MaxWait \in Nat /\ Recent \in Nat
    BY RuntimeAssumption DEF Recent
  <2>2. ASSUME NEW s \in Slots, AllDone(s) PROVE calls[s].net[n].offers < SnapshotTtl + MaxWait
    <3>1. calls[s].at = "asking" /\ calls[s].net[n].at = "done" /\ calls[s] \in CallRecords
      BY <2>2 DEF AllDone, RuntimeInv
    <3>2. PICK w \in 0 .. MaxWait : calls[s] \in CallsOf(w)
      BY <3>1 DEF CallRecords, Idle
    <3>3. calls[s].net[n] \in Brought(w)
      BY <3>2 DEF CallsOf
    <3>4. calls[s].net[n].offers \in Ages /\ calls[s].net[n].offers <= SnapshotTtl - 1 + w
      BY <3>1, <3>3 DEF Brought
    <3> QED BY <2>1, <3>2, <3>4 DEF Ages, Absent
  <2>3. ASSUME NEW i \in DOMAIN answers PROVE answers[i].value[n] < Recent
    <3>1. answers[i] \in AnswersUpTo(Recent - 1)
      BY DEF RuntimeInv
    <3>2. /\ answers[i].value[n] \in Ages /\ answers[i].left \in Nat
          /\ answers[i].value[n] + answers[i].left <= Recent - 1
      BY <3>1 DEF AnswersUpTo
    <3> QED BY <2>1, <3>2 DEF Ages, Absent
  <2> QED BY <2>2, <2>3
<1> QED BY <1>1, RuntimeHolds, PTL

----------------------------------------------------------------------------
(* The order of a ranking *)

\* In a strict order of a finite set, those that beat an element count through.
LEMMA PlacesCount ==
  ASSUME NEW S, IsFiniteSet(S), NEW Beats,
         \A x \in S : <<x, x>> \notin Beats,
         \A x, y, z \in S : <<x, y>> \in Beats /\ <<y, z>> \in Beats => <<x, z>> \in Beats,
         \A x, y \in S : x = y \/ <<x, y>> \in Beats \/ <<y, x>> \in Beats
  PROVE  /\ Cardinality(S) \in Nat
         /\ \A x \in S : Cardinality(Above(S, Beats, x)) + 1 \in 1 .. Cardinality(S)
         /\ \A x, y \in S : <<x, y>> \in Beats =>
              Cardinality(Above(S, Beats, x)) < Cardinality(Above(S, Beats, y))
         /\ \A k \in 1 .. Cardinality(S) : \E x \in S : Cardinality(Above(S, Beats, x)) + 1 = k
<1> DEFINE place(x) == Cardinality(Above(S, Beats, x)) + 1
           n == Cardinality(S)
<1>1. n \in Nat /\ IsFiniteSet(S)
  BY FS_CardinalityType
<1>2. ASSUME NEW x \in S
      PROVE  /\ Above(S, Beats, x) \in SUBSET S /\ IsFiniteSet(Above(S, Beats, x))
             /\ Cardinality(Above(S, Beats, x)) \in Nat /\ place(x) \in 1 .. n
  <2>1. /\ Above(S, Beats, x) \in SUBSET S /\ IsFiniteSet(Above(S, Beats, x))
        /\ Cardinality(Above(S, Beats, x)) \in Nat
    BY AboveCount
  <2>2. x \notin Above(S, Beats, x)
    BY DEF Above
  <2>3. /\ Cardinality(Above(S, Beats, x)) <= n
        /\ Cardinality(Above(S, Beats, x)) = n => Above(S, Beats, x) = S
    BY <2>1, FS_Subset
  <2> QED BY <1>1, <2>1, <2>2, <2>3
<1>3. ASSUME NEW x \in S, NEW y \in S, <<x, y>> \in Beats
      PROVE  Cardinality(Above(S, Beats, x)) < Cardinality(Above(S, Beats, y))
  <2>1. \A z \in S : <<z, x>> \in Beats => <<z, y>> \in Beats
    BY <1>3
  <2>2. Above(S, Beats, x) \in SUBSET Above(S, Beats, y)
    BY <2>1 DEF Above
  <2>3. x \in Above(S, Beats, y) /\ x \notin Above(S, Beats, x)
    BY <1>3 DEF Above
  <2>4. Cardinality(Above(S, Beats, x)) <= Cardinality(Above(S, Beats, y))
        /\ Cardinality(Above(S, Beats, x)) # Cardinality(Above(S, Beats, y))
    BY <1>2, <2>2, <2>3, FS_Subset
  <2> QED BY <1>2, <2>4
<1>4. \A x, y \in S : place(x) = place(y) => x = y
  <2> SUFFICES ASSUME NEW x \in S, NEW y \in S, place(x) = place(y), x # y PROVE FALSE
    OBVIOUS
  <2>1. /\ Cardinality(Above(S, Beats, x)) \in Nat /\ Cardinality(Above(S, Beats, y)) \in Nat
    BY <1>2
  <2>2. \/ Cardinality(Above(S, Beats, x)) < Cardinality(Above(S, Beats, y))
        \/ Cardinality(Above(S, Beats, y)) < Cardinality(Above(S, Beats, x))
    BY <1>3
  <2> QED BY <2>1, <2>2
<1>5. \A k \in 1 .. n : \E x \in S : place(x) = k
  <2> HIDE DEF place
  <2> DEFINE at == [x \in S |-> place(x)]
             R == {place(x) : x \in S}
  <2>1. at \in Bijection(S, R)
    BY <1>4 DEF Bijection, Injection, Surjection, IsInjective
  <2>2. R \in SUBSET (1 .. n)
    BY <1>2
  <2>3. 1 \in Int /\ n \in Int
    BY <1>1
  <2>4. IsFiniteSet(1 .. n) /\ Cardinality(1 .. n) = n
    <3> HIDE DEF n
    <3>1. IsFiniteSet(1 .. n) /\ Cardinality(1 .. n) = IF 1 > n THEN 0 ELSE n - 1 + 1
      BY <2>3, FS_Interval, Zenon
    <3> QED BY <1>1, <3>1
  <2> HIDE DEF R
  <2>5. IsFiniteSet(R) /\ Cardinality(R) = n
    <3>1. ExistsBijection(S, R)
      BY <2>1 DEF ExistsBijection
    <3> QED BY <1>1, <3>1, FS_Bijection DEF n
  <2>6. R = 1 .. n
    BY <2>2, <2>4, <2>5, FS_Subset
  <2> QED BY <2>6 DEF R
<1> QED BY <1>1, <1>2, <1>3, <1>5

\* Marks that can be compared one after the other.
Comparable == [1 .. 5 -> Int]

LEMMA AheadTells ==
  ASSUME NEW m \in Comparable, NEW n \in Comparable
  PROVE  Ahead(m, n) <=>
           \/ m[1] > n[1]
           \/ m[1] = n[1] /\ m[2] > n[2]
           \/ m[1] = n[1] /\ m[2] = n[2] /\ m[3] > n[3]
           \/ m[1] = n[1] /\ m[2] = n[2] /\ m[3] = n[3] /\ m[4] > n[4]
           \/ m[1] = n[1] /\ m[2] = n[2] /\ m[3] = n[3] /\ m[4] = n[4] /\ m[5] > n[5]
<1> DEFINE ahead(i) == m[i] > n[i] /\ \A j \in 1 .. i - 1 : m[j] = n[j]
<1>1. DOMAIN m = 1 .. 5
  BY DEF Comparable
<1>2. Ahead(m, n) <=> ahead(1) \/ ahead(2) \/ ahead(3) \/ ahead(4) \/ ahead(5)
  <2>1. Ahead(m, n) <=> \E i \in 1 .. 5 : ahead(i)
    BY <1>1 DEF Ahead
  <2> HIDE DEF ahead
  <2> QED BY <2>1
<1>3. ahead(1) <=> m[1] > n[1]
  OBVIOUS
<1>4. ahead(2) <=> m[1] = n[1] /\ m[2] > n[2]
  OBVIOUS
<1>5. ahead(3) <=> m[1] = n[1] /\ m[2] = n[2] /\ m[3] > n[3]
  OBVIOUS
<1>6. ahead(4) <=> m[1] = n[1] /\ m[2] = n[2] /\ m[3] = n[3] /\ m[4] > n[4]
  OBVIOUS
<1>7. ahead(5) <=> m[1] = n[1] /\ m[2] = n[2] /\ m[3] = n[3] /\ m[4] = n[4] /\ m[5] > n[5]
  OBVIOUS
<1> HIDE DEF ahead
<1> QED BY <1>2, <1>3, <1>4, <1>5, <1>6, <1>7

LEMMA AheadOrders ==
  /\ \A m \in Comparable : ~Ahead(m, m)
  /\ \A m, n, l \in Comparable : Ahead(m, n) /\ Ahead(n, l) => Ahead(m, l)
  /\ \A m, n \in Comparable : m[5] # n[5] => Ahead(m, n) \/ Ahead(n, m)
  /\ \A m, n \in Comparable : Ahead(m, n) => m[1] >= n[1]
<1>1. \A m \in Comparable : /\ m[1] \in Int /\ m[2] \in Int /\ m[3] \in Int /\ m[4] \in Int
                            /\ m[5] \in Int
  BY DEF Comparable
<1>2. ASSUME NEW m \in Comparable PROVE ~Ahead(m, m)
  BY <1>1, AheadTells
<1>3. ASSUME NEW m \in Comparable, NEW n \in Comparable
      PROVE  /\ m[5] # n[5] => Ahead(m, n) \/ Ahead(n, m)
             /\ Ahead(m, n) => m[1] >= n[1]
  BY <1>1, AheadTells
<1>4. ASSUME NEW m \in Comparable, NEW n \in Comparable, NEW l \in Comparable,
             Ahead(m, n), Ahead(n, l)
      PROVE  Ahead(m, l)
  BY <1>1, <1>4, AheadTells
<1> QED BY <1>2, <1>3, <1>4

\* What is ordered is there once, and what comes first is ahead.
LEMMA OrderedTells ==
  ASSUME NEW S, IsFiniteSet(S), NEW marks \in [S -> Comparable],
         \A x, y \in S : x # y => marks[x][5] # marks[y][5]
  PROVE  /\ Cardinality(S) \in Nat
         /\ Ordered(S, marks) \in [1 .. Cardinality(S) -> S]
         /\ \A x \in S : \E k \in 1 .. Cardinality(S) : Ordered(S, marks)[k] = x
         /\ \A i, k \in 1 .. Cardinality(S) :
              i < k => Ahead(marks[Ordered(S, marks)[i]], marks[Ordered(S, marks)[k]])
<1> DEFINE Beats == {pair \in S \X S : Ahead(marks[pair[1]], marks[pair[2]])}
           count(x) == Cardinality(Above(S, Beats, x))
           n == Cardinality(S)
           at(k) == CHOOSE o \in S : Cardinality({p \in S : Ahead(marks[p], marks[o])}) = k - 1
<1>1. \A x, y \in S : <<x, y>> \in Beats <=> Ahead(marks[x], marks[y])
  OBVIOUS
<1>2. \A x \in S : Above(S, Beats, x) = {p \in S : Ahead(marks[p], marks[x])}
  BY DEF Above
<1>3. Ordered(S, marks) = [k \in 1 .. n |-> at(k)]
  BY DEF Ordered
<1> HIDE DEF Beats
<1>4. \A x \in S : marks[x] \in Comparable
  OBVIOUS
<1>5. \A x \in S : <<x, x>> \notin Beats
  BY <1>1, <1>4, AheadOrders
<1>6. \A x, y, z \in S : <<x, y>> \in Beats /\ <<y, z>> \in Beats => <<x, z>> \in Beats
  BY <1>1, <1>4, AheadOrders
<1>7. \A x, y \in S : x = y \/ <<x, y>> \in Beats \/ <<y, x>> \in Beats
  BY <1>1, <1>4, AheadOrders
<1>8. /\ n \in Nat
      /\ \A x \in S : count(x) + 1 \in 1 .. n
      /\ \A x, y \in S : <<x, y>> \in Beats => count(x) < count(y)
      /\ \A k \in 1 .. n : \E x \in S : count(x) + 1 = k
  BY <1>5, <1>6, <1>7, PlacesCount
<1>9. \A x \in S : count(x) \in Nat
  BY AboveCount
<1>14. \A x \in S : count(x) = Cardinality({p \in S : Ahead(marks[p], marks[x])})
  BY <1>2
<1> HIDE DEF count, n
<1>10. ASSUME NEW k \in 1 .. n PROVE at(k) \in S /\ count(at(k)) = k - 1
  <2>1. PICK x \in S : count(x) + 1 = k
    BY <1>8
  <2>2. count(x) = k - 1
    BY <1>9, <2>1
  <2>3. Cardinality({p \in S : Ahead(marks[p], marks[x])}) = k - 1
    BY <1>14, <2>2
  <2>4. at(k) \in S /\ Cardinality({p \in S : Ahead(marks[p], marks[at(k)])}) = k - 1
    BY <2>3, Zenon
  <2> HIDE DEF at
  <2> QED BY <1>14, <2>4
<1> HIDE DEF at
<1>11. \A x \in S : \E k \in 1 .. n : at(k) = x
  <2> SUFFICES ASSUME NEW x \in S PROVE \E k \in 1 .. n : at(k) = x
    OBVIOUS
  <2>1. PICK k \in 1 .. n : k = count(x) + 1
    BY <1>8
  <2>2. at(k) \in S /\ count(at(k)) = k - 1
    BY <1>10
  <2> DEFINE y == at(k)
  <2>3. y \in S /\ count(y) = k - 1
    BY <2>2
  <2> HIDE DEF y
  <2>4. ~(count(x) < count(y)) /\ ~(count(y) < count(x))
    BY <1>9, <2>1, <2>3
  <2>5. x = y
    BY <1>7, <1>8, <2>3, <2>4
  <2> QED BY <2>5 DEF y
<1>12. ASSUME NEW i \in 1 .. n, NEW k \in 1 .. n, i < k PROVE Ahead(marks[at(i)], marks[at(k)])
  <2>1. at(i) \in S /\ at(k) \in S /\ count(at(i)) = i - 1 /\ count(at(k)) = k - 1
    BY <1>10
  <2> HIDE DEF at
  <2>2. count(at(i)) < count(at(k)) /\ count(at(i)) \in Nat /\ count(at(k)) \in Nat
    BY <1>9, <1>12, <2>1
  <2>3. ~(<<at(k), at(i)>> \in Beats) /\ at(i) # at(k)
    BY <1>8, <2>1, <2>2
  <2> QED BY <1>1, <1>7, <2>1, <2>3
<1>13. Ordered(S, marks) \in [1 .. n -> S] /\ \A k \in 1 .. n : Ordered(S, marks)[k] = at(k)
  BY <1>3, <1>10
<1> QED BY <1>8, <1>11, <1>12, <1>13 DEF n

----------------------------------------------------------------------------
(* The scores are integers *)

LEMMA HighestTells ==
  ASSUME NEW S \in SUBSET Int, IsFiniteSet(S), S # {}
  PROVE  Highest(S) \in S /\ \A y \in S : Highest(S) >= y
<1> DEFINE More == {pair \in S \X S : pair[1] > pair[2]}
<1>1. \A x, y \in S : <<x, y>> \in More <=> x > y
  OBVIOUS
<1>2. /\ \A x \in S : <<x, x>> \notin More
      /\ \A x, y, z \in S : <<x, y>> \in More /\ <<y, z>> \in More => <<x, z>> \in More
  BY <1>1
<1> HIDE DEF More
<1>3. PICK n \in S : \A m \in S : <<m, n>> \notin More
  BY <1>2, HasBest
<1>4. ASSUME NEW m \in S PROVE n >= m
  <2>1. ~(m > n) /\ m \in Int /\ n \in Int
    BY <1>1, <1>3
  <2> QED BY <2>1
<1> QED BY <1>4, Zenon DEF Highest

LEMMA LowestTells ==
  ASSUME NEW S \in SUBSET Int, IsFiniteSet(S), S # {}
  PROVE  Lowest(S) \in S /\ \A y \in S : Lowest(S) <= y
<1> DEFINE Less == {pair \in S \X S : pair[1] < pair[2]}
<1>1. \A x, y \in S : <<x, y>> \in Less <=> x < y
  OBVIOUS
<1>2. /\ \A x \in S : <<x, x>> \notin Less
      /\ \A x, y, z \in S : <<x, y>> \in Less /\ <<y, z>> \in Less => <<x, z>> \in Less
  BY <1>1
<1> HIDE DEF Less
<1>3. PICK n \in S : \A m \in S : <<m, n>> \notin Less
  BY <1>2, HasBest
<1>4. ASSUME NEW m \in S PROVE n <= m
  <2>1. ~(m < n) /\ m \in Int /\ n \in Int
    BY <1>1, <1>3
  <2> QED BY <2>1
<1> QED BY <1>4, Zenon DEF Lowest

\* Of two and of three numbers.
LEMMA HighestOfPair ==
  ASSUME NEW x \in Int, NEW y \in Int
  PROVE  /\ Highest({x, y}) \in {x, y} /\ Highest({x, y}) >= x /\ Highest({x, y}) >= y
         /\ Lowest({x, y}) \in {x, y} /\ Lowest({x, y}) <= x /\ Lowest({x, y}) <= y
<1>1. PICK S : S = {x, y}
  BY Zenon
<1>2. S \in SUBSET Int /\ S # {} /\ x \in S /\ y \in S
  BY <1>1
<1>3. IsFiniteSet(S)
  <2>1. S = {x} \cup {y}
    BY <1>1
  <2>2. IsFiniteSet({x}) /\ IsFiniteSet({y})
    BY FS_Singleton, Zenon
  <2> QED BY <2>1, <2>2, FS_Union
<1>4. Highest(S) \in S /\ Highest(S) >= x /\ Highest(S) >= y
  BY <1>2, <1>3, HighestTells
<1>5. Lowest(S) \in S /\ Lowest(S) <= x /\ Lowest(S) <= y
  BY <1>2, <1>3, LowestTells
<1> QED BY <1>1, <1>4, <1>5, Zenon

LEMMA HighestOfThree ==
  ASSUME NEW x \in Int, NEW y \in Int, NEW z \in Int
  PROVE  Highest({x, y, z}) \in Int
<1>1. PICK S : S = {x, y, z}
  BY Zenon
<1>2. S \in SUBSET Int /\ S # {}
  BY <1>1
<1>3. IsFiniteSet(S)
  <2>1. S = ({x} \cup {y}) \cup {z}
    BY <1>1
  <2>2. IsFiniteSet({x}) /\ IsFiniteSet({y}) /\ IsFiniteSet({z})
    BY FS_Singleton, Zenon
  <2>3. IsFiniteSet({x} \cup {y})
    BY <2>2, FS_Union
  <2> QED BY <2>1, <2>2, <2>3, FS_Union
<1>4. Highest(S) \in Int
  BY <1>2, <1>3, HighestTells
<1> QED BY <1>1, <1>4, Zenon

LEMMA Quotients ==
  ASSUME NEW a \in Int, NEW d \in Nat \ {0}
  PROVE  /\ a \div d \in Int /\ (a \div d) * d <= a /\ a < (a \div d) * d + d
         /\ a >= 0 => a \div d \in Nat
  OBVIOUS

\* An answer of the queries, with what offers are like.
Retrieved(f) == f.lexical \in SUBSET Inventory /\ f.vector \in SUBSET Inventory
TraitsTyped == trait \in [Inventory -> Profiles]

LEMMA TraitTells ==
  ASSUME TraitsTyped, NEW o \in Inventory
  PROVE  /\ trait[o].lexical \in Nat /\ trait[o].vector \in -80 .. 80
         /\ trait[o].overlap \in Nat /\ trait[o].support \in Nat /\ trait[o].merit \in Int
         /\ trait[o].bid \in Int
  BY SelectionAssumption DEF TraitsTyped

LEMMA FusedTyped ==
  ASSUME TraitsTyped, NEW f, Retrieved(f), NEW o \in FoundBy(f)
  PROVE  /\ o \in Inventory /\ Lexical(f, o) \in Nat /\ Vector(f, o) \in -80 .. 80
         /\ FusedScore(f, o) \in Nat
<1> DEFINE found == FoundBy(f)
           sparse == {Lexical(f, p) : p \in found}
           lex == [p \in found |-> Lexical(f, p)]
<1>1. found \in SUBSET Inventory /\ IsFiniteSet(found)
  <2>1. found \in SUBSET Inventory
    BY DEF FoundBy, Retrieved
  <2> HIDE DEF found
  <2> QED BY <2>1, SelectionAssumption, FS_Subset
<1>2. \A p \in found : Lexical(f, p) \in Nat /\ Vector(f, p) \in -80 .. 80
  BY <1>1, TraitTells DEF Lexical, Vector
<1>3. sparse \in SUBSET Int /\ sparse # {} /\ \A s \in sparse : s \in Nat
  BY <1>2
<1>4. IsFiniteSet(sparse)
  <2>1. lex \in Surjection(found, sparse)
    BY DEF Surjection
  <2> HIDE DEF lex, sparse, found
  <2> QED BY <1>1, <2>1, FS_Surjection
<1>5. Lexical(f, o) \in sparse
  OBVIOUS
<1> DEFINE low == Lowest(sparse)
           range == Highest(sparse) - low
<1>6. low \in Nat /\ Lexical(f, o) >= low /\ range \in Int
  <2> HIDE DEF sparse
  <2>1. low \in sparse /\ low <= Lexical(f, o) /\ Highest(sparse) \in sparse
    BY <1>3, <1>4, <1>5, LowestTells, HighestTells
  <2>2. PICK high : high = Highest(sparse)
    OBVIOUS
  <2>3. high \in Int
    BY <1>3, <2>1, <2>2
  <2>4. low \in Nat /\ range = high - low
    BY <1>3, <2>1, <2>2
  <2> HIDE DEF low, range
  <2> QED BY <2>1, <2>3, <2>4
<1>7. FusedScore(f, o) = (7 * (Vector(f, o) + 80)) \div 40
        + CASE range > 0 -> (52 * (Lexical(f, o) - low)) \div range
            [] range = 0 /\ Lexical(f, o) > 0 -> 52
            [] OTHER -> 0
  BY DEF FusedScore
<1> HIDE DEF low, range, sparse
<1>8. (7 * (Vector(f, o) + 80)) \div 40 \in Nat
  <2> DEFINE a == 7 * (Vector(f, o) + 80)
  <2>1. a \in Int /\ a >= 0
    BY <1>2
  <2> HIDE DEF a
  <2>2. a \div 40 \in Nat
    BY <2>1, Quotients
  <2> QED BY <2>2 DEF a
<1>9. range > 0 => (52 * (Lexical(f, o) - low)) \div range \in Nat
  <2> DEFINE a == 52 * (Lexical(f, o) - low)
  <2>1. a \in Int /\ a >= 0
    BY <1>2, <1>6
  <2> HIDE DEF a
  <2>2. range > 0 => a \div range \in Nat
    BY <1>6, <2>1, Quotients
  <2> QED BY <2>2 DEF a
<1> QED BY <1>1, <1>2, <1>7, <1>8, <1>9

LEMMA ScoresTyped ==
  ASSUME TraitsTyped, NEW f, Retrieved(f), NEW o \in FoundBy(f)
  PROVE  /\ Native(f, o) \in Int /\ RelevanceScore(f, o) \in Int /\ RankScore(f, o) \in Int
<1>1. /\ o \in Inventory /\ Lexical(f, o) \in Int /\ Vector(f, o) \in Int
      /\ FusedScore(f, o) \in Int
  BY FusedTyped
<1>2. Native(f, o) \in Int
  BY <1>1, HighestOfThree DEF Native
<1>3. TopicScore(f, o) \in Int
  <2> DEFINE base == CASE wanted.target = "general" -> 21
                       [] wanted.target # "general" /\ SameFamily(o) -> 46
                       [] OTHER -> 5
             score == Lowest({80, base + trait[o].overlap + (16 * Native(f, o)) \div 100})
  <2>1. base \in Int /\ trait[o].overlap \in Int
    BY <1>1, TraitTells
  <2>2. (16 * Native(f, o)) \div 100 \in Int
    BY <1>2, Quotients
  <2>3. TopicScore(f, o) = IF wanted.locked /\ ~SameFamily(o) THEN Lowest({score, 19}) ELSE score
    BY DEF TopicScore
  <2> HIDE DEF base
  <2>4. base + trait[o].overlap + (16 * Native(f, o)) \div 100 \in Int
    BY <2>1, <2>2
  <2>5. score \in Int
    <3>1. PICK y \in Int : y = base + trait[o].overlap + (16 * Native(f, o)) \div 100
      BY <2>4
    <3>2. Lowest({80, y}) \in {80, y}
      BY HighestOfPair
    <3>3. score = Lowest({80, y})
      BY <3>1
    <3> QED BY <3>2, <3>3
  <2> HIDE DEF score
  <2>6. Lowest({score, 19}) \in Int
    BY <2>5, HighestOfPair
  <2> QED BY <2>3, <2>5, <2>6
<1>4. RelevanceScore(f, o) \in Int
  BY <1>1, <1>3, TraitTells, Quotients DEF RelevanceScore
<1>5. RankScore(f, o) \in Int
  <2> DEFINE similarity == IF Gate = "off" THEN Native(f, o)
                           ELSE Highest({Native(f, o), RelevanceScore(f, o)})
  <2>1. similarity \in Int
    BY <1>2, <1>4, HighestOfPair
  <2>2. RankScore(f, o) = 35 * similarity + 65 * trait[o].merit
    BY DEF RankScore
  <2> HIDE DEF similarity
  <2> QED BY <1>1, <2>1, <2>2, TraitTells
<1> QED BY <1>2, <1>4, <1>5

----------------------------------------------------------------------------
(* What is paid grows with the bid *)

LEMMA ProductsGrow ==
  ASSUME NEW a \in Int, NEW b \in Int, NEW k \in Nat, a <= b
  PROVE  a * k <= b * k
<1>1. PICK c \in Nat : b = a + c
  <2>1. b - a \in Nat /\ b = a + (b - a)
    OBVIOUS
  <2> QED BY <2>1
<1>2. c * k \in Nat
  OBVIOUS
<1>3. b * k = a * k + c * k
  BY <1>1
<1> QED BY <1>2, <1>3

LEMMA QuotientsGrow ==
  ASSUME NEW a \in Int, NEW b \in Int, NEW d \in Nat \ {0}, a <= b
  PROVE  a \div d <= b \div d
<1> DEFINE p == a \div d
           q == b \div d
<1>1. p \in Int /\ q \in Int /\ p * d <= a /\ b < q * d + d
  BY Quotients
<1> HIDE DEF p, q
<1>2. p * d < (q + 1) * d
  <2>1. (q + 1) * d = q * d + d
    BY <1>1
  <2>2. p * d \in Int /\ q * d \in Int
    BY <1>1
  <2> QED BY <1>1, <2>1, <2>2
<1>3. ~(q + 1 <= p)
  <2> SUFFICES ASSUME q + 1 <= p PROVE FALSE
    OBVIOUS
  <2>1. (q + 1) * d <= p * d
    BY <1>1, ProductsGrow
  <2>2. p * d \in Int /\ (q + 1) * d \in Int
    BY <1>1
  <2> QED BY <1>2, <2>1, <2>2
<1>4. p <= q
  BY <1>1, <1>3
<1> QED BY <1>4 DEF p, q

\* e / (e + c) grows with e.
LEMMA SharesGrow ==
  ASSUME NEW e \in Nat, NEW g \in Nat, e <= g
  PROVE  (80 * e) \div (e + 20000) <= (80 * g) \div (g + 20000)
<1> DEFINE d == e + 20000
           c == g + 20000
           p == (80 * e) \div d
           q == (80 * g) \div c
           more == g - e
<1>1. /\ d \in Nat \ {0} /\ c \in Nat \ {0} /\ more \in Nat /\ c = d + more /\ e < d
      /\ 80 * g = 80 * e + 80 * more
  OBVIOUS
<1> HIDE DEF c, d, more
<1>2. p \in Nat /\ q \in Nat /\ p * d <= 80 * e /\ 80 * g < q * c + c
  <2>1. PICK a \in Nat, b \in Nat : a = 80 * e /\ b = 80 * g
    OBVIOUS
  <2>2. a \div d \in Nat /\ (a \div d) * d <= a
    BY <1>1, <2>1, Quotients
  <2>3. b \in Int /\ b >= 0 /\ c \in Nat \ {0}
    BY <1>1, <2>1
  <2>4. b \div c \in Nat
    BY <2>3, Quotients
  <2>5. b < (b \div c) * c + c
    BY <2>3, Quotients
  <2> QED BY <2>1, <2>2, <2>4, <2>5
<1> HIDE DEF p, q
<1>3. p <= 80
  <2> SUFFICES ASSUME 81 <= p PROVE FALSE
    BY <1>2
  <2>1. 81 * d <= p * d
    BY <1>1, <1>2, ProductsGrow
  <2>2. p * d \in Int
    BY <1>1, <1>2
  <2> QED BY <1>1, <1>2, <2>1, <2>2
<1>4. p * more <= 80 * more
  BY <1>1, <1>2, <1>3, ProductsGrow
<1>5. p * c = p * d + p * more
  BY <1>1, <1>2
<1>6. (q + 1) * c = q * c + c
  BY <1>1, <1>2
<1>7. p * c < (q + 1) * c
  <2>1. p * d \in Int /\ p * more \in Int /\ q * c \in Int
    BY <1>1, <1>2
  <2> QED BY <1>1, <1>2, <1>4, <1>5, <1>6, <2>1
<1>8. ~(q + 1 <= p)
  <2> SUFFICES ASSUME q + 1 <= p PROVE FALSE
    OBVIOUS
  <2>1. (q + 1) * c <= p * c
    BY <1>1, <1>2, ProductsGrow
  <2>2. p * c \in Int /\ (q + 1) * c \in Int
    BY <1>1, <1>2
  <2> QED BY <1>7, <2>1, <2>2
<1>9. p <= q
  BY <1>2, <1>8
<1> QED BY <1>9 DEF p, q, c, d

LEMMA ClampedTells ==
  ASSUME NEW x \in Int, NEW y \in Int, x <= y, NEW low \in Int, NEW high \in Int, low <= high
  PROVE  /\ Clamped(x, low, high) \in Int /\ Clamped(y, low, high) \in Int
         /\ low <= Clamped(x, low, high) /\ Clamped(x, low, high) <= Clamped(y, low, high)
         /\ Clamped(y, low, high) <= high
  BY DEF Clamped

LEMMA PriceTyped ==
  ASSUME TraitsTyped, NEW o \in Inventory
  PROVE  SignalFactor(o) \in Int /\ CpaCents(o) \in 180 .. 320
<1>1. SignalFactor(o) \in Int
  <2> DEFINE bid == trait[o].bid
             dollars == CASE trait[o].network = "cj" /\ bid <= 1 -> 80 * bid
                          [] trait[o].network = "partnerstack"    -> 4 * bid
                          [] OTHER                                -> bid
             low == IF trait[o].network = "house" THEN 90 ELSE 70
             width == IF trait[o].network = "house" THEN 20 ELSE 60
             clamped == Clamped(dollars, 0, 40)
  <2>1. bid \in Int /\ low \in Int /\ width \in {20, 60}
    BY TraitTells
  <2> HIDE DEF bid
  <2>2. dollars \in Int
    BY <2>1
  <2> HIDE DEF dollars
  <2>3. clamped \in Int
    BY <2>2, ClampedTells
  <2>4. SignalFactor(o) = IF bid <= 0 THEN 100 ELSE low + (width * clamped) \div 40
    BY DEF SignalFactor, bid, dollars
  <2> HIDE DEF low, width, clamped
  <2>5. width * clamped \in Int
    BY <2>1, <2>3
  <2>6. (width * clamped) \div 40 \in Int
    BY <2>5, Quotients
  <2> QED BY <2>1, <2>4, <2>6
<1>2. (5 * SignalFactor(o)) \div 2 \in Int
  BY <1>1, Quotients
<1>3. CpaCents(o) \in 180 .. 320
  <2>1. PICK x \in Int : x = (5 * SignalFactor(o)) \div 2
    BY <1>2
  <2>2. Clamped(x, 180, 320) \in 180 .. 320
    BY DEF Clamped
  <2> QED BY <2>1, <2>2 DEF CpaCents
<1> QED BY <1>1, <1>3

LEMMA EconomicTyped ==
  ASSUME TraitsTyped, NEW f, Retrieved(f), NEW o \in FoundBy(f)
  PROVE  /\ EconomicScore(f, o) \in Int /\ AuctionScore(f, o) \in Int
         /\ CpaCents(o) * (48 + FusedScore(f, o)) \in Nat
<1>1. CpaCents(o) \in Nat /\ FusedScore(f, o) \in Nat
  BY FusedTyped, PriceTyped
<1> DEFINE ecpm == CpaCents(o) * (48 + FusedScore(f, o))
<1>2. ecpm \in Nat
  <2>1. PICK a \in Nat, b \in Nat : a = CpaCents(o) /\ b = 48 + FusedScore(f, o)
    BY <1>1
  <2>2. a * b \in Nat
    OBVIOUS
  <2> QED BY <2>1, <2>2
<1>3. EconomicScore(f, o) = (80 * ecpm) \div (ecpm + 20000)
  BY DEF EconomicScore
<1>4. EconomicScore(f, o) \in Int
  <2> HIDE DEF ecpm
  <2>1. 80 * ecpm \in Int /\ ecpm + 20000 \in Nat \ {0}
    BY <1>2
  <2> QED BY <1>3, <2>1, Quotients
<1>5. AuctionScore(f, o) \in Int
  BY <1>4, ScoresTyped DEF AuctionScore
<1> QED BY <1>2, <1>4, <1>5

\* Offers that are alike but for their bids: the higher bid pays more.
LEMMA BidsRaise ==
  ASSUME TraitsTyped, NEW o \in Inventory, NEW p \in Inventory,
         [trait[o] EXCEPT !.bid = trait[p].bid] = trait[p],
         ~(trait[o].network = "cj" /\ Lowest({trait[o].bid, trait[p].bid}) <= 1),
         trait[o].bid > 0, trait[p].bid > 0, trait[o].bid <= trait[p].bid
  PROVE  CpaCents(o) <= CpaCents(p)
<1> DEFINE net == trait[o].network
           a == trait[o].bid
           b == trait[p].bid
<1>1. trait[p].network = net /\ a \in Int /\ b \in Int /\ a > 0 /\ a <= b /\ b > 0
  <2>1. trait[o] \in Profiles /\ trait[p] \in Profiles
    BY DEF TraitsTyped
  <2> QED BY <2>1, TraitTells, SelectionAssumption
<1>2. net = "cj" => a > 1 /\ b > 1
  <2>1. Lowest({a, b}) \in {a, b} /\ Lowest({a, b}) <= a /\ Lowest({a, b}) <= b
    BY <1>1, HighestOfPair
  <2>2. net = "cj" => ~(Lowest({a, b}) <= 1)
    OBVIOUS
  <2> HIDE DEF a, b, net
  <2>3. PICK l \in Int : l = Lowest({a, b})
    BY <1>1, <2>1
  <2> QED BY <1>1, <2>1, <2>2, <2>3
<1> DEFINE dollars(x) == IF net = "partnerstack" THEN 4 * x ELSE x
           low == IF net = "house" THEN 90 ELSE 70
           width == IF net = "house" THEN 20 ELSE 60
           factor(x) == low + (width * Clamped(dollars(x), 0, 40)) \div 40
<1>3. SignalFactor(o) = factor(a)
  <2> HIDE DEF a, net
  <2>1. ~(net = "cj" /\ a <= 1) /\ ~(a <= 0)
    BY <1>1, <1>2
  <2> QED BY <2>1 DEF SignalFactor, a, net
<1>4. SignalFactor(p) = factor(b)
  <2> HIDE DEF b, net
  <2>1. ~(net = "cj" /\ b <= 1) /\ ~(b <= 0)
    BY <1>1, <1>2
  <2> QED BY <1>1, <2>1 DEF SignalFactor, b
<1>5. factor(a) \in Int /\ factor(b) \in Int /\ factor(a) <= factor(b)
  <2> HIDE DEF a, b, net
  <2>1. PICK x \in Int, y \in Int : x = dollars(a) /\ y = dollars(b) /\ x <= y
    BY <1>1
  <2>2. PICK c \in Int, d \in Int : c = Clamped(x, 0, 40) /\ d = Clamped(y, 0, 40) /\ c <= d
    <3>1. Clamped(x, 0, 40) \in Int /\ Clamped(y, 0, 40) \in Int
          /\ Clamped(x, 0, 40) <= Clamped(y, 0, 40)
      BY <2>1 DEF Clamped
    <3> QED BY <3>1
  <2>3. PICK w \in {20, 60}, l \in Int : w = width /\ l = low
    OBVIOUS
  <2>4. PICK u \in Int, v \in Int : u = w * c /\ v = w * d /\ u <= v
    <3>1. w * c \in Int /\ w * d \in Int /\ w * c <= w * d
      <4>1. CASE w = 20
        BY <2>2, <4>1
      <4>2. CASE w = 60
        BY <2>2, <4>2
      <4> QED BY <2>3, <4>1, <4>2
    <3> QED BY <3>1
  <2>5. u \div 40 \in Int /\ v \div 40 \in Int /\ u \div 40 <= v \div 40
    BY <2>4, Quotients, QuotientsGrow
  <2>6. factor(a) = l + u \div 40 /\ factor(b) = l + v \div 40
    BY <2>1, <2>2, <2>3, <2>4
  <2> HIDE DEF factor
  <2> QED BY <2>3, <2>5, <2>6
<1> HIDE DEF factor
<1>6. PICK x \in Int, y \in Int : x = (5 * factor(a)) \div 2 /\ y = (5 * factor(b)) \div 2 /\ x <= y
  <2>1. PICK u \in Int, v \in Int : u = 5 * factor(a) /\ v = 5 * factor(b) /\ u <= v
    BY <1>5
  <2>2. u \div 2 \in Int /\ v \div 2 \in Int /\ u \div 2 <= v \div 2
    BY <2>1, Quotients, QuotientsGrow
  <2> QED BY <2>1, <2>2
<1>7. Clamped(x, 180, 320) <= Clamped(y, 180, 320)
  BY <1>6, ClampedTells
<1> QED BY <1>3, <1>4, <1>6, <1>7 DEF CpaCents

LEMMA AlikeScore ==
  ASSUME TraitsTyped, NEW f, Retrieved(f),
         NEW o \in f.lexical \cap f.vector, NEW p \in f.lexical \cap f.vector,
         [trait[o] EXCEPT !.bid = trait[p].bid] = trait[p]
  PROVE  FusedScore(f, o) = FusedScore(f, p) /\ RankScore(f, o) = RankScore(f, p)
<1>1. o \in Inventory /\ p \in Inventory
  BY DEF Retrieved
<1>2. /\ trait[p].lexical = trait[o].lexical /\ trait[p].vector = trait[o].vector
      /\ trait[p].family = trait[o].family /\ trait[p].overlap = trait[o].overlap
      /\ trait[p].support = trait[o].support /\ trait[p].merit = trait[o].merit
  <2>1. trait[o] \in Profiles /\ trait[p] \in Profiles
    BY <1>1 DEF TraitsTyped
  <2> QED BY <2>1, SelectionAssumption
<1>3. Lexical(f, o) = Lexical(f, p) /\ Vector(f, o) = Vector(f, p)
  BY <1>2 DEF Lexical, Vector
<1>4. FusedScore(f, o) = FusedScore(f, p)
  BY <1>3 DEF FusedScore
<1>5. Native(f, o) = Native(f, p)
  BY <1>3, <1>4 DEF Native
<1>6. SameFamily(o) <=> SameFamily(p)
  BY <1>2 DEF SameFamily
<1>7. TopicScore(f, o) = TopicScore(f, p)
  BY <1>2, <1>5, <1>6 DEF TopicScore
<1>8. RelevanceScore(f, o) = RelevanceScore(f, p)
  BY <1>2, <1>7 DEF RelevanceScore
<1>9. RankScore(f, o) = RankScore(f, p)
  BY <1>2, <1>5, <1>8 DEF RankScore
<1> QED BY <1>4, <1>9

LEMMA BidsRank ==
  ASSUME TraitsTyped, NEW f, Retrieved(f),
         NEW o \in f.lexical \cap f.vector, NEW p \in f.lexical \cap f.vector,
         [trait[o] EXCEPT !.bid = trait[p].bid] = trait[p],
         ~(trait[o].network = "cj" /\ Lowest({trait[o].bid, trait[p].bid}) <= 1),
         trait[o].bid > 0, trait[p].bid > 0, trait[o].bid <= trait[p].bid
  PROVE  AuctionScore(f, o) <= AuctionScore(f, p)
<1>1. o \in Inventory /\ p \in Inventory /\ o \in FoundBy(f) /\ p \in FoundBy(f)
  BY DEF Retrieved, FoundBy
<1>2. CpaCents(o) <= CpaCents(p)
  BY <1>1, BidsRaise
<1>3. FusedScore(f, o) = FusedScore(f, p) /\ RankScore(f, o) = RankScore(f, p)
  BY AlikeScore
<1>4. EconomicScore(f, o) <= EconomicScore(f, p)
  <2>1. PICK a \in Int, b \in Int, k \in Nat :
          a = CpaCents(o) /\ b = CpaCents(p) /\ k = 48 + FusedScore(f, o) /\ a <= b
    BY <1>1, <1>2, FusedTyped, PriceTyped
  <2>2. PICK e \in Nat, g \in Nat : e = a * k /\ g = b * k /\ e <= g
    <3>1. a * k <= b * k
      BY <2>1, ProductsGrow
    <3>2. a * k \in Nat /\ b * k \in Nat
      BY <1>1, <1>3, <2>1, EconomicTyped
    <3> QED BY <3>1, <3>2
  <2>3. (80 * e) \div (e + 20000) <= (80 * g) \div (g + 20000)
    BY <2>2, SharesGrow
  <2> QED BY <1>3, <2>1, <2>2, <2>3 DEF EconomicScore
<1>5. /\ EconomicScore(f, o) \in Int /\ EconomicScore(f, p) \in Int
      /\ RankScore(f, o) \in Int
  BY <1>1, EconomicTyped, ScoresTyped
<1> QED BY <1>3, <1>4, <1>5 DEF AuctionScore

----------------------------------------------------------------------------
(* The ranking, and the walk down it *)

LEMMA EligibleFound ==
  ASSUME TraitsTyped, NEW f, Retrieved(f)
  PROVE  /\ Eligible(f) \in SUBSET Candidates(f) /\ Candidates(f) \in SUBSET FoundBy(f)
         /\ FoundBy(f) \in SUBSET Inventory /\ IsFiniteSet(Eligible(f))
<1>1. Candidates(f) \in SUBSET FoundBy(f)
  BY DEF Candidates, First
<1>2. FoundBy(f) \in SUBSET Inventory
  BY DEF Retrieved, FoundBy
<1>3. Eligible(f) \in SUBSET Candidates(f)
  BY DEF Eligible, Strictly
<1>4. IsFiniteSet(Eligible(f))
  BY <1>1, <1>2, <1>3, SelectionAssumption, FS_Subset
<1> QED BY <1>1, <1>2, <1>3, <1>4

LEMMA RankingTells ==
  ASSUME TraitsTyped, NEW f, Retrieved(f)
  PROVE  /\ Cardinality(Eligible(f)) \in Nat
         /\ AuctionOrder(f) \in [1 .. Cardinality(Eligible(f)) -> Eligible(f)]
         /\ \A o \in Eligible(f) :
              \E k \in 1 .. Cardinality(Eligible(f)) : AuctionOrder(f)[k] = o
         /\ \A i, k \in 1 .. Cardinality(Eligible(f)) : i < k =>
              AuctionScore(f, AuctionOrder(f)[i]) >= AuctionScore(f, AuctionOrder(f)[k])
<1> DEFINE S == Eligible(f)
           marks == [o \in S |-> Marks(f, o)]
           n == Cardinality(S)
           order == AuctionOrder(f)
<1>1. IsFiniteSet(S) /\ \A o \in S : o \in FoundBy(f) /\ o \in Int
  BY EligibleFound, SelectionAssumption
<1>2. ASSUME NEW o \in S
      PROVE  Marks(f, o) \in Comparable /\ Marks(f, o)[1] = AuctionScore(f, o) /\ Marks(f, o)[5] = -o
  <2>1. /\ AuctionScore(f, o) \in Int /\ RankScore(f, o) \in Int /\ RelevanceScore(f, o) \in Int
        /\ FusedScore(f, o) \in Int /\ o \in Int
    BY <1>1, EconomicTyped, ScoresTyped, FusedTyped
  <2>2. PICK r \in Int : r = IF Gate = "off" THEN 0 ELSE RelevanceScore(f, o)
    BY <2>1
  <2>3. Marks(f, o) = <<AuctionScore(f, o), RankScore(f, o), r, FusedScore(f, o), -o>>
    BY <2>2 DEF Marks
  <2> QED BY <2>1, <2>3 DEF Comparable
<1>3. marks \in [S -> Comparable]
  BY <1>2
<1>4. \A o \in S : marks[o][1] = AuctionScore(f, o) /\ marks[o][5] = -o
  BY <1>2
<1>5. order = Ordered(S, marks)
  BY DEF AuctionOrder
<1> HIDE DEF S, marks, order
<1>6. \A o, p \in S : o # p => marks[o][5] # marks[p][5]
  BY <1>1, <1>4
<1>7. /\ n \in Nat /\ order \in [1 .. n -> S]
      /\ \A o \in S : \E k \in 1 .. n : order[k] = o
      /\ \A i, k \in 1 .. n : i < k => Ahead(marks[order[i]], marks[order[k]])
  BY <1>1, <1>3, <1>5, <1>6, OrderedTells
<1> HIDE DEF n
<1>8. ASSUME NEW i \in 1 .. n, NEW k \in 1 .. n, i < k
      PROVE  AuctionScore(f, order[i]) >= AuctionScore(f, order[k])
  <2>1. order[i] \in S /\ order[k] \in S /\ Ahead(marks[order[i]], marks[order[k]])
    BY <1>7, <1>8
  <2>2. marks[order[i]] \in Comparable /\ marks[order[k]] \in Comparable
    BY <1>3, <2>1
  <2>3. marks[order[i]][1] >= marks[order[k]][1]
    BY <2>1, <2>2, AheadOrders
  <2> QED BY <1>4, <2>1, <2>3
<1> QED BY <1>7, <1>8 DEF n, S, order

\* What was passed over was so for what still holds.
PassedTrue(o) ==
  /\ passed[o] = "floor" => RankScore(hits, o) < ScoreFloor
  /\ passed[o] = "unconfigured" => ~trait[o].campaign
  /\ passed[o] = "risk" => wanted.risk
  /\ passed[o] = "budget" => wanted.budgets = "on"

Permitted == \A o \in FoundBy(hits) : trait[o].network \in wanted.allowed

\* Where the walk is: all before have been passed over.
WalkStandsHere ==
  /\ Retrieved(hits) /\ Permitted /\ ranked = AuctionOrder(hits)
  /\ position \in Nat \ {0}
  /\ \A i \in DOMAIN ranked : i < position => passed[ranked[i]] # "no"
  /\ \A o \in Inventory : PassedTrue(o)

SelectInv ==
  /\ TraitsTyped
  /\ DOMAIN hits \in SUBSET {"lexical", "vector"}
  /\ \A k \in DOMAIN hits :
       /\ hits[k] \in SUBSET Inventory
       /\ \A o \in hits[k] : trait[o].network \in wanted.allowed
  /\ passed \in [Inventory -> {"no", "floor", "unconfigured", "risk", "budget"}]
  /\ selecting \in {"received", "reading"} =>
       /\ ranked = <<>> /\ position = 1 /\ chosen = <<>>
       /\ \A o \in Inventory : passed[o] = "no"
  /\ selecting = "walking" => WalkStandsHere /\ chosen = <<>>
  /\ ranked # <<>> => WalkStandsHere
  /\ chosen # <<>> =>
       WalkStandsHere /\ position \in DOMAIN ranked /\ chosen = <<ranked[position]>>

\* What is computed of the answers changes with the offers and the request alone.
LEMMA RankStays ==
  ASSUME UNCHANGED <<trait, wanted>>, NEW CONSTANT f
  PROVE  \A o : RankScore(f, o)' = RankScore(f, o)
BY DEF Gate, FoundBy, Lexical, RelevanceScore, SameFamily, FusedScore, Vector, RankScore,
   TopicScore, Native

LEMMA OrderStays ==
  ASSUME UNCHANGED <<trait, wanted>>, NEW CONSTANT f
  PROVE  AuctionOrder(f)' = AuctionOrder(f)
<1>1. Eligible(f)' = Eligible(f)
  BY DEF Eligible, Candidates, Strictly, Relaxes, Gate, First, FoundBy, LowInfo, Lexical, Near,
     RelevanceScore, SameFamily, FusedScore, Vector, TopicScore, Native
<1>2. \A o : Marks(f, o)' = Marks(f, o)
  BY DEF Gate, Marks, FoundBy, Lexical, RelevanceScore, SameFamily, FusedScore, Vector, RankScore,
     AuctionScore, TopicScore, Native, EconomicScore, CpaCents, SignalFactor
<1>3. [o \in Eligible(f) |-> Marks(f, o)]' = [o \in Eligible(f) |-> Marks(f, o)]
  BY <1>1, <1>2
<1> QED BY <1>1, <1>3 DEF AuctionOrder

LEMMA ToAuctionKeeps ==
  ASSUME SelectInv, selecting = "reading", ToAuction(hits'), Retrieved(hits'), Permitted',
         DOMAIN hits' \in SUBSET {"lexical", "vector"},
         \A k \in DOMAIN hits' :
           /\ hits'[k] \in SUBSET Inventory
           /\ \A o \in hits'[k] : trait[o].network \in wanted.allowed
  PROVE  SelectInv'
<1>1. /\ selecting' = "walking" /\ ranked' = AuctionOrder(hits')
      /\ UNCHANGED <<trait, active, wanted, position, passed, chosen, reason>>
  BY DEF ToAuction
<1>2. /\ TraitsTyped' /\ position = 1 /\ chosen = <<>> /\ \A o \in Inventory : passed[o] = "no"
      /\ passed' \in [Inventory -> {"no", "floor", "unconfigured", "risk", "budget"}]
  BY <1>1 DEF SelectInv, TraitsTyped
<1>3. AuctionOrder(hits)' = AuctionOrder(hits')
  <2>1. \A f : AuctionOrder(f)' = AuctionOrder(f)
    BY <1>1, OrderStays
  <2> QED BY <2>1
<1>4. \A i \in DOMAIN ranked' : ~(i < position')
  <2>1. DOMAIN ranked' \in SUBSET Nat /\ \A i \in DOMAIN ranked' : i >= 1
    <3>1. PICK n \in Nat : DOMAIN AuctionOrder(hits') = 1 .. n
      <4>1. PICK g : g = hits'
        BY Zenon
      <4>2. /\ Cardinality(Eligible(g)) \in Nat
            /\ AuctionOrder(g) \in [1 .. Cardinality(Eligible(g)) -> Eligible(g)]
        BY <4>1, RankingTells DEF SelectInv
      <4> QED BY <4>1, <4>2
    <3> QED BY <1>1, <3>1
  <2> QED BY <1>1, <1>2, <2>1
<1>5. \A o \in Inventory : PassedTrue(o)'
  BY <1>1, <1>2 DEF PassedTrue
<1>6. Retrieved(hits)'
  BY DEF Retrieved
<1>7. WalkStandsHere'
  BY <1>1, <1>2, <1>3, <1>4, <1>5, <1>6 DEF WalkStandsHere
<1> QED BY <1>1, <1>2, <1>7 DEF SelectInv

LEMMA ReadAnswerKeeps ==
  ASSUME SelectInv, NEW kind \in {"lexical", "vector"}, NEW rows \in SUBSET Readable,
         active \in SUBSET Inventory, ReadAnswer(kind, rows)
  PROVE  SelectInv'
<1>1. /\ selecting = "reading" /\ hits' = [k \in DOMAIN hits \cup {kind} |-> IF k = kind THEN rows ELSE hits[k]]
      /\ UNCHANGED <<trait, wanted>>
  BY DEF ReadAnswer, ToAuction
<1>2. rows \in SUBSET Inventory /\ \A o \in rows : trait[o].network \in wanted.allowed
  BY DEF Readable, AskedNetworks
<1>3. /\ DOMAIN hits' \in SUBSET {"lexical", "vector"}
      /\ \A k \in DOMAIN hits' :
           /\ hits'[k] \in SUBSET Inventory
           /\ \A o \in hits'[k] : trait[o].network \in wanted.allowed
  BY <1>1, <1>2 DEF SelectInv
<1>4. CASE DOMAIN hits' = {"lexical", "vector"}
  <2>1. ToAuction(hits')
    BY <1>4 DEF ReadAnswer
  <2>2. Retrieved(hits') /\ Permitted'
    BY <1>1, <1>3, <1>4 DEF Retrieved, Permitted, FoundBy
  <2> QED BY <1>1, <1>3, <2>1, <2>2, ToAuctionKeeps
<1>5. CASE DOMAIN hits' # {"lexical", "vector"}
  <2>1. UNCHANGED <<trait, active, wanted, selecting, ranked, position, passed, chosen, reason>>
    BY <1>5 DEF ReadAnswer
  <2>2. ranked = <<>> /\ chosen = <<>>
    BY <1>1 DEF SelectInv
  <2> QED BY <1>1, <1>3, <2>1, <2>2 DEF SelectInv, TraitsTyped
<1> QED BY <1>4, <1>5

LEMMA FallBackKeeps ==
  ASSUME SelectInv, active \in SUBSET Inventory, FallBack
  PROVE  SelectInv'
<1>1. PICK catalog \in {Readable, {}} : hits' = [lexical |-> catalog, vector |-> catalog]
  BY DEF FallBack
<1>2. selecting = "reading" /\ ToAuction(hits') /\ UNCHANGED <<trait, wanted>>
  BY DEF FallBack, ToAuction
<1>3. catalog \in SUBSET Inventory /\ \A o \in catalog : trait[o].network \in wanted.allowed
  BY DEF Readable, AskedNetworks
<1>4. /\ DOMAIN hits' = {"lexical", "vector"}
      /\ hits'["lexical"] = catalog /\ hits'["vector"] = catalog
      /\ hits'.lexical = catalog /\ hits'.vector = catalog
  BY <1>1
<1>5. /\ DOMAIN hits' \in SUBSET {"lexical", "vector"}
      /\ \A k \in DOMAIN hits' :
           /\ hits'[k] \in SUBSET Inventory
           /\ \A o \in hits'[k] : trait[o].network \in wanted.allowed
  BY <1>3, <1>4
<1>6. Retrieved(hits') /\ Permitted'
  BY <1>2, <1>3, <1>4 DEF Retrieved, Permitted, FoundBy
<1> QED BY <1>2, <1>5, <1>6, ToAuctionKeeps

LEMMA OnwardKeeps ==
  ASSUME SelectInv, selecting = "walking",
         UNCHANGED <<trait, wanted, hits, ranked, position, passed>>,
         chosen' = chosen \/ (position \in DOMAIN ranked /\ chosen' = <<ranked[position]>>),
         selecting' = "done"
  PROVE  SelectInv'
<1>1. WalkStandsHere /\ chosen = <<>>
  BY DEF SelectInv
<1>2. WalkStandsHere'
  <2>1. AuctionOrder(hits)' = AuctionOrder(hits)
    <3>1. \A f : AuctionOrder(f)' = AuctionOrder(f)
      BY OrderStays
    <3> QED BY <3>1
  <2>2. \A o \in Inventory : PassedTrue(o)'
    <3>1. \A f : \A o : RankScore(f, o)' = RankScore(f, o)
      BY RankStays
    <3> QED BY <1>1, <3>1 DEF WalkStandsHere, PassedTrue
  <2> QED BY <1>1, <2>1, <2>2 DEF WalkStandsHere, Retrieved, Permitted, FoundBy
<1> QED BY <1>1, <1>2 DEF SelectInv, TraitsTyped

LEMMA PassOverKeeps ==
  ASSUME SelectInv, Walks, NEW why \in {"floor", "unconfigured", "risk", "budget"}, PassOver(why),
         why = "floor" => RankScore(hits, Here) < ScoreFloor,
         why = "unconfigured" => ~trait[Here].campaign,
         why = "risk" => wanted.risk,
         why = "budget" => wanted.budgets = "on"
  PROVE  SelectInv'
<1>1. /\ passed' = [passed EXCEPT ![Here] = why] /\ position' = position + 1
      /\ UNCHANGED <<trait, active, wanted, selecting, hits, ranked, chosen, reason>>
  BY DEF PassOver
<1>2. WalkStandsHere /\ chosen = <<>> /\ selecting = "walking" /\ position \in DOMAIN ranked
  BY DEF SelectInv, Walks
<1>3. \A f : AuctionOrder(f)' = AuctionOrder(f)
  BY <1>1, OrderStays
<1>4. \A f : \A o : RankScore(f, o)' = RankScore(f, o)
  BY <1>1, RankStays
<1>5. /\ Here \in Inventory
      /\ \A i \in DOMAIN ranked : i \in Nat /\ ranked[i] \in Inventory
  <2>1. PICK n \in Nat : ranked \in [1 .. n -> Eligible(hits)]
    BY <1>2, RankingTells DEF SelectInv, WalkStandsHere
  <2>2. Eligible(hits) \in SUBSET Inventory
    BY <1>2, EligibleFound DEF SelectInv, WalkStandsHere
  <2>3. \A i \in DOMAIN ranked : i \in Nat /\ ranked[i] \in Inventory
    BY <2>1, <2>2
  <2> QED BY <1>2, <2>3 DEF Here
<1>6. /\ passed' \in [Inventory -> {"no", "floor", "unconfigured", "risk", "budget"}]
      /\ passed'[Here] = why /\ \A o \in Inventory \ {Here} : passed'[o] = passed[o]
  BY <1>1, <1>5 DEF SelectInv
<1>7. \A o \in Inventory : PassedTrue(o)'
  <2> SUFFICES ASSUME NEW o \in Inventory PROVE PassedTrue(o)'
    OBVIOUS
  <2>1. RankScore(hits, o)' = RankScore(hits, o)
    BY <1>1, <1>4
  <2>2. CASE o = Here
    BY <1>1, <1>6, <2>1, <2>2 DEF PassedTrue
  <2>3. CASE o # Here
    BY <1>1, <1>2, <1>6, <2>1, <2>3 DEF PassedTrue, WalkStandsHere
  <2> QED BY <2>2, <2>3
<1>8. \A i \in DOMAIN ranked : i < position + 1 => passed'[ranked[i]] # "no"
  <2> SUFFICES ASSUME NEW i \in DOMAIN ranked, i < position + 1 PROVE passed'[ranked[i]] # "no"
    OBVIOUS
  <2>1. i \in Nat /\ position \in Nat /\ ranked[i] \in Inventory
    BY <1>2, <1>5 DEF WalkStandsHere
  <2>2. CASE i = position
    BY <1>6, <2>2 DEF Here
  <2>3. CASE i < position
    BY <1>2, <1>6, <2>1, <2>3 DEF WalkStandsHere
  <2> QED BY <2>1, <2>2, <2>3
<1>9. WalkStandsHere'
  <2>1. ranked' = AuctionOrder(hits)'
    BY <1>1, <1>2, <1>3 DEF WalkStandsHere
  <2>2. Retrieved(hits)' /\ Permitted' /\ position' \in Nat \ {0}
    BY <1>1, <1>2 DEF WalkStandsHere, Retrieved, Permitted, FoundBy
  <2> QED BY <1>1, <1>7, <1>8, <2>1, <2>2 DEF WalkStandsHere
<1> QED BY <1>1, <1>2, <1>6, <1>9 DEF SelectInv, TraitsTyped

LEMMA ConsiderKeeps ==
  ASSUME SelectInv, NEW risky \in BOOLEAN, NEW affordable \in BOOLEAN, Consider(risky, affordable)
  PROVE  SelectInv'
<1>1. Walks
  BY DEF Consider, Standing
<1>2. CASE Unconfigured /\ PassOver("unconfigured")
  BY <1>1, <1>2, PassOverKeeps DEF Unconfigured
<1>3. CASE ~Unconfigured /\ risky /\ wanted.risk /\ PassOver("risk")
  BY <1>1, <1>3, PassOverKeeps
<1>4. CASE wanted.budgets = "on" /\ PassOver("budget")
  BY <1>1, <1>4, PassOverKeeps
<1>5. CASE Choose
  BY <1>1, <1>5, OnwardKeeps DEF Choose, Ends, Here, Walks
<1> QED BY <1>2, <1>3, <1>4, <1>5 DEF Consider

LEMMA OtherKeeps ==
  ASSUME SelectInv,
         \/ TurnAway \/ PassGate \/ \E o \in Inventory : RowChanges(o)
         \/ \E how \in {"upstream_error", "upstream_timeout"} : UpstreamFails(how)
         \/ \E ready \in BOOLEAN : EndOfWalk(ready)
  PROVE  SelectInv'
<1>1. CASE selecting \in {"received", "reading"}
  <2>1. ranked = <<>> /\ position = 1 /\ chosen = <<>> /\ \A o \in Inventory : passed[o] = "no"
    BY <1>1 DEF SelectInv
  <2>2. UNCHANGED <<trait, hits, ranked, position, passed, chosen, wanted>>
    BY DEF TurnAway, PassGate, RowChanges, UpstreamFails, EndOfWalk
  <2>3. selecting' \in {"received", "reading", "done"}
    BY <1>1 DEF TurnAway, PassGate, RowChanges, UpstreamFails, EndOfWalk, Ends
  <2> QED BY <2>1, <2>2, <2>3 DEF SelectInv, TraitsTyped
<1>2. CASE selecting = "walking"
  <2>1. selecting' = "done" /\ UNCHANGED <<trait, wanted, hits, ranked, position, passed, chosen>>
    BY <1>2 DEF TurnAway, PassGate, RowChanges, UpstreamFails, EndOfWalk, Ends
  <2> QED BY <1>2, <2>1, OnwardKeeps
<1>3. selecting \in {"received", "reading", "walking"}
  BY DEF TurnAway, PassGate, RowChanges, UpstreamFails, EndOfWalk, Standing, Walks
<1> QED BY <1>1, <1>2, <1>3

LEMMA StillKeeps == SelectInv /\ UNCHANGED selectVars => SelectInv'
<1> SUFFICES ASSUME SelectInv, UNCHANGED selectVars PROVE SelectInv'
  OBVIOUS
<1>1. UNCHANGED <<trait, wanted, selecting, hits, ranked, position, passed, chosen>>
  BY DEF selectVars
<1>2. ASSUME WalkStandsHere PROVE WalkStandsHere'
  <2>1. AuctionOrder(hits)' = AuctionOrder(hits)
    <3>1. \A f : AuctionOrder(f)' = AuctionOrder(f)
      BY <1>1, OrderStays
    <3> QED BY <1>1, <3>1
  <2>2. \A f : \A o : RankScore(f, o)' = RankScore(f, o)
    BY <1>1, RankStays
  <2>3. \A o \in Inventory : PassedTrue(o)'
    BY <1>1, <1>2, <2>2 DEF WalkStandsHere, PassedTrue
  <2> QED BY <1>1, <1>2, <2>1, <2>3 DEF WalkStandsHere, Retrieved, Permitted, FoundBy
<1> QED BY <1>1, <1>2 DEF SelectInv, TraitsTyped

LEMMA StepKeeps ==
  ASSUME SelectInv, active \in SUBSET Inventory, [SelectNext]_selectVars
  PROVE  SelectInv' /\ active' \in SUBSET Inventory
<1>1. active' \in SUBSET Inventory
  BY DEF SelectNext, TurnAway, PassGate, FetchLexicalCandidates, FetchVectorCandidates, FallBack,
     UpstreamFails, BelowFloor, Consider, EndOfWalk, RowChanges, ReadAnswer, ToAuction, PassOver,
     Choose, selectVars
<1>2. CASE FetchLexicalCandidates
  <2>1. PICK rows \in SUBSET Readable : ReadAnswer("lexical", rows)
    BY <1>2 DEF FetchLexicalCandidates, First
  <2> QED BY <1>1, <2>1, ReadAnswerKeeps
<1>3. CASE FetchVectorCandidates
  <2>1. PICK rows \in SUBSET Readable : ReadAnswer("vector", rows)
    BY <1>3 DEF FetchVectorCandidates, First
  <2> QED BY <1>1, <2>1, ReadAnswerKeeps
<1>4. CASE BelowFloor
  BY <1>1, <1>4, PassOverKeeps DEF BelowFloor
<1> QED BY <1>1, <1>2, <1>3, <1>4, FallBackKeeps, ConsiderKeeps, OtherKeeps, StillKeeps DEF SelectNext

LEMMA SelectHolds == SelectSpec => [](SelectInv /\ active \in SUBSET Inventory)
<1>1. SelectInit => SelectInv /\ active \in SUBSET Inventory
  <2> SUFFICES ASSUME SelectInit PROVE SelectInv /\ active \in SUBSET Inventory
    OBVIOUS
  <2>1. DOMAIN hits = {} /\ TraitsTyped
    BY DEF SelectInit, TraitsTyped
  <2> QED BY <2>1 DEF SelectInit, SelectInv
<1>2. SelectInv /\ active \in SUBSET Inventory /\ [SelectNext]_selectVars
        => (SelectInv /\ active \in SUBSET Inventory)'
  BY StepKeeps
<1> QED BY <1>1, <1>2, PTL DEF SelectSpec

LEMMA ServedStands == ASSUME SelectInv PROVE ServedIsBest
<1> SUFFICES ASSUME NEW o \in {chosen[i] : i \in DOMAIN chosen}
             PROVE  /\ trait[o].network \in wanted.allowed
                    /\ Gate = "enforce" =>
                         RelevanceScore(hits, o) >= Strict \/ trait[o].family = wanted.target
                    /\ \A p \in Candidates(hits) : AuctionScore(hits, p) > AuctionScore(hits, o) =>
                         \/ Gate = "enforce" /\ (~Near(hits, p) \/ RelevanceScore(hits, p) < Strict)
                         \/ passed[p] = "floor" /\ RankScore(hits, p) < ScoreFloor
                         \/ passed[p] = "unconfigured" /\ ~trait[p].campaign
                         \/ passed[p] = "risk" /\ wanted.risk
                         \/ passed[p] = "budget" /\ wanted.budgets = "on"
  BY DEF ServedIsBest
<1>1. WalkStandsHere /\ position \in DOMAIN ranked /\ o = ranked[position]
  BY DEF SelectInv
<1>2. TraitsTyped /\ Retrieved(hits) /\ Permitted /\ ranked = AuctionOrder(hits)
  BY <1>1 DEF SelectInv, WalkStandsHere
<1>3. PICK n \in Nat :
        /\ ranked \in [1 .. n -> Eligible(hits)]
        /\ \A p \in Eligible(hits) : \E k \in 1 .. n : ranked[k] = p
        /\ \A i, k \in 1 .. n : i < k =>
             AuctionScore(hits, ranked[i]) >= AuctionScore(hits, ranked[k])
  BY <1>2, RankingTells
<1>4. /\ Eligible(hits) \in SUBSET Candidates(hits) /\ Candidates(hits) \in SUBSET FoundBy(hits)
      /\ FoundBy(hits) \in SUBSET Inventory
  BY <1>2, EligibleFound
<1>5. o \in Eligible(hits) /\ position \in 1 .. n
  BY <1>1, <1>3
<1>6. trait[o].network \in wanted.allowed
  BY <1>2, <1>4, <1>5 DEF Permitted
<1>7. Gate = "enforce" => RelevanceScore(hits, o) >= Strict \/ trait[o].family = wanted.target
  BY <1>5 DEF Eligible, Strictly, SameFamily
<1>8. ASSUME NEW p \in Candidates(hits), AuctionScore(hits, p) > AuctionScore(hits, o)
      PROVE  \/ Gate = "enforce" /\ (~Near(hits, p) \/ RelevanceScore(hits, p) < Strict)
             \/ passed[p] = "floor" /\ RankScore(hits, p) < ScoreFloor
             \/ passed[p] = "unconfigured" /\ ~trait[p].campaign
             \/ passed[p] = "risk" /\ wanted.risk
             \/ passed[p] = "budget" /\ wanted.budgets = "on"
  <2>1. p \in FoundBy(hits) /\ o \in FoundBy(hits) /\ p \in Inventory
    BY <1>4, <1>5
  <2>2. CASE p \in Eligible(hits)
    <3>1. PICK k \in 1 .. n : ranked[k] = p
      BY <1>3, <2>2
    <3>2. AuctionScore(hits, p) \in Int /\ AuctionScore(hits, o) \in Int
      BY <1>2, <2>1, ScoresTyped, EconomicTyped DEF AuctionScore
    <3>3. k < position
      <4>1. CASE k = position
        BY <1>1, <1>8, <3>1, <3>2, <4>1
      <4>2. CASE k > position
        BY <1>1, <1>3, <1>5, <1>8, <3>1, <3>2, <4>2
      <4> QED BY <1>5, <4>1, <4>2
    <3>4. passed[p] # "no" /\ PassedTrue(p)
      BY <1>1, <1>3, <2>1, <3>1, <3>3 DEF WalkStandsHere
    <3> QED BY <2>1, <3>4 DEF PassedTrue, SelectInv
  <2>3. CASE p \notin Eligible(hits)
    <3>1. Gate = "enforce" /\ p \notin Strictly(hits)
      BY <2>3 DEF Eligible, Relaxes
    <3>2. RelevanceScore(hits, p) \in Int /\ Strict \in Int
      BY <1>2, <2>1, ScoresTyped, SelectionAssumption
    <3> QED BY <3>1, <3>2 DEF Strictly
  <2> QED BY <2>2, <2>3
<1> QED BY <1>6, <1>7, <1>8

LEMMA BidsStand == ASSUME SelectInv PROVE BidsPay
<1> SUFFICES ASSUME NEW i \in DOMAIN ranked, NEW k \in DOMAIN ranked, i < k,
                    [trait[ranked[i]] EXCEPT !.bid = trait[ranked[k]].bid] = trait[ranked[k]],
                    ~(trait[ranked[i]].network = "cj"
                        /\ Lowest({trait[ranked[i]].bid, trait[ranked[k]].bid}) <= 1),
                    ranked[i] \in hits.lexical \cap hits.vector,
                    ranked[k] \in hits.lexical \cap hits.vector,
                    trait[ranked[i]].bid > 0, trait[ranked[k]].bid > 0
             PROVE  trait[ranked[i]].bid >= trait[ranked[k]].bid
                      \/ AuctionScore(hits, ranked[i]) = AuctionScore(hits, ranked[k])
  BY DEF BidsPay
<1> DEFINE o == ranked[i]
           p == ranked[k]
<1>1. TraitsTyped /\ Retrieved(hits) /\ ranked = AuctionOrder(hits)
  BY DEF SelectInv, WalkStandsHere
<1>2. PICK n \in Nat :
        /\ ranked \in [1 .. n -> Eligible(hits)]
        /\ \A a, b \in 1 .. n : a < b =>
             AuctionScore(hits, ranked[a]) >= AuctionScore(hits, ranked[b])
  BY <1>1, RankingTells
<1>3. o \in FoundBy(hits) /\ p \in FoundBy(hits) /\ o \in Inventory /\ p \in Inventory
  BY <1>1, <1>2, EligibleFound
<1>4. AuctionScore(hits, o) >= AuctionScore(hits, p)
  BY <1>2
<1>5. AuctionScore(hits, o) \in Int /\ AuctionScore(hits, p) \in Int
  BY <1>1, <1>3, ScoresTyped, EconomicTyped DEF AuctionScore
<1>6. trait[o].bid \in Int /\ trait[p].bid \in Int
  <2>1. trait[o] \in Profiles /\ trait[p] \in Profiles
    BY <1>1, <1>3 DEF TraitsTyped
  <2> QED BY <2>1, SelectionAssumption
<1>7. CASE trait[o].bid <= trait[p].bid
  <2>1. AuctionScore(hits, o) <= AuctionScore(hits, p)
    BY <1>1, <1>7, BidsRank
  <2> QED BY <1>4, <1>5, <2>1
<1> QED BY <1>6, <1>7

(* The ad that is served is the best of what was found and stands, for every inventory,
   every request, every gate and every answer of the two queries: whatever sells better
   was passed over for what still holds, was cut off, or fails the strict gate. *)
THEOREM SelectsBest == SelectSpec => []ServedIsBest
<1>1. SelectInv /\ active \in SUBSET Inventory => ServedIsBest
  BY ServedStands
<1> QED BY <1>1, SelectHolds, PTL

(* Of two offers that both bid and are alike but for their bids, none of them CJ's dollar
   or less, the one that bids more is not behind in the auction, whatever their scores,
   the gate and the order of the answers. *)
THEOREM BidsCount == SelectSpec => []BidsPay
<1>1. SelectInv /\ active \in SUBSET Inventory => BidsPay
  BY BidsStand
<1> QED BY <1>1, SelectHolds, PTL

=============================================================================
