----------------------------- MODULE NetworkFetch -----------------------------
(***************************************************************************)
(* How a connector gets the offers of a network.  It walks several lists   *)
(* at once: those of CJ's three kinds of records, or those of PartnerStack *)
(* with the links of each partnership, after a list of the partnerships.   *)
(* The path of a list has changed over time, so paths are tried in turn,   *)
(* each with retries.  What a network is asked over is outside of the      *)
(* repository: which of the paths exist is up to the behaviour.  One page  *)
(* of a list is all that is read of it.                                    *)
(***************************************************************************)
EXTENDS Integers, Sequences, FiniteSets

CONSTANTS Lists,         \* the lists of CJ, or the partnerships of PartnerStack, by number
          Paths,         \* path candidates of a list
          MaxRetries,
          NetworkOffers, \* offers, as records with a key and a priority
          ListedOn,      \* list -> sequence of offers
          EmbeddedIn     \* list -> the offer a partnership brings along, as a sequence

ASSUME FetchAssumption ==
  /\ Paths \in Nat \ {0} /\ MaxRetries \in Nat
  /\ Lists \subseteq Nat /\ IsFiniteSet(Lists)
  /\ \A o \in NetworkOffers : o.priority \in Int
  /\ \A l \in Lists :
       ListedOn[l] \in Seq(NetworkOffers) /\ EmbeddedIn[l] \in Seq(NetworkOffers)

VARIABLES exists,     \* list -> the paths the network has for it (environment)
          connector,  \* "cj" or "partnerstack"
          listing,    \* the request for the partnerships: [attempt, result]
          walk        \* list -> [path, attempt, result]

fetchVars == <<exists, connector, listing, walk>>

RetryableAnswers == {"retryable status", "unreachable"}
Answers == RetryableAnswers \cup {"ok", "no list", "404", "refused"}

\* request: one attempt of it.  `result` is "asking" while it goes on.  What is
\* answered without a list counts as an empty one.
Attempted(r, answer) ==
  IF answer \in RetryableAnswers /\ r.attempt < MaxRetries
  THEN [r EXCEPT !.attempt = @ + 1]
  ELSE [r EXCEPT !.result = CASE answer = "ok"      -> "found"
                              [] answer = "no list" -> "empty"
                              [] answer = "404"     -> "absent"
                              [] OTHER              -> "failed"]

\* Fault: a path that fails leads to the next one too.
NextPathAnyway(w) ==
  IF w.result \in {"absent", "failed"} /\ w.path < Paths
  THEN [path |-> w.path + 1, attempt |-> 0, result |-> "asking"] ELSE w

\* Only a path that is not there leads to the next one.
NextPath(w) ==
  IF w.result = "absent" /\ w.path < Paths
  THEN [path |-> w.path + 1, attempt |-> 0, result |-> "asking"] ELSE w

\* Without partnerships there is nothing to walk.
Walking == connector = "cj" \/ listing.result = "found"

\* The network answers 404 for what it does not have, and for nothing else.
ListAnswers(l, answer) ==
  /\ Walking /\ walk[l].result = "asking"
  /\ (answer = "404") <=> (walk[l].path \notin exists[l] /\ answer \notin RetryableAnswers)
  /\ walk' = [walk EXCEPT ![l] = NextPath(Attempted(@, answer))]
  /\ UNCHANGED <<exists, connector, listing>>

PartnershipsAnswer(answer) ==
  /\ connector = "partnerstack" /\ listing.result = "asking"
  /\ listing' = Attempted(listing, answer)
  /\ UNCHANGED <<exists, connector, walk>>

FetchInit ==
  /\ exists \in [Lists -> SUBSET (1..Paths)]
  /\ connector \in {"cj", "partnerstack"}
  /\ listing = [attempt |-> 0, result |-> "asking"]
  /\ walk = [l \in Lists |-> [path |-> 1, attempt |-> 0, result |-> "asking"]]

FetchNext ==
  \E answer \in Answers :
    PartnershipsAnswer(answer) \/ \E l \in Lists : ListAnswers(l, answer)

FetchSpec == FetchInit /\ [][FetchNext]_fetchVars

----------------------------------------------------------------------------
FetchThrows == connector = "partnerstack" /\ listing.result \notin {"asking", "found", "empty"}
FetchEnds == Walking /\ \A l \in Lists : walk[l].result # "asking"
FailedLists == {l \in Lists : walk[l].result = "failed"}

\* A partnership without links of its own stands with the one it brings along.
Gathered(l) ==
  CASE walk[l].result = "found"    -> ListedOn[l]
    [] connector = "partnerstack"
         /\ walk[l].result \in {"absent", "failed"} -> EmbeddedIn[l]
    [] OTHER                       -> <<>>

\* What is gathered, list after list: the places <<list, number in it>>.
AllGathered == UNION {{l} \X DOMAIN Gathered(l) : l \in Lists}
OfferAt(p) == Gathered(p[1])[p[2]]
Before(p, q) == p[1] < q[1] \/ (p[1] = q[1] /\ p[2] < q[2])

\* normalizeUnifiedOffers: of the offers of one key, the first of the highest
\* priority.
Preferred(p, q) ==
  /\ OfferAt(p).key = OfferAt(q).key
  /\ \/ OfferAt(p).priority > OfferAt(q).priority
     \/ OfferAt(p).priority = OfferAt(q).priority /\ Before(p, q)
FetchedOffers ==
  {OfferAt(p) : p \in {p \in AllGathered : \A q \in AllGathered : ~Preferred(q, p)}}

(* Whatever is retried, refused or moved, every list that is not among the reported
   failures was answered with 200 by the first of its paths that the network has, if
   it has one; a failure is never taken for a path that has moved; and for every offer
   that was gathered the answer has exactly one with its key, of no lower priority.
   What such an answer leaves out is not reported: a body that holds no list is an
   empty list, and so is what lies past the first page. *)
MissingIsReported ==
  FetchEnds =>
    /\ \A l \in Lists \ FailedLists :
         IF exists[l] = {} THEN walk[l].result = "absent"
         ELSE walk[l].result \in {"found", "empty"} /\ \A p \in exists[l] : walk[l].path <= p
    /\ \A l \in FailedLists : walk[l].path \in exists[l] \/ walk[l].attempt = MaxRetries
    /\ \A p \in AllGathered :
         \E o \in FetchedOffers :
           /\ o.key = OfferAt(p).key /\ o.priority >= OfferAt(p).priority
           /\ \A other \in FetchedOffers : other.key = o.key => other = o
=============================================================================
