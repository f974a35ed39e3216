---------------------------- MODULE RolloutCircuit ----------------------------
(***************************************************************************)
(* The gray rollout of a policy.  Requests fall into buckets, and those    *)
(* below the policy's share take part in the experiment, until the metrics *)
(* a request brings with it trip the circuit: then nobody does for the     *)
(* cooldown, and afterwards only the half-open share.  The evaluator never *)
(* forgets a circuit that tripped.                                         *)
(***************************************************************************)
EXTENDS Integers, FiniteSetsExt

CONSTANTS
  ReleaseUnits,      \* app, placement and policy version
  Policies,          \* policies the caller may pass for them
  RolloutRequests,   \* what a request brings: its buckets, selectors and metrics
  LastTime           \* bound on the clock

HalfOpenPercent == 1
Never == -1
MissingPolicy == [found |-> FALSE, percent |-> 0]

ASSUME RolloutAssumption ==
  /\ \A p \in Policies : p.found => p.percent \in Int /\ p.cooldown \in Nat \ {0}
  /\ LastTime \in Nat

VARIABLES
  clock,
  openUntil,   \* per release unit, when its circuit may be probed, or Never
  trippedAt,   \* history: when it tripped last
  decision     \* the last decision, and the unit it is for

rolloutVars == <<clock, openUntil, trippedAt, decision>>

ValidPercent(p) == 0 <= p /\ p <= 100

\* Fault: after the cooldown the policy has its share again.
EffectiveRecovers(u, p) == p.percent
EffectivePercent(u, p) == IF openUntil[u] # Never THEN HalfOpenPercent ELSE p.percent

\* appSelector, placementSelector, sdkSelector and adapterSelector
Selected(r) == r.selected

\* adapterRolloutPercentMap: an adapter without a share of its own is allowed.
AllowedAdapters(r, p) ==
  {a \in DOMAIN r.adapters :
     a \notin DOMAIN p.adapterPercent
     \/ (ValidPercent(p.adapterPercent[a]) /\ r.adapters[a] < p.adapterPercent[a])}

Decide(u, r, action, allowed) ==
  decision' = [unit |-> u, action |-> action, bucket |-> r.bucket, allowed |-> allowed]

Unchanged == UNCHANGED <<clock, openUntil, trippedAt>>

\* A request that lacks a field or an adapter, or a policy that is not there.
FallBackWithoutPolicy(u, r, p) ==
  /\ ~r.complete \/ ~p.found
  /\ Decide(u, r, "force_fallback", {})
  /\ Unchanged

Evaluated(r, p) == r.complete /\ p.found
Open(u) == openUntil[u] > clock

FallBackWhileOpen(u, r, p) ==
  /\ Evaluated(r, p) /\ Open(u)
  /\ Decide(u, r, "force_fallback", {})
  /\ Unchanged

LeaveOut(u, r, p) ==
  /\ Evaluated(r, p) /\ ~Open(u) /\ ~Selected(r)
  /\ Decide(u, r, "out_of_experiment", {})
  /\ Unchanged

FallBackOnPercent(u, r, p) ==
  /\ Evaluated(r, p) /\ ~Open(u) /\ Selected(r) /\ ~ValidPercent(EffectivePercent(u, p))
  /\ Decide(u, r, "force_fallback", {})
  /\ Unchanged

Counted(u, r, p) ==
  Evaluated(r, p) /\ ~Open(u) /\ Selected(r) /\ ValidPercent(EffectivePercent(u, p))

\* maybeTriggerCircuit: one of the metrics is at its threshold.
Trip(u, r, p) ==
  /\ Counted(u, r, p) /\ r.trips
  /\ openUntil' = [openUntil EXCEPT ![u] = clock + p.cooldown]
  /\ trippedAt' = [trippedAt EXCEPT ![u] = clock]
  /\ Decide(u, r, "force_fallback", {})
  /\ UNCHANGED clock

TakePart(u, r, p) ==
  LET allowed == AllowedAdapters(r, p)
      drawn == r.bucket < EffectivePercent(u, p)
  IN  /\ Counted(u, r, p) /\ ~r.trips
      /\ Decide(u, r, IF ~drawn THEN "out_of_experiment"
                      ELSE IF allowed = {} THEN "force_fallback" ELSE "in_experiment", allowed)
      /\ Unchanged

evaluateRolloutSelector(u, r, p) ==
  \/ FallBackWithoutPolicy(u, r, p) \/ FallBackWhileOpen(u, r, p) \/ LeaveOut(u, r, p)
  \/ FallBackOnPercent(u, r, p) \/ Trip(u, r, p) \/ TakePart(u, r, p)

Pass ==
  /\ clock < LastTime
  /\ clock' = clock + 1
  /\ UNCHANGED <<openUntil, trippedAt, decision>>

RolloutInit ==
  /\ clock = 0
  /\ openUntil = [u \in ReleaseUnits |-> Never]
  /\ trippedAt = [u \in ReleaseUnits |-> Never]
  /\ decision = [action |-> "none"]

RolloutNext ==
  \/ \E u \in ReleaseUnits, r \in RolloutRequests, p \in Policies : evaluateRolloutSelector(u, r, p)
  \/ Pass

RolloutSpec == RolloutInit /\ [][RolloutNext]_rolloutVars

ShortestCooldown == Min({p.cooldown : p \in {q \in Policies : q.found}})

(* A release unit whose circuit tripped serves its experiment to nobody for the
   cooldown of a policy at least, and from then on to no more than the
   half-open share, whatever policies, metrics and refusals come after. *)
TrippedStaysNarrow ==
  [][\A u \in ReleaseUnits :
       /\ decision' # decision /\ decision'.action = "in_experiment" /\ decision'.unit = u
       /\ trippedAt[u] # Never
       => /\ decision'.bucket < HalfOpenPercent
          /\ clock - trippedAt[u] >= ShortestCooldown]_rolloutVars
=============================================================================
