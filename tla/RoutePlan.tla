----------------------------- MODULE RoutePlan -----------------------------
(***************************************************************************)
(* Module D's route planner and its conclusion (supply-routing/            *)
(* route-planner.js and output-builder.js): the sources a policy leaves,   *)
(* the steps of a plan with the time each may take, what follows a step's  *)
(* outcome, and the output a walk over the plan ends in.  A strategy is    *)
(*   [type, fanout, fallback, secondBidding, timeout]                      *)
(***************************************************************************)
EXTENDS Integers, Sequences, FiniteSetsExt

\* What each source declares: [declared, tags, priority, success, latency, cost, name, timeout].
CONSTANT SourceRecords

ASSUME SourceAssumption ==
  /\ IsFiniteSet(DOMAIN SourceRecords)
  /\ \A s \in DOMAIN SourceRecords :
       LET r == SourceRecords[s]
       IN {r.priority, r.success, r.latency, r.cost, r.name} \subseteq Int
  /\ \A s, u \in DOMAIN SourceRecords : SourceRecords[s].name = SourceRecords[u].name => s = u

Tiers == {"primary", "secondary", "fallback"}
AtLeastOne(n) == IF n < 1 THEN 1 ELSE n
Take(seq, n) == SubSeq(seq, 1, Min({n, Len(seq)}))

\* A tier that is not one is read from the tags.
TierOf ==
  [s \in DOMAIN SourceRecords |->
     LET r == SourceRecords[s]
         tagged == IF "tier_fallback" \in r.tags THEN "fallback"
                   ELSE IF "tier_secondary" \in r.tags THEN "secondary" ELSE "primary"
     IN IF r.declared \in Tiers THEN r.declared ELSE tagged]

SourceTimeout == [s \in DOMAIN SourceRecords |-> AtLeastOne(SourceRecords[s].timeout)]

\* The best source of a tier first; the name decides when all else is equal.
SortKey(s) ==
  LET r == SourceRecords[s] IN <<-r.priority, -r.success, r.latency, r.cost, r.name>>
Precedes(a, b) ==
  \E i \in 1..5 : /\ SortKey(a)[i] < SortKey(b)[i]
                  /\ \A j \in 1..5 : j < i => SortKey(a)[j] = SortKey(b)[j]
InOrder(S) ==
  CHOOSE order \in [1..Cardinality(S) -> S] :
    \A i, j \in 1..Cardinality(S) : i < j => Precedes(order[i], order[j])

\* A waterfall has no fanout; what is not stated, or too small, gets a default.
NormalizeExecutionStrategy(given) ==
  LET type == IF given.type = "" THEN "waterfall" ELSE given.type
  IN [given EXCEPT !.type = type,
                   !.fanout = IF type = "waterfall" THEN 1 ELSE AtLeastOne(@),
                   !.fallback = IF @ = "" THEN "on_no_fill_or_error" ELSE @,
                   !.timeout = AtLeastOne(@)]

ValidateStrategy(strategy) ==
  /\ strategy.type \in {"waterfall", "bidding", "hybrid"}
  /\ strategy.fallback \in {"on_no_fill_only", "on_no_fill_or_error", "disabled"}

EffectivePool(sources, constraints) ==
  LET base == IF constraints.selection = "allowlist_only"
              THEN sources \cap constraints.allowed ELSE sources
  IN base \ constraints.blocked

TierSources(pool, tier) == InOrder({s \in pool : TierOf[s] = tier})

ShouldCreateFallbackSteps(strategy) == strategy.fallback # "disabled"

\* The sources of the steps, in order: a bidding tier takes only its fanout.
StepSources(pool, strategy) ==
  LET primary == TierSources(pool, "primary")
      second  == TierSources(pool, "secondary")
      last    == IF ShouldCreateFallbackSteps(strategy) THEN TierSources(pool, "fallback") ELSE <<>>
  IN CASE strategy.type = "waterfall" -> primary \o second \o last
       [] strategy.type = "bidding"   ->
            Take(primary, strategy.fanout)
              \o (IF strategy.secondBidding THEN Take(second, strategy.fanout) ELSE <<>>) \o last
       [] OTHER -> Take(primary, strategy.fanout) \o second \o last

AllocateStepBudget(remaining, source, strategy) ==
  Min({remaining, SourceTimeout[source], strategy.timeout})

\* What is left of the route's budget before step k.
Remaining(steps, strategy, budget) ==
  LET left[k \in 1..Len(steps) + 1] ==
        IF k = 1 THEN budget
        ELSE left[k - 1] - AllocateStepBudget(left[k - 1], steps[k - 1], strategy)
  IN left

\* A step without budget is planned as skipped.
RouteSteps(pool, strategy, budget) ==
  LET steps == StepSources(pool, strategy)
      left  == Remaining(steps, strategy, budget)
  IN [k \in 1..Len(steps) |->
        [source |-> steps[k], tier |-> TierOf[steps[k]],
         budget |-> AllocateStepBudget(left[k], steps[k], strategy)]]

RoutePlanStatus(steps) ==
  IF \E k \in DOMAIN steps : steps[k].budget > 0 THEN "planned" ELSE "terminated"

\* What the plan says of the sources it did not take.
SourceFilterSnapshot(sources, constraints) ==
  [filteredOut |-> IF constraints.selection = "allowlist_only"
                   THEN sources \cap constraints.allowed \cap constraints.blocked
                   ELSE sources \cap constraints.blocked,
   effective   |-> EffectivePool(sources, constraints)]

\* Fault: a no-fill is not one of the outcomes of "on_no_fill_or_error".
FallbackOnErrors(outcome, policy) ==
  CASE policy = "disabled"        -> FALSE
    [] policy = "on_no_fill_only" -> outcome = "no_fill"
    [] OTHER                      -> outcome \in {"error", "timeout"}

ShouldFallbackForOutcome(outcome, policy) ==
  CASE policy = "disabled"        -> FALSE
    [] policy = "on_no_fill_only" -> outcome = "no_fill"
    [] OTHER                      -> outcome \in {"no_fill", "error", "timeout"}

\* The walk ends with these whatever steps are left.
TerminalOutcomes == {"policy_block", "budget_exhausted"}

\* at: [tier, remaining, secondary, fallback], the last three whether steps are left.
ResolveRouteTransition(strategy, at, outcome, retryable) ==
  LET canFallback == ShouldFallbackForOutcome(outcome, strategy.fallback) /\ at.fallback
      canSecond   == CASE strategy.type = "waterfall" -> outcome # "error" \/ ~retryable
                       [] strategy.type = "bidding"   -> strategy.secondBidding
                       [] OTHER                       -> TRUE
      Answer(a, t, r) == [action |-> a, tier |-> t, reason |-> r]
  IN CASE outcome = "served" -> Answer("served", "none", "served")
       [] outcome \in TerminalOutcomes -> Answer("terminal", "none", outcome)
       [] outcome \notin {"served"} \cup TerminalOutcomes /\ at.remaining ->
            Answer("continue_same_tier", at.tier, outcome)
       [] outcome \notin {"served"} \cup TerminalOutcomes /\ ~at.remaining
            /\ at.tier = "primary" /\ at.secondary /\ canSecond ->
            Answer("switch_tier", "secondary",
                   IF strategy.type = "waterfall" THEN outcome ELSE "strategy_fallback")
       [] outcome \notin {"served"} \cup TerminalOutcomes /\ ~at.remaining
            /\ ~(at.tier = "primary" /\ at.secondary /\ canSecond)
            /\ at.tier \in {"primary", "secondary"} /\ canFallback ->
            Answer("switch_tier", "fallback", "strategy_fallback")
       [] OTHER -> Answer("exhausted", "none", outcome)

\* The route audit that the output carries takes these switch reasons and no other.
AuditAccepts(switches) ==
  \A i \in DOMAIN switches :
    switches[i] \in {"no_fill", "timeout", "error", "policy_block", "strategy_fallback"}

\* The audit takes the sources of the plan's steps for the pool, and looks the
\* step that hit up by its source when the caller does not number it.
RouteAudit(steps, filter, conclusion, source, switches) ==
  LET of(name) == {k \in DOMAIN steps : steps[k].source = name}
  IN [pool        |-> IF steps = <<>> THEN filter.effective
                      ELSE {steps[k].source : k \in DOMAIN steps},
      filteredOut |-> filter.filteredOut,
      hitTier     |-> IF conclusion.tier \in Tiers THEN conclusion.tier ELSE "primary",
      hitSource   |-> source,
      hitStep     |-> IF of(source) = {} THEN 0 ELSE Min(of(source)),
      switches    |-> switches]

----------------------------------------------------------------------------
\* The output handed to delivery.  The caller may claim an outcome, a winner of
\* the auction and a winner's reference, and a tier; "" is what it does not state.
NoOne == [source |-> "none", price |-> 0, tier |-> "none"]

\* A candidate that states no tier counts as a primary one.
OutputCandidate(c) == [c EXCEPT !.tier = IF @ \in Tiers THEN @ ELSE "primary"]

ResolveRouteOutcome(claim, candidates) ==
  IF claim.outcome # "" THEN claim.outcome
  ELSE IF candidates # <<>> THEN "served_candidate" ELSE "no_fill"

\* A winner that is not among the candidates is passed over for the first of them.
FindWinnerCandidate(claim, candidates) ==
  LET named == IF claim.auction # "" THEN claim.auction ELSE claim.ref
      hits  == {i \in DOMAIN candidates : candidates[i].source = named}
  IN IF candidates = <<>> THEN NoOne
     ELSE IF hits = {} THEN candidates[1] ELSE candidates[Min(hits)]

ResolveFinalRouteTier(claim, winner, outcome) ==
  IF claim.tier # "" THEN claim.tier
  ELSE IF outcome = "served_candidate" THEN winner.tier ELSE "none"

RouteOutcomeToState(outcome) ==
  CASE outcome = "served_candidate" -> "served" [] outcome = "error" -> "error" [] OTHER -> "no_fill"

RouteConclusion(claim, winner, outcome) ==
  LET tier == ResolveFinalRouteTier(claim, winner, outcome)
  IN [outcome |-> outcome, tier |-> tier, fallbackUsed |-> tier = "fallback",
      state |-> RouteOutcomeToState(outcome)]

\* Whether the auction, as it is claimed, is the one that is concluded.
AuctionAgrees(claim, winner, outcome) ==
  IF outcome = "served_candidate"
  THEN winner # NoOne /\ claim.served # "no" /\ claim.ref \in {"", winner.source}
  ELSE claim.served # "yes"

\* The output hands on the constraints without the sources that are blocked anyway.
NormalizePolicyConstraints(constraints) ==
  [constraints EXCEPT !.allowed = @ \ constraints.blocked]

DOutput(claim, given, steps, filter, switches, constraints) ==
  LET candidates == [i \in DOMAIN given |-> OutputCandidate(given[i])]
      outcome    == ResolveRouteOutcome(claim, candidates)
      winner     == IF outcome = "served_candidate" THEN FindWinnerCandidate(claim, candidates) ELSE NoOne
      conclusion == RouteConclusion(claim, winner, outcome)
  IN [ok          |-> /\ outcome \in {"served_candidate", "no_fill", "error"}
                      /\ conclusion.tier \in Tiers \cup {"none"}
                      /\ outcome = "served_candidate" => conclusion.tier # "none"
                      /\ AuctionAgrees(claim, winner, outcome)
                      /\ AuditAccepts(switches),
      outcome     |-> outcome,
      served      |-> outcome = "served_candidate",
      candidates  |-> candidates,
      winner      |-> winner,
      conclusion  |-> conclusion,
      audit       |-> RouteAudit(steps, filter, conclusion, winner.source, switches),
      constraints |-> NormalizePolicyConstraints(constraints)]
=============================================================================
