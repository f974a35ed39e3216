--------------------------- MODULE ContractRoute ---------------------------
(***************************************************************************)
(* One opportunity through modules C, D and E: the policy decides, the     *)
(* router plans over the sources that are registered, walks the plan, and  *)
(* concludes; the composer builds a render plan, delivers it, and the      *)
(* renders report.  Operators change the adapter register all the while.   *)
(* The order of the calls is the one the closed-loop scenarios make; the   *)
(* orchestrator that follows a plan's steps is outside the repository and  *)
(* is modelled from the answers resolveRouteTransition gives it.           *)
(***************************************************************************)
EXTENDS AdapterRegistry, PolicyGates, RoutePlan, DeliveryCompose

CONSTANTS Policies,     \* the policy inputs an opportunity may come with
          Strategies,   \* the execution strategies
          Budgets,      \* the route budgets
          Wants,        \* the placements and devices, want.type "" or the placement's type
          Claims,       \* what the orchestrator claims of the outcome
          Attempts,     \* render attempts of a response
          MaxReports    \* reports one behaviour makes

ASSUME RouteAssumption ==
  /\ Sources = DOMAIN SourceRecords /\ Sources = DOMAIN SupportedPlacementTypes
  /\ MaxChanges \in Nat /\ MaxReports \in Nat
  /\ \A q \in Policies : q.snapshot \in {"fresh", "expired_open", "expired_closed", "missing"}
  /\ \A x \in Strategies :
       DOMAIN x = {"type", "fanout", "fallback", "secondBidding", "timeout"} /\ x.fanout \in Int
  /\ \A c \in Claims : DOMAIN c = {"outcome", "auction", "ref", "tier", "served"}
  /\ \A w \in Wants : w.allowed \in Seq(STRING)

VARIABLES pc,           \* where the opportunity is
          ask,          \* [policy, strategy, budget, want, claim]: what it came with
          steps,        \* the plan
          filter,       \* the sources it was made from, and those it left out
          walk,         \* [tier, tried, asking, last, switches]
          candidates,   \* what the sources answered with
          out, plan, response

routeVars == <<pc, ask, steps, filter, walk, candidates, out, plan, response>>
allRouteVars == <<registryVars, eventVars, routeVars>>

Nothing == [ok |-> FALSE, status |-> "none", mode |-> "none", source |-> "none"]
NoOutput == [ok |-> FALSE, outcome |-> "none"]

Strategy == NormalizeExecutionStrategy(ask.strategy)

RouteInit ==
  /\ RegistryInit
  /\ pc = "policy"
  /\ ask \in [policy : Policies, strategy : Strategies, budget : Budgets, want : Wants, claim : Claims]
  /\ steps = <<>> /\ candidates = <<>> /\ filter = [filteredOut |-> {}, effective |-> {}]
  /\ walk = [tier |-> "primary", tried |-> {}, asking |-> 0, last |-> "none", switches |-> <<>>]
  /\ out = NoOutput /\ plan = Nothing /\ response = Nothing
  /\ terminals = [a \in Attempts |-> "none"] /\ reported = {}

Decision == PolicyDecision(ask.policy)

\* C's decision and D's plan are computed in one turn, from the register as it is.
Planned == Decision.routable /\ ValidateStrategy(Strategy)
Plan ==
  /\ pc = "policy"
  /\ filter' = IF Planned THEN SourceFilterSnapshot(ListRoutableAdapters(ask.want.type), Decision.constraints) ELSE filter
  /\ steps' = IF Planned THEN RouteSteps(filter'.effective, Strategy, ask.budget) ELSE <<>>
  /\ pc' = CASE ~Planned -> "blocked"
             [] Planned /\ RoutePlanStatus(steps') = "terminated" -> "walked"
             [] OTHER -> "walking"
  /\ walk' = [walk EXCEPT !.tier =
                IF \E k \in DOMAIN steps' : steps'[k].tier = "primary" /\ steps'[k].budget > 0
                THEN "primary" ELSE "start"]
  /\ UNCHANGED <<ask, candidates, out, plan, response, registryVars, eventVars>>

Open(tier) == {k \in DOMAIN steps : /\ steps[k].tier = tier /\ steps[k].budget > 0
                                    /\ k \notin walk.tried}

\* A plan without primary steps starts with the first tier that has one.
FirstTier == IF Open("secondary") # {} THEN "secondary" ELSE "fallback"
CurrentTier == IF walk.tier = "start" THEN FirstTier ELSE walk.tier

Parallel(tier) == \/ tier = "primary" /\ Strategy.type # "waterfall"
                  \/ tier = "secondary" /\ Strategy.type = "bidding"

\* The answer to the step's outcome: where the walk goes next.
After(tried, outcome, retryable) ==
  LET left(tier) == {k \in Open(tier) : k \notin tried} # {}
  IN ResolveRouteTransition(Strategy,
       [tier |-> CurrentTier, remaining |-> left(CurrentTier),
        secondary |-> left("secondary"), fallback |-> left("fallback")],
       outcome, retryable)

\* A parallel batch is awaited as a whole; a candidate of it decides for the batch.
Conclude(k, outcome, retryable) ==
  LET all    == IF walk.last = "served" THEN "served" ELSE outcome
      waits  == Parallel(CurrentTier) /\ Open(CurrentTier) # {k}
      next   == After({k}, all, retryable)
      goesOn == waits \/ next.action \in {"switch_tier", "continue_same_tier"}
      moves  == ~waits /\ next.action = "switch_tier"
  IN /\ walk' = [tier |-> IF moves THEN next.tier ELSE CurrentTier,
                 tried |-> walk.tried \cup {k}, asking |-> 0, last |-> all,
                 switches |-> IF moves THEN Append(walk.switches, next.reason) ELSE walk.switches]
     /\ pc' = IF goesOn THEN "walking" ELSE "walked"

\* adaptRequest looks the source up, and only then waits for its adapter.
AskSource(k) ==
  /\ pc = "walking" /\ walk.asking = 0
  /\ k \in Open(CurrentTier)
  /\ Parallel(CurrentTier) \/ \A j \in Open(CurrentTier) : k <= j
  /\ Routable(steps[k].source, ask.want.type)
  /\ walk' = [walk EXCEPT !.asking = k]
  /\ UNCHANGED <<pc, ask, steps, filter, candidates, out, plan, response, registryVars, eventVars>>

\* The source is no longer there, active and running: the step fails at once.
RefuseSource(k) ==
  /\ pc = "walking" /\ walk.asking = 0
  /\ k \in Open(CurrentTier)
  /\ Parallel(CurrentTier) \/ \A j \in Open(CurrentTier) : k <= j
  /\ ~Routable(steps[k].source, ask.want.type)
  /\ Conclude(k, "error", FALSE)
  /\ UNCHANGED <<ask, steps, filter, candidates, out, plan, response, registryVars, eventVars>>

\* The source answers: with a candidate, its price and perhaps its tier, or without one.
SourceServes(price, stated) ==
  /\ pc = "walking" /\ walk.asking # 0
  /\ candidates' = Append(candidates, [source |-> steps[walk.asking].source, price |-> price,
                                       tier |-> IF stated THEN steps[walk.asking].tier ELSE ""])
  /\ Conclude(walk.asking, "served", FALSE)
  /\ UNCHANGED <<ask, steps, filter, out, plan, response, registryVars, eventVars>>

SourceFails(outcome, retryable) ==
  /\ pc = "walking" /\ walk.asking # 0
  /\ Conclude(walk.asking, outcome, retryable)
  /\ UNCHANGED <<ask, steps, filter, candidates, out, plan, response, registryVars, eventVars>>

\* The outcome is that of the last step unless the orchestrator leaves it open.
Claimed ==
  [ask.claim EXCEPT !.outcome = CASE @ = "open"                         -> ""
                                  [] @ = "walk" /\ walk.last = "served" -> "served_candidate"
                                  [] @ = "walk" /\ walk.last = "error"  -> "error"
                                  [] @ = "walk" /\ walk.last \notin {"served", "error"} -> "no_fill"
                                  [] OTHER                              -> @]

Output ==
  /\ pc = "walked"
  /\ out' = DOutput(Claimed, candidates, steps, filter, walk.switches, Decision.constraints)
  /\ pc' = IF out'.ok THEN "composing" ELSE "blocked"
  /\ UNCHANGED <<ask, steps, filter, walk, candidates, plan, response, registryVars, eventVars>>

Deliver ==
  /\ pc = "composing"
  /\ plan' = Compose(out, ask.want)
  /\ response' = IF plan'.ok THEN DeliveryResponse(out, plan') ELSE Nothing
  /\ pc' = IF plan'.ok THEN "delivered" ELSE "blocked"
  /\ UNCHANGED <<ask, steps, filter, walk, candidates, out, registryVars, eventVars>>

Report(attempt, report, told) ==
  /\ pc = "delivered" /\ response.ok
  /\ Cardinality(reported) < MaxReports
  /\ BuildEvent(response, attempt, report, told)
  /\ UNCHANGED <<routeVars, registryVars>>

Operators == pc \in {"policy", "walking"} /\ RegistryNext /\ UNCHANGED <<routeVars, eventVars>>

OpportunityNext ==
  \/ Plan \/ Output \/ Deliver
  \/ \E k \in DOMAIN steps : AskSource(k) \/ RefuseSource(k)
  \/ \E price \in {0, 1}, stated \in BOOLEAN : SourceServes(price, stated)
  \/ \E outcome \in {"no_fill", "error", "timeout", "budget_exhausted"}, retryable \in BOOLEAN :
       SourceFails(outcome, retryable)
  \/ \E a \in Attempts, r \in {"ad_rendered", "ad_render_failed", "on_click"},
        told \in {Untold, "served", "no_fill"} : Report(a, r, told)

RouteNext == Operators \/ OpportunityNext

RouteSpec == RouteInit /\ [][RouteNext]_allRouteVars

----------------------------------------------------------------------------
(* What a served response, and an impression reported with the status of its
   response, stand on across the three modules: no gate of the policy would have
   blocked the opportunity, those after a short circuit included; the source is one
   the plan asked, supports the placement's type, is not blocked, and is on the
   allowlist when the policy keeps one; it is the winner that
   was referred to, and the audit names its step; and the mode is one the
   placement, the device and the policy agree on.  Conversely, a winner the
   render gate would let through is shown.  (policy-engine.js, route-planner.js,
   route-audit.js, output-builder.js, compose.js, render-gate.js, event-output.js) *)
Shown == response.status = "served" \/ \E e \in reported : e.type = "impression" /\ e.told = Untold

SourceIsPermitted ==
  LET q == ask.policy IN
  /\ q.snapshot \in {"fresh", "expired_open"}
  /\ \A i \in 1..4 : GateAction(GateOrder[i], q) # "block"
  /\ response.source \notin q.blocked /\ Supports(response.source, ask.want.type)
  /\ q.selection = "allowlist_only" /\ ~(q.allowed \subseteq q.blocked)
       => response.source \in q.allowed

SourceIsTheWinner ==
  /\ ask.claim.ref \in {"", response.source}
  /\ out.audit.hitStep \in walk.tried
  /\ steps[out.audit.hitStep].source = response.source
  /\ response.source \in out.audit.pool \ out.audit.filteredOut

ModeIsPermitted ==
  /\ response.mode \notin ask.policy.disallow \cap {"webview", "video_vast_container"}
  /\ \E i \in DOMAIN ask.want.allowed : ask.want.allowed[i] = response.mode
  /\ response.mode # "native_card" => response.mode \in ask.want.supported \cap ask.want.enabled
  /\ plan.container.type = response.mode /\ response.source \notin plan.dropped

ShownIsPermitted ==
  /\ Shown => SourceIsPermitted /\ SourceIsTheWinner /\ ModeIsPermitted
  /\ pc = "delivered" /\ out.served /\ RenderGateHint(ask.want, out.constraints) = "served"
       => response.status = "served"

(* A walk that ends with nothing has asked every step that was given time: a
   tier is left out only by a waterfall that met an error it might have
   retried and went on to its fallback tier.  (route-planner.js:490) *)
NoFillTriesAll ==
  pc \notin {"policy", "walking", "blocked"} /\ walk.last = "no_fill" =>
    \A k \in DOMAIN steps :
      steps[k].budget > 0 /\ k \notin walk.tried =>
        /\ Strategy.type = "waterfall" /\ steps[k].tier = "secondary"
        /\ walk.switches = <<"strategy_fallback">>

(* A stop that was called for a registration that is gone does not stop the
   adapter registered in its place.  (adapter-registry.js:339) *)
OldStopSparesNew ==
  [][\A s \in Sources :
       entry[s].life = "running" /\ entry'[s].life = "stopped" =>
         \E call \in lifecycle : call.source = s /\ call.gen = entry[s].gen]_allRouteVars
=============================================================================
