-------------------------- MODULE DeliveryCompose --------------------------
(***************************************************************************)
(* Module E of the contract loop, the delivery composer (delivery-composer/*)
(* compose.js, render-gate.js, delivery-output.js, event-output.js): the   *)
(* render mode a placement, a device and the policy leave, the render plan,*)
(* the response it is delivered in, and the events a render reports.       *)
(*   want.allowed    the placement's render modes, in its order            *)
(*   want.known      FALSE when the device sent no capabilities            *)
(*   want.supported, want.enabled   the device's modes and its mode flags  *)
(*   want.slots      the device's maxRenderSlotCount                       *)
(*   want.cards      the placement's maxRenderCount                        *)
(*   want.lacks      the parts the request leaves out                      *)
(*   want.anchors    the versions it states, want.ttl the time it gives    *)
(***************************************************************************)
EXTENDS Naturals, Sequences, FiniteSetsExt

RenderModes == {"native_card", "webview", "mraid_container", "video_vast_container"}
DefaultTtl == 5000
NoCandidate == [source |-> "none", price |-> 0, tier |-> "none"]

Corrected(n, default) == IF n < 1 THEN default ELSE n

----------------------------------------------------------------------------
\* What the request says, as compose takes it.  Modes nobody knows are dropped:
\* the modes that are left are known by their places.
KnownModes(want) == {i \in DOMAIN want.allowed : want.allowed[i] \in RenderModes}
NormalizePlacementSpec(want) ==
  [ok      |-> want.lacks \cap {"placement", "profile"} = {} /\ KnownModes(want) # {},
   allowed |-> KnownModes(want),
   cards   |-> Corrected(want.cards, 1)]

\* A device that sent nothing is taken for one that renders native cards.
NormalizeDeviceCapabilities(want) ==
  IF want.known
  THEN [modes |-> want.supported \cap RenderModes, enabled |-> want.enabled,
        slots |-> Corrected(want.slots, 1)]
  ELSE [modes |-> {"native_card"}, enabled |-> {}, slots |-> 1]

ModeSupportedByDevice(mode, device) == mode = "native_card" \/ mode \in device.enabled

EligibleModes(want, constraints) ==
  LET device == NormalizeDeviceCapabilities(want)
  IN {i \in NormalizePlacementSpec(want).allowed :
        /\ want.allowed[i] \in device.modes /\ ModeSupportedByDevice(want.allowed[i], device)
        /\ want.allowed[i] \notin constraints.disallow}

\* Three versions are taken from the route when the request states none.
RequiredAnchors ==
  {"eComposeInputContractVersion", "dOutputContractVersion", "schemaVersion",
   "placementConfigVersion", "renderPolicyVersion", "deviceCapabilityProfileVersion",
   "routingPolicyVersion", "constraintSetVersion"}
ResolveVersionAnchors(want) ==
  [a \in RequiredAnchors |->
     IF a \in want.anchors THEN "stated"
     ELSE IF a \in {"dOutputContractVersion", "routingPolicyVersion", "constraintSetVersion"}
          THEN "route" ELSE "missing"]

----------------------------------------------------------------------------
\* The same question as the render gate asks it: it also wants a slot for a
\* native card, and it prefers the richest mode.
ModeChain == <<"video_vast_container", "mraid_container", "webview", "native_card">>

GatePasses(mode, want, constraints) ==
  /\ \E i \in DOMAIN want.allowed : want.allowed[i] = mode
  /\ want.known /\ mode \in want.supported
  /\ IF mode = "native_card" THEN want.slots >= 1 ELSE mode \in want.enabled
  /\ mode \notin constraints.disallow

RenderGateHint(want, constraints) ==
  IF \E i \in 1..4 : GatePasses(ModeChain[i], want, constraints) THEN "served" ELSE "no_fill"

----------------------------------------------------------------------------
\* A served route has a winner with a price, and the candidates are counted right.
ValidateDOutput(out) ==
  out.served => /\ out.winner # NoCandidate /\ out.winner.price > 0
                /\ \E i \in DOMAIN out.candidates : out.candidates[i] = out.winner

ComposeChecks(out, want) ==
  LET placement == NormalizePlacementSpec(want)
      anchors   == ResolveVersionAnchors(want)
      native    == \E i \in placement.allowed : want.allowed[i] = "native_card"
  IN <<[fails |-> ~ValidateDOutput(out), as |-> "winner_binding_invalid"],
       [fails |-> ~placement.ok, as |-> "placement_invalid"],
       [fails |-> ~want.known /\ ~native, as |-> "missing_device_capabilities"],
       [fails |-> NormalizeDeviceCapabilities(want).modes = {}, as |-> "invalid_render_mode"],
       [fails |-> \E a \in RequiredAnchors : anchors[a] = "missing", as |-> "invalid_version_anchor"]>>

\* The first check that fails names the refusal.
ComposeRefusal(out, want) ==
  LET checks == ComposeChecks(out, want)
      failed == {i \in 1..5 : checks[i].fails}
  IN IF failed = {} THEN "none" ELSE checks[Min(failed)].as

ComposeDeliveryStatus(out, selected, mode) ==
  CASE out.served /\ selected # NoCandidate /\ mode # "none" -> "served"
    [] ~(out.served /\ selected # NoCandidate /\ mode # "none") /\ out.outcome = "error" -> "error"
    [] OTHER -> "no_fill"

\* A route that did not serve still has its first candidate selected, and bound
\* to the plan; only the status does not use it.
SelectedCandidate(out, mode) ==
  CASE mode # "none" /\ out.served -> out.winner
    [] mode # "none" /\ ~out.served /\ out.candidates # <<>> -> out.candidates[1]
    [] OTHER -> NoCandidate

ConsumptionReason(out, selected) ==
  CASE selected # NoCandidate -> "candidate_selected"
    [] selected = NoCandidate /\ out.served -> "candidate_not_renderable"
    [] selected = NoCandidate /\ ~out.served /\ out.candidates # <<>> -> "all_rejected"
    [] OTHER -> "no_candidate_input"

DropRefs(out, selected) == {out.candidates[i].source : i \in DOMAIN out.candidates} \ {selected.source}

\* Only a native card takes several cards, and only it shows no creative of its own.
RenderContainer(mode, want, selected) ==
  CASE mode = "native_card" ->
         [type |-> mode, creative |-> "none", cards |-> NormalizePlacementSpec(want).cards]
    [] mode \in RenderModes \ {"native_card"} ->
         [type |-> mode, creative |-> selected.source, cards |-> 0]
    [] OTHER -> [type |-> "none", creative |-> "none", cards |-> 0]

\* The events a client is told to report with.
TrackingInjection ==
  [onRenderStart |-> "ad_render_started", onRenderSuccess |-> "ad_rendered",
   onRenderFailure |-> "ad_render_failed", onClick |-> "ad_clicked"]

FinalReasonCode(status, consumption) ==
  CASE status = "served" -> "none"
    [] status = "no_fill" /\ consumption = "no_candidate_input" -> "e_nf_no_candidate_input"
    [] status = "no_fill" /\ consumption # "no_candidate_input" -> "e_nf_all_candidate_rejected"
    [] OTHER -> "e_er_invalid_compose_input"

ComposeWarnings(want) ==
  {w \in {"device", "modes", "cards", "slots", "ttl"} :
     CASE w = "device" -> ~want.known
       [] w = "modes"  -> (\E i \in DOMAIN want.allowed : want.allowed[i] \notin RenderModes)
                          \/ (want.known /\ ~(want.supported \subseteq RenderModes))
       [] w = "cards"  -> want.cards < 1
       [] w = "slots"  -> want.known /\ want.slots < 1
       [] OTHER        -> want.ttl < 1}

Compose(out, want) ==
  LET eligible == EligibleModes(want, out.constraints)
      mode     == IF eligible = {} THEN "none" ELSE want.allowed[Min(eligible)]
      selected == SelectedCandidate(out, mode)
      status   == ComposeDeliveryStatus(out, selected, mode)
      shown    == IF status = "served" THEN mode ELSE "none"
      reason   == ConsumptionReason(out, selected)
  IN [ok        |-> ComposeRefusal(out, want) = "none",
      refusal   |-> ComposeRefusal(out, want),
      status    |-> status,
      mode      |-> shown,
      container |-> RenderContainer(shown, want, selected),
      selected  |-> selected,
      dropped   |-> DropRefs(out, selected),
      ttl       |-> Corrected(want.ttl, DefaultTtl),
      warnings  |-> ComposeWarnings(want),
      tracking  |-> TrackingInjection,
      code      |-> FinalReasonCode(status, reason)]

WinnerMatched(out, plan) ==
  out.outcome = "served_candidate" =>
    /\ out.winner # NoCandidate
    /\ plan.selected = out.winner

RouteConsistent(out, plan) ==
  \/ out.outcome = plan.status
  \/ out.outcome = "served_candidate" /\ plan.status = "served" /\ WinnerMatched(out, plan)
  \/ out.outcome = "served_candidate" /\ plan.status \in {"no_fill", "error"}

\* What the composition overrides of the route is told with the response.
ConsistencyAction(out, plan) ==
  IF out.outcome = "served_candidate" /\ plan.status # "served" THEN "override_by_e" ELSE "pass_through"

NoFillCodes == {"e_nf_no_candidate_input", "e_nf_all_candidate_rejected"}

DeliveryResponse(out, plan) ==
  [ok     |-> /\ plan.status = "no_fill" => plan.code \in NoFillCodes
              /\ plan.status = "error" => plan.code = "e_er_invalid_compose_input"
              /\ RouteConsistent(out, plan),
   status |-> plan.status,
   mode   |-> plan.mode,
   action |-> ConsistencyAction(out, plan),
   source |-> IF plan.status = "served" THEN plan.selected.source ELSE "none"]

----------------------------------------------------------------------------
VARIABLES terminals,   \* render attempt -> the terminal event it was given, or "none"
          reported     \* the events built for the accounting side

eventVars == <<terminals, reported>>

EventOf(report) ==
  CASE report = "ad_rendered"      -> "impression"
    [] report = "ad_render_failed" -> "failure"
    [] report = "on_click"         -> "click"
    [] OTHER                       -> "none"

\* One report of a render attempt on a delivered response.  The status the caller
\* tells of the delivery is believed over the one of the response.
Untold == ""
BuildEvent(response, attempt, report, told) ==
  LET type     == EventOf(report)
      status   == IF told = Untold THEN response.status ELSE told
      terminal == type \in {"impression", "failure"}
  IN /\ type # "none"
     /\ type = "impression" => status = "served"
     /\ terminal => terminals[attempt] = "none"
     /\ terminals' = IF terminal THEN [terminals EXCEPT ![attempt] = type] ELSE terminals
     /\ reported' = reported \cup {[attempt |-> attempt, type |-> type, told |-> told]}
=============================================================================
