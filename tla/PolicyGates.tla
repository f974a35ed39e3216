---------------------------- MODULE PolicyGates ----------------------------
(***************************************************************************)
(* Module C of the contract loop, policy and safety: the gates an          *)
(* opportunity passes, in their order, and the constraints the decision    *)
(* hands to routing and delivery (policy-safety/policy-engine.js and       *)
(* output-builder.js).  Pure functions of one input record                 *)
(*   q.snapshot     "fresh", "expired_open", "expired_closed", "missing";  *)
(*                  "missing" is every other input the guard refuses       *)
(*   q.compliance   "block", "degrade" or "allow", as the snapshot says    *)
(*   q.outcome      TRUE when ingress marked the opportunity blocked       *)
(*   q.consent      the user's scope, q.consentBlocked the blocked scopes, *)
(*                  q.degradeOnLimited whether a limited one degrades      *)
(*   q.count, q.hardCap, q.softCap         frequency                       *)
(*   q.flags, q.hardFlags, q.softFlags     restricted categories           *)
(*   q.selection, q.allowed, q.blocked     source constraints              *)
(*   q.disallow     the render modes the policy disallows                  *)
(***************************************************************************)
EXTENDS Naturals

GateOrder == <<"compliance_gate", "consent_auth_gate", "frequency_cap_gate", "category_gate">>

ComplianceGate(q) ==
  IF q.compliance = "block" \/ q.outcome THEN "block" ELSE q.compliance

ConsentAuthGate(q) ==
  CASE q.consent \in q.consentBlocked   -> "block"
    [] q.consent = "consent_limited" /\ q.degradeOnLimited
         /\ q.consent \notin q.consentBlocked -> "degrade"
    [] OTHER -> "allow"

\* The hard cap is passed before it blocks; the soft one degrades when reached.
FrequencyCapGate(q) ==
  CASE q.count > q.hardCap                        -> "block"
    [] q.count <= q.hardCap /\ q.count >= q.softCap -> "degrade"
    [] OTHER -> "allow"

CategoryGate(q) ==
  CASE q.flags \cap q.hardFlags # {} -> "block"
    [] q.flags \cap q.hardFlags = {} /\ q.flags \cap q.softFlags # {} -> "degrade"
    [] OTHER -> "allow"

GateAction(gate, q) ==
  CASE gate = "compliance_gate"    -> ComplianceGate(q)
    [] gate = "consent_auth_gate"  -> ConsentAuthGate(q)
    [] gate = "frequency_cap_gate" -> FrequencyCapGate(q)
    [] OTHER                       -> CategoryGate(q)

\* An expired snapshot is refused when it fails closed and degrades when it fails open.
InputAccepted(q) == q.snapshot \notin {"missing", "expired_closed"}

\* Fault: the gate that blocks is left out of what the decision is made of.
ExecutedBeforeBlock(q) ==
  LET Blocks(i) == GateAction(GateOrder[i], q) = "block"
  IN {i \in 1..4 : \A j \in 1..i : ~Blocks(j)}

\* The gates that ran: up to the first one that blocks.
ExecutedGates(q) ==
  LET Blocks(i) == GateAction(GateOrder[i], q) = "block"
  IN {i \in 1..4 : \A j \in 1..(i - 1) : ~Blocks(j)}

FinalPolicyAction(q) ==
  LET actions == {GateAction(GateOrder[i], q) : i \in ExecutedGates(q)}
  IN CASE ~InputAccepted(q) -> "reject"
       [] InputAccepted(q) /\ "block" \in actions -> "block"
       [] InputAccepted(q) /\ "block" \notin actions
            /\ ("degrade" \in actions \/ q.snapshot = "expired_open") -> "degrade"
       [] OTHER -> "allow"

\* A source both allowed and blocked counts as blocked; an allowlist that is
\* empty after that becomes "all except blocked".  Only two render modes can be
\* disallowed, any other is dropped.
ConstraintsLite(q) ==
  LET allowed == q.allowed \ q.blocked
  IN [selection |-> IF q.selection = "allowlist_only" /\ allowed = {}
                    THEN "all_except_blocked" ELSE q.selection,
      allowed   |-> allowed,
      blocked   |-> q.blocked,
      disallow  |-> q.disallow \cap {"webview", "video_vast_container"}]

PolicyDecision(q) ==
  LET action == FinalPolicyAction(q)
  IN [action      |-> action,
      routable    |-> action \in {"allow", "degrade"},
      constraints |-> ConstraintsLite(q)]
=============================================================================
