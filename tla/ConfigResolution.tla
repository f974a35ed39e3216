--------------------------- MODULE ConfigResolution ---------------------------
(***************************************************************************)
(* One request's configuration: resolved from the global, the app and the  *)
(* placement scope, each overriding the ones before it, and then the       *)
(* version gate that judges the SDK and the adapters by it.                *)
(*                                                                         *)
(* A scope gives each setting a value (a number here), takes it back with  *)
(* null, has an invalid value of the wrong type or range, or is silent     *)
(* about it.  The map of minimal adapter versions is a setting per         *)
(* adapter.                                                                *)
(***************************************************************************)
EXTENDS Integers, Sequences, SequencesExt, FiniteSets

CONSTANTS
  Adapters,
  ScopeInputs,     \* the configurations a scope may have
  GateInputs       \* what a request tells the gate of its SDK and adapters

\* ttlSec and the four references stand or fall like the setting "refs".
Required == {"refs", "sdkMinVersion", "missingMinVersionPolicy"}
Settings == Required \cup Adapters
Silent == -1
Invalid == -2
Null == -3
Unset == [value |-> Null, from |-> 0]

\* missingMinVersionPolicy
PolicyReject == 0
PolicyBlock == 1

ASSUME ResolutionAssumption ==
  /\ \A s \in ScopeInputs :
       /\ s.available \in BOOLEAN /\ s.compatible \in BOOLEAN
       /\ s.settings \in [Settings -> Nat \cup {Silent, Invalid, Null}]
  /\ \A g \in GateInputs :
       /\ DOMAIN g.versions \subseteq Adapters
       /\ DOMAIN g.own \subseteq Settings /\ DOMAIN g.own \cap Adapters \in {{}, Adapters}

VARIABLES
  scopes,     \* global, app and placement scope of the request
  resolved,   \* its resolved configuration
  gate        \* the decision of the version gate, with what it was asked

resolutionVars == <<scopes, resolved, gate>>

----------------------------------------------------------------------------
(* resolveConfig *)

\* A map with one invalid entry is invalid.
Setting(s, f) ==
  IF f \in Adapters /\ \E a \in Adapters : s.settings[a] = Invalid
  THEN Invalid ELSE s.settings[f]

\* Fault: what is taken back falls to the scope before.
ApplyScopeKeeps(config, s, n) ==
  [f \in Settings |->
     IF Setting(s, f) \in {Silent, Invalid, Null} THEN config[f]
     ELSE [value |-> Setting(s, f), from |-> n]]

applyScope(config, s, n) ==
  [f \in Settings |->
     CASE Setting(s, f) \in {Silent, Invalid} -> config[f]
       [] Setting(s, f) = Null -> Unset
       [] OTHER ->  [value |-> Setting(s, f), from |-> n]]

Usable(s) == s.available /\ s.compatible

\* The global, then the app, then the placement scope.
Overridden(config, given, n) ==
  IF Usable(given[n]) THEN applyScope(config, given[n], n) ELSE config
Merged(given) ==
  LET global == Overridden([f \in Settings |-> Unset], given, 1)
      app == Overridden(global, given, 2)
  IN  Overridden(app, given, 3)

Degrades(s) == ~Usable(s) \/ \E f \in Settings : Setting(s, f) = Invalid

Complete(config) ==
  /\ \A f \in Required : config[f] # Unset
  /\ \E a \in Adapters : config[a] # Unset

\* Without a usable global scope, or a complete request, nothing is merged.
resolveConfig(given, requestComplete) ==
  LET mergeable == requestComplete /\ Usable(given[1])
      config == IF mergeable THEN Merged(given) ELSE [f \in Settings |-> Unset]
  IN  [config |-> config,
       status |-> IF ~Complete(config) THEN "rejected"
                  ELSE IF \E n \in DOMAIN given : Degrades(given[n]) THEN "degraded" ELSE "resolved"]

----------------------------------------------------------------------------
(* evaluateVersionGate, on the effective configuration whatever its status *)

\* What a request states itself comes first; a map of minima that it states
\* replaces the configured one whole, and says Null of what is not in it.
normalizeGateInput(config, g) ==
  [f \in Settings |->
     CASE f \notin DOMAIN g.own -> config[f]
       [] f \in DOMAIN g.own /\ g.own[f] = Null -> Unset
       [] OTHER -> [value |-> g.own[f], from |-> 4]]

Rejected == [action |-> "reject", compatible |-> {}, blocked |-> {}]

MinOf(config, a) == config[a].value
Known(config, a) == config[a] # Unset

Compatible(config, versions) ==
  {a \in DOMAIN versions : Known(config, a) /\ versions[a] >= MinOf(config, a)}

RejectedEarly(config, g) ==
  \/ ~g.complete \/ g.schema = "no policy" \/ g.schema = "incompatible"
  \/ config["sdkMinVersion"] = Unset \/ config["missingMinVersionPolicy"] = Unset
  \/ g.sdk < config["sdkMinVersion"].value /\ ~g.grace

AdaptersRejected(config, g) ==
  LET ids == DOMAIN g.versions
  IN  \/ /\ config["missingMinVersionPolicy"].value = PolicyReject
         /\ \E a \in ids : ~Known(config, a)
      \/ ids # {} /\ Compatible(config, g.versions) = {}

evaluateVersionGate(given, g) ==
  LET config == normalizeGateInput(given, g)
      compatible == Compatible(config, g.versions)
      blocked == DOMAIN g.versions \ compatible
  IN  IF RejectedEarly(config, g) \/ AdaptersRejected(config, g) THEN Rejected
      ELSE [action |-> IF \/ g.schema = "degrade" \/ blocked # {}
                          \/ g.sdk < config["sdkMinVersion"].value
                       THEN "degrade" ELSE "allow",
            compatible |-> compatible, blocked |-> blocked]

----------------------------------------------------------------------------
NoGate == [decision |-> Rejected, asked |-> {}]

ResolutionInit ==
  /\ scopes = <<>>
  /\ resolved = [config |-> [f \in Settings |-> Unset], status |-> "none"]
  /\ gate = NoGate

ResolveScopes(given, requestComplete) ==
  /\ scopes = <<>>
  /\ scopes' = given
  /\ resolved' = resolveConfig(given, requestComplete)
  /\ UNCHANGED gate

Gate(g) ==
  /\ scopes # <<>>
  /\ gate' = [decision |-> evaluateVersionGate(resolved.config, g), asked |-> {g}]
  /\ UNCHANGED <<scopes, resolved>>

ResolutionNext ==
  \/ \E s1, s2, s3 \in ScopeInputs, complete \in BOOLEAN : ResolveScopes(<<s1, s2, s3>>, complete)
  \/ \E g \in GateInputs : Gate(g)

ResolutionSpec == ResolutionInit /\ [][ResolutionNext]_resolutionVars

----------------------------------------------------------------------------
\* The last usable scope that says anything valid of a setting, 0 for none.
LastWord(f) ==
  LET saying == {n \in DOMAIN scopes : Usable(scopes[n]) /\ Setting(scopes[n], f) \notin {Silent, Invalid}}
  IN  IF saying = {} THEN 0 ELSE CHOOSE n \in saying : \A k \in saying : k <= n

(* An adapter passes the gate only with the minimal version of the last scope that
   says anything valid of it, and not when that scope takes the minimum back,
   whatever the scopes before it hold, which of them are missing, and which other
   settings are invalid.  A request that brings minima of its own is held to those. *)
GateKeepsLastWord ==
  \A g \in gate.asked, a \in gate.decision.compatible :
    LET n == LastWord(a)
        minimum == IF a \in DOMAIN g.own THEN g.own[a]
                   ELSE IF n = 0 THEN Null ELSE scopes[n].settings[a]
    IN  minimum # Null /\ g.versions[a] >= minimum
=============================================================================
