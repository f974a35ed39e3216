----------------------------- MODULE ConfigProofs -----------------------------
(***************************************************************************)
(* Proofs about the configuration governance: the version anchors, the     *)
(* rollout with its circuit, the merge of the scopes with the version      *)
(* gate, the line of published versions and the age of what is served.     *)
(***************************************************************************)
EXTENDS ConfigDelivery, ConfigResolution, RolloutCircuit, VersionAnchors,
        WellFoundedInduction, SequenceTheorems, TLAPS

----------------------------------------------------------------------------
(* Version anchors *)

SnapshotType ==
  [set : [Fields -> AnchorVersions \cup {Missing}],
   action : {"none", "reject", "degrade", "allow"},
   point : Range(FreezeOrder), completed : SUBSET Range(FreezeOrder)]
AnchorTypeOK == snapshot \in SnapshotType

LEMMA FirstPoint == "ingress" \in Range(FreezeOrder)
<1>1. 1 \in DOMAIN FreezeOrder /\ FreezeOrder[1] = "ingress"
  BY DEF FreezeOrder
<1> QED BY <1>1 DEF Range

(* A snapshot is a set of versions with the answer it was given, at a freeze point. *)
LEMMA AnchorTyped == AnchorSpec => []AnchorTypeOK
<1>1. AnchorInit => AnchorTypeOK
  BY FirstPoint DEF AnchorInit, AnchorTypeOK, SnapshotType, NoSnapshot
<1>2. ASSUME AnchorTypeOK, [AnchorNext]_anchorVars PROVE AnchorTypeOK'
  <2>0. snapshot \in SnapshotType
    BY <1>2 DEF AnchorTypeOK
  <2> SUFFICES ASSUME NEW point \in Range(FreezeOrder),
                      NEW versions \in [Fields -> AnchorVersions \cup {Missing}],
                      injectVersionAnchors(point, versions)
               PROVE  AnchorTypeOK'
    BY <1>2 DEF AnchorNext, anchorVars, AnchorTypeOK
  <2>1. CASE RejectIncomplete(point)
    BY <2>0, <2>1 DEF RejectIncomplete, AnchorTypeOK, SnapshotType
  <2>2. CASE RejectRegress(point)
    BY <2>0, <2>2 DEF RejectRegress, AnchorTypeOK, SnapshotType
  <2>3. CASE Inject(point, versions)
    <3>1. \A merged : Frozen(snapshot.set, versions, merged) \in [Fields -> AnchorVersions \cup {Missing}]
      BY <2>0 DEF Frozen, SnapshotType
    <3> QED BY <2>0, <2>3, <3>1 DEF Inject, AnchorTypeOK, SnapshotType
  <2> QED BY <2>1, <2>2, <2>3 DEF injectVersionAnchors
<1> QED BY <1>1, <1>2, PTL DEF AnchorSpec

(* A version that was frozen for a request stands at all later points, and the
   request is allowed on only with versions that agree with all that is frozen:
   for any fields, versions, and order of the calls. *)
THEOREM AnchorsStand == AnchorSpec => FrozenStands
<1>1. ASSUME AnchorTypeOK, [AnchorNext]_anchorVars
      PROVE  [/\ \A f \in Fields : snapshot.set[f] # Missing => snapshot'.set[f] = snapshot.set[f]
              /\ snapshot'.action = "allow" =>
                   \A f \in Fields : injected'[f] \in {Missing, snapshot'.set[f]}]_anchorVars
  <2>0. snapshot \in SnapshotType
    BY <1>1 DEF AnchorTypeOK
  <2> SUFFICES ASSUME NEW point \in Range(FreezeOrder),
                      NEW versions \in [Fields -> AnchorVersions \cup {Missing}],
                      injectVersionAnchors(point, versions)
               PROVE  /\ \A f \in Fields : snapshot.set[f] # Missing => snapshot'.set[f] = snapshot.set[f]
                      /\ snapshot'.action = "allow" =>
                           \A f \in Fields : injected'[f] \in {Missing, snapshot'.set[f]}
    BY <1>1 DEF AnchorNext
  <2>1. CASE RejectIncomplete(point) \/ RejectRegress(point)
    BY <2>0, <2>1 DEF RejectIncomplete, RejectRegress, SnapshotType
  <2>2. CASE Inject(point, versions)
    <3> DEFINE merged == MergedFields(snapshot.set, versions, point)
    <3>1. snapshot'.set = Frozen(snapshot.set, versions, merged)
      BY <2>2 DEF Inject
    <3>2. CASE snapshot'.action = "allow"
      <4>1. merged = Fields /\ ~ \E f \in Fields : Differs(snapshot.set, versions, f)
        BY <2>2, <3>2 DEF Inject
      <4>2. injected' = versions
        BY <2>2, <3>2 DEF Inject
      <4> QED BY <3>1, <4>1, <4>2 DEF Frozen, Differs
    <3>3. \A f \in Fields : snapshot.set[f] # Missing => snapshot'.set[f] = snapshot.set[f]
      BY <3>1 DEF Frozen
    <3> QED BY <3>2, <3>3
  <2> QED BY <2>1, <2>2 DEF injectVersionAnchors
<1> QED BY <1>1, AnchorTyped, PTL DEF AnchorSpec, FrozenStands

----------------------------------------------------------------------------
(* Rollout and circuit *)

Cooldowns == {p.cooldown : p \in {q \in Policies : q.found}}

(* The shortest cooldown is the least there is. *)
LEMMA Shortest ==
  \A p \in Policies : p.found => ShortestCooldown \in Nat /\ ShortestCooldown <= p.cooldown
<1> SUFFICES ASSUME NEW p \in Policies, p.found
             PROVE  ShortestCooldown \in Nat /\ ShortestCooldown <= p.cooldown
  OBVIOUS
<1>1. Cooldowns \subseteq Nat /\ p.cooldown \in Cooldowns
  BY RolloutAssumption DEF Cooldowns
<1> DEFINE Less == {pair \in Nat \X Nat : pair[1] < pair[2]}
<1>2. \E x \in Cooldowns : \A y \in Cooldowns : ~ (<<y, x>> \in Less)
  <2>1. IsWellFoundedOn(Less, Nat)
    BY NatLessThanWellFounded DEF OpToRel
  <2> HIDE DEF Less
  <2> QED BY <1>1, <2>1, WFMin
<1>3. \E x \in Cooldowns : \A y \in Cooldowns : x <= y
  <2>1. \A x, y \in Nat : y < x => <<y, x>> \in Less
    OBVIOUS
  <2>2. \A x, y \in Nat : ~ (y < x) => x <= y
    OBVIOUS
  <2> HIDE DEF Less
  <2> QED BY <1>1, <1>2, <2>1, <2>2
<1>4. ShortestCooldown = CHOOSE x \in Cooldowns : \A y \in Cooldowns : x <= y
  BY DEF ShortestCooldown, Min, Cooldowns
<1> QED BY <1>1, <1>3, <1>4

(* Strengthening of TrippedStaysNarrow: a circuit that tripped stays closed for the
   cooldown of the policy that tripped it, and is never forgotten. *)
CircuitInv ==
  /\ clock \in Nat
  /\ openUntil \in [ReleaseUnits -> Nat \cup {Never}]
  /\ trippedAt \in [ReleaseUnits -> Nat \cup {Never}]
  /\ \A u \in ReleaseUnits : trippedAt[u] # Never =>
       openUntil[u] # Never /\ openUntil[u] >= trippedAt[u] + ShortestCooldown

LEMMA CircuitHolds == RolloutSpec => []CircuitInv
<1>1. RolloutInit => CircuitInv
  BY DEF RolloutInit, CircuitInv
<1>2. ASSUME CircuitInv, [RolloutNext]_rolloutVars PROVE CircuitInv'
  <2> USE <1>2 DEF CircuitInv
  <2>1. ASSUME NEW u \in ReleaseUnits, NEW r \in RolloutRequests, NEW p \in Policies, Trip(u, r, p)
        PROVE  CircuitInv'
    <3>1. p.cooldown \in Nat \ {0} /\ ShortestCooldown <= p.cooldown /\ ShortestCooldown \in Nat
      <4>1. p.found
        BY <2>1 DEF Trip, Counted, Evaluated
      <4> QED BY <4>1, Shortest, RolloutAssumption
    <3> QED BY <2>1, <3>1 DEF Trip, Never
  <2>2. ASSUME NEW u \in ReleaseUnits, NEW r \in RolloutRequests, NEW p \in Policies,
               evaluateRolloutSelector(u, r, p)
        PROVE  CircuitInv'
    BY <2>1, <2>2
    DEF evaluateRolloutSelector, FallBackWithoutPolicy, FallBackWhileOpen, LeaveOut,
        FallBackOnPercent, TakePart, Unchanged
  <2>3. CASE Pass
    BY <2>3 DEF Pass
  <2>4. CASE UNCHANGED rolloutVars
    BY <2>4 DEF rolloutVars
  <2> QED BY <2>2, <2>3, <2>4 DEF RolloutNext
<1> QED BY <1>1, <1>2, PTL DEF RolloutSpec

(* A unit whose circuit tripped serves its experiment to nobody for the shortest
   cooldown at least, and then to the half-open share only: for any policies,
   requests and release units, and without a bound on the clock. *)
THEOREM CircuitNarrows == RolloutSpec => TrippedStaysNarrow
<1>1. ASSUME CircuitInv, [RolloutNext]_rolloutVars
      PROVE  [\A u \in ReleaseUnits :
                /\ decision' # decision /\ decision'.action = "in_experiment" /\ decision'.unit = u
                /\ trippedAt[u] # Never
                => /\ decision'.bucket < HalfOpenPercent
                   /\ clock - trippedAt[u] >= ShortestCooldown]_rolloutVars
  <2> USE <1>1 DEF CircuitInv
  <2> SUFFICES ASSUME RolloutNext, NEW v \in ReleaseUnits, decision' # decision,
                      decision'.action = "in_experiment", decision'.unit = v, trippedAt[v] # Never
               PROVE  /\ decision'.bucket < HalfOpenPercent
                      /\ clock - trippedAt[v] >= ShortestCooldown
    OBVIOUS
  <2>1. ~ Pass
    BY DEF Pass
  <2>2. PICK u \in ReleaseUnits, r \in RolloutRequests, p \in Policies : evaluateRolloutSelector(u, r, p)
    BY <2>1 DEF RolloutNext
  <2>3. TakePart(u, r, p)
    BY <2>2 DEF evaluateRolloutSelector, FallBackWithoutPolicy, FallBackWhileOpen, LeaveOut,
                FallBackOnPercent, Trip, Decide
  <2>4. u = v /\ r.bucket < EffectivePercent(u, p) /\ decision'.bucket = r.bucket
    BY <2>3 DEF TakePart, Decide
  <2>5. openUntil[v] # Never /\ openUntil[v] >= trippedAt[v] + ShortestCooldown
    OBVIOUS
  <2>6. openUntil[v] <= clock /\ p.found
    BY <2>3, <2>4, <2>5 DEF TakePart, Counted, Open, Evaluated
  <2>7. decision'.bucket < HalfOpenPercent
    BY <2>4, <2>5 DEF EffectivePercent
  <2>8. ShortestCooldown \in Nat
    BY <2>6, Shortest
  <2> QED BY <2>5, <2>6, <2>7, <2>8
<1> QED BY <1>1, CircuitHolds, PTL DEF RolloutSpec, TrippedStaysNarrow

----------------------------------------------------------------------------
(* Resolution and version gate *)

(* What a merge knows of a setting: nothing, or what the last scope that says
   anything valid of it said. *)
Word(given, upTo, f) ==
  {n \in 1 .. upTo : Usable(given[n]) /\ Setting(given[n], f) \notin {Silent, Invalid}}
LastSaid(given, upTo, f, word) ==
  IF Word(given, upTo, f) = {} THEN word = Unset
  ELSE \E n \in Word(given, upTo, f) :
         /\ \A k \in Word(given, upTo, f) : k <= n
         /\ word = IF Setting(given[n], f) = Null THEN Unset
                   ELSE [value |-> Setting(given[n], f), from |-> n]

(* A scope that is usable and says something valid of a setting has the last word. *)
LEMMA OverriddenSays ==
  ASSUME NEW given, NEW n \in Nat \ {0}, NEW config,
         \A f \in Settings : LastSaid(given, n - 1, f, config[f])
  PROVE  \A f \in Settings : LastSaid(given, n, f, Overridden(config, given, n)[f])
<1> SUFFICES ASSUME NEW f \in Settings PROVE LastSaid(given, n, f, Overridden(config, given, n)[f])
  OBVIOUS
<1>0. LastSaid(given, n - 1, f, config[f])
  OBVIOUS
<1>1. CASE Usable(given[n]) /\ Setting(given[n], f) \notin {Silent, Invalid}
  <2>1. n \in Word(given, n, f) /\ \A k \in Word(given, n, f) : k <= n
    BY <1>1 DEF Word
  <2>2. Overridden(config, given, n)[f] = IF Setting(given[n], f) = Null THEN Unset
                                          ELSE [value |-> Setting(given[n], f), from |-> n]
    BY <1>1 DEF Overridden, applyScope
  <2> QED BY <2>1, <2>2 DEF LastSaid
<1>2. CASE ~ (Usable(given[n]) /\ Setting(given[n], f) \notin {Silent, Invalid})
  <2>1. Word(given, n, f) = Word(given, n - 1, f)
    BY <1>2 DEF Word
  <2>2. Overridden(config, given, n)[f] = config[f]
    <3>1. CASE Usable(given[n])
      <4>1. Setting(given[n], f) \in {Silent, Invalid}
        BY <1>2, <3>1
      <4>2. applyScope(config, given[n], n)[f] = config[f]
        BY <4>1 DEF applyScope, Silent, Invalid, Null
      <4> QED BY <3>1, <4>2 DEF Overridden
    <3> QED BY <3>1 DEF Overridden
  <2> QED BY <1>0, <2>1, <2>2 DEF LastSaid
<1> QED BY <1>1, <1>2

(* The merge of three scopes gives each setting the last word on it. *)
LEMMA MergedSays ==
  ASSUME NEW given
  PROVE  \A f \in Settings : LastSaid(given, 3, f, Merged(given)[f])
<1> DEFINE none == [f \in Settings |-> Unset]
           global == Overridden(none, given, 1)
           app == Overridden(global, given, 2)
<1>0. \A f \in Settings : LastSaid(given, 0, f, none[f])
  BY DEF LastSaid, Word
<1> HIDE DEF none
<1>1. \A f \in Settings : LastSaid(given, 1, f, global[f])
  BY <1>0, OverriddenSays, 1 - 1 = 0
<1> HIDE DEF global
<1>2. \A f \in Settings : LastSaid(given, 2, f, app[f])
  BY <1>1, OverriddenSays, 2 - 1 = 1
<1> HIDE DEF app
<1>3. \A f \in Settings : LastSaid(given, 3, f, Overridden(app, given, 3)[f])
  BY <1>2, OverriddenSays, 3 - 1 = 2
<1> QED BY <1>3 DEF Merged, app, global, none

(* Strengthening of GateKeepsLastWord: what is resolved is resolved from the scopes
   of the request, once, and a decision of the gate is the one on it. *)
GateInv ==
  /\ scopes # <<>> =>
       /\ DOMAIN scopes = 1 .. 3
       /\ \E complete \in BOOLEAN : resolved = resolveConfig(scopes, complete)
  /\ gate.asked # {} => scopes # <<>>
  /\ gate.asked \subseteq GateInputs
  /\ \A g \in gate.asked : gate.decision = evaluateVersionGate(resolved.config, g)

LEMMA GateHolds == ResolutionSpec => []GateInv
<1>1. ResolutionInit => GateInv
  BY DEF ResolutionInit, GateInv, NoGate
<1>2. ASSUME GateInv, [ResolutionNext]_resolutionVars PROVE GateInv'
  <2>1. ASSUME NEW s1 \in ScopeInputs, NEW s2 \in ScopeInputs, NEW s3 \in ScopeInputs,
               NEW complete \in BOOLEAN, ResolveScopes(<<s1, s2, s3>>, complete)
        PROVE  GateInv'
    <3>1. gate.asked = {} /\ gate' = gate
      BY <1>2, <2>1 DEF GateInv, ResolveScopes
    <3>2. scopes' = <<s1, s2, s3>> /\ resolved' = resolveConfig(scopes', complete)
      BY <2>1 DEF ResolveScopes
    <3> QED BY <3>1, <3>2 DEF GateInv
  <2>2. ASSUME NEW g \in GateInputs, Gate(g) PROVE GateInv'
    BY <1>2, <2>2 DEF GateInv, Gate
  <2>3. CASE UNCHANGED resolutionVars
    BY <1>2, <2>3 DEF GateInv, resolutionVars
  <2> QED BY <1>2, <2>1, <2>2, <2>3 DEF ResolutionNext
<1> QED BY <1>1, <1>2, PTL DEF ResolutionSpec

(* An adapter passes the gate only with the minimal version of the last scope that
   says anything valid of it, or of the request where it brings minima of its own:
   for any adapters and any configurations of the three scopes, whichever of them
   are missing, incompatible or invalid in other settings. *)
THEOREM GateKeeps == ResolutionSpec => []GateKeepsLastWord
<1>1. GateInv => GateKeepsLastWord
  <2> SUFFICES ASSUME GateInv, NEW g \in gate.asked, NEW a \in gate.decision.compatible
               PROVE  LET n == LastWord(a)
                          minimum == IF a \in DOMAIN g.own THEN g.own[a]
                                     ELSE IF n = 0 THEN Null ELSE scopes[n].settings[a]
                      IN  minimum # Null /\ g.versions[a] >= minimum
    BY DEF GateKeepsLastWord
  <2>0. gate.decision = evaluateVersionGate(resolved.config, g) /\ g \in GateInputs
    BY DEF GateInv
  <2> DEFINE config == normalizeGateInput(resolved.config, g)
  <2>1. a \in Compatible(config, g.versions)
    BY <2>0 DEF evaluateVersionGate, Rejected
  <2>2. a \in Adapters /\ a \in Settings
    BY <2>0, <2>1, ResolutionAssumption DEF Compatible, Settings
  <2>3. config[a] # Unset /\ g.versions[a] >= config[a].value
    BY <2>1 DEF Compatible, Known, MinOf
  <2>4. CASE a \in DOMAIN g.own
    BY <2>2, <2>3, <2>4 DEF normalizeGateInput
  <2>5. CASE a \notin DOMAIN g.own
    <3>1. config[a] = resolved.config[a]
      BY <2>2, <2>5 DEF normalizeGateInput
    <3> HIDE DEF config
    <3>2. PICK complete \in BOOLEAN : resolved = resolveConfig(scopes, complete)
      BY DEF GateInv
    <3>3. resolved.config = Merged(scopes)
      BY <2>2, <2>3, <3>1, <3>2 DEF resolveConfig
    <3>4. LastSaid(scopes, 3, a, resolved.config[a])
      BY <2>2, <3>3, MergedSays
    <3>5. PICK n \in Word(scopes, 3, a) :
            /\ \A k \in Word(scopes, 3, a) : k <= n
            /\ Setting(scopes[n], a) # Null
            /\ resolved.config[a] = [value |-> Setting(scopes[n], a), from |-> n]
      BY <2>3, <3>1, <3>4 DEF LastSaid
    <3>6. Word(scopes, 3, a) =
            {k \in DOMAIN scopes : Usable(scopes[k]) /\ Setting(scopes[k], a) \notin {Silent, Invalid}}
      BY DEF GateInv, Word
    <3>7. LastWord(a) = n
      <4>1. \A m \in Word(scopes, 3, a) : (\A k \in Word(scopes, 3, a) : k <= m) => m = n
        BY <3>5 DEF Word
      <4>2. LastWord(a) = CHOOSE m \in Word(scopes, 3, a) : \A k \in Word(scopes, 3, a) : k <= m
        BY <3>5, <3>6 DEF LastWord
      <4> QED BY <3>5, <4>1, <4>2
    <3>8. Setting(scopes[n], a) = scopes[n].settings[a] /\ n # 0
      BY <3>5 DEF Setting, Word
    <3>9. scopes[n].settings[a] # Null /\ g.versions[a] >= scopes[n].settings[a]
      BY <2>3, <3>1, <3>5, <3>8
    <3> QED BY <2>5, <3>7, <3>8, <3>9
  <2> QED BY <2>4, <2>5
<1> QED BY <1>1, GateHolds, PTL

----------------------------------------------------------------------------
(* Published versions *)

Successes == {"published", "rolled_back"}
States == Successes \cup {"failed", "validated"}
Reasons == Successes \cup
  {"validation_failed", "duplicate_reused_operation", "idempotency_payload_conflict",
   "not_authorized", "base_version_conflict", "dry_run_validated",
   "rollback_target_not_found", "compensation_triggered", "compensation_failed"}
CallType == [request : PublishRequests, op : Nat, state : States, reason : Reasons]
RecordType == [payload : STRING, at : Nat, op : Nat, state : States]

LineTypeOK ==
  /\ now \in Nat
  /\ unit \in [Units -> [current : Versions \cup {Nothing}, changeSets : SUBSET STRING]]
  /\ calls \in Seq(CallType)
  /\ \A n \in 1 .. Len(calls) : calls[n].op \in 1 .. n
  /\ dedup \in [PublishKeys -> RecordType \cup {NoRecord}]
  /\ \A k \in PublishKeys : dedup[k] # NoRecord => dedup[k].op \in 1 .. Len(calls)

(* What a remembered answer says of a success is what its call brought. *)
RecordsTell ==
  \A k \in PublishKeys : dedup[k] # NoRecord =>
    /\ calls[dedup[k].op].request.payload = dedup[k].payload
    /\ dedup[k].state \in Successes => calls[dedup[k].op].reason = dedup[k].state

(* Nobody is told of a success that is not the one of the operation named. *)
AnswersTell ==
  \A n \in DOMAIN calls : calls[n].state \in Successes =>
    LET first == calls[calls[n].op]
    IN  first.reason = calls[n].state /\ first.request.payload = calls[n].request.payload

(* A unit remembers every change set that was published in it, once. *)
ChangeSetsOnce ==
  /\ \A n \in DOMAIN calls : calls[n].reason = "published" =>
       calls[n].request.changeSet \in unit[calls[n].request.unit].changeSets
  /\ \A m, n \in DOMAIN calls :
       /\ calls[m].reason = "published" /\ calls[n].reason = "published" /\ m # n
       /\ calls[m].request.unit = calls[n].request.unit
       => calls[m].request.changeSet # calls[n].request.changeSet

LineInv == LineTypeOK /\ RecordsTell /\ AnswersTell /\ ChangeSetsOnce /\ OneLine

(* What a call may do to the unit it is about. *)
Changes(r, c) ==
  /\ c.reason \in Successes /\ ~BaseConflicts(r)
  /\ \E sets \in SUBSET STRING :
       /\ unit' = [unit EXCEPT ![r.unit] = [current |-> r.target, changeSets |-> sets]]
       /\ unit[r.unit].changeSets \subseteq sets
       /\ c.reason = "published" => /\ r.changeSet \in sets
                                    /\ r.changeSet \notin unit[r.unit].changeSets
Compensates(r, c) ==
  /\ c.reason = "compensation_triggered"
  /\ unit[r.unit].current = Nothing
  /\ unit' = [unit EXCEPT ![r.unit].current = r.base]
Keeps(r, c) == c.reason \notin Successes /\ unit' = unit

Call(r, op, state, reason) == [request |-> r, op |-> op, state |-> state, reason |-> reason]

(* Every answer that is stored is the one of the call that is given. *)
Stores(r, c) ==
  /\ c.op = CurrentOp /\ (c.state \in Successes => c.reason = c.state)
  /\ dedup' = [dedup EXCEPT ![IdempotencyKey(r)] =
       [payload |-> PayloadHash(r), at |-> now, op |-> CurrentOp, state |-> c.state]]
Repeats(r, c) ==
  /\ dedup' = dedup
  /\ \/ c.op = CurrentOp /\ c.state \notin Successes
     \/ /\ Record(r) # NoRecord /\ c.op = Record(r).op
        /\ c.state \in Successes =>
             c.state = Record(r).state /\ Record(r).payload = PayloadHash(r)

LEMMA CallStep ==
  ASSUME LineTypeOK, NEW r \in PublishRequests, publishConfig(r)
  PROVE  \E c \in CallType :
           /\ calls' = Append(calls, c) /\ c.request = r
           /\ Changes(r, c) \/ Compensates(r, c) \/ Keeps(r, c)
           /\ Stores(r, c) \/ Repeats(r, c)
<1>0. /\ r.payload \in STRING /\ r.changeSet \in STRING /\ r.unit \in Units
      /\ r.target \in Versions /\ r.base \in Versions /\ r.key \in PublishKeys
  BY PublishAssumption DEF PublishKeys
<1>1. CurrentOp \in Nat
  BY LenProperties DEF LineTypeOK, CurrentOp
<1>s. States = {"published", "rolled_back", "failed", "validated"} /\ Successes = {"published", "rolled_back"}
  BY DEF States, Successes
<1>r. {"published", "rolled_back", "validation_failed", "duplicate_reused_operation",
       "idempotency_payload_conflict", "not_authorized", "base_version_conflict",
       "dry_run_validated", "rollback_target_not_found", "compensation_triggered",
       "compensation_failed"} \subseteq Reasons
  BY DEF Reasons, Successes
<1>2. \A op \in Nat, state \in States, reason \in Reasons : Call(r, op, state, reason) \in CallType
  BY DEF Call, CallType
<1>3. \A state, reason : AnswerAndStore(r, state, reason) =>
        calls' = Append(calls, Call(r, CurrentOp, state, reason))
  BY DEF AnswerAndStore, Answer, Call
<1>4. ASSUME NEW state \in States, NEW reason \in Reasons, AnswerAndStore(r, state, reason),
             state \in Successes => reason = state
      PROVE  Stores(r, Call(r, CurrentOp, state, reason))
  BY <1>4 DEF AnswerAndStore, Stores, Call
<1>w. ASSUME NEW c \in CallType, calls' = Append(calls, c), c.request = r,
             Changes(r, c) \/ Compensates(r, c) \/ Keeps(r, c), Stores(r, c) \/ Repeats(r, c)
      PROVE  \E d \in CallType :
               /\ calls' = Append(calls, d) /\ d.request = r
               /\ Changes(r, d) \/ Compensates(r, d) \/ Keeps(r, d)
               /\ Stores(r, d) \/ Repeats(r, d)
  BY <1>w
<1>5. CASE RefuseMalformed(r)
  <2> DEFINE c == Call(r, CurrentOp, "failed", "validation_failed")
  <2>1. calls' = Append(calls, c) /\ unit' = unit /\ dedup' = dedup
    BY <1>5 DEF RefuseMalformed, Answer, Call
  <2>2. Keeps(r, c) /\ Repeats(r, c)
    BY <2>1 DEF Keeps, Repeats, Call, Successes
  <2>3. c \in CallType /\ c.request = r
    BY <1>s, <1>r, <1>1, <1>2 DEF Call
  <2> HIDE DEF c
  <2> QED BY <1>w, <2>1, <2>2, <2>3
<1>6. CASE ReuseOperation(r)
  <2> DEFINE c == Call(r, Record(r).op, Record(r).state, "duplicate_reused_operation")
  <2>1. calls' = Append(calls, c) /\ unit' = unit /\ dedup' = dedup
    BY <1>6 DEF ReuseOperation, Answer, Call
  <2>2. Keeps(r, c) /\ Repeats(r, c)
    BY <1>6, <2>1 DEF Keeps, Repeats, ReuseOperation, Remembered, Call, Successes
  <2>3. Record(r).op \in Nat /\ Record(r).state \in States
    BY <1>0, <1>6 DEF ReuseOperation, Remembered, LineTypeOK, Record, RecordType, IdempotencyKey
  <2>4. c \in CallType /\ c.request = r
    BY <1>s, <1>r, <1>2, <2>3 DEF Call
  <2> HIDE DEF c
  <2> QED BY <1>w, <2>1, <2>2, <2>4
<1>7. CASE RefusePayload(r)
  <2> DEFINE c == Call(r, Record(r).op, "failed", "idempotency_payload_conflict")
  <2>1. calls' = Append(calls, c) /\ unit' = unit /\ dedup' = dedup
    BY <1>7 DEF RefusePayload, Answer, Call
  <2>2. Keeps(r, c) /\ Repeats(r, c)
    BY <1>7, <2>1 DEF Keeps, Repeats, RefusePayload, Remembered, Call, Successes
  <2>3. Record(r).op \in Nat
    BY <1>0, <1>7 DEF RefusePayload, Remembered, LineTypeOK, Record, RecordType, IdempotencyKey
  <2>4. c \in CallType /\ c.request = r
    BY <1>s, <1>r, <1>2, <2>3 DEF Call
  <2> HIDE DEF c
  <2> QED BY <1>w, <2>1, <2>2, <2>4
<1>8. ASSUME NEW state \in States, NEW reason \in Reasons, AnswerAndStore(r, state, reason), unit' = unit,
             state \notin Successes, reason \notin Successes
      PROVE  \E c \in CallType :
               /\ calls' = Append(calls, c) /\ c.request = r
               /\ Keeps(r, c) /\ Stores(r, c)
  <2> DEFINE c == Call(r, CurrentOp, state, reason)
  <2>1. c \in CallType /\ calls' = Append(calls, c)
    BY <1>s, <1>r, <1>1, <1>2, <1>3, <1>8
  <2>2. Stores(r, c)
    BY <1>4, <1>8
  <2>3. Keeps(r, c) /\ c.request = r
    BY <1>8 DEF Keeps, Call
  <2> HIDE DEF c
  <2> QED BY <2>1, <2>2, <2>3
<1>9. CASE RefuseOperator(r) \/ RefuseChange(r) \/ DryRun(r) \/ NothingToRollBack(r)
  <2>1. /\ unit' = unit
        /\ \/ AnswerAndStore(r, "failed", "not_authorized")
           \/ AnswerAndStore(r, "failed", "validation_failed")
           \/ AnswerAndStore(r, "failed", "base_version_conflict")
           \/ AnswerAndStore(r, "validated", "dry_run_validated")
           \/ AnswerAndStore(r, "failed", "rollback_target_not_found")
    BY <1>9 DEF RefuseOperator, RefuseChange, DryRun, NothingToRollBack
  <2>2. /\ {"failed", "validated"} \cap Successes = {}
        /\ {"not_authorized", "validation_failed", "base_version_conflict", "dry_run_validated",
            "rollback_target_not_found"} \cap Successes = {}
    BY DEF Successes
  <2>3. \E state \in States, reason \in Reasons : /\ AnswerAndStore(r, state, reason)
                                     /\ state \notin Successes /\ reason \notin Successes
    BY <1>s, <1>r, <2>1, <2>2
  <2> QED BY <1>8, <2>1, <2>3
<1>10. CASE Publish(r)
  <2> DEFINE c == Call(r, CurrentOp, "published", "published")
             sets == unit[r.unit].changeSets \cup {r.changeSet}
  <2>0. AnswerAndStore(r, "published", "published")
    BY <1>10 DEF Publish
  <2>1. c \in CallType /\ calls' = Append(calls, c)
    BY <1>s, <1>r, <1>1, <1>2, <1>3, <2>0
  <2>s. Stores(r, c)
    BY <1>s, <1>r, <1>4, <2>0
  <2>2. /\ sets \in SUBSET STRING
        /\ unit' = [unit EXCEPT ![r.unit] = [current |-> r.target, changeSets |-> sets]]
    <3>1. unit[r.unit].changeSets \in SUBSET STRING
      BY <1>0 DEF LineTypeOK
    <3>2. unit' = [unit EXCEPT ![r.unit] = [current |-> r.target, changeSets |-> sets]]
      BY <1>10 DEF Publish
    <3> QED BY <1>0, <3>1, <3>2
  <2>3. ~BaseConflicts(r) /\ r.changeSet \notin unit[r.unit].changeSets
    BY <1>10 DEF Publish, Accepted, Repeated
  <2>4. c.reason = "published" /\ c.request = r
    BY DEF Call
  <2>5. Changes(r, c)
    BY <2>2, <2>3, <2>4 DEF Changes, Successes
  <2> HIDE DEF c
  <2> QED BY <1>w, <2>1, <2>s, <2>4, <2>5
<1>11. CASE Rollback(r)
  <2> DEFINE c == Call(r, CurrentOp, "rolled_back", "rolled_back")
             sets == unit[r.unit].changeSets
  <2>0. AnswerAndStore(r, "rolled_back", "rolled_back")
    BY <1>11 DEF Rollback
  <2>1. c \in CallType /\ calls' = Append(calls, c)
    BY <1>s, <1>r, <1>1, <1>2, <1>3, <2>0
  <2>s. Stores(r, c)
    BY <1>s, <1>r, <1>4, <2>0
  <2>2. /\ sets \in SUBSET STRING
        /\ unit' = [unit EXCEPT ![r.unit] = [current |-> r.target, changeSets |-> sets]]
    <3>1. unit[r.unit] \in [current : Versions \cup {Nothing}, changeSets : SUBSET STRING]
      BY <1>0 DEF LineTypeOK
    <3>2. [unit[r.unit] EXCEPT !.current = r.target] = [current |-> r.target, changeSets |-> sets]
      BY <3>1
    <3>3. unit' = [unit EXCEPT ![r.unit] = [unit[r.unit] EXCEPT !.current = r.target]]
      BY <1>11 DEF Rollback
    <3> QED BY <3>1, <3>2, <3>3
  <2>3. ~BaseConflicts(r)
    BY <1>11 DEF Rollback, Accepted
  <2>4. c.reason = "rolled_back" /\ c.request = r
    BY DEF Call
  <2>5. Changes(r, c)
    BY <2>2, <2>3, <2>4 DEF Changes, Successes
  <2> HIDE DEF c
  <2> QED BY <1>w, <2>1, <2>s, <2>4, <2>5
<1>12. CASE CommitFails(r)
  <2> DEFINE c == Call(r, CurrentOp, "failed", "compensation_triggered")
  <2>1. CASE AnswerAndStore(r, "failed", "compensation_failed") /\ unit' = unit
    BY <1>s, <1>r, <1>8, <2>1
  <2>2. CASE /\ AnswerAndStore(r, "failed", "compensation_triggered")
             /\ unit' = [unit EXCEPT ![r.unit].current = IF @ = Nothing THEN r.base ELSE @]
    <3>1. c \in CallType /\ calls' = Append(calls, c)
      BY <1>s, <1>r, <1>1, <1>2, <1>3, <2>2
    <3>s. Stores(r, c)
      <4>1. "failed" \notin Successes
        BY DEF Successes
      <4> QED BY <1>s, <1>r, <1>4, <2>2, <4>1
    <3>2. c.reason = "compensation_triggered" /\ c.request = r
      BY DEF Call
    <3> HIDE DEF c
    <3>3. CASE unit[r.unit].current = Nothing
      BY <1>w, <2>2, <3>1, <3>s, <3>2, <3>3 DEF Compensates
    <3>4. CASE unit[r.unit].current # Nothing
      <4>1. unit' = unit
        BY <1>0, <2>2, <3>4 DEF LineTypeOK
      <4>2. Keeps(r, c)
        BY <3>2, <4>1 DEF Keeps, Successes
      <4> QED BY <1>w, <3>1, <3>s, <3>2, <4>2
    <3> QED BY <3>3, <3>4
  <2> QED BY <1>12, <2>1, <2>2 DEF CommitFails
<1> QED BY <1>5, <1>6, <1>7, <1>9, <1>10, <1>11, <1>12 DEF publishConfig

(* A call leaves the answers given before as they are. *)
LEMMA AppendKeeps ==
  ASSUME LineTypeOK, NEW c \in CallType, calls' = Append(calls, c)
  PROVE  /\ calls' \in Seq(CallType) /\ Len(calls') = Len(calls) + 1 /\ Len(calls) \in Nat
         /\ DOMAIN calls = 1 .. Len(calls) /\ DOMAIN calls' = 1 .. Len(calls) + 1
         /\ \A n \in 1 .. Len(calls) : calls'[n] = calls[n]
         /\ calls'[Len(calls) + 1] = c
<1>1. calls \in Seq(CallType)
  BY DEF LineTypeOK
<1> QED BY <1>1, AppendProperties, LenProperties

(* The types of the publishing state are kept by a call. *)
LEMMA CallTyped ==
  ASSUME LineTypeOK, NEW r \in PublishRequests, NEW c \in CallType,
         UNCHANGED now, calls' = Append(calls, c), c.request = r,
         Changes(r, c) \/ Compensates(r, c) \/ Keeps(r, c), Stores(r, c) \/ Repeats(r, c)
  PROVE  LineTypeOK'
<1>0. /\ r.payload \in STRING /\ r.unit \in Units /\ r.target \in Versions /\ r.base \in Versions
      /\ r.key \in PublishKeys
  BY PublishAssumption DEF PublishKeys
<1>1. unit' \in [Units -> [current : Versions \cup {Nothing}, changeSets : SUBSET STRING]]
  <2>1. CASE Changes(r, c)
    BY <1>0, <2>1 DEF LineTypeOK, Changes
  <2>2. CASE Compensates(r, c)
    <3>1. [unit[r.unit] EXCEPT !.current = r.base] \in [current : Versions \cup {Nothing}, changeSets : SUBSET STRING]
      BY <1>0 DEF LineTypeOK
    <3>2. unit' = [unit EXCEPT ![r.unit] = [unit[r.unit] EXCEPT !.current = r.base]]
      BY <2>2 DEF Compensates
    <3> QED BY <3>1, <3>2 DEF LineTypeOK
  <2>3. CASE Keeps(r, c)
    BY <2>3 DEF LineTypeOK, Keeps
  <2> QED BY <2>1, <2>2, <2>3
<1>2. c.op \in 1 .. Len(calls) + 1
  BY <1>0, AppendKeeps DEF LineTypeOK, Stores, Repeats, CurrentOp, Record, IdempotencyKey
<1>3. \A n \in 1 .. Len(calls') : calls'[n].op \in 1 .. n
  BY <1>2, AppendKeeps DEF LineTypeOK
<1>4. dedup' \in [PublishKeys -> RecordType \cup {NoRecord}]
  <2>1. CASE Stores(r, c)
    <3>1. [payload |-> PayloadHash(r), at |-> now, op |-> CurrentOp, state |-> c.state] \in RecordType
      BY <1>0, AppendKeeps DEF LineTypeOK, RecordType, PayloadHash, CurrentOp, CallType
    <3> QED BY <1>0, <2>1, <3>1 DEF Stores, LineTypeOK, IdempotencyKey
  <2>2. CASE Repeats(r, c)
    BY <2>2 DEF Repeats, LineTypeOK
  <2> QED BY <2>1, <2>2
<1>5. \A k \in PublishKeys : dedup'[k] # NoRecord => dedup'[k].op \in 1 .. Len(calls')
  <2> SUFFICES ASSUME NEW k \in PublishKeys, dedup'[k] # NoRecord
               PROVE  dedup'[k].op \in 1 .. Len(calls) + 1
    BY AppendKeeps
  <2>1. CASE dedup'[k] = dedup[k]
    BY <2>1, AppendKeeps DEF LineTypeOK
  <2>2. CASE dedup'[k] # dedup[k]
    <3>1. dedup'[k].op = CurrentOp
      BY <2>2 DEF Stores, Repeats, LineTypeOK
    <3> QED BY <3>1, AppendKeeps DEF CurrentOp
  <2> QED BY <2>1, <2>2
<1> QED BY <1>1, <1>3, <1>4, <1>5, AppendKeeps DEF LineTypeOK

(* What is remembered and what is answered tell of the operation they name. *)
LEMMA AnswersStand ==
  ASSUME LineTypeOK, RecordsTell, AnswersTell, NEW r \in PublishRequests, NEW c \in CallType,
         calls' = Append(calls, c), c.request = r, Stores(r, c) \/ Repeats(r, c)
  PROVE  RecordsTell' /\ AnswersTell'
<1> DEFINE last == Len(calls) + 1
<1>0. r.key \in PublishKeys
  BY DEF PublishKeys
<1>1. RecordsTell'
  <2> SUFFICES ASSUME NEW k \in PublishKeys, dedup'[k] # NoRecord
               PROVE  /\ calls'[dedup'[k].op].request.payload = dedup'[k].payload
                      /\ dedup'[k].state \in Successes => calls'[dedup'[k].op].reason = dedup'[k].state
    BY DEF RecordsTell
  <2>1. CASE dedup'[k] = dedup[k]
    <3>1. dedup[k].op \in 1 .. Len(calls)
      BY <2>1 DEF LineTypeOK
    <3>2. calls'[dedup[k].op] = calls[dedup[k].op]
      BY <3>1, AppendKeeps
    <3> QED BY <2>1, <3>2 DEF RecordsTell
  <2>2. CASE dedup'[k] # dedup[k]
    <3>1. Stores(r, c) /\ k = r.key
      BY <2>2 DEF Stores, Repeats, LineTypeOK, IdempotencyKey
    <3>2. dedup'[k] = [payload |-> r.payload, at |-> now, op |-> last, state |-> c.state]
      BY <1>0, <3>1 DEF Stores, LineTypeOK, IdempotencyKey, PayloadHash, CurrentOp
    <3>3. calls'[last] = c
      BY AppendKeeps
    <3> QED BY <3>1, <3>2, <3>3 DEF Stores
  <2> QED BY <2>1, <2>2
<1>2. AnswersTell'
  <2> SUFFICES ASSUME NEW n \in 1 .. last, calls'[n].state \in Successes
               PROVE  /\ calls'[calls'[n].op].reason = calls'[n].state
                      /\ calls'[calls'[n].op].request.payload = calls'[n].request.payload
    BY AppendKeeps DEF AnswersTell
  <2>1. CASE n \in 1 .. Len(calls)
    <3>1. calls'[n] = calls[n] /\ calls[n].op \in 1 .. n
      BY <2>1, AppendKeeps DEF LineTypeOK
    <3>2. calls[n].op \in 1 .. Len(calls)
      BY <2>1, <3>1, AppendKeeps
    <3>3. calls'[calls[n].op] = calls[calls[n].op]
      BY <3>2, AppendKeeps
    <3> QED BY <2>1, <3>1, <3>3, AppendKeeps DEF AnswersTell
  <2>2. CASE n = last
    <3>1. calls'[n] = c
      BY <2>2, AppendKeeps
    <3>2. CASE Stores(r, c)
      BY <2>2, <3>1, <3>2, AppendKeeps DEF Stores, CurrentOp
    <3>3. CASE Repeats(r, c) /\ c.op # CurrentOp
      <4>1. /\ Record(r) # NoRecord /\ c.op = Record(r).op
            /\ c.state = Record(r).state /\ Record(r).payload = r.payload
        BY <3>1, <3>3 DEF Repeats, PayloadHash
      <4>2. c.op \in 1 .. Len(calls)
        BY <1>0, <4>1 DEF LineTypeOK, Record, IdempotencyKey
      <4>3. calls'[c.op] = calls[c.op]
        BY <4>2, AppendKeeps
      <4> QED BY <1>0, <3>1, <4>1, <4>3 DEF RecordsTell, Record, IdempotencyKey
    <3>4. CASE Repeats(r, c) /\ c.op = CurrentOp
      <4>1. c.op \notin 1 .. Len(calls)
        BY <3>4, AppendKeeps DEF CurrentOp
      <4> QED BY <1>0, <3>1, <3>4, <4>1 DEF Repeats, LineTypeOK, Record, IdempotencyKey
    <3> QED BY <3>2, <3>3, <3>4
  <2>3. Len(calls) \in Nat
    BY AppendKeeps
  <2>4. n \in 1 .. Len(calls) \/ n = last
    BY <2>3
  <2> HIDE DEF last
  <2> QED BY <2>1, <2>2, <2>4
<1> QED BY <1>1, <1>2

(* A change set that was published is remembered, and not published again. *)
LEMMA ChangeSetsStand ==
  ASSUME LineTypeOK, ChangeSetsOnce, NEW r \in PublishRequests, NEW c \in CallType,
         calls' = Append(calls, c), c.request = r,
         Changes(r, c) \/ Compensates(r, c) \/ Keeps(r, c)
  PROVE  ChangeSetsOnce'
<1> DEFINE last == Len(calls) + 1
<1>0. /\ r.unit \in Units /\ Len(calls) \in Nat /\ DOMAIN calls' = 1 .. last
      /\ \A n \in 1 .. Len(calls) : calls'[n] = calls[n] /\ calls[n].request.unit \in Units
      /\ calls'[last] = c
  <2>1. \A n \in 1 .. Len(calls) : calls[n] \in CallType
    BY ElementOfSeq DEF LineTypeOK
  <2>2. \A n \in 1 .. Len(calls) : calls[n].request.unit \in Units
    BY <2>1, PublishAssumption DEF CallType
  <2> QED BY <2>2, AppendKeeps, PublishAssumption
<1>1. \A u \in Units : unit[u].changeSets \subseteq unit'[u].changeSets
  <2>1. CASE Changes(r, c)
    BY <1>0, <2>1 DEF Changes, LineTypeOK
  <2>2. CASE Compensates(r, c)
    BY <1>0, <2>2 DEF Compensates, LineTypeOK
  <2>3. CASE Keeps(r, c)
    BY <2>3 DEF Keeps
  <2> QED BY <2>1, <2>2, <2>3
<1>2. c.reason = "published" =>
        r.changeSet \in unit'[r.unit].changeSets /\ r.changeSet \notin unit[r.unit].changeSets
  <2>1. CASE Changes(r, c)
    BY <1>0, <2>1 DEF Changes, LineTypeOK
  <2> QED BY <2>1 DEF Compensates, Keeps, Successes
<1>3. \A n \in 1 .. Len(calls) : calls[n].reason = "published" =>
        calls[n].request.changeSet \in unit[calls[n].request.unit].changeSets
  BY AppendKeeps DEF ChangeSetsOnce
<1>4. \A n \in 1 .. last : calls'[n].reason = "published" =>
        calls'[n].request.changeSet \in unit'[calls'[n].request.unit].changeSets
  <2> SUFFICES ASSUME NEW n \in 1 .. last, calls'[n].reason = "published"
               PROVE  calls'[n].request.changeSet \in unit'[calls'[n].request.unit].changeSets
    OBVIOUS
  <2>1. CASE n \in 1 .. Len(calls)
    BY <1>0, <1>1, <1>3, <2>1
  <2>2. CASE n = last
    BY <1>0, <1>2, <2>2
  <2> QED BY <1>0, <2>1, <2>2
<1>5. ASSUME NEW n \in 1 .. Len(calls), calls[n].reason = "published", c.reason = "published",
             calls[n].request.unit = r.unit
      PROVE  calls[n].request.changeSet # r.changeSet
  BY <1>2, <1>3, <1>5
<1>6. ASSUME NEW m \in 1 .. last, NEW n \in 1 .. last,
             calls'[m].reason = "published", calls'[n].reason = "published", m # n,
             calls'[m].request.unit = calls'[n].request.unit
      PROVE  calls'[m].request.changeSet # calls'[n].request.changeSet
  <2>1. CASE m \in 1 .. Len(calls) /\ n \in 1 .. Len(calls)
    BY <1>0, <1>6, <2>1, AppendKeeps DEF ChangeSetsOnce
  <2>2. CASE m = last /\ n \in 1 .. Len(calls)
    BY <1>0, <1>5, <1>6, <2>2
  <2>3. CASE n = last /\ m \in 1 .. Len(calls)
    BY <1>0, <1>5, <1>6, <2>3
  <2> QED BY <1>0, <1>6, <2>1, <2>2, <2>3
<1> QED BY <1>0, <1>4, <1>6 DEF ChangeSetsOnce

(* The changes of a unit stay in line. *)
LEMMA LineStands ==
  ASSUME LineTypeOK, OneLine, NEW r \in PublishRequests, NEW c \in CallType,
         calls' = Append(calls, c), c.request = r,
         Changes(r, c) \/ Compensates(r, c) \/ Keeps(r, c)
  PROVE  OneLine'
<1> DEFINE last == Len(calls) + 1
<1>0. /\ r.unit \in Units /\ r.target \in Versions /\ Len(calls) \in Nat
      /\ DOMAIN calls = 1 .. Len(calls) /\ DOMAIN calls' = 1 .. last
      /\ \A n \in 1 .. Len(calls) : calls'[n] = calls[n] /\ calls[n].request.target \in Versions
      /\ calls'[last] = c
  <2>1. \A n \in 1 .. Len(calls) : calls[n] \in CallType
    BY ElementOfSeq DEF LineTypeOK
  <2>2. \A n \in 1 .. Len(calls) : calls[n].request.target \in Versions
    BY <2>1, PublishAssumption DEF CallType
  <2> QED BY <2>2, AppendKeeps, PublishAssumption
<1> SUFFICES ASSUME NEW u \in Units
             PROVE  /\ \A n \in Applied(u)' :
                         /\ \A m \in Applied(u)' : m < n /\ Applied(u)' \cap (m + 1) .. (n - 1) = {} =>
                              calls'[n].request.base = calls'[m].request.target
                         /\ (\A m \in Applied(u)' : m <= n) => unit'[u].current = calls'[n].request.target
                    /\ Applied(u)' = {} /\ unit'[u].current # Nothing =>
                         \E n \in DOMAIN calls' : /\ calls'[n].reason = "compensation_triggered"
                                                  /\ calls'[n].request.unit = u
                                                  /\ calls'[n].request.base = unit'[u].current
  BY DEF OneLine
<1>1. /\ \A n \in Applied(u) :
            /\ \A m \in Applied(u) : m < n /\ Applied(u) \cap (m + 1) .. (n - 1) = {} =>
                 calls[n].request.base = calls[m].request.target
            /\ (\A m \in Applied(u) : m <= n) => unit[u].current = calls[n].request.target
      /\ Applied(u) = {} /\ unit[u].current # Nothing =>
            \E n \in DOMAIN calls : /\ calls[n].reason = "compensation_triggered"
                                    /\ calls[n].request.unit = u
                                    /\ calls[n].request.base = unit[u].current
  BY DEF OneLine
<1>2. Applied(u) \subseteq 1 .. Len(calls)
  BY <1>0 DEF Applied
<1>3. Applied(u)' = IF c.reason \in Successes /\ r.unit = u THEN Applied(u) \cup {last} ELSE Applied(u)
  BY <1>0 DEF Applied, Successes
<1>4. CASE Changes(r, c) /\ r.unit = u
  <2>1. Applied(u)' = Applied(u) \cup {last}
    BY <1>3, <1>4 DEF Changes
  <2>2. unit'[u].current = r.target
    BY <1>4 DEF Changes, LineTypeOK
  <2>3. ASSUME NEW m \in Applied(u), \A k \in Applied(u) : k <= m
        PROVE  r.base = calls[m].request.target
    <3>1. unit[u].current = calls[m].request.target
      BY <1>1, <2>3
    <3>2. unit[u].current \in {Nothing, r.base}
      BY <1>4 DEF Changes, BaseConflicts
    <3> QED BY <1>0, <1>2, <3>1, <3>2, PublishAssumption
  <2>4. ASSUME NEW n \in Applied(u)', NEW m \in Applied(u)', m < n,
               Applied(u)' \cap (m + 1) .. (n - 1) = {}
        PROVE  calls'[n].request.base = calls'[m].request.target
    <3>1. m \in Applied(u) /\ m \in 1 .. Len(calls)
      BY <1>0, <1>2, <2>1, <2>4
    <3>2. CASE n = last
      <4>1. \A k \in Applied(u) : k <= m
        BY <1>0, <1>2, <2>1, <2>4, <3>1, <3>2
      <4> QED BY <1>0, <2>3, <3>1, <3>2, <4>1
    <3>3. CASE n \in Applied(u)
      <4>1. Applied(u) \cap (m + 1) .. (n - 1) = {}
        BY <2>1, <2>4
      <4>2. n \in 1 .. Len(calls)
        BY <1>2, <3>3
      <4> QED BY <1>0, <1>1, <2>4, <3>1, <3>3, <4>1, <4>2
    <3> QED BY <2>1, <3>2, <3>3
  <2>5. ASSUME NEW n \in Applied(u)', \A m \in Applied(u)' : m <= n
        PROVE  unit'[u].current = calls'[n].request.target
    <3>1. n = last
      BY <1>0, <1>2, <2>1, <2>5
    <3> QED BY <1>0, <2>2, <3>1
  <2> QED BY <2>1, <2>4, <2>5
<1>5. CASE ~ (Changes(r, c) /\ r.unit = u)
  <2>1. Applied(u)' = Applied(u)
    BY <1>3, <1>5 DEF Compensates, Keeps, Successes
  <2>2. \A n \in Applied(u) : calls'[n] = calls[n] /\ calls[n].request.target # Nothing
    BY <1>0, <1>2, PublishAssumption
  <2>5. \A n, m \in Applied(u) : m < n /\ Applied(u) \cap (m + 1) .. (n - 1) = {} =>
          calls'[n].request.base = calls'[m].request.target
    <3> SUFFICES ASSUME NEW n \in Applied(u), NEW m \in Applied(u), m < n,
                        Applied(u) \cap (m + 1) .. (n - 1) = {}
                 PROVE  calls'[n].request.base = calls'[m].request.target
      OBVIOUS
    <3>1. calls[n].request.base = calls[m].request.target
      BY <1>1
    <3> QED BY <2>2, <3>1
  <2>3. CASE Compensates(r, c) /\ r.unit = u
    <3>1. unit[u].current = Nothing /\ unit'[u].current = r.base
      BY <2>3 DEF Compensates, LineTypeOK
    <3>2. calls'[last].reason = "compensation_triggered" /\ calls'[last].request = r /\ last \in DOMAIN calls'
      BY <1>0, <2>3 DEF Compensates
    <3>3. \A n \in Applied(u) : ~ (\A m \in Applied(u) : m <= n)
      BY <1>1, <2>2, <3>1
    <3>4. \E n \in DOMAIN calls' : /\ calls'[n].reason = "compensation_triggered"
                                   /\ calls'[n].request.unit = u
                                   /\ calls'[n].request.base = unit'[u].current
      BY <2>3, <3>1, <3>2
    <3>5. \A n \in Applied(u) : (\A m \in Applied(u) : m <= n) => unit'[u].current = calls'[n].request.target
      BY <3>3
    <3> QED BY <2>1, <2>5, <3>4, <3>5
  <2>4. CASE ~ (Compensates(r, c) /\ r.unit = u)
    <3>1. unit'[u] = unit[u]
      BY <1>0, <1>5, <2>4 DEF Changes, Compensates, Keeps, LineTypeOK
    <3>2. \A n \in DOMAIN calls : n \in DOMAIN calls' /\ calls'[n] = calls[n]
      BY <1>0
    <3>3. \A n \in Applied(u) : (\A m \in Applied(u) : m <= n) => unit'[u].current = calls'[n].request.target
      BY <1>1, <2>2, <3>1
    <3>4. ASSUME Applied(u) = {}, unit'[u].current # Nothing
          PROVE  \E n \in DOMAIN calls' : /\ calls'[n].reason = "compensation_triggered"
                                          /\ calls'[n].request.unit = u
                                          /\ calls'[n].request.base = unit'[u].current
      <4>1. PICK n \in DOMAIN calls : /\ calls[n].reason = "compensation_triggered"
                                     /\ calls[n].request.unit = u
                                     /\ calls[n].request.base = unit[u].current
        BY <1>1, <3>1, <3>4
      <4> QED BY <3>1, <3>2, <4>1
    <3> QED BY <2>1, <2>5, <3>3, <3>4
  <2> QED BY <2>3, <2>4
<1> QED BY <1>4, <1>5

LEMMA LineStep == ASSUME LineInv, [Next]_vars PROVE LineInv'
<1>1. ASSUME NEW r \in PublishRequests, publishConfig(r), UNCHANGED now PROVE LineInv'
  <2>0. LineTypeOK /\ RecordsTell /\ AnswersTell /\ ChangeSetsOnce /\ OneLine
    BY DEF LineInv
  <2>1. PICK c \in CallType :
          /\ calls' = Append(calls, c) /\ c.request = r
          /\ Changes(r, c) \/ Compensates(r, c) \/ Keeps(r, c)
          /\ Stores(r, c) \/ Repeats(r, c)
    BY <1>1, <2>0, CallStep
  <2> QED BY <1>1, <2>0, <2>1, CallTyped, AnswersStand, ChangeSetsStand, LineStands DEF LineInv
<1>2. ASSUME UNCHANGED publishVars, now' \in Nat PROVE LineInv'
  <2>1. unit' = unit /\ dedup' = dedup /\ calls' = calls
    BY <1>2 DEF publishVars
  <2>2. LineTypeOK' /\ RecordsTell' /\ AnswersTell' /\ ChangeSetsOnce'
    BY <1>2, <2>1 DEF LineInv, LineTypeOK, RecordsTell, AnswersTell, ChangeSetsOnce
  <2>3. OneLine'
    BY <2>1 DEF LineInv, OneLine, Applied
  <2> QED BY <2>2, <2>3 DEF LineInv
<1>3. now \in Nat
  BY DEF LineInv, LineTypeOK
<1>4. CASE PublishStep
  BY <1>1, <1>4 DEF PublishStep
<1>5. CASE Tick
  BY <1>2, <1>3, <1>5 DEF Tick
<1>6. CASE UNCHANGED vars
  BY <1>2, <1>3, <1>6 DEF vars
<1>7. ASSUME NEW g \in Gets, NEW etag \in Etags,
             RefuseGet(g) \/ Resolve(g) \/ refreshEntry(g) \/ RefreshFails(g) \/ NextGet(g)
             \/ handleGetConfig(g, etag)
      PROVE  LineInv'
  BY <1>2, <1>3, <1>7
  DEF RefuseGet, Resolve, refreshEntry, RefreshFails, NextGet, handleGetConfig
<1>8. ASSUME NEW g \in Gets, RefuseGet(g) \/ Resolve(g) \/ refreshEntry(g) \/ RefreshFails(g) \/ NextGet(g)
      PROVE  LineInv'
  BY <1>2, <1>3, <1>8 DEF RefuseGet, Resolve, refreshEntry, RefreshFails, NextGet
<1> QED BY <1>4, <1>5, <1>6, <1>7, <1>8 DEF Next

LEMMA LineHolds == Spec => []LineInv
<1>1. Init => LineInv
  <2> SUFFICES ASSUME Init PROVE LineInv
    OBVIOUS
  <2>1. /\ now = 0 /\ calls = <<>> /\ unit = [u \in Units |-> [current |-> Nothing, changeSets |-> {}]]
        /\ dedup = [k \in PublishKeys |-> NoRecord]
    BY DEF Init, PublishInit
  <2>2. calls \in Seq(CallType) /\ Len(calls) = 0 /\ DOMAIN calls = {}
    BY <2>1, EmptySeq
  <2>3. LineTypeOK
    BY <2>1, <2>2 DEF LineTypeOK
  <2>4. RecordsTell /\ AnswersTell /\ ChangeSetsOnce
    BY <2>1, <2>2 DEF RecordsTell, AnswersTell, ChangeSetsOnce
  <2>5. OneLine
    BY <2>1, <2>2 DEF OneLine, Applied
  <2> QED BY <2>3, <2>4, <2>5 DEF LineInv
<1> QED BY <1>1, LineStep, PTL DEF Spec

(* The versions of a unit form one line that is written once, and who is told of a
   success is told of the operation that brought it: for any units, versions,
   requests, deduplication window and number of calls. *)
THEOREM VersionsCorrect == Spec => []VersionsInLine
<1>1. LineInv => VersionsInLine
  BY DEF LineInv, VersionsInLine, ChangeSetsOnce, AnswersTell, Successes
<1> QED BY <1>1, LineHolds, PTL

----------------------------------------------------------------------------
(* What is served *)

\* When a version was last the current one, up to now.
Seen(v) == IF v = CurrentVersion THEN now ELSE lastCurrent[v]

\* An entry is kept no longer than its version was seen to be current.
EntryOK(e) == e # NoEntry =>
  e.version \in Versions /\ e.expireAt <= e.staleUntil
  /\ e.staleUntil <= Seen(e.version) + LongestTtl(e.version) + Grace

Stages == {"idle", "waiting", "resolved", "answered"}
Freshness == {"none", "miss", "fresh", "stale_grace", "expired_hard"}
Statuses == {0, 200, 304, 400, 503}
AnyVersion == Versions \cup {Nothing}
GetType == [stage : Stages, etag : AnyVersion, at : Nat, state : Freshness, cached : EntryType,
            version : AnyVersion, status : Statuses]

GetOK(g) ==
  /\ g.at <= now
  /\ g.stage \in {"waiting", "resolved"} /\ g.state = "stale_grace" =>
       g.cached # NoEntry /\ EntryOK(g.cached) /\ g.at <= g.cached.staleUntil
  /\ g.stage = "resolved" => g.version \in Versions /\ g.at <= Seen(g.version)
  /\ g.stage = "answered" /\ g.status \in {200, 304} =>
       g.version \in Versions /\ g.at <= Seen(g.version) + LongestTtl(g.version) + Grace

ServeInv ==
  /\ lastCurrent \in [Versions -> Nat] /\ \A v \in Versions : lastCurrent[v] <= now
  /\ entry \in EntryType /\ EntryOK(entry)
  /\ get \in [Gets -> GetType] /\ \A g \in Gets : GetOK(get[g])

LEMMA SeenType ==
  ASSUME LineTypeOK, ServeInv
  PROVE  /\ now \in Nat /\ CurrentVersion \in Versions
         /\ \A v \in Versions : Seen(v) \in Nat /\ Seen(v) <= now /\ LongestTtl(v) \in Nat
  BY DeliveryAssumption DEF LineTypeOK, ServeInv, Seen, CurrentVersion, LongestTtl

(* No step makes a version older than it was. *)
LEMMA SeenGrows ==
  ASSUME LineTypeOK, LineTypeOK', ServeInv, [Next]_vars
  PROVE  /\ \A v \in Versions : Seen(v) <= Seen(v)'
         /\ lastCurrent' \in [Versions -> Nat] /\ \A v \in Versions : lastCurrent'[v] <= now'
         /\ now <= now' /\ now' \in Nat
<1>0. now \in Nat /\ now' \in Nat /\ CurrentVersion \in Versions
  BY SeenType DEF LineTypeOK
<1>1. CASE PublishStep
  BY <1>0, <1>1 DEF PublishStep, ServeInv, Seen
<1>2. CASE Tick
  <2>1. CurrentVersion' = CurrentVersion /\ lastCurrent' = lastCurrent /\ now' = now + 1
    BY <1>2 DEF Tick, publishVars, CurrentVersion
  <2> QED BY <1>0, <2>1 DEF ServeInv, Seen
<1>3. CASE UNCHANGED <<now, publishVars, lastCurrent>>
  <2>1. CurrentVersion' = CurrentVersion /\ lastCurrent' = lastCurrent /\ now' = now
    BY <1>3 DEF publishVars, CurrentVersion
  <2> QED BY <1>0, <2>1 DEF ServeInv, Seen
<1>4. [Next]_vars => PublishStep \/ Tick \/ UNCHANGED <<now, publishVars, lastCurrent>>
  BY DEF Next, vars, RefuseGet, Resolve, refreshEntry, RefreshFails, NextGet, handleGetConfig
<1> QED BY <1>1, <1>2, <1>3, <1>4

(* What was true of an entry and of a request at one moment stays true of them. *)
LEMMA AgesKeep ==
  ASSUME LineTypeOK, LineTypeOK', ServeInv, [Next]_vars
  PROVE  /\ \A e \in EntryType : EntryOK(e) => EntryOK(e)'
         /\ \A g \in GetType : GetOK(g) => GetOK(g)'
<1>1. /\ now \in Nat /\ now' \in Nat /\ now <= now'
      /\ \A v \in Versions : Seen(v) \in Nat /\ Seen(v)' \in Nat /\ Seen(v) <= Seen(v)' /\ LongestTtl(v) \in Nat
  <2>1. /\ now \in Nat /\ now' \in Nat /\ now <= now'
        /\ \A v \in Versions : Seen(v) <= Seen(v)' /\ Seen(v) \in Nat /\ LongestTtl(v) \in Nat
    BY SeenType, SeenGrows
  <2>2. \A v \in Versions : Seen(v)' \in Nat
    BY SeenGrows DEF Seen
  <2> QED BY <2>1, <2>2
<1>2. Grace \in Nat
  BY DeliveryAssumption
<1>3. ASSUME NEW e \in EntryType, EntryOK(e) PROVE EntryOK(e)'
  BY <1>1, <1>2, <1>3 DEF EntryOK, EntryType, LongestTtl
<1>4. ASSUME NEW g \in GetType, GetOK(g) PROVE GetOK(g)'
  <2>1. g.cached \in EntryType /\ g.at \in Nat
    BY DEF GetType
  <2>2. (g.at <= now)'
    BY <1>1, <1>4, <2>1 DEF GetOK
  <2>3. (g.stage \in {"waiting", "resolved"} /\ g.state = "stale_grace" =>
           g.cached # NoEntry /\ EntryOK(g.cached) /\ g.at <= g.cached.staleUntil)'
    BY <1>3, <1>4, <2>1 DEF GetOK
  <2>4. (g.stage = "resolved" => g.version \in Versions /\ g.at <= Seen(g.version))'
    BY <1>1, <1>4, <2>1 DEF GetOK
  <2>5. (g.stage = "answered" /\ g.status \in {200, 304} =>
           g.version \in Versions /\ g.at <= Seen(g.version) + LongestTtl(g.version) + Grace)'
    BY <1>1, <1>2, <1>4, <2>1 DEF GetOK, LongestTtl
  <2> QED BY <2>2, <2>3, <2>4, <2>5 DEF GetOK
<1> QED BY <1>3, <1>4

(* A request whose fields are changed within their types is a request. *)
LEMMA FieldsTyped ==
  ASSUME NEW d \in GetType
  PROVE  /\ \A x \in Stages : [d EXCEPT !.stage = x] \in GetType
         /\ \A x \in AnyVersion : [d EXCEPT !.etag = x] \in GetType
         /\ \A x \in Nat : [d EXCEPT !.at = x] \in GetType
         /\ \A x \in Freshness : [d EXCEPT !.state = x] \in GetType
         /\ \A x \in EntryType : [d EXCEPT !.cached = x] \in GetType
         /\ \A x \in AnyVersion : [d EXCEPT !.version = x] \in GetType
         /\ \A x \in Statuses : [d EXCEPT !.status = x] \in GetType
BY DEF GetType

LEMMA IdleTyped == Idle \in GetType /\ NoEntry \in EntryType
BY DEF Idle, GetType, EntryType, NoEntry, Stages, Freshness, Statuses, AnyVersion

(* An answer is well formed. *)
LEMMA AnswerTyped ==
  ASSUME NEW d \in GetType, NEW v \in AnyVersion, NEW status \in Statuses
  PROVE  [d EXCEPT !.stage = "answered", !.version = v, !.status = status] \in GetType
<1> DEFINE d1 == [d EXCEPT !.stage = "answered"]
           d2 == [d1 EXCEPT !.version = v]
           d3 == [d2 EXCEPT !.status = status]
<1>1. d1 \in GetType
  BY FieldsTyped DEF Stages
<1> HIDE DEF d1
<1>2. d2 \in GetType
  BY <1>1, FieldsTyped
<1> HIDE DEF d2
<1>3. d3 \in GetType
  BY <1>2, FieldsTyped
<1>4. d3 = [d EXCEPT !.stage = "answered", !.version = v, !.status = status]
  BY DEF d1, d2
<1> QED BY <1>3, <1>4

LEMMA AnswerReads ==
  ASSUME NEW d \in GetType, NEW v, NEW status
  PROVE  LET a == [d EXCEPT !.stage = "answered", !.version = v, !.status = status]
         IN  a.stage = "answered" /\ a.version = v /\ a.at = d.at
BY DEF GetType

LEMMA ServedTyped ==
  ASSUME NEW d \in GetType, NEW v \in Versions
  PROVE  /\ Served(d, v) \in GetType
         /\ Served(d, v).stage = "answered" /\ Served(d, v).version = v /\ Served(d, v).at = d.at
<1> DEFINE status == IF d.etag = v THEN 304 ELSE 200
<1>1. status \in Statuses
  BY DEF Statuses
<1>v. v \in AnyVersion
  BY DEF AnyVersion
<1>s. Served(d, v) = [d EXCEPT !.stage = "answered", !.version = v, !.status = status]
  BY DEF Served
<1> HIDE DEF status
<1>t. [d EXCEPT !.stage = "answered", !.version = v, !.status = status] \in GetType
  BY <1>1, <1>v, AnswerTyped
<1>2. Served(d, v) \in GetType
  BY ONLY <1>s, <1>t
<1>3. Served(d, v).stage = "answered" /\ Served(d, v).version = v /\ Served(d, v).at = d.at
  BY <1>s, AnswerReads
<1> QED BY <1>2, <1>3

LEMMA ReceivedTyped ==
  ASSUME now \in Nat, entry \in EntryType, NEW etag \in AnyVersion
  PROVE  Received(etag) \in GetType
<1> DEFINE d1 == [Idle EXCEPT !.stage = "waiting"]
           d2 == [d1 EXCEPT !.etag = etag]
           d3 == [d2 EXCEPT !.at = now]
           d4 == [d3 EXCEPT !.state = readState]
           d5 == [d4 EXCEPT !.cached = entry]
<1>0. readState \in Freshness
  BY DEF readState, Freshness
<1>1. d1 \in GetType
  BY IdleTyped, FieldsTyped DEF Stages
<1> HIDE DEF d1
<1>2. d2 \in GetType
  BY <1>1, FieldsTyped
<1> HIDE DEF d2
<1>3. d3 \in GetType
  BY <1>2, FieldsTyped
<1> HIDE DEF d3
<1>4. d4 \in GetType
  BY <1>0, <1>3, FieldsTyped
<1> HIDE DEF d4
<1>5. d5 \in GetType
  BY <1>4, FieldsTyped
<1>6. d5 = Received(etag)
  BY DEF d1, d2, d3, d4, Received
<1> QED BY <1>5, <1>6

(* A request that takes a step stays within what is known of it; the other requests
   and the entry do too. *)
LEMMA ServeStep == ASSUME LineTypeOK, LineTypeOK', ServeInv, [Next]_vars PROVE ServeInv'
<1>0. PICK e0 \in EntryType, g0 \in [Gets -> GetType] : entry = e0 /\ get = g0
  BY DEF ServeInv
<1>k. EntryOK(e0) /\ EntryOK(e0)' /\ \A g \in Gets : g0[g] \in GetType /\ GetOK(g0[g]) /\ GetOK(g0[g])'
  <2>1. EntryOK(e0) /\ \A g \in Gets : g0[g] \in GetType /\ GetOK(g0[g])
    BY <1>0 DEF ServeInv
  <2> QED BY <2>1, AgesKeep
<1>1. lastCurrent' \in [Versions -> Nat] /\ \A v \in Versions : lastCurrent'[v] <= now'
  BY SeenGrows
<1>2. now \in Nat /\ CurrentVersion \in Versions /\ \A v \in Versions : Seen(v) \in Nat /\ LongestTtl(v) \in Nat
  BY SeenType
<1>3. Grace \in Nat /\ DefaultTtl \in Nat \ {0} /\ TtlOf \in [Versions -> Nat] /\ Etags \subseteq AnyVersion
  BY DeliveryAssumption DEF AnyVersion
<1>a. ASSUME NEW g \in Gets, NEW d \in GetType, NEW e \in EntryType,
             GetOK(d)', EntryOK(e)', get' = [get EXCEPT ![g] = d], entry' = e
      PROVE  ServeInv'
  <2>1. get' \in [Gets -> GetType]
    BY <1>0, <1>a
  <2>2. \A h \in Gets : get'[h] = IF h = g THEN d ELSE g0[h]
    BY <1>0, <1>a
  <2>3. \A h \in Gets : GetOK(get[h])'
    BY <1>a, <1>k, <2>2
  <2> QED BY <1>1, <1>a, <2>1, <2>3 DEF ServeInv
<1>4. CASE PublishStep \/ Tick \/ UNCHANGED vars
  <2>1. entry' = e0 /\ get' = g0
    BY <1>0, <1>4 DEF PublishStep, Tick, vars
  <2>2. EntryOK(entry)' /\ \A g \in Gets : GetOK(get[g])'
    BY <1>k, <2>1
  <2> QED BY <1>1, <2>1, <2>2 DEF ServeInv
<1> DEFINE Quiet == UNCHANGED <<now, publishVars, lastCurrent>>
<1>s. ASSUME Quiet PROVE now' = now /\ CurrentVersion' = CurrentVersion /\ \A v : Seen(v)' = Seen(v)
  BY <1>s DEF Seen, CurrentVersion, publishVars
<1>v. ASSUME NEW d \in GetType, NEW v \in Versions, Quiet, d.at <= now,
             d.at <= Seen(v) + LongestTtl(v) + Grace
      PROVE  Served(d, v) \in GetType /\ GetOK(Served(d, v))'
  <2> HIDE DEF Quiet
  <2> QED BY <1>s, <1>v, ServedTyped DEF GetOK, LongestTtl
<1>5. ASSUME NEW g \in Gets, RefuseGet(g) PROVE ServeInv'
  <2> DEFINE d == [Idle EXCEPT !.stage = "answered", !.status = 400]
  <2>1. d \in GetType /\ d.stage = "answered" /\ d.status = 400 /\ d.at = 0
    <3> DEFINE a == [Idle EXCEPT !.stage = "answered"]
    <3>1. a \in GetType
      BY IdleTyped, FieldsTyped DEF Stages
    <3>2. d = [[Idle EXCEPT !.stage = "answered"] EXCEPT !.status = 400]
      OBVIOUS
    <3>3. d \in GetType
      <4>1. 400 \in Statuses
        BY DEF Statuses
      <4> HIDE DEF a
      <4>2. [a EXCEPT !.status = 400] \in GetType
        BY <3>1, <4>1, FieldsTyped
      <4> QED BY <3>2, <4>2 DEF a
    <3> QED BY <3>3 DEF Idle
  <2>2. Quiet /\ get' = [get EXCEPT ![g] = d] /\ entry' = e0
    BY <1>0, <1>5 DEF RefuseGet
  <2>3. GetOK(d)'
    <3> HIDE DEF d
    <3> QED BY <1>2, <1>s, <2>1, <2>2 DEF GetOK
  <2> HIDE DEF d, Quiet
  <2> QED BY <1>a, <1>k, <2>1, <2>2, <2>3
<1>6. ASSUME NEW g \in Gets, NextGet(g) PROVE ServeInv'
  <2>1. Idle \in GetType /\ Idle.stage = "idle" /\ Idle.at = 0
    BY IdleTyped DEF Idle
  <2>2. Quiet /\ get' = [get EXCEPT ![g] = Idle] /\ entry' = e0
    BY <1>0, <1>6 DEF NextGet
  <2>3. GetOK(Idle)'
    BY <1>2, <1>s, <2>1, <2>2 DEF GetOK
  <2> HIDE DEF Quiet
  <2> QED BY <1>a, <1>k, <2>1, <2>2, <2>3
<1>7. ASSUME NEW g \in Gets, NEW etag \in Etags, handleGetConfig(g, etag) PROVE ServeInv'
  <2>0. readState \in {"miss", "fresh", "stale_grace", "expired_hard"}
    BY DEF readState
  <2>1. PICK d \in GetType : d = Received(etag)
    BY <1>0, <1>2, <1>3, ReceivedTyped DEF AnyVersion
  <2>2. /\ d.stage = "waiting" /\ d.at = now /\ d.state = readState /\ d.cached = e0
        /\ d.etag = etag
    BY <1>0, <2>1 DEF Received, Idle
  <2>3. Quiet /\ entry' = e0
    BY <1>0, <1>7 DEF handleGetConfig
  <2>4. CASE readState = "fresh"
    <3>1. entry # NoEntry /\ now < entry.expireAt
      BY <2>4 DEF readState
    <3>2. entry.version \in Versions /\ now <= Seen(entry.version) + LongestTtl(entry.version) + Grace
      BY <1>0, <1>2, <1>3, <1>k, <3>1 DEF EntryOK, EntryType
    <3>3. get' = [get EXCEPT ![g] = Served(d, entry.version)]
      BY <1>7, <2>1, <2>4 DEF handleGetConfig
    <3>4. Served(d, e0.version) \in GetType /\ GetOK(Served(d, e0.version))'
      BY <1>0, <1>2, <1>v, <2>2, <2>3, <3>2
    <3> HIDE DEF Quiet
    <3> QED BY <1>0, <1>a, <1>k, <2>3, <3>3, <3>4
  <2>5. CASE readState # "fresh"
    <3>1. get' = [get EXCEPT ![g] = d]
      BY <1>7, <2>1, <2>5 DEF handleGetConfig
    <3>2. readState = "stale_grace" => e0 # NoEntry /\ now <= e0.staleUntil
      BY <1>0 DEF readState
    <3>3. GetOK(d)'
      <4>1. d.at <= now' /\ d.stage = "waiting"
        BY <1>2, <1>s, <2>2, <2>3
      <4> HIDE DEF Quiet
      <4> QED BY <1>k, <2>2, <3>2, <4>1 DEF GetOK
    <3> HIDE DEF Quiet
    <3> QED BY <1>a, <1>k, <2>3, <3>1, <3>3
  <2> QED BY <2>4, <2>5
<1>8. ASSUME NEW g \in Gets, Resolve(g) PROVE ServeInv'
  <2> DEFINE d == [[g0[g] EXCEPT !.stage = "resolved"] EXCEPT !.version = CurrentVersion]
  <2>1. g0[g] \in GetType /\ GetOK(g0[g]) /\ g0[g].at \in Nat /\ g0[g].stage = "waiting"
    BY <1>0, <1>8, <1>k DEF Resolve, GetType
  <2>2. PICK d0 \in GetType : d0 = d
    <3> DEFINE a == [g0[g] EXCEPT !.stage = "resolved"]
    <3>1. a \in GetType
      BY <2>1, FieldsTyped DEF Stages
    <3> HIDE DEF a
    <3>2. [a EXCEPT !.version = CurrentVersion] \in GetType
      BY <1>2, <3>1, FieldsTyped DEF AnyVersion
    <3> QED BY <3>2 DEF a
  <2>3. /\ d0.stage = "resolved" /\ d0.version = CurrentVersion /\ d0.at = g0[g].at
        /\ d0.state = g0[g].state /\ d0.cached = g0[g].cached
    BY <2>1, <2>2 DEF GetType
  <2>4. Quiet /\ get' = [get EXCEPT ![g] = d0] /\ entry' = e0
    BY <1>0, <1>8, <2>2 DEF Resolve
  <2>5. GetOK(d0)
    BY <1>2, <2>1, <2>3 DEF GetOK, Seen
  <2>6. GetOK(d0)'
    BY <2>5, AgesKeep
  <2> HIDE DEF Quiet
  <2> QED BY <1>a, <1>k, <2>4, <2>6
<1>9. ASSUME NEW g \in Gets, refreshEntry(g) PROVE ServeInv'
  <2>1. /\ g0[g] \in GetType /\ GetOK(g0[g]) /\ g0[g].at \in Nat /\ g0[g].stage = "resolved"
        /\ g0[g].version \in Versions /\ g0[g].at <= Seen(g0[g].version) /\ g0[g].at <= now
    BY <1>0, <1>9, <1>k DEF refreshEntry, GetType, GetOK
  <2>2. PICK e1 \in EntryType : e1 = EntryOf(g0[g].version, g0[g].at) /\ EntryOK(e1)
    <3> DEFINE v == g0[g].version
               ttl == IF TtlOf[v] = 0 THEN DefaultTtl ELSE TtlOf[v]
    <3>1. ttl = LongestTtl(v) /\ ttl \in Nat
      BY <1>3, <2>1 DEF LongestTtl
    <3>2. EntryOf(v, g0[g].at) = [version |-> v, expireAt |-> g0[g].at + ttl, staleUntil |-> g0[g].at + ttl + Grace]
      BY DEF EntryOf
    <3> HIDE DEF ttl
    <3>3. EntryOf(v, g0[g].at) \in EntryType
      BY <1>3, <2>1, <3>1, <3>2 DEF EntryType
    <3>4. EntryOK(EntryOf(v, g0[g].at))
      BY <1>2, <1>3, <2>1, <3>1, <3>2 DEF EntryOK
    <3> QED BY <3>3, <3>4
  <2>3. Quiet /\ get' = [get EXCEPT ![g] = Served(g0[g], g0[g].version)] /\ entry' = e1
    BY <1>0, <1>9, <2>2 DEF refreshEntry
  <2>4. EntryOK(e1)'
    BY <2>2, AgesKeep
  <2>5. Served(g0[g], g0[g].version) \in GetType /\ GetOK(Served(g0[g], g0[g].version))'
    BY <1>2, <1>3, <1>v, <2>1, <2>3
  <2> HIDE DEF Quiet
  <2> QED BY <1>a, <2>3, <2>4, <2>5
<1>10. ASSUME NEW g \in Gets, RefreshFails(g) PROVE ServeInv'
  <2>1. /\ g0[g] \in GetType /\ GetOK(g0[g]) /\ g0[g].at \in Nat /\ g0[g].at <= now
        /\ g0[g].stage \in {"waiting", "resolved"} /\ g0[g].cached \in EntryType
    BY <1>0, <1>10, <1>k DEF RefreshFails, GetType, GetOK
  <2>2. Quiet /\ entry' = e0
    BY <1>0, <1>10 DEF RefreshFails
  <2>3. CASE g0[g].state = "stale_grace"
    <3>1. /\ g0[g].cached # NoEntry /\ EntryOK(g0[g].cached)
          /\ g0[g].at <= g0[g].cached.staleUntil
      BY <2>1, <2>3 DEF GetOK
    <3> DEFINE v == g0[g].cached.version
    <3>2. v \in Versions /\ g0[g].at <= Seen(v) + LongestTtl(v) + Grace
      BY <1>2, <1>3, <2>1, <3>1 DEF EntryOK, EntryType
    <3>3. PICK d : d = ServedStale(g0[g])
      OBVIOUS
    <3>4. d \in GetType
      <4>1. v \in AnyVersion /\ 200 \in Statuses
        BY <3>2 DEF AnyVersion, Statuses
      <4>2. d = [g0[g] EXCEPT !.stage = "answered", !.version = v, !.status = 200]
        BY <3>3 DEF ServedStale
      <4> HIDE DEF v
      <4>3. [g0[g] EXCEPT !.stage = "answered", !.version = v, !.status = 200] \in GetType
        <5>1. PICK d0 \in GetType : d0 = g0[g]
          BY <2>1
        <5>2. PICK status \in Statuses : status = 200
          BY <4>1
        <5>3. [d0 EXCEPT !.stage = "answered", !.version = v, !.status = status] \in GetType
          BY <4>1, AnswerTyped
        <5> QED BY ONLY <5>1, <5>2, <5>3
      <4> QED BY ONLY <4>2, <4>3
    <3>5. d.stage = "answered" /\ d.version = v /\ d.at = g0[g].at
      <4>1. d = [g0[g] EXCEPT !.stage = "answered", !.version = v, !.status = 200]
        BY <3>3 DEF ServedStale
      <4> HIDE DEF v
      <4> QED BY <2>1, <4>1, AnswerReads
    <3>6. get' = [get EXCEPT ![g] = d]
      BY <1>0, <1>10, <2>3, <3>3 DEF RefreshFails
    <3> HIDE DEF Quiet, v
    <3>7. GetOK(d)'
      BY <1>s, <2>1, <2>2, <3>2, <3>4, <3>5 DEF GetOK, LongestTtl
    <3> QED BY <1>a, <1>k, <2>2, <3>4, <3>6, <3>7
  <2>4. CASE g0[g].state # "stale_grace"
    <3>1. Failed(g0[g]) \in GetType
      <4>1. PICK v \in AnyVersion, status \in Statuses : v = Nothing /\ status = 503
        BY DEF AnyVersion, Statuses
      <4>2. [g0[g] EXCEPT !.stage = "answered", !.version = v, !.status = status] \in GetType
        BY <2>1, AnswerTyped
      <4> QED BY <4>1, <4>2 DEF Failed
    <3>2. Failed(g0[g]).stage = "answered" /\ Failed(g0[g]).status = 503 /\ Failed(g0[g]).at = g0[g].at
      BY <2>1 DEF Failed, GetType
    <3>3. get' = [get EXCEPT ![g] = Failed(g0[g])]
      BY <1>0, <1>10, <2>4 DEF RefreshFails
    <3>4. GetOK(Failed(g0[g]))
      BY <2>1, <3>2 DEF GetOK
    <3>5. GetOK(Failed(g0[g]))'
      BY <3>1, <3>4, AgesKeep
    <3> HIDE DEF Quiet
    <3> QED BY <1>a, <1>k, <2>2, <3>1, <3>3, <3>5
  <2> QED BY <2>3, <2>4
<1> HIDE DEF Quiet
<1> QED BY <1>4, <1>5, <1>6, <1>7, <1>8, <1>9, <1>10 DEF Next

LEMMA ServeHolds == Spec => []ServeInv
<1>1. Init => ServeInv
  <2> SUFFICES ASSUME Init PROVE ServeInv
    OBVIOUS
  <2>1. now = 0 /\ entry = NoEntry /\ get = [g \in Gets |-> Idle] /\ lastCurrent = [v \in Versions |-> 0]
    BY DEF Init, PublishInit
  <2>2. GetOK(Idle) /\ EntryOK(NoEntry)
    BY <2>1 DEF GetOK, EntryOK, Idle
  <2> QED BY <2>1, <2>2, IdleTyped DEF ServeInv
<1>2. LineInv => LineTypeOK
  BY DEF LineInv
<1> QED BY <1>1, <1>2, LineHolds, ServeStep, PTL DEF Spec

(* What a client is told was the published version no longer ago than its time to
   live and the grace period, counted back from when it asked: for any units,
   versions, times to live, requests and clients, however their steps interleave. *)
THEOREM ServedRecently == Spec => []ServedIsRecent
<1>1. LineTypeOK /\ ServeInv => ServedIsRecent
  <2> SUFFICES ASSUME LineTypeOK, ServeInv, NEW g \in Gets, get[g].stage = "answered",
                      get[g].status \in {200, 304}, get[g].version # CurrentVersion
               PROVE  get[g].at <= lastCurrent[get[g].version] + LongestTtl(get[g].version) + Grace
    BY DEF ServedIsRecent
  <2> QED BY DEF ServeInv, GetOK, Seen
<1>2. LineInv => LineTypeOK
  BY DEF LineInv
<1> QED BY <1>1, <1>2, LineHolds, ServeHolds, PTL
=============================================================================
