------------------------- MODULE SignalNormalization -------------------------
(***************************************************************************)
(* Module B of the contract loop (schema-normalization): what an ingress   *)
(* packet is normalized to (input-normalizer.js, canonical-dict.js), what  *)
(* the sources that disagree on a slot are settled to                      *)
(* (conflict-resolver.js), the buckets of its numbers (bucketizer.js), the *)
(* redaction of its identifiers (redaction.js), and the request that is    *)
(* traded (openrtb-projection.js) with its audit (mapping-audit.js).  The  *)
(* caller that passes one result to the next is outside of src/mediation/  *)
(* src; it is taken from b-projection.integration.test.js and              *)
(* b-conflict.integration.test.js.  A text that is empty is "".            *)
(***************************************************************************)
EXTENDS Integers, Sequences, FiniteSets

CONSTANTS Packets,    \* the packets module A may hand over, with what the sources state
          EnumToken,  \* how a text of a packet is spelled in lower case with underscores
          LocaleRank, \* the place of a value's key in the order of localeCompare
          Readable    \* which method of coarsening can read which text

VARIABLES packet, \* the packet at work
          work    \* what the services have answered so far

signalVars == <<packet, work>>

NotYet == [made |-> FALSE]

----------------------------------------------------------------------------
(* The dictionary.  A few names stand for the aliases of a value.            *)

SemanticSlots == <<"triggerDecision", "decisionOutcome", "hitType",
                   "placementType", "actorType", "channelType">>
SemanticNames == {SemanticSlots[i] : i \in DOMAIN SemanticSlots}
GatingSlots == {"triggerDecision", "decisionOutcome", "hitType"}

Decisions == {"opportunity_eligible", "opportunity_ineligible", "opportunity_blocked_by_policy"}
DecisionAliases ==
  [x \in {"eligible", "ineligible", "policy_blocked"} |->
     CASE x = "eligible" -> "opportunity_eligible" [] x = "ineligible" -> "opportunity_ineligible"
       [] OTHER -> "opportunity_blocked_by_policy"]

SlotDefinitions ==
  [triggerDecision |-> [unknown |-> "unknown_trigger_decision", values |-> Decisions, aliases |-> DecisionAliases],
   decisionOutcome |-> [unknown |-> "unknown_decision_outcome", values |-> Decisions, aliases |-> DecisionAliases],
   hitType |-> [unknown |-> "unknown_hit_type",
     values |-> {"explicit_hit", "workflow_hit", "contextual_hit", "scheduled_hit", "policy_forced_hit", "no_hit"},
     aliases |-> [x \in {"intent_hit", "workflow"} |-> IF x = "workflow" THEN "workflow_hit" ELSE "explicit_hit"]],
   \* Two of its aliases lead to a value that is not among the values.
   placementType |-> [unknown |-> "unknown_placement_type",
     values |-> {"chat_inline", "tool_result", "workflow_checkpoint", "agent_handoff"},
     aliases |-> [x \in {"chat_inline_v1", "chat_followup_v1", "tool_output"} |->
                    CASE x = "chat_inline_v1" -> "chat_inline" [] x = "tool_output" -> "tool_result"
                      [] OTHER -> "next_step"]],
   actorType |-> [unknown |-> "unknown_actor_type", values |-> {"human", "agent", "agent_chain", "system"},
     aliases |-> [x \in {"end_user", "auto_agent"} |-> IF x = "end_user" THEN "human" ELSE "agent"]],
   channelType |-> [unknown |-> "unknown_channel_type", values |-> {"sdk_server", "sdk_client", "webhook", "batch"},
     aliases |-> [x \in {"rest", "sdk_mobile"} |-> IF x = "rest" THEN "sdk_server" ELSE "sdk_client"]]]

UnknownValues == {SlotDefinitions[s].unknown : s \in DOMAIN SlotDefinitions}

ResolveCanonicalEnum(slot, raw) ==
  LET d == SlotDefinitions[slot]
      token == IF raw = "" THEN "" ELSE EnumToken[raw]
  IN CASE token \in d.values \cup {d.unknown} -> [value |-> token, action |-> "exact_match"]
       [] token \in DOMAIN d.aliases         -> [value |-> d.aliases[token], action |-> "alias_map"]
       [] OTHER                              -> [value |-> d.unknown, action |-> "unknown_fallback"]

----------------------------------------------------------------------------
(* The packet: what it lacks, what is ill-formed in it, its texts.           *)

SourceSlots == <<"appExplicit", "placementConfig", "defaultPolicy">>

ValidateRequiredMatrix(p) ==
  CASE p.lacks \cap {"part", "opportunityKey", "state"} # {} -> "missing_required_field"
    [] p.state # "received" -> "invalid_value_range"
    [] p.lacks \cap {"traceKeys", "texts", "sourceSlot"} # {} -> "missing_required_field"
    [] "slot" \in p.ill -> "invalid_structure"
    [] "appExplicit" \notin p.empty /\ "appContext" \in p.lacks -> "missing_required_field"
    [] OTHER -> ""

ValidateTraceContext(p) == IF p.ill \cap {"trace", "otherRequest"} # {} THEN "invalid_trace_context" ELSE ""

\* In hundredths.  What is written as a text is read, and counts as corrected.
NormalizeConfidenceBand(c) ==
  [ok |-> c.form # "unreadable",
   value |-> CASE c.value < 0 -> 0 [] c.value > 100 -> 100 [] OTHER -> c.value,
   corrected |-> c.form = "text" \/ c.value \notin 0..100]

\* The seed's own word goes before that of the bundle.
SemanticInputs(p) ==
  [s \in SemanticNames |->
     IF s \in DOMAIN p.seed /\ p.seed[s] # "" THEN p.seed[s]
     ELSE IF s \in DOMAIN p.bundle THEN p.bundle[s] ELSE ""]

\* A slot that decides whether there is an opportunity is never guessed.
MapSemanticSlot(slot, raw) ==
  LET m == ResolveCanonicalEnum(slot, raw) IN
  [ok |-> m.action # "unknown_fallback" \/ slot \notin GatingSlots,
   value |-> m.value,
   reason |-> CASE m.action # "unknown_fallback" -> ""
                [] slot \in GatingSlots -> "invalid_required_enum"
                [] raw # "" -> "invalid_optional_enum"
                [] OTHER -> "optional_default_applied"]

Refusal(reason) == [made |-> TRUE, accepted |-> FALSE, action |-> "reject", reason |-> reason]

\* What is accepted is degraded for its first warning.
Warnings(p) ==
  LET inputs == SemanticInputs(p)
      slots == [i \in 1..Len(SemanticSlots) |-> MapSemanticSlot(SemanticSlots[i], inputs[SemanticSlots[i]]).reason]
  IN [i \in 1..Cardinality(p.empty) |-> "source_slot_empty"]
     \o (IF NormalizeConfidenceBand(p.confidence).corrected THEN <<"value_corrected">> ELSE <<>>)
     \o SelectSeq(slots, LAMBDA r : r # "")

Accepted(p) ==
  LET inputs == SemanticInputs(p) warnings == Warnings(p) IN
  [made |-> TRUE, accepted |-> TRUE,
   action |-> IF warnings = <<>> THEN "continue" ELSE "degrade",
   reason |-> IF warnings = <<>> THEN "input_mapped_complete" ELSE warnings[1],
   signals |-> [s \in SemanticNames |-> MapSemanticSlot(s, inputs[s]).value],
   confidence |-> NormalizeConfidenceBand(p.confidence).value]

NormalizedOf(p) ==
  CASE ValidateRequiredMatrix(p) # "" -> Refusal(ValidateRequiredMatrix(p))
    [] ValidateRequiredMatrix(p) = "" /\ ValidateTraceContext(p) # "" -> Refusal(ValidateTraceContext(p))
    [] OTHER ->
         CASE ~NormalizeConfidenceBand(p.confidence).ok -> Refusal("invalid_value_range")
           [] NormalizeConfidenceBand(p.confidence).ok
              /\ \E s \in SemanticNames : ~MapSemanticSlot(s, SemanticInputs(p)[s]).ok ->
                Refusal("invalid_required_enum")
           [] OTHER -> Accepted(p)

----------------------------------------------------------------------------
(* Conflicts.  A value is a text, a list or neither, and the items it has; a *)
(* candidate is [source, value, priority, at, sequence], -1 for what it does *)
(* not say.                                                                  *)

SourcePriority == [appExplicit |-> 1, placementConfig |-> 2, defaultPolicy |-> 3]
SetLikeSlots == {"restrictedCategoryFlags", "experimentTags"}

Text(x) == [form |-> "text", items |-> {x}]
CanonicalKey(v) == [list |-> v.form = "list", items |-> v.items]
IsUnknownValue(v) == v.items \cap UnknownValues # {}

NormalizeCandidate(c, index) ==
  [c EXCEPT !.priority = IF c.priority # -1 THEN c.priority
                         ELSE IF c.source \in DOMAIN SourcePriority THEN SourcePriority[c.source] ELSE 999,
            !.sequence = IF c.sequence # -1 THEN c.sequence ELSE index - 1]

Unmergeable(cs) == \E c \in cs : c.value.form = "other"
UnionSetCandidates(cs) == [form |-> "list", items |-> UNION {c.value.items : c \in cs} \ {""}]

Foremost(cs, Rank(_)) == {c \in cs : \A d \in cs : Rank(c) >= Rank(d)}

\* What is known before what is not, the later, the one of the larger number,
\* the smaller text.
TieBreakSamePriority(cs) ==
  LET known  == {c \in cs : ~IsUnknownValue(c.value)}
      kept   == IF known = {} THEN cs ELSE known
      latest == Foremost(kept, LAMBDA c : c.at)
      last   == Foremost(latest, LAMBDA c : c.sequence)
  IN CHOOSE c \in last :
       \A d \in last : LocaleRank[CanonicalKey(c.value)] <= LocaleRank[CanonicalKey(d.value)]

Settled(action, value) == [made |-> TRUE, action |-> action, value |-> value]
Unsettled == Settled("reject", [form |-> "null", items |-> {}])

\* Fault: gating slots are settled like the others.
NeverGates(slot) == FALSE
Gates(slot) == slot \in GatingSlots

FieldStrategy(slot, asked) ==
  CASE asked # "" -> asked [] slot \in SetLikeSlots -> "set_like" [] OTHER -> "scalar"

\* A field is settled by its highest priority, then by the tie break; a set is
\* united; a gating slot and what cannot be united are rejected.
ResolveFieldConflict(slot, strategy, stated) ==
  LET cs == {NormalizeCandidate(stated[i], i) : i \in DOMAIN stated} IN
  CASE cs = {} -> Unsettled
    [] Cardinality({CanonicalKey(c.value) : c \in cs}) = 1 -> Settled("none", stated[1].value)
    [] OTHER ->
         CASE Gates(slot) -> Unsettled
           [] ~Gates(slot) /\ strategy = "set_like" ->
                IF Unmergeable(cs) THEN Unsettled ELSE Settled("merge", UnionSetCandidates(cs))
           [] ~Gates(slot) /\ strategy = "scalar" ->
                Settled("override", TieBreakSamePriority(Foremost(cs, LAMBDA c : -c.priority)).value)
           [] OTHER -> Unsettled

----------------------------------------------------------------------------
(* Buckets.  Scores of intent are in hundredths.  A bucket is                *)
(* <<name, from, to>>, to included.                                          *)

DefaultBucketDictLite ==
  [intentScore |-> [whole |-> FALSE, min |-> 0, max |-> 100, ruled |-> TRUE,
     buckets |-> <<<<"vlow", 0, 19>>, <<"low", 20, 39>>, <<"mid", 40, 69>>, <<"high", 70, 89>>, <<"vhigh", 90, 100>>>>],
   devicePerfScore |-> [whole |-> FALSE, min |-> 0, max |-> 100, ruled |-> TRUE,
     buckets |-> <<<<"p0", 0, 19>>, <<"p1", 20, 39>>, <<"p2", 40, 69>>, <<"p3", 70, 89>>, <<"p4", 90, 100>>>>],
   sessionDepth |-> [whole |-> TRUE, min |-> 0, max |-> 200, ruled |-> TRUE,
     buckets |-> <<<<"d0", 0, 0>>, <<"d1_3", 1, 3>>, <<"d4_10", 4, 10>>, <<"d11_30", 11, 30>>, <<"d31p", 31, 200>>>>]]

PickBucketByRange(d, v) ==
  LET fits == {i \in DOMAIN d.buckets : d.buckets[i][2] <= v /\ v <= d.buckets[i][3]} IN
  IF fits = {} THEN "" ELSE d.buckets[CHOOSE i \in fits : \A j \in fits : i <= j][1]

\* A number is [form, value]; "fraction" is one between two whole numbers.
BucketOf(d, n) ==
  CASE n.form = "unreadable" \/ (d.whole /\ n.form = "fraction") -> "unknown"
    [] OTHER -> CASE n.value < d.min -> "outlier_low" [] n.value > d.max -> "outlier_high"
                  [] OTHER -> PickBucketByRange(d, n.value)

\* Every slot of the dictionary gets a bucket, the ones without a number too.
Bucketize(numbers, dict) ==
  LET Number(s) == IF s \in DOMAIN numbers THEN numbers[s] ELSE [form |-> "unreadable", value |-> 0]
      values == [s \in DOMAIN dict |-> BucketOf(dict[s], Number(s))]
  IN IF \/ DOMAIN numbers \ DOMAIN dict # {}
        \/ \E s \in DOMAIN dict : ~dict[s].ruled \/ values[s] = ""
     THEN [made |-> TRUE, action |-> "reject", values |-> [s \in {} |-> ""]]
     ELSE [made |-> TRUE, values |-> values,
           action |-> IF \E s \in DOMAIN dict : values[s] \in {"unknown", "outlier_low", "outlier_high"}
                      THEN "degrade" ELSE "continue"]

----------------------------------------------------------------------------
(* Redaction.  A policy gives a path its class and its action; a path it     *)
(* does not name is public and passes.  What is made of a text x is          *)
(* <<action, x>>.                                                            *)

Identifying == {"S2_identifier", "S3_sensitive_content"}
NoValue == <<"drop", "">>

DefaultRedactionPolicyLite ==
  [valid |-> TRUE, hashes |-> TRUE,
   rules |-> [sessionKey |-> [class |-> "S2_identifier", action |-> "hash"],
              requestTimestamp |-> [class |-> "S1_quasi_identifier", action |-> "coarsen"],
              deviceId |-> [class |-> "S2_identifier", action |-> "hash"],
              restrictedCategoryFlags |-> [class |-> "S3_sensitive_content", action |-> "drop"]],
   coarsen |-> [requestTimestamp |-> "time_bucket", devicePerfScore |-> "range_bucket"]]

FieldRule(policy, path) ==
  IF path \in DOMAIN policy.rules THEN policy.rules[path] ELSE [class |-> "S0_public", action |-> "pass"]

CoarsenMethod(policy, path) == IF path \in DOMAIN policy.coarsen THEN policy.coarsen[path] ELSE "prefix_mask"

\* What a method cannot read makes the whole redaction fail.
Coarsens(method, x) == method = "prefix_mask" \/ <<method, x>> \in Readable

\* Fault: identifiers may pass, if the policy says so.
NothingForbidden(rule) == FALSE
Forbidden(rule) == rule.class \in Identifying /\ rule.action = "pass"

RedactedValue(rule, x) ==
  CASE rule.action = "drop" -> NoValue
    [] rule.action = "coarsen" /\ x = "" -> NoValue
    [] rule.action \in {"hash", "coarsen"} /\ (x # "" \/ rule.action = "hash") -> <<rule.action, x>>
    [] OTHER -> <<"pass", x>>

ApplyRedaction(policy, values) ==
  LET Rule(path) == FieldRule(policy, path) IN
  IF \/ ~policy.valid
     \/ \E path \in DOMAIN values : Forbidden(Rule(path))
     \/ \E path \in DOMAIN values : Rule(path).action = "hash" /\ ~policy.hashes
     \/ \E path \in DOMAIN values :
          Rule(path).action = "coarsen" /\ ~Coarsens(CoarsenMethod(policy, path), values[path])
  THEN [made |-> TRUE, ok |-> FALSE]
  ELSE [made |-> TRUE, ok |-> TRUE, values |-> [path \in DOMAIN values |-> RedactedValue(Rule(path), values[path])]]

----------------------------------------------------------------------------
(* The request that is traded.  A field that is not there is "".             *)

RedactedAt(path) == IF path \in DOMAIN work.redaction.values THEN work.redaction.values[path] ELSE NoValue
Present(value) == value[2] # "" \/ value[1] = "hash"

\* The caller's fields: what a conflict was settled to, or what the packet was
\* normalized to.
Field(slot) ==
  CASE work.selected[slot].made -> work.selected[slot].value
    [] slot \in DOMAIN work.normalized.signals /\ ~work.selected[slot].made -> Text(work.normalized.signals[slot])
    [] OTHER -> [form |-> "null", items |-> {}]

\* The first of the sources that names the application.
AppId(p) ==
  LET named == {i \in DOMAIN SourceSlots : SourceSlots[i] \in DOMAIN p.apps} IN
  IF named = {} THEN "" ELSE p.apps[SourceSlots[CHOOSE i \in named : \A j \in named : i <= j]]

Has(field) == field.form # "null" /\ field.items # {""}

RequiredTargets(p) ==
  [trigger_decision |-> Has(Field("triggerDecision")),
   decision_outcome |-> Has(Field("decisionOutcome")),
   hit_type |-> Has(Field("hitType")),
   placement_type |-> Has(Field("placementType")),
   restricted_category_flags |-> Field("restrictedCategoryFlags").form = "list",
   id_of_user_or_device |-> Present(RedactedAt("sessionKey")) \/ Present(RedactedAt("deviceId")),
   app_id |-> AppId(p) # "",
   others |-> "target" \notin p.lacks]

OptionalTargets(p) ==
  [channel_type |-> Has(Field("channelType")),
   actor_type |-> Has(Field("actorType")),
   user_id |-> Present(RedactedAt("sessionKey")),
   device_id |-> Present(RedactedAt("deviceId")),
   performance_tier |-> "devicePerfScore" \in DOMAIN work.buckets.values \/ p.tier,
   request_ts |-> p.values["requestTimestamp"] # ""]

BidRequest ==
  [signals |-> [s \in DOMAIN work.selected |-> Field(s)],
   user |-> RedactedAt("sessionKey"), device |-> RedactedAt("deviceId")]

NoTrade(disposition) == [made |-> TRUE, ok |-> FALSE, disposition |-> disposition]

Projection(p) ==
  IF ~work.redaction.made \/ ~work.redaction.ok THEN NoTrade("unredacted")
  ELSE IF \E t \in DOMAIN RequiredTargets(p) : ~RequiredTargets(p)[t] THEN NoTrade("unmapped")
  ELSE [made |-> TRUE, ok |-> TRUE, request |-> BidRequest,
        disposition |-> IF \A t \in DOMAIN OptionalTargets(p) : OptionalTargets(p)[t] THEN "mapped" ELSE "partial"]

\* The audit keeps what each slot was settled to, or else normalized to.
BuildFromConflictResolution(p) ==
  IF "contractVersion" \in p.lacks THEN [made |-> TRUE, ok |-> FALSE]
  ELSE [made |-> TRUE, ok |-> TRUE, records |-> [s \in DOMAIN work.selected |-> Field(s)]]

----------------------------------------------------------------------------
Slots == SemanticNames \cup SetLikeSlots

\* What the sources state has been mapped by the dictionary.
CandidatesOf(p, slot) ==
  [i \in DOMAIN p.stated[slot] |->
     IF slot \in SemanticNames
     THEN [p.stated[slot][i] EXCEPT !.value = Text(ResolveCanonicalEnum(slot, @).value)]
     ELSE p.stated[slot][i]]

ASSUME SignalAssumption ==
  \A p \in Packets :
    /\ DOMAIN p.stated \subseteq Slots
    /\ \A slot \in DOMAIN p.stated :
         /\ Len(p.stated[slot]) \in Nat /\ DOMAIN p.stated[slot] = 1 .. Len(p.stated[slot])
         /\ \A i \in DOMAIN p.stated[slot] :
              LET c == p.stated[slot][i]
              IN  /\ DOMAIN c = {"source", "value", "priority", "at", "sequence"}
                  /\ {c.priority, c.at, c.sequence} \subseteq Int
                  /\ slot \in SemanticNames =>
                       LocaleRank[CanonicalKey(CandidatesOf(p, slot)[i].value)] \in Int

SignalInit ==
  /\ packet \in Packets
  /\ work = [normalized |-> NotYet, selected |-> [s \in Slots |-> NotYet], buckets |-> NotYet,
             redaction |-> NotYet, projection |-> NotYet, audit |-> NotYet]

NormalizeInput ==
  /\ ~work.normalized.made
  /\ work' = [work EXCEPT !.normalized = NormalizedOf(packet)]
  /\ UNCHANGED packet

GoesOn == work.normalized.made /\ work.normalized.accepted

Resolve(slot) ==
  /\ GoesOn
  /\ slot \in DOMAIN packet.stated /\ ~work.selected[slot].made
  /\ work' = [work EXCEPT !.selected[slot] =
       ResolveFieldConflict(slot, FieldStrategy(slot, packet.strategy), CandidatesOf(packet, slot))]
  /\ UNCHANGED packet

BucketizeNumbers ==
  /\ GoesOn /\ ~work.buckets.made
  /\ work' = [work EXCEPT !.buckets = Bucketize(packet.numbers, packet.dict)]
  /\ UNCHANGED packet

Redact ==
  /\ GoesOn /\ ~work.redaction.made
  /\ work' = [work EXCEPT !.redaction = ApplyRedaction(packet.policy, packet.values)]
  /\ UNCHANGED packet

Settling == \E s \in DOMAIN packet.stated : ~work.selected[s].made

Project ==
  /\ GoesOn /\ ~Settling /\ work.buckets.made /\ ~work.projection.made
  /\ work' = [work EXCEPT !.projection = Projection(packet)]
  /\ UNCHANGED packet

Audit ==
  /\ GoesOn /\ ~Settling /\ ~work.audit.made
  /\ work' = [work EXCEPT !.audit = BuildFromConflictResolution(packet)]
  /\ UNCHANGED packet

SignalNext ==
  \/ NormalizeInput \/ BucketizeNumbers \/ Redact \/ Project \/ Audit
  \/ \E slot \in Slots : Resolve(slot)

SignalSpec == SignalInit /\ [][SignalNext]_signalVars

----------------------------------------------------------------------------
(* What all its sources say of a slot that gates, or what the sources of the
   highest priority say of another one - unless there is none, or the caller wants
   it settled otherwise. *)
Stating(slot) == {NormalizeCandidate(CandidatesOf(packet, slot)[i], i) : i \in DOMAIN packet.stated[slot]}
Backed(slot, value) ==
  IF slot \in GatingSlots THEN \A c \in Stating(slot) : c.value = value
  ELSE \/ \E c \in Foremost(Stating(slot), LAMBDA d : -d.priority) : c.value = value
       \/ Stating(slot) = {} \/ FieldStrategy(slot, packet.strategy) # "scalar"

Orders(D) == {turn \in [D -> D] : \A i \in D : \E k \in D : turn[k] = i}

\* Listed in another order, candidates that say their number settle to the same.
SettledInAnyOrder(slot) ==
  \A turn \in Orders(DOMAIN packet.stated[slot]) :
    CanonicalKey(ResolveFieldConflict(slot, FieldStrategy(slot, packet.strategy),
                   [i \in DOMAIN turn |-> CandidatesOf(packet, slot)[turn[i]]]).value)
      = CanonicalKey(work.selected[slot].value)

\* The actions the contract has; the code lets a value pass for any other.
RedactionActions == {"pass", "hash", "coarsen", "drop"}
Protects(rule) == rule.class \in Identifying /\ rule.action \in RedactionActions

(* What is traded holds whoever is asked later: a slot that its sources
   disagree on never opens a trade, another one carries a value its most
   trusted sources stated, in whatever order they were listed; no identifier
   leaves in clear that the policy classes as one; and the audit tells of the
   slots what the trade tells.  (openrtb-projection.js:47, conflict-resolver.js:149,
   redaction.js:158, mapping-audit.js:129) *)
TradedSignalsStand ==
  work.projection.made /\ work.projection.ok =>
    LET request == work.projection.request IN
    /\ \A s \in DOMAIN packet.stated \ SetLikeSlots : Backed(s, request.signals[s])
    /\ \A s \in DOMAIN packet.stated :
         (\A i \in DOMAIN packet.stated[s] : packet.stated[s][i].sequence # -1) => SettledInAnyOrder(s)
    /\ \A f \in {<<"sessionKey", request.user>>, <<"deviceId", request.device>>} :
         Protects(FieldRule(packet.policy, f[1])) => f[2][1] # "pass"
    /\ work.audit.made /\ work.audit.ok => work.audit.records = request.signals
=============================================================================
