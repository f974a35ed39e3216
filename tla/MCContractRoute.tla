-------------------------- MODULE MCContractRoute --------------------------
(***************************************************************************)
(* The contract loop from policy to events for TLC.  A behaviour is about  *)
(* the policy (all the policies, one strategy and device), the route (all  *)
(* the strategies and budgets), its conclusion (all the claims), the       *)
(* operators (one strategy, while the register changes), the delivery (all *)
(* the placements and devices), the ingress that comes before them (one    *)
(* trigger of each kind, and the events of its opportunity), or the        *)
(* normalization of a packet.                                              *)
(***************************************************************************)
EXTENDS ContractRoute, IngressEvents, SignalNormalization, TLC

VARIABLE about

Declares(tier, tags, name, timeout) ==
  [declared |-> tier, tags |-> tags, priority |-> 1, success |-> IF name = 2 THEN 1 ELSE 0,
   latency |-> 1, cost |-> 1, name |-> name, timeout |-> timeout]
MCSupportedPlacementTypes ==
  [x \in {"p1", "p2", "s", "f"} |-> IF x = "p2" THEN {"attached"} ELSE {"attached", "next_step"}]
MCSourceRecords ==
  [x \in {"p1", "p2", "s", "f"} |->
     CASE x = "p1" -> Declares("primary", {"tier_fallback"}, 1, 2)
       [] x = "p2" -> Declares("", {}, 2, 1)
       [] x = "s"  -> Declares("unheard_of", {"tier_secondary"}, 3, 1)
       [] OTHER    -> Declares("", {"tier_secondary", "tier_fallback"}, 4, 0)]

Fair == [snapshot |-> "fresh", compliance |-> "allow", outcome |-> FALSE,
         consent |-> "consent_granted", consentBlocked |-> {"consent_denied"}, degradeOnLimited |-> TRUE,
         count |-> 0, hardCap |-> 1, softCap |-> 1,
         flags |-> {}, hardFlags |-> {"h"}, softFlags |-> {"w"},
         selection |-> "all_except_blocked", allowed |-> {}, blocked |-> {}, disallow |-> {}]

GatePolicies ==
  {[Fair EXCEPT !.snapshot = sn, !.compliance = c, !.outcome = o, !.consent = co,
                !.count = n, !.flags = fl] :
     sn \in {"fresh", "expired_open", "expired_closed", "missing"},
     c \in {"allow", "degrade", "block"}, o \in BOOLEAN,
     co \in {"consent_granted", "consent_limited", "consent_denied"},
     n \in 0..2, fl \in {{}, {"w"}, {"h"}, {"h", "w"}}}

SourcePolicies ==
  {[Fair EXCEPT !.selection = sel, !.allowed = a, !.blocked = b] :
     sel \in {"all_except_blocked", "allowlist_only"},
     a \in {{}, {"p1"}, {"p1", "s"}, {"f"}}, b \in {{}, {"p1"}, {"s", "f"}}}

ModePolicies == {[Fair EXCEPT !.disallow = d] : d \in SUBSET {"native_card", "webview"}}

\* Nothing but the limited consent asks for less here, and the switch is off.
Lenient == [Fair EXCEPT !.consent = "consent_limited", !.degradeOnLimited = FALSE]

MCPolicies == {Lenient} \cup GatePolicies \cup SourcePolicies \cup ModePolicies

Waterfall == [type |-> "waterfall", fanout |-> 1, fallback |-> "on_no_fill_or_error",
              secondBidding |-> FALSE, timeout |-> 2]
SoundStrategies ==
  {[type |-> t, fanout |-> n, fallback |-> fb, secondBidding |-> sb, timeout |-> 2] :
     t \in {"waterfall", "bidding", "hybrid"}, n \in {1, 2},
     fb \in {"on_no_fill_only", "on_no_fill_or_error", "disabled"}, sb \in BOOLEAN}
RawStrategies ==
  {[type |-> t, fanout |-> 0, fallback |-> fb, secondBidding |-> FALSE, timeout |-> 0] :
     t \in {"", "bidding", "unheard_of"}, fb \in {"", "unheard_of"}}
MCStrategies == SoundStrategies \cup RawStrategies
MCBudgets == {0, 3, 5}

Phone == [type |-> "", allowed |-> <<"webview", "native_card">>, known |-> TRUE,
          supported |-> {"native_card", "webview"}, enabled |-> {"webview"}, slots |-> 1,
          cards |-> 1, lacks |-> {}, anchors |-> RequiredAnchors, ttl |-> 1]
DeviceWants ==
  {[Phone EXCEPT !.allowed = al, !.known = kn, !.supported = su, !.enabled = en] :
     al \in {<<"webview", "native_card">>, <<"native_card">>, <<"webview">>,
             <<"mraid_container", "webview">>, <<"hologram", "native_card">>, <<"hologram">>},
     kn \in BOOLEAN, su \in {{}, {"webview"}, {"native_card", "webview"}, {"hologram", "webview"}},
     en \in {{}, {"webview"}}}
FormWants ==
  {[Phone EXCEPT !.slots = sl, !.cards = ca, !.lacks = la, !.anchors = @ \ an, !.ttl = tt] :
     sl \in {0, 1}, ca \in {0, 2}, la \in {{}, {"placement"}, {"profile"}},
     an \in {{}, {"schemaVersion"}, {"routingPolicyVersion"}}, tt \in {0, 1}}

\* Placements of the type one source does not support.
Typed == [Phone EXCEPT !.type = "next_step"]
MCWants == {Typed} \cup DeviceWants \cup FormWants

AsWalked == [outcome |-> "walk", auction |-> "", ref |-> "", tier |-> "", served |-> ""]
MCClaims ==
  {[outcome |-> o, auction |-> a, ref |-> r, tier |-> t, served |-> s] :
     o \in {"walk", "open", "served_candidate", "no_fill", "unheard_of"}, a \in {"", "p2", "stranger"},
     r \in {"", "p2", "stranger"}, t \in {"", "none", "fallback"}, s \in {"", "yes", "no"}}

\* What is asked in each kind of behaviour.
Asked(kind) ==
  CASE kind = "policy" ->
         [policy : {Lenient} \cup GatePolicies \cup SourcePolicies, strategy : {Waterfall}, budget : {5},
          want : {Phone}, claim : {AsWalked}]
           \cup [policy : SourcePolicies, strategy : {Waterfall}, budget : {5}, want : {Typed}, claim : {AsWalked}]
    [] kind = "route" ->
         [policy : {Fair}, strategy : MCStrategies, budget : MCBudgets,
          want : {Phone}, claim : {AsWalked}]
    [] kind = "conclusion" ->
         [policy : {Fair}, strategy : {[Waterfall EXCEPT !.type = "bidding", !.fanout = 2, !.fallback = "disabled"]},
          budget : {5}, want : {Phone}, claim : MCClaims]
    [] kind = "operators" ->
         [policy : {Fair}, strategy : {Waterfall}, budget : {5}, want : {Phone}, claim : {AsWalked}]
    [] OTHER ->
         [policy : ModePolicies, strategy : {Waterfall}, budget : {3},
          want : MCWants, claim : {AsWalked}]

\* Triggers whose duplicate, budget and configuration states combine, most of
\* which end at the door; one earlier trace that may be handed back.
MCTriggers ==
  {[type |-> ty, placement |-> "shown", requestAt |-> 1, at |-> 1, dedup |-> d, budget |-> b, config |-> c] :
     ty \in {"answer_end", "manual_refresh"}, d \in {"new", "reused_result"},
     b \in {"ok", "hard_exceeded"},
     c \in {"ok", "timeout_no_snapshot", "version_invalid"}}
  \cup {[type |-> ty, placement |-> pl, requestAt |-> r, at |-> 1, dedup |-> "new", budget |-> "ok", config |-> "ok"] :
          ty \in {"answer_end", "unheard_of"}, pl \in {"shown", "unavailable"}, r \in {1, 2, 3}}

MCPrevious == {NoTrace, [trace |-> "earlier", request |-> <<1, "new">>]}
MCBackoff == <<1, 2>>

----------------------------------------------------------------------------
\* Packets: one that is whole, and what differs from it in one respect.
Stated(source, value, at, sequence) ==
  [source |-> source, value |-> value, priority |-> -1, at |-> at, sequence |-> sequence]
Flags(items) == [form |-> "list", items |-> items]
Number(n) == [form |-> "number", value |-> n]
Unreadable == [form |-> "unreadable", value |-> 0]

Whole ==
  [lacks |-> {}, state |-> "received", ill |-> {}, empty |-> {}, confidence |-> Number(70),
   seed |-> [triggerDecision |-> "eligible", decisionOutcome |-> "eligible",
             hitType |-> "Explicit-Hit", placementType |-> ""],
   bundle |-> [placementType |-> "chat_inline_v1", actorType |-> "end_user", channelType |-> "rest"],
   apps |-> [placementConfig |-> "app"], tier |-> FALSE, strategy |-> "",
   stated |-> [restrictedCategoryFlags |-> <<Stated("appExplicit", Flags({"alcohol"}), 1, 1)>>],
   numbers |-> [intentScore |-> Number(90), devicePerfScore |-> Number(72), sessionDepth |-> Number(12)],
   dict |-> DefaultBucketDictLite, policy |-> DefaultRedactionPolicyLite,
   values |-> [sessionKey |-> "session", deviceId |-> "device", requestTimestamp |-> "10:42"]]

MCEnumToken ==
  [x \in {"eligible", "policy_blocked", "Explicit-Hit", "workflow", "unknown_hit_type", "nonsense",
          "chat_inline_v1", "chat_followup_v1", "end_user", "rest", "sdk_mobile"} |->
     IF x = "Explicit-Hit" THEN "explicit_hit" ELSE x]
MCReadable == {<<"time_bucket", "10:42">>}
TextsInOrder ==
  <<"explicit_hit", "sdk_client", "sdk_server", "unknown_channel_type", "unknown_hit_type", "workflow_hit">>
MCLocaleRank ==
  [k \in {CanonicalKey(Text(TextsInOrder[i])) : i \in DOMAIN TextsInOrder} |->
     CHOOSE i \in DOMAIN TextsInOrder : TextsInOrder[i] \in k.items]

FormPackets ==
  {[Whole EXCEPT !.lacks = l, !.state = st, !.ill = il, !.empty = em] :
     l \in {{}, {"part"}, {"texts"}, {"appContext"}, {"contractVersion"}, {"target"}}, st \in {"received", "routed"},
     il \in {{}, {"slot"}, {"otherRequest"}}, em \in {{}, {"appExplicit"}}}
  \cup {[Whole EXCEPT !.confidence = c] :
          c \in {Number(-1), Number(101), Unreadable, [form |-> "text", value |-> 50]}}
  \cup {[Whole EXCEPT !.seed.hitType = h, !.seed.placementType = pl, !.bundle.channelType = ch] :
          h \in {"workflow", "unknown_hit_type", "nonsense"}, pl \in {"", "chat_followup_v1"},
          ch \in {"", "nonsense", "rest"}}

Channels ==
  {Stated(so, v, at, n) : so \in {"appExplicit", "placementConfig"}, v \in {"rest", "sdk_mobile", "nonsense"},
                          at \in {-1, 1}, n \in {-1, 1}}
ConflictPackets ==
  {[Whole EXCEPT !.stated = @ @@ [channelType |-> <<a, b>>]] : a, b \in Channels}
  \cup {[Whole EXCEPT !.stated = @ @@ [channelType |-> a], !.strategy = how] :
          a \in {<<>>, <<Stated("appExplicit", "rest", 1, 1), Stated("placementConfig", "sdk_mobile", 1, 1)>>},
          how \in {"", "set_like"}}
  \cup {[Whole EXCEPT !.stated = @ @@ [channelType |-> <<a, b, c>>]] :
          a, b, c \in {x \in Channels : x.source = "appExplicit" /\ x.sequence = 1}}
  \cup {[Whole EXCEPT !.stated = @ @@ [hitType |-> <<Stated("appExplicit", h, 1, 1), Stated("placementConfig", g, 1, 1)>>]] :
          h, g \in {"Explicit-Hit", "workflow", "unknown_hit_type", "nonsense"}}
  \cup {[Whole EXCEPT !.strategy = how, !.stated.restrictedCategoryFlags =
           <<Stated("appExplicit", f, 1, 1), Stated("defaultPolicy", g, 1, 2)>>] :
          how \in {"", "ordered"},
          f, g \in {Flags({"alcohol"}), Flags({"bets", ""}), Text("bets"), [form |-> "other", items |-> {"7"}]}}

Ruled(class, action) == [DefaultRedactionPolicyLite EXCEPT !.rules.sessionKey = [class |-> class, action |-> action]]
RedactionPackets ==
  {[Whole EXCEPT !.policy = po, !.values.sessionKey = k, !.values.deviceId = d, !.values.requestTimestamp = at] :
     po \in {[DefaultRedactionPolicyLite EXCEPT !.valid = FALSE], [DefaultRedactionPolicyLite EXCEPT !.hashes = FALSE]}
            \cup {Ruled(cl, ac) : cl \in {"S0_public", "S2_identifier"}, ac \in {"pass", "hash", "coarsen", "drop", "mask"}},
     k \in {"", "session"}, d \in {"", "device"}, at \in {"", "10:42", "noon"}}

NumberPackets ==
  {[Whole EXCEPT !.numbers = n, !.dict = di, !.tier = t] :
     n \in {[intentScore |-> Number(20), sessionDepth |-> x] :
              x \in {Number(-1), Number(0), Number(4), Number(201), Unreadable, [form |-> "fraction", value |-> 3]}}
           \cup {[mood |-> Number(1)]},
     di \in {DefaultBucketDictLite, [DefaultBucketDictLite EXCEPT !.sessionDepth.buckets = Tail(@)],
             [DefaultBucketDictLite EXCEPT !.intentScore.ruled = FALSE]},
     t \in BOOLEAN}

MCPackets == FormPackets \cup ConflictPackets \cup RedactionPackets \cup NumberPackets

MCInit ==
  /\ about \in {"policy", "route", "conclusion", "operators", "delivery", "ingress", "signals"}
  /\ ask \in Asked(IF about \in {"ingress", "signals"} THEN "operators" ELSE about)
  /\ RouteInit /\ IngressInit
  /\ IF about = "signals" THEN SignalInit
     ELSE packet = <<>> /\ work = [projection |-> NotYet]

\* Operators are at work on two of the sources, and before the walk ends.
OperatorNext ==
  /\ about = "operators"
  /\ Operators
  /\ \A x \in Sources \ {"p1", "s"} : entry'[x] = entry[x] /\ \A call \in lifecycle' : call.source # x
  /\ \A x \in Sources : entry'[x].status \in {"active", "paused", "absent"}
  /\ UNCHANGED <<ingressVars, signalVars>>

RouteMCNext == about \notin {"ingress", "signals"} /\ OpportunityNext /\ UNCHANGED <<ingressVars, signalVars>>

\* One trigger, and two opportunities at most.
IngressMCNext ==
  /\ about = "ingress"
  /\ IngressNext
  /\ Cardinality(admitted') <= 1 /\ Cardinality(DOMAIN opportunities') <= 2
  /\ UNCHANGED <<allRouteVars, signalVars>>

SignalMCNext == about = "signals" /\ SignalNext /\ UNCHANGED <<allRouteVars, ingressVars>>

MCNext == (OperatorNext \/ RouteMCNext \/ IngressMCNext \/ SignalMCNext) /\ UNCHANGED about

MCSpec == MCInit /\ [][MCNext]_<<allRouteVars, ingressVars, signalVars, about>>
=============================================================================
