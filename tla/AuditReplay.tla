---------------------------- MODULE AuditReplay ----------------------------
(***************************************************************************)
(* Module G: the store of audit records with its append acknowledgements   *)
(* (audit-replay/audit-store.js) and the replay of what is stored, page by *)
(* page at a cutoff (replay-engine.js).  The replay reads the store, as    *)
(* the determinism test wires it.  Both answer in one piece; appends come  *)
(* between the pages of a replay.  Records are sorted by auditAt; the      *)
(* other two times a query may name are sorted alike.                      *)
(*                                                                         *)
(* First what is decided about a record and a query for it, each in one    *)
(* piece: whether a record may be appended, which records a query finds,   *)
(* what it says of them, and how a recomputed decision is compared with    *)
(* the one on record.  A record is a name; AuditContent tells what it      *)
(* says.  "NA" is what the code writes for a field that does not apply,    *)
(* "" is a field that is not there.                                        *)
(***************************************************************************)
EXTENDS Integers, FiniteSets, Sequences

CONSTANTS AuditRecords,
          AuditContent, \* record -> what it says
          Recomputed,   \* record -> {its recomputed projection}, or {} where there is none
          Anchors,      \* the version anchors a replay asks for
          MaxPayload,   \* maxPayloadBytes
          MaxSpan       \* the longest time range of a query

\* Lacks: the required fields it does not have.
RequiredMissing(record) == AuditContent[record].lacks # {}

\* A record names the adapters that took part: one that responded states how
\* long it took, one that timed out says so, and the winner is among them.
ValidateAuditRecordStructure(record) ==
  LET c == AuditContent[record]
  IN /\ ~RequiredMissing(record)
     /\ c.adapters # {}
     /\ \A item \in c.adapters :
          /\ item.lacks = {}
          /\ item.status = "responded" => item.latency # "NA"
          /\ item.status = "timeout" => item.didTimeout /\ item.threshold > 0
     /\ c.winner \notin {"", "NA"} => \E item \in c.adapters : item.adapter = c.winner

\* The first check that fails; gate is what the checks from outside say.
AppendRefusal(request) ==
  LET checks == << <<"missing_required", request.gate = "bare">>,
                   <<"invalid_schema_version", request.gate = "contract">>,
                   <<"auth_failed", request.gate = "auth">>,
                   <<"rate_limited", request.gate = "rate">>,
                   <<"internal_unavailable", request.gate = "unavailable">>,
                   <<"missing_required", ~ValidateAuditRecordStructure(request.record)>>,
                   <<"payload_too_large", AuditContent[request.record].bytes > MaxPayload>> >>
      failed == {i \in DOMAIN checks : checks[i][2]}
  IN IF failed = {} THEN "none"
     ELSE checks[CHOOSE i \in failed : \A j \in failed : i <= j][1]

PickAckRetryable(reason) ==
  reason \in {"missing_required", "payload_too_large", "rate_limited", "internal_unavailable"}

MapRejectedStatusCode(reason) ==
  CASE reason = "payload_too_large" -> 413
    [] reason = "payload_conflict" -> 409
    [] reason = "rate_limited" -> 429
    [] reason = "internal_unavailable" -> 503
    [] reason = "auth_failed" -> 401
    [] OTHER -> 400

MapStatusCode(status, reason) ==
  CASE status = "accepted" -> 200
    [] status = "queued" -> 202
    [] OTHER -> MapRejectedStatusCode(reason)

\* Two records are the same when they differ in their extensions only, or in what
\* is kept beside them.
NormalizeAuditRecordForDigest(record) ==
  LET c == AuditContent[record]
  IN [f \in DOMAIN c \ {"extensions", "given", "archived", "status"} |-> c[f]]

\* Named by the first record that reads the same.
PayloadDigest ==
  [record \in AuditRecords |->
     CHOOSE r \in AuditRecords :
       NormalizeAuditRecordForDigest(r) = NormalizeAuditRecordForDigest(record)]

NoIdempotencyKey == 0

\* A record is known by its idempotency key, and by its own id without one: the
\* same record under both is stored twice.
ResolveDedupKey(request) ==
  IF request.idempotencyKey # NoIdempotencyKey
  THEN request.idempotencyKey
  ELSE AuditContent[request.record].id

----------------------------------------------------------------------------
\* An anchor that came beside the record counts before the one in it.
NormalizeRecord(record) ==
  LET c == AuditContent[record]
  IN [a \in Anchors |-> IF c.given[a] # "" THEN c.given[a] ELSE c.stated[a]]

ValidateQuery(query, asOf, now) ==
  /\ query.pageSize \in 1..200
  /\ query.mode = "by_opportunity" =>
       /\ query.range = <<>>
       /\ query.opportunityKey = "" \/ query.opportunityId \in {"", query.opportunityKey}
       /\ query.opportunityKey # "" \/ query.opportunityId # ""
  /\ query.mode = "by_time_range" =>
       /\ query.opportunityKey = "" /\ query.opportunityId = ""
       /\ query.range # <<>>
       /\ query.range[2] - query.range[1] \in 0..MaxSpan
  /\ asOf <= now

\* Only a record whose own time is not after the cutoff.
MatchesBaseQuery(record, query, asOf) ==
  LET c == AuditContent[record]
  IN /\ c.at <= asOf
     /\ IF query.mode = "by_opportunity"
        THEN c.opportunity = (IF query.opportunityKey # "" THEN query.opportunityKey
                                                            ELSE query.opportunityId)
        ELSE c.at \in query.range[1]..query.range[2]

\* A list that is not given, or given empty, filters nothing.
NormalizeFilters(query) ==
  [f \in {"adapters", "types", "statuses"} |->
     IF f \in DOMAIN query.filters THEN query.filters[f] ELSE {}]

MatchesFilters(record, query) ==
  LET c == AuditContent[record]
      f == NormalizeFilters(query)
  IN /\ query.trace \in {"", c.trace}
     /\ f.adapters = {} \/ \E item \in c.adapters : item.adapter \in f.adapters
     /\ f.types = {} \/ \E a \in c.archived : a.type \in f.types
     /\ f.statuses = {} \/ c.status \in f.statuses
     /\ query.timeoutOnly => \E item \in c.adapters : item.didTimeout \/ item.status = "timeout"
     /\ query.conflictOnly =>
          c.status = "conflicted" \/ \E a \in c.archived : a.status = "conflicted"

CountByRecordType(record, type) == Cardinality({a \in AuditContent[record].archived : a.type = type})

BuildSummaryItem(record) ==
  LET c == AuditContent[record]
  IN [winner   |-> IF c.winner = "" THEN "NA" ELSE c.winner,
      terminal |-> IF c.terminal \in {"", "NA"} THEN "open" ELSE c.terminal,
      reasons  |-> ({c.winnerReason} \cup ({c.renderReason} \ {"NA"})
                      \cup UNION {item.reasons : item \in c.adapters}) \ {""},
      facts    |-> CountByRecordType(record, "billable_fact")]

ProjectComparableFields(record) == BuildSummaryItem(record)

----------------------------------------------------------------------------
MissingVersionAnchors(record) == {a \in Anchors : NormalizeRecord(record)[a] = ""}

\* The anchors that a query pins to another version.
ApplyPinnedVersionCheck(record, query) ==
  {a \in DOMAIN query.pinned : query.pinned[a] # NormalizeRecord(record)[a]}

BuildDiffSummary(record) ==
  IF Recomputed[record] = {} THEN "not_comparable"
  ELSE IF ProjectComparableFields(record) \in Recomputed[record] THEN "exact_match"
       ELSE "diverged"

\* One record that cannot be compared outweighs any that differ.
AggregateDiffSummaries(diffs) ==
  CASE "not_comparable" \in diffs -> "not_comparable"
    [] "not_comparable" \notin diffs /\ "diverged" \in diffs -> "diverged"
    [] OTHER -> "exact_match"

\* What a page says of its records: in a snapshot, whether each has its anchors;
\* recomputed, whether they came out the same.
DeterminismStatus(records, query) ==
  IF query.execution = "snapshot_replay"
  THEN IF \E r \in records : MissingVersionAnchors(r) # {} THEN "not_comparable" ELSE "deterministic"
  ELSE IF AggregateDiffSummaries({BuildDiffSummary(r) : r \in records}) = "diverged"
       THEN "non_deterministic" ELSE "deterministic"

\* A page that is recomputed is refused as a whole for one record on it.
RecomputeRefusal(records, query) ==
  query.execution = "rule_recompute" /\
  \E r \in records : MissingVersionAnchors(r) # {} \/ ApplyPinnedVersionCheck(r, query) # {}

EmptyResultObject(query, based, filtered) ==
  CASE filtered # {} -> "not_empty"
    [] filtered = {} /\ based # {} -> "filtered_out"
    [] based = {} /\ query.mode = "by_opportunity" -> "not_found_opportunity"
    [] based = {} /\ query.mode = "by_time_range" -> "no_record_in_time_range"

----------------------------------------------------------------------------
CONSTANTS AppendRequests, \* [record, idempotencyKey, sync, gate]
          ReplayQueries, \* the queries a replay may make
          QueryOf,       \* query -> what it asks
          AppendWindow,  \* appendDedupWindowMs
          MaxAppends,    \* appends one behaviour makes
          MaxReplays,    \* replays one behaviour makes
          MaxAuditTime   \* bound of the clock

ASSUME AuditAssumption ==
  /\ \A r \in AuditRecords : AuditContent[r].at \in Nat /\ AuditContent[r].id \in Nat \ {0}
  /\ \A q \in AppendRequests : q.idempotencyKey \in Nat /\ q.record \in AuditRecords
  /\ AppendWindow \in Nat

\* What is refused does not depend on what is stored.
RefusalOf == [request \in AppendRequests |-> AppendRefusal(request)]

VARIABLES auditStore,     \* key -> [record, first], for the keys seen
          tokenIndex,  \* append token -> key
          auditQueue,  \* the tokens of records that were accepted for later
          acks,        \* [token, record, first] of every append that was taken
          lastAck,     \* what the last append was answered, and the how manieth it was
          replay,      \* the replay that is being paged through
          pages,       \* the pages answered
          auditTime

auditVars == <<auditStore, tokenIndex, auditQueue, acks, lastAck, replay, pages, auditTime>>

NoReplay == [pc |-> "idle", query |-> "none", asOf |-> 0, offset |-> 0,
             began |-> {}, seen |-> {}, moved |-> FALSE, count |-> 0]

AuditInit ==
  /\ auditStore = <<>> /\ tokenIndex = <<>>
  /\ auditQueue = {} /\ acks = {} /\ pages = {}
  /\ lastAck = [status |-> "none", reason |-> "none", retryable |-> FALSE, code |-> 0, nth |-> 0]
  /\ replay = NoReplay
  /\ auditTime = 0

----------------------------------------------------------------------------
\* Fault: what was appended under the key is forgotten at once.
NeverSeen(key) == FALSE

SeenInWindow(key) ==
  key \in DOMAIN auditStore /\ auditTime - auditStore[key].first <= AppendWindow

\* Named by the key and the digest of what is stored.
BuildAppendToken(key, record) == <<key, PayloadDigest[record]>>

PutUnder(map, key, value) == [k \in DOMAIN map \cup {key} |-> IF k = key THEN value ELSE map[k]]

CreateAck(status, reason) ==
  /\ lastAck.nth < MaxAppends
  /\ lastAck' = [status |-> status, reason |-> reason,
                 retryable |-> status = "rejected" /\ PickAckRetryable(reason),
                 code |-> MapStatusCode(status, reason), nth |-> lastAck.nth + 1]

TakeAppend(key, record, first) ==
  acks' = acks \cup {[token |-> BuildAppendToken(key, record), record |-> record, first |-> first]}

\* The first append of a key in its window: stored whether it is taken in sync
\* or for later, and what an earlier window left under the key is replaced.  A
\* record states a time that has passed.
AppendNew(request) ==
  LET key == ResolveDedupKey(request)
      token == BuildAppendToken(key, request.record)
  IN /\ RefusalOf[request] = "none" /\ ~SeenInWindow(key)
     /\ AuditContent[request.record].at <= auditTime
     /\ auditStore' = PutUnder(auditStore, key, [record |-> request.record, first |-> auditTime])
     /\ tokenIndex' = PutUnder(tokenIndex, token, key)
     /\ auditQueue' = IF request.sync THEN auditQueue ELSE auditQueue \cup {token}
     /\ TakeAppend(key, request.record, auditTime)
     /\ IF request.sync THEN CreateAck("accepted", "committed") ELSE CreateAck("queued", "buffered")
     /\ replay' = [replay EXCEPT !.moved = @ \/ key \in DOMAIN auditStore]
     /\ UNCHANGED <<pages, auditTime>>

\* A record that is known under the key is accepted again; a different one is
\* refused.  Neither changes the store.
AppendAgain(request) ==
  LET key == ResolveDedupKey(request)
      same == BuildAppendToken(key, auditStore[key].record) = BuildAppendToken(key, request.record)
  IN /\ RefusalOf[request] = "none" /\ SeenInWindow(key)
     /\ IF same
        THEN /\ CreateAck("accepted", "duplicate_accepted_noop")
             /\ TakeAppend(key, request.record, auditStore[key].first)
        ELSE CreateAck("rejected", "payload_conflict") /\ UNCHANGED acks
     /\ UNCHANGED <<auditStore, tokenIndex, auditQueue, replay, pages, auditTime>>

RefuseAppend(request) ==
  /\ RefusalOf[request] # "none"
  /\ CreateAck("rejected", RefusalOf[request])
  /\ UNCHANGED <<auditStore, tokenIndex, auditQueue, acks, replay, pages, auditTime>>

GetByAppendToken(token) == auditStore[tokenIndex[token]].record

----------------------------------------------------------------------------
MatchesBase(query, asOf) ==
  {k \in DOMAIN auditStore : MatchesBaseQuery(auditStore[k].record, QueryOf[query], asOf)}

Filtered(query, asOf) ==
  {k \in MatchesBase(query, asOf) : MatchesFilters(auditStore[k].record, QueryOf[query])}

\* By auditAt in the order asked for, ties by the record's keys, upwards.
ComesFirst(j, k, query) ==
  LET At(key) == AuditContent[auditStore[key].record].at
  IN  \/ At(j) = At(k) /\ j < k
      \/ At(j) # At(k) /\ (At(j) < At(k) <=> QueryOf[query].order = "asc")

\* How many of the keys are sorted before k.
Rank(k, keys, query) == Cardinality({j \in keys : ComesFirst(j, k, query)})

SortRecords(found, query) ==
  [i \in 1..Cardinality(found) |-> CHOOSE k \in found : Rank(k, found, query) = i - 1]

PageAt(query, asOf, offset) ==
  LET size == QueryOf[query].pageSize
      sorted == SortRecords(Filtered(query, asOf), query)
      last   == IF offset + size < Len(sorted) THEN offset + size ELSE Len(sorted)
  IN [items |-> [i \in 1..(IF last > offset THEN last - offset ELSE 0) |->
                   [key |-> sorted[offset + i], record |-> auditStore[sorted[offset + i]].record]],
      more  |-> offset + size < Len(sorted)]

\* A query that states no cutoff means the time it is received.
ResolvedReplayAsOfAt(query) == IF QueryOf[query].stated THEN QueryOf[query].asOf ELSE auditTime

BeginReplay(query) ==
  LET asOf == ResolvedReplayAsOfAt(query)
  IN /\ replay.pc = "idle" /\ replay.count < MaxReplays
     /\ replay' =
          IF ValidateQuery(QueryOf[query], asOf, auditTime)
          THEN [replay EXCEPT !.pc = "reading", !.query = query, !.asOf = asOf, !.offset = 0,
                              !.seen = {}, !.moved = FALSE, !.count = @ + 1,
                              !.began = Filtered(query, asOf)]
          ELSE [NoReplay EXCEPT !.pc = "refused", !.count = replay.count + 1]
     /\ UNCHANGED <<auditStore, tokenIndex, auditQueue, acks, lastAck, pages, auditTime>>

\* Fault: the cursor of the next page counts the page just asked for as well.
OffsetAfter(offset, size) == offset + size + 1

NextOffset(offset, size) == offset + size

\* The cursor of a page holds for its query at its cutoff: a query that states
\* none has another one as time goes by.
ResolveCursorOffset == replay.offset = 0 \/ ResolvedReplayAsOfAt(replay.query) = replay.asOf

Replay ==
  LET query == replay.query
      page  == PageAt(query, replay.asOf, replay.offset)
      records == {page.items[i].record : i \in DOMAIN page.items}
  IN /\ replay.pc = "reading"
     /\ ResolveCursorOffset
     /\ ~RecomputeRefusal(records, QueryOf[query])
     /\ pages' = pages \cup
          {[query |-> query, asOf |-> replay.asOf, offset |-> replay.offset, items |-> page.items,
            verdict |-> DeterminismStatus(records, QueryOf[query]),
            empty |-> EmptyResultObject(QueryOf[query], MatchesBase(query, replay.asOf),
                                               Filtered(query, replay.asOf))]}
     /\ replay' = [replay EXCEPT
          !.pc = IF page.more THEN "reading" ELSE "read",
          !.offset = NextOffset(@, QueryOf[query].pageSize),
          !.seen = @ \cup {page.items[i].key : i \in DOMAIN page.items}]
     /\ UNCHANGED <<auditStore, tokenIndex, auditQueue, acks, lastAck, auditTime>>

\* The page is refused, and with it the way to the pages after it.
RefusePage ==
  LET page == PageAt(replay.query, replay.asOf, replay.offset)
  IN /\ replay.pc = "reading"
     /\ \/ ~ResolveCursorOffset
        \/ RecomputeRefusal({page.items[i].record : i \in DOMAIN page.items}, QueryOf[replay.query])
     /\ replay' = [replay EXCEPT !.pc = "refused"]
     /\ UNCHANGED <<auditStore, tokenIndex, auditQueue, acks, lastAck, pages, auditTime>>

EndReplay ==
  /\ replay.pc \in {"read", "refused"}
  /\ replay' = [NoReplay EXCEPT !.count = replay.count]
  /\ UNCHANGED <<auditStore, tokenIndex, auditQueue, acks, lastAck, pages, auditTime>>

AuditTick ==
  /\ auditTime < MaxAuditTime
  /\ auditTime' = auditTime + 1
  /\ UNCHANGED <<auditStore, tokenIndex, auditQueue, acks, lastAck, replay, pages>>

AuditNext ==
  \/ \E request \in AppendRequests :
       AppendNew(request) \/ AppendAgain(request) \/ RefuseAppend(request)
  \/ \E query \in ReplayQueries : BeginReplay(query)
  \/ Replay \/ RefusePage \/ EndReplay \/ AuditTick

AuditSpec == AuditInit /\ [][AuditNext]_auditVars

----------------------------------------------------------------------------
(* The token of an append that was taken finds the record that was taken, for
   as long as the key's window lasts: no later append of the key, repeated or
   different, puts another record in its place.  (audit-store.js:416, 446) *)
TokensHold ==
  \A a \in acks : auditTime - a.first <= AppendWindow =>
    PayloadDigest[GetByAppendToken(a.token)] = PayloadDigest[a.record]

(* A replay that was paged to its end has returned every record that matched
   when it began, whatever was appended between its pages: pages shift, and
   repeat records, but they skip none.  (Unless a record was replaced after its
   window while the replay ran: it may leave its place.)  And what a replay says
   of its pages is earned: it calls none deterministic that holds a record whose
   decision came out differently, unless another on the page has nothing to
   compare.  (replay-engine.js:749, 800) *)
ReplayTellsTheStore ==
  /\ replay.pc = "read" /\ ~replay.moved => replay.began \subseteq replay.seen
  /\ \A p \in pages :
       QueryOf[p.query].execution = "rule_recompute" /\ p.verdict = "deterministic" =>
         \A i \in DOMAIN p.items :
           BuildDiffSummary(p.items[i].record) = "diverged" =>
             \E j \in DOMAIN p.items : Recomputed[p.items[j].record] = {}

(* What the design says of a replay: one query at one cutoff has one result.
   (replay-engine.js:368) *)
ReplayStands ==
  \A p, q \in pages :
    p.query = q.query /\ p.asOf = q.asOf /\ p.offset = q.offset => p.items = q.items
=============================================================================
