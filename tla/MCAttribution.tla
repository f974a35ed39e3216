---------------------------- MODULE MCAttribution ----------------------------
(***************************************************************************)
(* The engines that keep what was reported, for TLC: the idempotency       *)
(* engine, the events endpoint, the closures with the billable facts and   *)
(* the archive records of module F, and the audit store of module G.       *)
(* Nothing joins them in one call, so a behaviour is about one of them.    *)
(***************************************************************************)
EXTENDS EventDedup, EventIngest, EventFacts, ArchiveRecords, MCAuditReplay, TLC

VARIABLE about

AnySource == {"real_failure", Synthesized}

\* Attempts differ in nothing but their names.
AttemptSymmetry == Permutations(Attempts)

\* Two events of one key.  e2 claims a time ahead of the clock, so that it can
\* outlive the window of its record.
CONSTANTS e1, e2

MCCanonicalKey == [e \in DedupEvents |-> "k"]
MCEventAt == [e \in DedupEvents |-> IF e = e2 THEN 2 ELSE 0]
MCDedupWindow == [e \in DedupEvents |-> IF e = e2 THEN 1 ELSE 2]

\* An impression and another one under the same idempotency key, two clicks of one
\* ad attempt, one that repeats the number of the second, an error known by its
\* event id, one that claims a global id, and one without its fields; two errors
\* that are known by what they say, which is the same once it is normalized.
MCIngestEvents == {"shown", "shownOther", "click1", "click2", "click2Other", "error", "global", "broken",
                   "said", "saidOther"}
MCBatches == {"first", "second"}
Erred == [type |-> "error", lacks |-> {}, timely |-> TRUE, responseReference |-> "response",
           about |-> "opportunity", says |-> [errorStage |-> "render", errorCode |-> "code"],
           eventSeq |-> 0, idempotencyKey |-> "", eventId |-> "id", eventIdScope |-> "", verified |-> FALSE]
Showed == [Erred EXCEPT !.type = "impression", !.idempotencyKey = "key of shown",
             !.says = [renderAttemptId |-> "attempt", creativeId |-> "creative"]]
Clicked(n, key) ==
  [Erred EXCEPT !.type = "click", !.eventSeq = n, !.idempotencyKey = key,
     !.says = [renderAttemptId |-> "attempt", clickTarget |-> "target"]]
MCEventContent ==
  [e \in MCIngestEvents |->
     CASE e = "shown" -> Showed
       [] e = "shownOther" -> [Showed EXCEPT !.says.creativeId = "other"]
       [] e = "click1" -> Clicked(1, "key of click1")
       [] e = "click2" -> Clicked(2, "key of click2")
       [] e = "click2Other" -> Clicked(2, "key of click2Other")
       [] e = "error" -> Erred
       [] e = "global" -> [Erred EXCEPT !.eventIdScope = "global_unique"]
       [] e = "broken" -> [Erred EXCEPT !.lacks = {"traceKey"}]
       [] e = "said" -> [Erred EXCEPT !.eventId = "", !.says.errorStage = "start"]
       [] e = "saidOther" -> [Erred EXCEPT !.eventId = "", !.says.errorStage = "finish"]]

MCInit ==
  /\ about \in {"dedup", "ingest", "facts", "archive", "audit"}
  /\ DedupInit /\ IngestInit /\ FactsInit /\ ArchiveInit /\ AuditInit

MCNext ==
  /\ UNCHANGED about
  /\ \/ about = "dedup"   /\ DedupNext   /\ UNCHANGED <<ingestVars, factVars, archiveVars, auditVars>>
     \/ about = "ingest"  /\ IngestNext  /\ UNCHANGED <<dedupVars, factVars, archiveVars, auditVars>>
     \/ about = "facts"   /\ FactsNext   /\ UNCHANGED <<dedupVars, ingestVars, archiveVars, auditVars>>
     \/ about = "archive" /\ ArchiveNext /\ UNCHANGED <<dedupVars, ingestVars, factVars, auditVars>>
     \/ about = "audit"   /\ AuditNext   /\ UNCHANGED <<dedupVars, ingestVars, factVars, archiveVars>>

MCSpec == MCInit /\ [][MCNext]_<<dedupVars, ingestVars, factVars, archiveVars, auditVars, about>>
=============================================================================
