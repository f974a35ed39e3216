---------------------------- MODULE ArchiveRecords ----------------------------
(***************************************************************************)
(* The records event attribution hands to the archive: the audit of a      *)
(* decision, the billable fact and the attribution fact, each under a key  *)
(* of its own.  The archive answers each record, perhaps late, repeatedly  *)
(* and in any order; failures it may recover from are compensated for a    *)
(* window of time.                                                         *)
(***************************************************************************)
EXTENDS Integers

CONSTANTS
  ArchiveKeys,         \* the keys of the records of one mapped event
  Payloads,            \* digests of what may be recorded under a key
  CompensationWindow,  \* compensationWindowMs
  MaxArchiveTime       \* bound on the clock

ASSUME ArchiveAssumption ==
  /\ CompensationWindow \in Nat /\ MaxArchiveTime \in Nat

VARIABLES
  archiveTime,
  archived,  \* the record store
  failing    \* per key, when the archive first failed to write it, or Never

archiveVars == <<archiveTime, archived, failing>>

Never == 0
Unknown == [status |-> "none", payload |-> "none", firstFailureAt |-> Never, backoff |-> 0]
Known(k) == archived[k].status # "none"

----------------------------------------------------------------------------
(* buildArchiveRecords: one payload for each key.  What it returns says    *)
(* how each record was met, not what became of it, and is left out.        *)

Upsert(r, payload) ==
  IF r.status # "none" THEN r
  ELSE [status |-> "new", payload |-> payload, firstFailureAt |-> Never, backoff |-> 1]

buildArchiveRecords(payload) ==
  /\ archived' = [k \in ArchiveKeys |-> Upsert(archived[k], payload[k])]
  /\ UNCHANGED <<archiveTime, failing>>

----------------------------------------------------------------------------
(* applyArchiveWriteOutcome: what the archive answers *)

Written(k) ==
  /\ Known(k)
  /\ archived' = [archived EXCEPT ![k].status = "committed"]
  /\ UNCHANGED <<archiveTime, failing>>

NextBackoff(b) == CASE b = 1 -> 5 [] b = 5 -> 30 [] OTHER -> 120

\* Fault: the window runs from the latest failure.
FirstFailureLatest(k) == archiveTime
FirstFailure(k) == IF archived[k].firstFailureAt = Never THEN archiveTime ELSE archived[k].firstFailureAt

\* The record once the archive has failed to write it.
Retried(r, first) ==
  [r EXCEPT !.firstFailureAt = first, !.status = "new", !.backoff = NextBackoff(r.backoff)]
Expired(r, first) == [r EXCEPT !.firstFailureAt = first, !.status = "conflicted"]

WriteFailed(k) ==
  /\ Known(k)
  /\ archived' = [archived EXCEPT ![k] =
       IF archiveTime - FirstFailure(k) > CompensationWindow
       THEN Expired(archived[k], FirstFailure(k))
       ELSE Retried(archived[k], FirstFailure(k))]
  /\ failing' = IF failing[k] = Never THEN [failing EXCEPT ![k] = archiveTime] ELSE failing
  /\ UNCHANGED archiveTime

GivenUp(k) ==
  /\ Known(k)
  /\ archived' = [archived EXCEPT ![k].status = "conflicted"]
  /\ UNCHANGED <<archiveTime, failing>>

ArchiveTick ==
  /\ archiveTime < MaxArchiveTime
  /\ archiveTime' = archiveTime + 1
  /\ UNCHANGED <<archived, failing>>

ArchiveInit ==
  /\ archiveTime = 1
  /\ archived = [k \in ArchiveKeys |-> Unknown]
  /\ failing = [k \in ArchiveKeys |-> Never]

ArchiveNext ==
  \/ \E payload \in [ArchiveKeys -> Payloads] : buildArchiveRecords(payload)
  \/ \E k \in ArchiveKeys : Written(k) \/ WriteFailed(k) \/ GivenUp(k)
  \/ ArchiveTick

ArchiveSpec == ArchiveInit /\ [][ArchiveNext]_archiveVars

----------------------------------------------------------------------------
(* However often a record fails, is given up or written late, it is retried only
   within the window since its very first failure.  (archive-record-builder.js:264) *)
RetriedWithinWindow ==
  [][\A k \in ArchiveKeys :
       WriteFailed(k) /\ archived'[k].status = "new" /\ failing[k] # Never
         => archiveTime <= failing[k] + CompensationWindow]_archiveVars
=============================================================================
