------------------------------ MODULE EventDedup ------------------------------
(***************************************************************************)
(* The idempotency engine of event attribution: one record per canonical   *)
(* key tells whether an event that arrives is accepted, a duplicate or in  *)
(* conflict with another one of the same key.  A caller either evaluates   *)
(* an event in one go, or locks its key (beginInFlight) and commits later. *)
(*                                                                         *)
(* Two reports of one event have the same content, eventAt included: an    *)
(* event stands for its payload hash.                                      *)
(***************************************************************************)
EXTENDS Integers, Sequences

CONSTANTS
  DedupEvents,
  DedupKeys, CanonicalKey,  \* the canonical key of an event
  EventAt,                  \* the time an event claims for itself; may lie ahead
  DedupWindow,              \* per event, the window of its layer
  LockWindow,               \* inflightLockMs
  MaxDedupTime,             \* bound on the clock
  MaxVerdicts               \* bound on the answers per key

ASSUME DedupAssumption ==
  /\ CanonicalKey \in [DedupEvents -> DedupKeys]
  /\ EventAt \in [DedupEvents -> Nat] /\ DedupWindow \in [DedupEvents -> Nat]
  /\ {LockWindow, MaxDedupTime, MaxVerdicts} \subseteq Nat

VARIABLES
  dedupTime,
  dedupRecord,  \* per key, what the store holds
  holders,      \* events whose key was locked and not committed, with the time
  verdicts      \* per key, the answers given so far

dedupVars == <<dedupTime, dedupRecord, holders, verdicts>>

NoRecord == [state |-> "new"]
Exists(k) == dedupRecord[k].state # "new"
PutRecord(e, state) ==
  dedupRecord' = [dedupRecord EXCEPT ![CanonicalKey[e]] =
    [state |-> state, event |-> e, lockedAt |-> dedupTime, committedAt |-> dedupTime]]
Mark(k, state) == dedupRecord' = [dedupRecord EXCEPT ![k].state = state]
Answered(e, ack, how) ==
  /\ Len(verdicts[CanonicalKey[e]]) < MaxVerdicts
  /\ verdicts' = [verdicts EXCEPT ![CanonicalKey[e]] = Append(@, [event |-> e, ack |-> ack, by |-> how, at |-> dedupTime])]

Locked(k) == dedupRecord[k].state = "inflight_locked" /\ dedupTime - dedupRecord[k].lockedAt < LockWindow

Stale(e) == dedupTime - EventAt[e] > DedupWindow[e]
Conflicts(e) == Exists(CanonicalKey[e]) /\ dedupRecord[CanonicalKey[e]].event # e

\* Fault: the last tick of the window is not part of it.
CommittedShort(e) ==
  /\ dedupRecord[CanonicalKey[e]].state = "accepted_committed"
  /\ dedupTime - dedupRecord[CanonicalKey[e]].committedAt < DedupWindow[e]
Committed(e) ==
  /\ dedupRecord[CanonicalKey[e]].state = "accepted_committed"
  /\ dedupTime - dedupRecord[CanonicalKey[e]].committedAt <= DedupWindow[e]

----------------------------------------------------------------------------
(* evaluate *)

EvaluateStale(e) ==
  /\ Stale(e)
  /\ Answered(e, "rejected", "evaluate")
  /\ UNCHANGED <<dedupTime, dedupRecord, holders>>

EvaluateConflict(e) ==
  /\ ~Stale(e) /\ Conflicts(e)
  /\ Mark(CanonicalKey[e], "rejected_conflict")
  /\ Answered(e, "rejected", "evaluate")
  /\ UNCHANGED <<dedupTime, holders>>

\* The mark replaces the state that says the key is locked.
EvaluateInflight(e) ==
  /\ ~Stale(e) /\ ~Conflicts(e) /\ Locked(CanonicalKey[e])
  /\ Mark(CanonicalKey[e], "duplicate_inflight")
  /\ Answered(e, "duplicate", "evaluate")
  /\ UNCHANGED <<dedupTime, holders>>

EvaluateCommitted(e) ==
  /\ ~Stale(e) /\ ~Conflicts(e) /\ Committed(e)
  /\ Mark(CanonicalKey[e], "duplicate_committed")
  /\ Answered(e, "duplicate", "evaluate")
  /\ UNCHANGED <<dedupTime, holders>>

\* In every other state of the record, duplicate_committed among them, the event
\* starts anew: locked and committed at once.
EvaluateAccept(e) ==
  /\ ~Stale(e) /\ ~Conflicts(e) /\ ~Locked(CanonicalKey[e]) /\ ~Committed(e)
  /\ PutRecord(e, "accepted_committed")
  /\ Answered(e, "accepted", "evaluate")
  /\ UNCHANGED <<dedupTime, holders>>

Evaluate(e) ==
  \/ EvaluateStale(e) \/ EvaluateConflict(e) \/ EvaluateInflight(e)
  \/ EvaluateCommitted(e) \/ EvaluateAccept(e)

----------------------------------------------------------------------------
(* beginInFlight and commit *)

BeginDuplicate(e) ==
  /\ Locked(CanonicalKey[e])
  /\ Answered(e, "duplicate", "begin")
  /\ UNCHANGED <<dedupTime, dedupRecord, holders>>

\* Whatever the record says otherwise, it is replaced.
BeginAccept(e) ==
  /\ ~Locked(CanonicalKey[e])
  /\ PutRecord(e, "inflight_locked")
  /\ holders' = holders \cup {[event |-> e, at |-> dedupTime]}
  /\ Answered(e, "accepted", "begin")
  /\ UNCHANGED dedupTime

Begin(e) == BeginDuplicate(e) \/ BeginAccept(e)

\* The record of the key is committed, whoever locked it last.
Commit(h) ==
  /\ dedupRecord' = [dedupRecord EXCEPT ![CanonicalKey[h.event]].state = "accepted_committed",
                              ![CanonicalKey[h.event]].committedAt = dedupTime]
  /\ holders' = holders \ {h}
  /\ UNCHANGED <<dedupTime, verdicts>>

DedupTick ==
  /\ dedupTime < MaxDedupTime
  /\ dedupTime' = dedupTime + 1
  /\ UNCHANGED <<dedupRecord, holders, verdicts>>

DedupInit ==
  /\ dedupTime = 0
  /\ dedupRecord = [k \in DedupKeys |-> NoRecord]
  /\ holders = {}
  /\ verdicts = [k \in DedupKeys |-> <<>>]

DedupNext ==
  \/ \E e \in DedupEvents : Evaluate(e) \/ Begin(e)
  \/ \E h \in holders : Commit(h)
  \/ DedupTick

DedupSpec == DedupInit /\ [][DedupNext]_dedupVars

----------------------------------------------------------------------------
AcceptedVerdicts(k) == {n \in DOMAIN verdicts[k] : verdicts[k][n].ack = "accepted"}

\* An answer that left the record of its key as it was: to a stale event, or to a
\* caller that may not lock the key.
LeftAlone(v) ==
  /\ v.ack # "accepted"
  /\ v.by = "begin" \/ v.at - EventAt[v.event] > DedupWindow[v.event]

(* Evaluation never accepts two different events under one key, however often
   they are repeated and conflicts are reported between them, unless a caller
   locked the key, which compares nothing.  And evaluation accepts anew within the
   dedup window of what was accepted before (within the lock, if that was only
   locked) for one reason alone: it has answered "duplicate" or reported a
   conflict in between, which marks the record.  Without such an answer between
   them two acceptances are a window apart, whatever stale events, refused locks,
   commits and time there were.  (idempotency.js:306, 342, 343) *)
OneEventPerKey ==
  \A k \in DedupKeys :
    /\ (\A n \in DOMAIN verdicts[k] : verdicts[k][n].by = "evaluate") =>
         \A m, n \in AcceptedVerdicts(k) : verdicts[k][m].event = verdicts[k][n].event
    /\ \A m, n \in AcceptedVerdicts(k) :
         /\ m < n /\ verdicts[k][n].by = "evaluate"
         /\ \A i \in m + 1 .. n - 1 : LeftAlone(verdicts[k][i])
         => LET first == verdicts[k][m]
                gap == verdicts[k][n].at - first.at
            IN  \/ gap > DedupWindow[first.event]
                \/ first.by = "begin" /\ gap >= LockWindow
=============================================================================
