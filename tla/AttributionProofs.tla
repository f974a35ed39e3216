--------------------------- MODULE AttributionProofs ---------------------------
(***************************************************************************)
(* Proofs about what keeps the reports of events: the archive records, the *)
(* idempotency engine, the events endpoint, the audit store, the closures  *)
(* of the attempts and billing.                                            *)
(***************************************************************************)
EXTENDS ArchiveRecords, EventDedup, EventIngest, EventFacts, AuditReplay,
        WellFoundedInduction, SequenceTheorems, FiniteSetTheorems, TLAPS

----------------------------------------------------------------------------
(* Archive records *)

RecordStates == {"none", "new", "committed", "conflicted"}
ArchiveRecordType ==
  [status : RecordStates, payload : Payloads \cup {"none"}, firstFailureAt : Nat, backoff : Nat]

(* Strengthening of RetriedWithinWindow: the failure that a record remembers is the
   very first one of its key. *)
ArchiveInv ==
  /\ archiveTime \in Nat \ {Never}
  /\ archived \in [ArchiveKeys -> ArchiveRecordType]
  /\ failing \in [ArchiveKeys -> Nat]
  /\ \A k \in ArchiveKeys : archived[k].firstFailureAt = failing[k]
  /\ \A k \in ArchiveKeys : ~Known(k) => failing[k] = Never

LEMMA ArchiveHolds == ArchiveSpec => []ArchiveInv
<1>1. ArchiveInit => ArchiveInv
  BY DEF ArchiveInit, ArchiveInv, ArchiveRecordType, RecordStates, Unknown, Known, Never
<1>2. ASSUME ArchiveInv, [ArchiveNext]_archiveVars PROVE ArchiveInv'
  <2> USE <1>2 DEF ArchiveInv
  <2>1. ASSUME NEW payload \in [ArchiveKeys -> Payloads], buildArchiveRecords(payload)
        PROVE  ArchiveInv'
    <3>1. \A k \in ArchiveKeys :
            /\ archived'[k] \in ArchiveRecordType
            /\ archived'[k].firstFailureAt = failing[k]
            /\ archived'[k].status # "none"
      BY <2>1 DEF buildArchiveRecords, Upsert, ArchiveRecordType, RecordStates, Known, Never
    <3> QED BY <2>1, <3>1 DEF buildArchiveRecords, Known
  <2>2. ASSUME NEW k \in ArchiveKeys, Written(k) PROVE ArchiveInv'
    BY <2>2 DEF Written, ArchiveRecordType, RecordStates, Known
  <2>3. ASSUME NEW k \in ArchiveKeys, WriteFailed(k) PROVE ArchiveInv'
    <3>1. FirstFailure(k) = IF failing[k] = Never THEN archiveTime ELSE failing[k]
      BY DEF FirstFailure
    <3>2. FirstFailure(k) \in Nat /\ failing'[k] = FirstFailure(k)
      BY <2>3, <3>1 DEF WriteFailed
    <3>3. PICK first \in Nat : first = FirstFailure(k)
      BY <3>2
    <3>4. \A b \in Nat : NextBackoff(b) \in Nat
      BY DEF NextBackoff
    <3>5. /\ archived'[k] \in ArchiveRecordType
          /\ archived'[k].firstFailureAt = first
          /\ archived'[k].status # "none"
      <4>1. archived'[k] \in {Expired(archived[k], first), Retried(archived[k], first)}
        BY <2>3, <3>3 DEF WriteFailed
      <4>2. ASSUME NEW r \in ArchiveRecordType
            PROVE  /\ Expired(r, first) \in ArchiveRecordType /\ Retried(r, first) \in ArchiveRecordType
                   /\ Expired(r, first).firstFailureAt = first /\ Retried(r, first).firstFailureAt = first
                   /\ Expired(r, first).status = "conflicted" /\ Retried(r, first).status = "new"
        <5>1. PICK b \in Nat : b = NextBackoff(r.backoff)
          BY <3>4 DEF ArchiveRecordType
        <5> QED BY <5>1 DEF Expired, Retried, ArchiveRecordType, RecordStates
      <4> QED BY <4>1, <4>2
    <3>6. archived' \in [ArchiveKeys -> ArchiveRecordType]
      BY <2>3, <3>5 DEF WriteFailed
    <3>7. \A j \in ArchiveKeys \ {k} : archived'[j] = archived[j] /\ failing'[j] = failing[j]
      BY <2>3 DEF WriteFailed
    <3> QED BY <2>3, <3>2, <3>3, <3>5, <3>6, <3>7 DEF WriteFailed, Known
  <2>4. ASSUME NEW k \in ArchiveKeys, GivenUp(k) PROVE ArchiveInv'
    BY <2>4 DEF GivenUp, ArchiveRecordType, RecordStates, Known
  <2>5. CASE ArchiveTick
    BY <2>5 DEF ArchiveTick, Known, Never
  <2>6. CASE UNCHANGED archiveVars
    BY <2>6 DEF archiveVars, Known
  <2> QED BY <1>2, <2>1, <2>2, <2>3, <2>4, <2>5, <2>6 DEF ArchiveNext
<1> QED BY <1>1, <1>2, PTL DEF ArchiveSpec

(* A record the archive fails to write is retried only within the window since its
   first failure, however often it is given up, written late or built again between
   the failures: for any keys, payloads and window, and without a bound on the clock. *)
THEOREM RetriesEnd == ArchiveSpec => RetriedWithinWindow
<1>1. ASSUME ArchiveInv, [ArchiveNext]_archiveVars
      PROVE  [\A k \in ArchiveKeys :
                WriteFailed(k) /\ archived'[k].status = "new" /\ failing[k] # Never
                  => archiveTime <= failing[k] + CompensationWindow]_archiveVars
  <2> SUFFICES ASSUME NEW k \in ArchiveKeys, WriteFailed(k), archived'[k].status = "new",
                      failing[k] # Never
               PROVE  archiveTime <= failing[k] + CompensationWindow
    OBVIOUS
  <2>1. FirstFailure(k) = failing[k]
    BY <1>1 DEF ArchiveInv, FirstFailure
  <2>2. archiveTime - failing[k] > CompensationWindow => archived'[k].status = "conflicted"
    BY <1>1, <2>1 DEF ArchiveInv, WriteFailed, Expired, ArchiveRecordType
  <2> QED BY <1>1, <2>2, ArchiveAssumption DEF ArchiveInv
<1> QED BY <1>1, ArchiveHolds, PTL DEF ArchiveSpec, RetriedWithinWindow

----------------------------------------------------------------------------
(* Event idempotency *)

KeyStates == {"inflight_locked", "accepted_committed", "rejected_conflict",
              "duplicate_inflight", "duplicate_committed"}
KeyRecordType ==
  [state : KeyStates, event : DedupEvents, lockedAt : Nat, committedAt : Nat]
VerdictType ==
  [event : DedupEvents, ack : {"accepted", "duplicate", "rejected"}, by : {"evaluate", "begin"}, at : Nat]

DedupTypeOK ==
  /\ dedupTime \in Nat
  /\ dedupRecord \in [DedupKeys -> KeyRecordType \cup {NoRecord}]
  /\ holders \subseteq [event : DedupEvents, at : Nat]
  /\ verdicts \in [DedupKeys -> Seq(VerdictType)]

\* What the record still says of the event that was accepted last.
Remembers(k, last) ==
  LET r == dedupRecord[k]
  IN  /\ Exists(k) /\ r.event = last.event /\ last.at <= dedupTime
      /\ \/ r.state = "accepted_committed" /\ r.committedAt >= last.at
         \/ r.state = "inflight_locked" /\ last.by = "begin" /\ r.lockedAt >= last.at

LeftAloneSince(k, m) == \A i \in m + 1 .. Len(verdicts[k]) : LeftAlone(verdicts[k][i])

(* Strengthening of OneEventPerKey: a key that was only evaluated has the record of
   the one event accepted, and as long as the answers after an acceptance leave the
   record alone it stands for the next evaluation to be compared with.  A key that is
   held has a record to commit. *)
DedupInv ==
  /\ DedupTypeOK
  /\ OneEventPerKey
  /\ \A h \in holders : Exists(CanonicalKey[h.event])
  /\ \A k \in DedupKeys :
       (\A n \in DOMAIN verdicts[k] : verdicts[k][n].by = "evaluate") =>
         \A n \in AcceptedVerdicts(k) : Exists(k) /\ dedupRecord[k].event = verdicts[k][n].event
  /\ \A k \in DedupKeys : \A m \in AcceptedVerdicts(k) :
       LeftAloneSince(k, m) => Remembers(k, verdicts[k][m])

LEMMA Appended ==
  ASSUME NEW T, NEW s \in Seq(T), NEW x \in T
  PROVE  /\ Append(s, x) \in Seq(T) /\ Len(Append(s, x)) = Len(s) + 1 /\ Len(s) \in Nat
         /\ DOMAIN s = 1 .. Len(s) /\ DOMAIN Append(s, x) = 1 .. Len(s) + 1
         /\ Append(s, x)[Len(s) + 1] = x
         /\ \A n \in 1 .. Len(s) : Append(s, x)[n] = s[n]
  OBVIOUS

(* One more verdict makes one more acceptance, if it is one. *)
LEMMA AcceptedGrow ==
  ASSUME NEW v, NEW w, NEW ack, NEW l,
         DOMAIN v = 1 .. l, DOMAIN w = 1 .. l + 1, l \in Nat,
         w[l + 1].ack = ack, \A n \in 1 .. l : w[n] = v[n]
  PROVE  {n \in DOMAIN w : w[n].ack = "accepted"} =
           {n \in DOMAIN v : v[n].ack = "accepted"} \cup (IF ack = "accepted" THEN {l + 1} ELSE {})
<1>1. \A n : n \in DOMAIN w <=> n \in DOMAIN v \/ n = l + 1
  OBVIOUS
<1>2. l + 1 \notin DOMAIN v
  OBVIOUS
<1>3. \A n \in DOMAIN v : w[n].ack = v[n].ack
  OBVIOUS
<1> QED BY <1>1, <1>2, <1>3

(* An answer under a key, with the record r that it leaves there, keeps the invariant
   if an acceptance writes its own record, evaluation accepts only what the record
   allows, and any other answer keeps the event of the record, or all of it where it
   is one that leaves the record alone. *)
LEMMA AnswerStep ==
  ASSUME DedupInv,
         NEW e \in DedupEvents, NEW ack \in {"accepted", "duplicate", "rejected"},
         NEW how \in {"evaluate", "begin"}, NEW r \in KeyRecordType \cup {NoRecord},
         Answered(e, ack, how), UNCHANGED dedupTime,
         dedupRecord' = [dedupRecord EXCEPT ![CanonicalKey[e]] = r],
         IF ack = "accepted"
         THEN /\ r.event = e /\ holders' \subseteq holders \cup {[event |-> e, at |-> dedupTime]}
              /\ \/ r.state = "accepted_committed" /\ r.committedAt = dedupTime
                 \/ r.state = "inflight_locked" /\ how = "begin" /\ r.lockedAt = dedupTime
              /\ how = "evaluate" => ~Conflicts(e) /\ ~Locked(CanonicalKey[e]) /\ ~Committed(e)
         ELSE /\ UNCHANGED holders
              /\ how = "begin" \/ Stale(e) => r = dedupRecord[CanonicalKey[e]]
              /\ IF Exists(CanonicalKey[e])
                 THEN r.state # "new" /\ r.event = dedupRecord[CanonicalKey[e]].event
                 ELSE r = dedupRecord[CanonicalKey[e]]
  PROVE  DedupInv'
<1> DEFINE k == CanonicalKey[e]
           v == verdicts[k]
           x == [event |-> e, ack |-> ack, by |-> how, at |-> dedupTime]
<1>1. /\ k \in DedupKeys /\ v \in Seq(VerdictType) /\ x \in VerdictType
      /\ verdicts' = [verdicts EXCEPT ![k] = Append(v, x)]
  BY DedupAssumption DEF DedupInv, DedupTypeOK, VerdictType, Answered
<1>2. DedupTypeOK'
  <2>1. verdicts' \in [DedupKeys -> Seq(VerdictType)]
    BY <1>1, Appended DEF DedupInv, DedupTypeOK
  <2> QED BY <1>1, <2>1 DEF DedupInv, DedupTypeOK
<1>3. \A j \in DedupKeys \ {k} : verdicts'[j] = verdicts[j] /\ dedupRecord'[j] = dedupRecord[j]
  BY <1>1 DEF DedupInv, DedupTypeOK
<1>4. verdicts'[k] = Append(v, x) /\ dedupRecord'[k] = r
  BY <1>1 DEF DedupInv, DedupTypeOK
<1>5. Exists(k) => Exists(k)'
  BY <1>4 DEF Exists
<1>6. ack = "accepted" => Exists(k)' /\ r.event = e
  BY <1>4 DEF Exists
<1>7. \A h \in holders' : Exists(CanonicalKey[h.event])'
  <2> SUFFICES ASSUME NEW h \in holders' PROVE Exists(CanonicalKey[h.event])'
    OBVIOUS
  <2>1. CASE h \in holders
    <3>1. CanonicalKey[h.event] \in DedupKeys /\ Exists(CanonicalKey[h.event])
      BY <2>1, DedupAssumption DEF DedupInv, DedupTypeOK
    <3> QED BY <1>3, <1>5, <3>1 DEF Exists
  <2>2. CASE h \notin holders
    <3>1. ack = "accepted" /\ h.event = e
      BY <2>2
    <3> QED BY <1>6, <3>1
  <2> QED BY <2>1, <2>2
<1> HIDE DEF v, x
<1>8. /\ Len(v) \in Nat /\ DOMAIN v = 1 .. Len(v) /\ DOMAIN verdicts'[k] = 1 .. Len(v) + 1
      /\ verdicts'[k][Len(v) + 1] = x /\ Len(verdicts'[k]) = Len(v) + 1
      /\ \A n \in 1 .. Len(v) : verdicts'[k][n] = v[n]
  BY <1>1, <1>4, Appended
<1>9. x.ack = ack /\ x.event = e /\ x.by = how /\ x.at = dedupTime
  BY DEF x
<1>10. AcceptedVerdicts(k)' = AcceptedVerdicts(k) \cup (IF ack = "accepted" THEN {Len(v) + 1} ELSE {})
  <2>1. AcceptedVerdicts(k) = {n \in DOMAIN v : v[n].ack = "accepted"}
    BY DEF AcceptedVerdicts, v
  <2>2. AcceptedVerdicts(k)' = {n \in DOMAIN verdicts'[k] : verdicts'[k][n].ack = "accepted"}
    BY DEF AcceptedVerdicts
  <2>3. verdicts'[k][Len(v) + 1].ack = ack
    BY <1>8, <1>9
  <2> HIDE DEF k
  <2> QED BY <1>8, <2>1, <2>2, <2>3, AcceptedGrow
<1>11. (\A n \in DOMAIN verdicts'[k] : verdicts'[k][n].by = "evaluate") =>
         \A n \in AcceptedVerdicts(k)' : Exists(k)' /\ r.event = verdicts'[k][n].event
  <2> SUFFICES ASSUME \A n \in DOMAIN verdicts'[k] : verdicts'[k][n].by = "evaluate",
                      NEW n \in AcceptedVerdicts(k)'
               PROVE  Exists(k)' /\ r.event = verdicts'[k][n].event
    OBVIOUS
  <2>1. how = "evaluate" /\ \A i \in DOMAIN v : v[i].by = "evaluate"
    BY <1>8, <1>9
  <2>2. \A i \in AcceptedVerdicts(k) : Exists(k) /\ dedupRecord[k].event = v[i].event
    BY <1>1, <2>1 DEF DedupInv, v
  <2>3. CASE n \in AcceptedVerdicts(k)
    <3>1. n \in 1 .. Len(v)
      BY <1>8, <2>3 DEF AcceptedVerdicts, v
    <3>2. r.event = dedupRecord[k].event
      BY <2>1, <2>2, <2>3 DEF Conflicts
    <3> QED BY <1>5, <1>8, <2>2, <2>3, <3>1, <3>2
  <2>4. CASE n \notin AcceptedVerdicts(k)
    <3>1. ack = "accepted" /\ n = Len(v) + 1
      BY <1>10, <2>4
    <3> QED BY <1>6, <1>8, <1>9, <3>1
  <2> QED BY <2>3, <2>4
<1>12. ASSUME ack # "accepted", LeftAlone(x) PROVE r = dedupRecord[k]
  <2>1. how = "begin" \/ dedupTime - EventAt[e] > DedupWindow[e]
    BY <1>9, <1>12 DEF LeftAlone
  <2> QED BY <1>12, <2>1 DEF Stale
<1>13. ASSUME NEW m \in AcceptedVerdicts(k)',
              \A i \in m + 1 .. Len(v) + 1 : LeftAlone(verdicts'[k][i])
       PROVE  Remembers(k, verdicts[k][m])'
  <2>1. m \in 1 .. Len(v) + 1
    BY <1>8 DEF AcceptedVerdicts
  <2>2. CASE m = Len(v) + 1
    <3>1. ack = "accepted" /\ verdicts'[k][m] = x
      BY <1>8, <1>9, <2>2 DEF AcceptedVerdicts
    <3>2. dedupTime' \in Nat
      BY <1>2 DEF DedupTypeOK
    <3> QED BY <1>4, <1>6, <1>9, <3>1, <3>2 DEF Remembers
  <2>3. CASE m # Len(v) + 1
    <3>1. m \in 1 .. Len(v) /\ m \in AcceptedVerdicts(k) /\ verdicts'[k][m] = v[m]
      BY <1>8, <1>10, <2>1, <2>3
    <3>2. LeftAlone(x)
      BY <1>8, <1>13, <3>1
    <3>3. ack # "accepted" /\ r = dedupRecord[k]
      BY <1>9, <1>12, <3>2 DEF LeftAlone
    <3>4. LeftAloneSince(k, m)
      <4>1. ASSUME NEW i \in m + 1 .. Len(v) PROVE LeftAlone(v[i])
        BY <1>8, <1>13, <3>1
      <4> QED BY <4>1 DEF LeftAloneSince, v
    <3>5. Remembers(k, v[m])
      BY <1>1, <3>1, <3>4 DEF DedupInv, v
    <3> QED BY <1>4, <3>1, <3>3, <3>5 DEF Remembers, Exists
  <2> QED BY <2>2, <2>3
<1> DEFINE Apart(first, second) ==
             LET gap == second.at - first.at
             IN  \/ gap > DedupWindow[first.event]
                 \/ first.by = "begin" /\ gap >= LockWindow
<1>14. ASSUME NEW last \in VerdictType, ack = "accepted", how = "evaluate", Remembers(k, last)
       PROVE  Apart(last, x)
  <2>1. ~Conflicts(e) /\ ~Locked(k) /\ ~Committed(e)
    BY <1>14
  <2>2. last.event = e
    BY <1>14, <2>1 DEF Remembers, Conflicts
  <2>3. dedupRecord[k] \in KeyRecordType /\ dedupTime \in Nat /\ DedupWindow[e] \in Nat /\ LockWindow \in Nat
    BY <1>1, <1>14, DedupAssumption DEF DedupInv, DedupTypeOK, Remembers, Exists, NoRecord
  <2>4. last.at \in Nat
    BY DEF VerdictType
  <2>5. PICK c \in Nat : c = dedupRecord[k].committedAt
    BY <2>3 DEF KeyRecordType
  <2>6. PICK l \in Nat : l = dedupRecord[k].lockedAt
    BY <2>3 DEF KeyRecordType
  <2>7. CASE dedupRecord[k].state = "accepted_committed" /\ c >= last.at
    <3>1. dedupTime - c > DedupWindow[e]
      BY <2>1, <2>3, <2>5, <2>7 DEF Committed
    <3> QED BY <1>9, <2>2, <2>3, <2>4, <2>7, <3>1
  <2>8. CASE dedupRecord[k].state = "inflight_locked" /\ last.by = "begin" /\ l >= last.at
    <3>1. dedupTime - l >= LockWindow
      BY <2>1, <2>3, <2>6, <2>8 DEF Locked
    <3> QED BY <1>9, <2>3, <2>4, <2>8, <3>1
  <2> QED BY <1>14, <2>5, <2>6, <2>7, <2>8 DEF Remembers
<1> HIDE DEF Apart
<1>15. ASSUME NEW m \in AcceptedVerdicts(k)', NEW n \in AcceptedVerdicts(k)', m < n,
              verdicts'[k][n].by = "evaluate",
              \A i \in m + 1 .. n - 1 : LeftAlone(verdicts'[k][i])
       PROVE  Apart(verdicts'[k][m], verdicts'[k][n])
  <2>1. m \in 1 .. Len(v) + 1 /\ n \in 1 .. Len(v) + 1
    BY <1>8 DEF AcceptedVerdicts
  <2>2. m \in 1 .. Len(v) /\ m \in AcceptedVerdicts(k) /\ verdicts'[k][m] = v[m]
    BY <1>8, <1>10, <1>15, <2>1
  <2>3. CASE n \in 1 .. Len(v)
    <3>1. n \in AcceptedVerdicts(k) /\ verdicts'[k][n] = v[n]
      BY <1>8, <1>10, <2>3
    <3>2. \A i \in m + 1 .. n - 1 : LeftAlone(v[i])
      BY <1>8, <1>15, <2>2, <2>3
    <3>3. Apart(v[m], v[n])
      BY <1>1, <1>15, <2>2, <3>1, <3>2 DEF DedupInv, OneEventPerKey, Apart, v
    <3> QED BY <2>2, <3>1, <3>3
  <2>4. CASE n = Len(v) + 1
    <3>1. ack = "accepted" /\ how = "evaluate" /\ verdicts'[k][n] = x
      BY <1>8, <1>9, <1>15, <2>4 DEF AcceptedVerdicts
    <3>2. LeftAloneSince(k, m)
      <4>1. ASSUME NEW i \in m + 1 .. Len(v) PROVE LeftAlone(v[i])
        BY <1>8, <1>15, <2>2, <2>4
      <4> QED BY <4>1 DEF LeftAloneSince, v
    <3>3. Remembers(k, v[m]) /\ v[m] \in VerdictType
      BY <1>1, <2>2, <3>2 DEF DedupInv, v
    <3> QED BY <1>14, <2>2, <3>1, <3>3
  <2> QED BY <1>8, <2>1, <2>3, <2>4
<1>16. OneEventPerKey'
  <2> SUFFICES ASSUME NEW j \in DedupKeys
               PROVE  /\ (\A n \in DOMAIN verdicts'[j] : verdicts'[j][n].by = "evaluate") =>
                           \A m, n \in AcceptedVerdicts(j)' : verdicts'[j][m].event = verdicts'[j][n].event
                      /\ \A m, n \in AcceptedVerdicts(j)' :
                           /\ m < n /\ verdicts'[j][n].by = "evaluate"
                           /\ \A i \in m + 1 .. n - 1 : LeftAlone(verdicts'[j][i])
                           => Apart(verdicts'[j][m], verdicts'[j][n])
    BY DEF OneEventPerKey, Apart, LeftAlone
  <2>1. CASE j = k
    BY <1>11, <1>15, <2>1
  <2>2. CASE j # k
    <3>1. verdicts'[j] = verdicts[j] /\ AcceptedVerdicts(j)' = AcceptedVerdicts(j)
      BY <1>3, <2>2 DEF AcceptedVerdicts
    <3> QED BY <3>1 DEF DedupInv, OneEventPerKey, Apart
  <2> QED BY <2>1, <2>2
<1>17. ASSUME NEW j \in DedupKeys, \A n \in DOMAIN verdicts'[j] : verdicts'[j][n].by = "evaluate",
              NEW n \in AcceptedVerdicts(j)'
       PROVE  Exists(j)' /\ dedupRecord'[j].event = verdicts'[j][n].event
  <2>1. CASE j = k
    BY <1>4, <1>11, <1>17, <2>1
  <2>2. CASE j # k
    <3>1. /\ verdicts'[j] = verdicts[j] /\ AcceptedVerdicts(j)' = AcceptedVerdicts(j)
          /\ dedupRecord'[j] = dedupRecord[j] /\ Exists(j)' = Exists(j)
      BY <1>3, <2>2 DEF AcceptedVerdicts, Exists
    <3> QED BY <1>17, <3>1 DEF DedupInv
  <2> QED BY <2>1, <2>2
<1>18. ASSUME NEW j \in DedupKeys, NEW m \in AcceptedVerdicts(j)', LeftAloneSince(j, m)'
       PROVE  Remembers(j, verdicts[j][m])'
  <2>1. \A i \in m + 1 .. Len(verdicts'[j]) : LeftAlone(verdicts'[j][i])
    BY <1>18 DEF LeftAloneSince, LeftAlone
  <2>2. CASE j = k
    BY <1>8, <1>13, <1>18, <2>1, <2>2
  <2>3. CASE j # k
    <3>1. /\ verdicts'[j] = verdicts[j] /\ AcceptedVerdicts(j)' = AcceptedVerdicts(j)
          /\ dedupRecord'[j] = dedupRecord[j] /\ dedupTime' = dedupTime
      BY <1>3, <2>3 DEF AcceptedVerdicts
    <3>2. Remembers(j, verdicts[j][m])
      BY <1>18, <2>1, <3>1 DEF DedupInv, LeftAloneSince
    <3> QED BY <3>1, <3>2 DEF Remembers, Exists
  <2> QED BY <2>2, <2>3
<1> QED BY <1>2, <1>7, <1>16, <1>17, <1>18 DEF DedupInv

LEMMA DedupStep == ASSUME DedupInv, [DedupNext]_dedupVars PROVE DedupInv'
<1>1. /\ DedupTypeOK
      /\ \A k \in DedupKeys : Exists(k) => dedupRecord[k] \in KeyRecordType
      /\ \A e \in DedupEvents : CanonicalKey[e] \in DedupKeys
  BY DedupAssumption DEF DedupInv, DedupTypeOK, Exists, NoRecord
<1>2. ASSUME NEW k \in DedupKeys, NEW state \in KeyStates, Exists(k), Mark(k, state)
      PROVE  \E r \in KeyRecordType :
               /\ dedupRecord' = [dedupRecord EXCEPT ![k] = r]
               /\ r.state = state /\ r.event = dedupRecord[k].event
  <2>1. PICK r : r = [dedupRecord[k] EXCEPT !.state = state]
    OBVIOUS
  <2>2. r \in KeyRecordType /\ r.state = state /\ r.event = dedupRecord[k].event
    BY <1>1, <1>2, <2>1 DEF KeyRecordType
  <2>3. dedupRecord' = [dedupRecord EXCEPT ![k] = r]
    BY <1>2, <2>1 DEF Mark
  <2> QED BY <2>2, <2>3
<1>3. ASSUME NEW e \in DedupEvents, NEW state \in KeyStates, PutRecord(e, state)
      PROVE  \E r \in KeyRecordType :
               /\ dedupRecord' = [dedupRecord EXCEPT ![CanonicalKey[e]] = r]
               /\ r.state = state /\ r.event = e
               /\ r.lockedAt = dedupTime /\ r.committedAt = dedupTime
  <2>1. PICK r : r = [state |-> state, event |-> e, lockedAt |-> dedupTime, committedAt |-> dedupTime]
    OBVIOUS
  <2>2. r \in KeyRecordType
    BY <1>1, <2>1 DEF DedupTypeOK, KeyRecordType
  <2> QED BY <1>3, <2>1, <2>2 DEF PutRecord
<1>4. ASSUME NEW e \in DedupEvents, EvaluateStale(e) \/ BeginDuplicate(e) PROVE DedupInv'
  <2>1. PICK r : r = dedupRecord[CanonicalKey[e]]
    OBVIOUS
  <2>2. /\ r \in KeyRecordType \cup {NoRecord}
        /\ dedupRecord' = [dedupRecord EXCEPT ![CanonicalKey[e]] = r]
    BY <1>1, <1>4, <2>1 DEF DedupTypeOK, EvaluateStale, BeginDuplicate
  <2>3. Exists(CanonicalKey[e]) => r.state # "new"
    BY <2>1 DEF Exists
  <2>4. CASE EvaluateStale(e)
    BY <2>1, <2>2, <2>3, <2>4, AnswerStep DEF EvaluateStale
  <2>5. CASE BeginDuplicate(e)
    BY <2>1, <2>2, <2>3, <2>5, AnswerStep DEF BeginDuplicate
  <2> QED BY <1>4, <2>4, <2>5
<1>5. ASSUME NEW e \in DedupEvents, NEW state \in KeyStates \ {"new"},
             NEW ack \in {"duplicate", "rejected"}, Exists(CanonicalKey[e]),
             ~Stale(e), Mark(CanonicalKey[e], state), Answered(e, ack, "evaluate"),
             UNCHANGED <<dedupTime, holders>>
      PROVE  DedupInv'
  <2>1. PICK r \in KeyRecordType :
          /\ dedupRecord' = [dedupRecord EXCEPT ![CanonicalKey[e]] = r]
          /\ r.state = state /\ r.event = dedupRecord[CanonicalKey[e]].event
    BY <1>1, <1>2, <1>5
  <2> QED BY <1>5, <2>1, AnswerStep
<1>6. ASSUME NEW e \in DedupEvents, Evaluate(e) PROVE DedupInv'
  <2>1. CASE EvaluateStale(e)
    BY <1>4, <2>1
  <2>2. CASE EvaluateConflict(e)
    BY <1>5, <2>2 DEF EvaluateConflict, Conflicts, KeyStates
  <2>3. CASE EvaluateInflight(e)
    BY <1>5, <2>3 DEF EvaluateInflight, Locked, Exists, KeyStates
  <2>4. CASE EvaluateCommitted(e)
    BY <1>5, <2>4 DEF EvaluateCommitted, Committed, Exists, KeyStates
  <2>5. CASE EvaluateAccept(e)
    <3>1. PICK r \in KeyRecordType :
            /\ dedupRecord' = [dedupRecord EXCEPT ![CanonicalKey[e]] = r]
            /\ r.state = "accepted_committed" /\ r.event = e
            /\ r.lockedAt = dedupTime /\ r.committedAt = dedupTime
      BY <1>3, <2>5 DEF EvaluateAccept, KeyStates
    <3> QED BY <2>5, <3>1, AnswerStep DEF EvaluateAccept
  <2> QED BY <1>6, <2>1, <2>2, <2>3, <2>4, <2>5 DEF Evaluate
<1>7. ASSUME NEW e \in DedupEvents, BeginAccept(e) PROVE DedupInv'
  <2>1. PICK r \in KeyRecordType :
          /\ dedupRecord' = [dedupRecord EXCEPT ![CanonicalKey[e]] = r]
          /\ r.state = "inflight_locked" /\ r.event = e
          /\ r.lockedAt = dedupTime /\ r.committedAt = dedupTime
    BY <1>3, <1>7 DEF BeginAccept, KeyStates
  <2> QED BY <1>7, <2>1, AnswerStep DEF BeginAccept
<1>8. ASSUME NEW h \in holders, Commit(h) PROVE DedupInv'
  <2> DEFINE k == CanonicalKey[h.event]
  <2>1. k \in DedupKeys /\ Exists(k) /\ dedupRecord[k] \in KeyRecordType
    BY <1>1 DEF DedupInv, DedupTypeOK
  <2>2. PICK r : r = [[dedupRecord[k] EXCEPT !.state = "accepted_committed"]
                                      EXCEPT !.committedAt = dedupTime]
    OBVIOUS
  <2>3. /\ r \in KeyRecordType /\ r.state = "accepted_committed" /\ r.committedAt = dedupTime
        /\ r.event = dedupRecord[k].event
    BY <1>1, <2>1, <2>2 DEF KeyRecordType, KeyStates, DedupTypeOK
  <2>4. dedupRecord' = [dedupRecord EXCEPT ![k] = r]
    BY <1>1, <1>8, <2>1, <2>2 DEF Commit, DedupTypeOK
  <2>5. dedupRecord'[k] = r /\ \A j \in DedupKeys \ {k} : dedupRecord'[j] = dedupRecord[j]
    BY <1>1, <2>1, <2>4 DEF DedupTypeOK
  <2> HIDE DEF k
  <2>6. UNCHANGED <<verdicts, dedupTime>> /\ holders' \subseteq holders
    BY <1>8 DEF Commit
  <2>7. DedupTypeOK'
    BY <1>1, <2>1, <2>3, <2>4, <2>6 DEF DedupTypeOK
  <2>8. /\ \A j \in DedupKeys : Exists(j) => Exists(j)' /\ dedupRecord'[j].event = dedupRecord[j].event
        /\ \A j \in DedupKeys : AcceptedVerdicts(j)' = AcceptedVerdicts(j)
    BY <2>3, <2>5, <2>6 DEF Exists, AcceptedVerdicts
  <2>9. OneEventPerKey'
    BY <2>6, <2>8 DEF DedupInv, OneEventPerKey, LeftAlone
  <2>10. \A i \in holders' : Exists(CanonicalKey[i.event])'
    BY <1>1, <2>6, <2>8 DEF DedupInv, DedupTypeOK
  <2>11. ASSUME NEW j \in DedupKeys, NEW m \in AcceptedVerdicts(j), LeftAloneSince(j, m)'
         PROVE  Remembers(j, verdicts[j][m])'
    <3>1. PICK last : last = verdicts[j][m]
      OBVIOUS
    <3>2. LeftAloneSince(j, m)
      BY <2>6, <2>11 DEF LeftAloneSince, LeftAlone
    <3>3. Remembers(j, last) /\ verdicts'[j][m] = last
      BY <2>6, <2>11, <3>1, <3>2 DEF DedupInv
    <3>4. last.at <= dedupTime'
      BY <2>6, <3>3 DEF Remembers
    <3>5. CASE j = k
      BY <2>3, <2>5, <2>6, <2>8, <3>3, <3>4, <3>5 DEF Remembers
    <3>6. CASE j # k
      BY <2>5, <2>6, <2>8, <3>3, <3>4, <3>6 DEF Remembers
    <3> QED BY <3>5, <3>6
  <2> QED BY <2>6, <2>7, <2>8, <2>9, <2>10, <2>11 DEF DedupInv
<1>9. CASE DedupTick
  <2>1. dedupTime \in Nat /\ dedupTime' = dedupTime + 1 /\ UNCHANGED <<dedupRecord, holders, verdicts>>
    BY <1>1, <1>9 DEF DedupTick, DedupTypeOK
  <2>2. \A k \in DedupKeys : Exists(k)' = Exists(k) /\ AcceptedVerdicts(k)' = AcceptedVerdicts(k)
    BY <2>1 DEF Exists, AcceptedVerdicts
  <2>3. ASSUME NEW k \in DedupKeys, NEW m \in AcceptedVerdicts(k), LeftAloneSince(k, m)'
        PROVE  Remembers(k, verdicts[k][m])'
    <3>1. PICK last : last = verdicts[k][m]
      OBVIOUS
    <3>2. LeftAloneSince(k, m)
      BY <2>1, <2>3 DEF LeftAloneSince, LeftAlone
    <3>3. Remembers(k, last) /\ verdicts'[k][m] = last
      BY <2>1, <2>3, <3>1, <3>2 DEF DedupInv
    <3>4. last.at \in Nat
      <4>1. verdicts[k] \in Seq(VerdictType) /\ m \in DOMAIN verdicts[k]
        BY <1>1, <2>3 DEF DedupTypeOK, AcceptedVerdicts
      <4>2. last \in VerdictType
        BY <3>1, <4>1
      <4> QED BY <4>2 DEF VerdictType
    <3> QED BY <2>1, <2>2, <3>3, <3>4 DEF Remembers
  <2>4. OneEventPerKey'
    BY <2>1, <2>2 DEF DedupInv, OneEventPerKey, LeftAlone
  <2> QED BY <1>1, <2>1, <2>2, <2>3, <2>4 DEF DedupInv, DedupTypeOK
<1>10. CASE UNCHANGED dedupVars
  <2>1. UNCHANGED <<dedupTime, dedupRecord, holders, verdicts>>
    BY <1>10 DEF dedupVars
  <2>2. DedupTypeOK'
    BY <2>1 DEF DedupInv, DedupTypeOK
  <2>3. OneEventPerKey'
    BY <2>1 DEF DedupInv, OneEventPerKey, AcceptedVerdicts, LeftAlone
  <2>4. \A k \in DedupKeys : \A m \in AcceptedVerdicts(k)' :
          LeftAloneSince(k, m)' => Remembers(k, verdicts[k][m])'
    BY <2>1 DEF DedupInv, AcceptedVerdicts, LeftAloneSince, LeftAlone, Remembers, Exists
  <2> QED BY <2>1, <2>2, <2>3, <2>4 DEF DedupInv, Exists, AcceptedVerdicts
<1> QED BY <1>4, <1>6, <1>7, <1>8, <1>9, <1>10 DEF DedupNext, Begin

(* Evaluation alone accepts one event under a key.  An acceptance by evaluation
   that comes within the window (or the lock) of an earlier one has a duplicate or a
   conflict that evaluation answered between the two: for any events, keys, times and
   windows, with any number of callers that hold a key and commit it whenever. *)
THEOREM DedupCorrect == DedupSpec => []OneEventPerKey
<1>1. DedupInit => DedupInv
  <2> SUFFICES ASSUME DedupInit PROVE DedupInv
    OBVIOUS
  <2>1. \A k \in DedupKeys : verdicts[k] = <<>> /\ Len(verdicts[k]) = 0 /\ AcceptedVerdicts(k) = {}
    BY DEF DedupInit, AcceptedVerdicts
  <2>2. DedupTypeOK
    BY DEF DedupInit, DedupTypeOK
  <2>3. OneEventPerKey
    BY <2>1 DEF OneEventPerKey
  <2> QED BY <2>1, <2>2, <2>3 DEF DedupInv, DedupInit
<1>2. DedupInv => OneEventPerKey
  BY DEF DedupInv
<1> QED BY <1>1, <1>2, DedupStep, PTL DEF DedupSpec

----------------------------------------------------------------------------
(* Audit store *)

\* What an append that was taken can still count on.
AckOK(a) ==
  \E key \in DOMAIN auditStore :
    /\ a.token = <<key, PayloadDigest[a.record]>>
    /\ a.token \in DOMAIN tokenIndex /\ tokenIndex[a.token] = key
    /\ a.first \in Nat /\ a.first <= auditStore[key].first
    /\ IF a.first = auditStore[key].first
       THEN PayloadDigest[auditStore[key].record] = PayloadDigest[a.record]
       ELSE auditTime - a.first > AppendWindow

(* Strengthening of TokensHold: a token leads to its own key, and what is stored
   there was appended in the same window and reads the same, or after that window. *)
StoreInv ==
  /\ auditTime \in Nat
  /\ \A key \in DOMAIN auditStore :
       LET token == <<key, PayloadDigest[auditStore[key].record]>>
       IN  /\ auditStore[key].first \in Nat /\ auditStore[key].first <= auditTime
           /\ token \in DOMAIN tokenIndex /\ tokenIndex[token] = key
  /\ \A a \in acks : AckOK(a)

LEMMA StoreStep == ASSUME StoreInv, [AuditNext]_auditVars PROVE StoreInv'
<1>1. ASSUME NEW request \in AppendRequests, AppendNew(request) PROVE StoreInv'
  <2> DEFINE key == ResolveDedupKey(request)
             token == BuildAppendToken(key, request.record)
             new == [token |-> token, record |-> request.record, first |-> auditTime]
  <2>0. /\ ~SeenInWindow(key) /\ auditTime' = auditTime
        /\ auditStore' = PutUnder(auditStore, key, [record |-> request.record, first |-> auditTime])
        /\ tokenIndex' = PutUnder(tokenIndex, token, key)
        /\ acks' = acks \cup {new}
    BY <1>1 DEF AppendNew, TakeAppend
  <2>1. token = <<key, PayloadDigest[request.record]>>
    BY DEF BuildAppendToken
  <2> HIDE DEF key, token
  <2>2. /\ DOMAIN auditStore' = DOMAIN auditStore \cup {key}
        /\ auditStore'[key] = [record |-> request.record, first |-> auditTime]
        /\ \A k \in DOMAIN auditStore : k # key => auditStore'[k] = auditStore[k]
    BY <2>0, Zenon DEF PutUnder
  <2>3. /\ DOMAIN tokenIndex' = DOMAIN tokenIndex \cup {token}
        /\ tokenIndex'[token] = key
        /\ \A t \in DOMAIN tokenIndex : t # token => tokenIndex'[t] = tokenIndex[t]
    BY <2>0, Zenon DEF PutUnder
  <2>4. ASSUME NEW k \in DOMAIN auditStore'
        PROVE  LET t == <<k, PayloadDigest[auditStore'[k].record]>>
               IN  /\ auditStore'[k].first \in Nat /\ auditStore'[k].first <= auditTime'
                   /\ t \in DOMAIN tokenIndex' /\ tokenIndex'[t] = k
    <3>1. CASE k = key
      BY <2>0, <2>1, <2>2, <2>3, <3>1 DEF StoreInv
    <3>2. CASE k # key
      <4>1. k \in DOMAIN auditStore /\ auditStore'[k] = auditStore[k]
        BY <2>2, <3>2
      <4>2. PICK t : t = <<k, PayloadDigest[auditStore[k].record]>>
        OBVIOUS
      <4>3. t \in DOMAIN tokenIndex /\ tokenIndex[t] = k /\ t # token
        BY <2>1, <3>2, <4>1, <4>2 DEF StoreInv
      <4>4. t \in DOMAIN tokenIndex' /\ tokenIndex'[t] = k
        BY <2>3, <4>3
      <4>5. auditStore[k].first \in Nat /\ auditStore[k].first <= auditTime
        BY <4>1 DEF StoreInv
      <4> QED BY <2>0, <4>1, <4>2, <4>4, <4>5
    <3> QED BY <3>1, <3>2
  <2>5. AckOK(new)'
    BY <2>0, <2>1, <2>2, <2>3 DEF AckOK, StoreInv
  <2>6. ASSUME NEW a \in acks PROVE AckOK(a)'
    <3>1. PICK k \in DOMAIN auditStore :
            /\ a.token = <<k, PayloadDigest[a.record]>>
            /\ a.token \in DOMAIN tokenIndex /\ tokenIndex[a.token] = k
            /\ a.first \in Nat /\ a.first <= auditStore[k].first
            /\ IF a.first = auditStore[k].first
               THEN PayloadDigest[auditStore[k].record] = PayloadDigest[a.record]
               ELSE auditTime - a.first > AppendWindow
      BY DEF StoreInv, AckOK
    <3>2. a.token \in DOMAIN tokenIndex' /\ tokenIndex'[a.token] = k
      BY <2>1, <2>3, <3>1
    <3>3. CASE k # key
      BY <2>0, <2>2, <3>1, <3>2, <3>3 DEF AckOK
    <3>4. CASE k = key
      <4>1. auditStore[k].first \in Nat /\ auditStore[k].first <= auditTime /\ auditTime \in Nat
        BY DEF StoreInv
      <4>2. auditTime - auditStore[k].first > AppendWindow
        BY <2>0, <3>4, <4>1, AuditAssumption DEF SeenInWindow
      <4>3. auditTime - a.first > AppendWindow /\ a.first < auditTime
        BY <3>1, <4>1, <4>2, AuditAssumption
      <4>4. auditStore'[k].first = auditTime /\ k \in DOMAIN auditStore'
        BY <2>2, <3>4
      <4> QED BY <2>0, <3>1, <3>2, <4>1, <4>3, <4>4 DEF AckOK
    <3> QED BY <3>3, <3>4
  <2> QED BY <2>0, <2>4, <2>5, <2>6 DEF StoreInv
<1>2. ASSUME NEW request \in AppendRequests, AppendAgain(request) PROVE StoreInv'
  <2> DEFINE key == ResolveDedupKey(request)
             new == [token |-> BuildAppendToken(key, request.record),
                     record |-> request.record, first |-> auditStore[key].first]
  <2>1. UNCHANGED <<auditStore, tokenIndex, auditTime>> /\ key \in DOMAIN auditStore
    BY <1>2 DEF AppendAgain, SeenInWindow
  <2>2. ASSUME NEW a, AckOK(a) PROVE AckOK(a)'
    BY <2>1, <2>2 DEF AckOK
  <2>3. CASE UNCHANGED acks
    BY <2>1, <2>2, <2>3 DEF StoreInv
  <2>4. CASE /\ PayloadDigest[auditStore[key].record] = PayloadDigest[request.record]
             /\ acks' = acks \cup {new}
    <3>1. auditStore[key].first \in Nat /\ new.token = <<key, PayloadDigest[request.record]>>
      BY <2>1 DEF StoreInv, BuildAppendToken
    <3>2. new.token \in DOMAIN tokenIndex /\ tokenIndex[new.token] = key
      BY <2>1, <2>4, <3>1 DEF StoreInv
    <3>3. new.first = auditStore[key].first /\ new.record = request.record
      OBVIOUS
    <3> HIDE DEF new, key
    <3>4. AckOK(new)
      BY <2>1, <2>4, <3>1, <3>2, <3>3 DEF AckOK
    <3>5. new' = new
      BY <2>1 DEF new, key
    <3> QED BY <2>1, <2>2, <2>4, <3>4 DEF StoreInv
  <2> QED BY <1>2, <2>3, <2>4 DEF AppendAgain, TakeAppend, BuildAppendToken
<1>3. ASSUME UNCHANGED <<auditStore, tokenIndex, acks, auditTime>> PROVE StoreInv'
  BY <1>3 DEF StoreInv, AckOK
<1>4. CASE AuditTick
  <2>1. /\ UNCHANGED <<auditStore, tokenIndex, acks>>
        /\ auditTime \in Nat /\ auditTime' = auditTime + 1
    BY <1>4 DEF AuditTick, StoreInv
  <2>2. ASSUME NEW a \in acks PROVE AckOK(a)'
    <3>1. PICK k \in DOMAIN auditStore :
            /\ a.token = <<k, PayloadDigest[a.record]>>
            /\ a.token \in DOMAIN tokenIndex /\ tokenIndex[a.token] = k
            /\ a.first \in Nat /\ a.first <= auditStore[k].first
            /\ IF a.first = auditStore[k].first
               THEN PayloadDigest[auditStore[k].record] = PayloadDigest[a.record]
               ELSE auditTime - a.first > AppendWindow
      BY DEF StoreInv, AckOK
    <3>2. auditTime - a.first > AppendWindow => auditTime' - a.first > AppendWindow
      BY <2>1, <3>1, AuditAssumption
    <3> QED BY <2>1, <3>1, <3>2 DEF AckOK
  <2>3. \A key \in DOMAIN auditStore : auditStore[key].first \in Nat /\ auditStore[key].first <= auditTime'
    <3>1. ASSUME NEW key \in DOMAIN auditStore
          PROVE  auditStore[key].first \in Nat /\ auditStore[key].first <= auditTime
      BY DEF StoreInv
    <3> QED BY <2>1, <3>1
  <2> QED BY <2>1, <2>2, <2>3 DEF StoreInv
<1>5. ASSUME NEW request \in AppendRequests, RefuseAppend(request) PROVE StoreInv'
  BY <1>3, <1>5 DEF RefuseAppend
<1>6. ASSUME NEW query \in ReplayQueries, BeginReplay(query) PROVE StoreInv'
  BY <1>3, <1>6 DEF BeginReplay
<1>7. CASE Replay \/ RefusePage \/ EndReplay \/ UNCHANGED auditVars
  BY <1>3, <1>7 DEF Replay, RefusePage, EndReplay, auditVars
<1> QED BY <1>1, <1>2, <1>4, <1>5, <1>6, <1>7 DEF AuditNext

(* The token of an append finds the record that was appended, or one that reads the
   same, until the window of its key is over: for any records, keys, windows and
   appends, and without a bound on their number or on the clock. *)
THEOREM TokensCorrect == AuditSpec => []TokensHold
<1>1. AuditInit => StoreInv
  BY DEF AuditInit, StoreInv
<1>2. StoreInv => TokensHold
  <2> SUFFICES ASSUME StoreInv, NEW a \in acks, auditTime - a.first <= AppendWindow
               PROVE  PayloadDigest[GetByAppendToken(a.token)] = PayloadDigest[a.record]
    BY DEF TokensHold
  <2>1. PICK k \in DOMAIN auditStore :
          /\ a.token \in DOMAIN tokenIndex /\ tokenIndex[a.token] = k
          /\ a.first \in Nat /\ a.first <= auditStore[k].first
          /\ IF a.first = auditStore[k].first
             THEN PayloadDigest[auditStore[k].record] = PayloadDigest[a.record]
             ELSE auditTime - a.first > AppendWindow
    BY DEF StoreInv, AckOK
  <2>2. ~ (auditTime - a.first > AppendWindow)
    BY <2>1, AuditAssumption DEF StoreInv
  <2> QED BY <2>1, <2>2 DEF GetByAppendToken
<1> QED BY <1>1, <1>2, StoreStep, PTL DEF AuditSpec

----------------------------------------------------------------------------
(* Replay *)

StoreTyped ==
  /\ DOMAIN auditStore \subseteq Nat /\ IsFiniteSet(DOMAIN auditStore)
  /\ \A key \in DOMAIN auditStore : auditStore[key].record \in AuditRecords

\* The keys are sorted by a strict order in which any two of them compare.
LEMMA Sorted ==
  ASSUME StoreTyped, NEW query
  PROVE  /\ \A j \in DOMAIN auditStore : ~ComesFirst(j, j, query)
         /\ \A j, k \in DOMAIN auditStore :
              j # k => ComesFirst(j, k, query) \/ ComesFirst(k, j, query)
         /\ \A i, j, k \in DOMAIN auditStore :
              ComesFirst(i, j, query) /\ ComesFirst(j, k, query) => ComesFirst(i, k, query)
<1> DEFINE At(key) == AuditContent[auditStore[key].record].at
<1>1. \A key \in DOMAIN auditStore : At(key) \in Nat /\ key \in Nat
  BY AuditAssumption DEF StoreTyped
<1>2. \A j, k : ComesFirst(j, k, query) <=> \/ At(j) = At(k) /\ j < k
                                            \/ At(j) # At(k) /\ (At(j) < At(k) <=> QueryOf[query].order = "asc")
  BY DEF ComesFirst
<1> HIDE DEF At
<1>3. PICK up \in BOOLEAN : up <=> QueryOf[query].order = "asc"
  OBVIOUS
<1>4. CASE up
  BY <1>1, <1>2, <1>3, <1>4
<1>5. CASE ~up
  BY <1>1, <1>2, <1>3, <1>5
<1> QED BY <1>3, <1>4, <1>5

LEMMA Ranked ==
  ASSUME StoreTyped, NEW query, NEW keys \in SUBSET DOMAIN auditStore
  PROVE  /\ IsFiniteSet(keys) /\ Cardinality(keys) \in Nat
         /\ \A k \in keys : Rank(k, keys, query) \in Nat /\ Rank(k, keys, query) < Cardinality(keys)
         /\ \A j, k \in keys : Rank(j, keys, query) = Rank(k, keys, query) => j = k
<1> DEFINE First(k) == {j \in keys : ComesFirst(j, k, query)}
<1>1. IsFiniteSet(keys) /\ Cardinality(keys) \in Nat
  BY FS_Subset, FS_CardinalityType DEF StoreTyped
<1>2. ASSUME NEW S \in SUBSET keys, NEW T \in SUBSET S, NEW x \in S, x \notin T
      PROVE  Cardinality(T) \in Nat /\ Cardinality(S) \in Nat /\ Cardinality(T) < Cardinality(S)
  <2>1. IsFiniteSet(S) /\ IsFiniteSet(T)
    BY <1>1, FS_Subset
  <2>2. Cardinality(S) \in Nat /\ Cardinality(T) \in Nat /\ Cardinality(T) <= Cardinality(S)
    BY <2>1, FS_Subset, FS_CardinalityType
  <2>3. Cardinality(T) # Cardinality(S)
    BY <1>2, <2>1, FS_Subset
  <2> QED BY <2>2, <2>3
<1>3. ASSUME NEW k \in keys
      PROVE  Rank(k, keys, query) \in Nat /\ Rank(k, keys, query) < Cardinality(keys)
  <2>1. k \notin First(k)
    BY Sorted
  <2> QED BY <1>2, <2>1 DEF Rank
<1>4. ASSUME NEW j \in keys, NEW k \in keys, ComesFirst(j, k, query)
      PROVE  Rank(j, keys, query) < Rank(k, keys, query)
  <2>1. First(j) \subseteq First(k)
    BY <1>4, Sorted
  <2>2. j \in First(k) /\ j \notin First(j)
    BY <1>4, Sorted
  <2>3. First(k) \subseteq keys
    OBVIOUS
  <2> HIDE DEF First
  <2>4. Cardinality(First(j)) < Cardinality(First(k))
    BY <1>2, <2>1, <2>2, <2>3
  <2> QED BY <2>4 DEF Rank, First
<1>5. ASSUME NEW j \in keys, NEW k \in keys, Rank(j, keys, query) = Rank(k, keys, query) PROVE j = k
  <2>1. ~ComesFirst(j, k, query) /\ ~ComesFirst(k, j, query)
    BY <1>3, <1>4, <1>5
  <2> QED BY <2>1, Sorted
<1> QED BY <1>1, <1>3, <1>5

(* What is sorted at the place a key has by its rank is that key. *)
LEMMA SortedByRank ==
  ASSUME StoreTyped, NEW query, NEW asOf, NEW k \in Filtered(query, asOf)
  PROVE  LET found == Filtered(query, asOf)
             sorted == SortRecords(found, query)
         IN  /\ Len(sorted) = Cardinality(found) /\ Len(sorted) \in Nat
             /\ Rank(k, found, query) \in Nat /\ Rank(k, found, query) < Len(sorted)
             /\ sorted[Rank(k, found, query) + 1] = k
<1> DEFINE found == Filtered(query, asOf)
           sorted == SortRecords(found, query)
<1>1. found \in SUBSET DOMAIN auditStore
  BY DEF Filtered, MatchesBase
<1> HIDE DEF found
<1>2. /\ Cardinality(found) \in Nat /\ k \in found
      /\ Rank(k, found, query) \in Nat /\ Rank(k, found, query) < Cardinality(found)
      /\ \A j \in found : Rank(j, found, query) = Rank(k, found, query) => j = k
  BY <1>1, Ranked DEF found
<1>3. sorted = [i \in 1..Cardinality(found) |-> CHOOSE j \in found : Rank(j, found, query) = i - 1]
  BY DEF SortRecords
<1>4. Len(sorted) = Cardinality(found)
  BY <1>2, <1>3
<1>5. PICK r \in Nat : r = Rank(k, found, query)
  BY <1>2
<1>6. sorted[r + 1] = CHOOSE j \in found : Rank(j, found, query) = (r + 1) - 1
  BY <1>2, <1>3, <1>5
<1>7. (r + 1) - 1 = r
  OBVIOUS
<1>8. sorted[r + 1] = k
  BY <1>2, <1>5, <1>6, <1>7
<1> QED BY <1>2, <1>4, <1>5, <1>8 DEF found

\* A page that holds a difference is called deterministic only if another record on
\* it has nothing to compare.
VerdictEarned(p) ==
  QueryOf[p.query].execution = "rule_recompute" /\ p.verdict = "deterministic" =>
    \A i \in DOMAIN p.items :
      BuildDiffSummary(p.items[i].record) = "diverged" =>
        \E j \in DOMAIN p.items : Recomputed[p.items[j].record] = {}

\* What was there when the replay began and sorts before its offset was seen.
Covered(query, asOf) ==
  LET found == Filtered(query, asOf)
  IN  /\ replay.began \subseteq found
      /\ replay.pc = "reading" =>
           \A k \in replay.began : Rank(k, found, query) < replay.offset => k \in replay.seen
      /\ replay.pc = "read" => replay.began \subseteq replay.seen

(* Strengthening of ReplayTellsTheStore: records that come between two pages move the
   others towards the pages that are still to come. *)
ReplayInv ==
  /\ StoreTyped
  /\ DOMAIN replay = DOMAIN NoReplay
  /\ replay.pc = "reading" => replay.offset \in Nat /\ QueryOf[replay.query].pageSize \in Nat
  /\ replay.pc \in {"reading", "read"} /\ ~replay.moved => Covered(replay.query, replay.asOf)
  /\ \A p \in pages : VerdictEarned(p)

(* An append of a new key puts no key before where it was. *)
LEMMA AppendCovers ==
  ASSUME ReplayInv, NEW request \in AppendRequests, AppendNew(request)
  PROVE  ReplayInv'
<1> DEFINE key == ResolveDedupKey(request)
           entry == [record |-> request.record, first |-> auditTime]
<1>1. /\ auditStore' = PutUnder(auditStore, key, entry)
      /\ replay' = [replay EXCEPT !.moved = @ \/ key \in DOMAIN auditStore]
      /\ pages' = pages
  BY DEF AppendNew
<1>2. key \in Nat /\ entry.record \in AuditRecords
  BY AuditAssumption DEF ResolveDedupKey
<1> HIDE DEF key, entry
<1>3. /\ DOMAIN auditStore' = DOMAIN auditStore \cup {key}
      /\ auditStore'[key] = entry
      /\ \A k \in DOMAIN auditStore : k # key => auditStore'[k] = auditStore[k]
  BY <1>1, Zenon DEF PutUnder
<1>4. StoreTyped'
  BY <1>2, <1>3, FS_AddElement DEF ReplayInv, StoreTyped
<1>5. /\ DOMAIN replay' = DOMAIN NoReplay
      /\ replay'.pc = replay.pc /\ replay'.offset = replay.offset /\ replay'.query = replay.query
      /\ replay'.asOf = replay.asOf /\ replay'.began = replay.began /\ replay'.seen = replay.seen
      /\ replay'.moved <=> replay.moved \/ key \in DOMAIN auditStore
  BY <1>1 DEF ReplayInv, NoReplay
<1>6. PICK q, a : q = replay.query /\ a = replay.asOf
  OBVIOUS
<1>7. ASSUME replay.pc \in {"reading", "read"}, ~replay'.moved PROVE Covered(q, a)'
  <2>1. Covered(q, a) /\ key \notin DOMAIN auditStore
    BY <1>5, <1>6, <1>7 DEF ReplayInv
  <2>2. \A k \in DOMAIN auditStore : k \in DOMAIN auditStore' /\ auditStore'[k] = auditStore[k]
    BY <1>3, <2>1
  <2> DEFINE found == Filtered(q, a)
             next == Filtered(q, a)'
  <2>3. found \subseteq next
    BY <2>2 DEF Filtered, MatchesBase
  <2>4. found \in SUBSET DOMAIN auditStore /\ next \in SUBSET DOMAIN auditStore'
    BY DEF Filtered, MatchesBase
  <2>5. \A j, k \in DOMAIN auditStore : ComesFirst(j, k, q)' = ComesFirst(j, k, q)
    BY <2>2 DEF ComesFirst
  <2>6. IsFiniteSet(next)
    BY <1>4, <2>4, FS_Subset DEF StoreTyped
  <2> HIDE DEF found, next
  <2>7. PICK old, new : old = found /\ new = next
    OBVIOUS
  <2>8. ASSUME NEW k \in old PROVE Rank(k, new, q)' \in Nat /\ Rank(k, old, q) \in Nat
                                   /\ Rank(k, old, q) <= Rank(k, new, q)'
    <3>1. {j \in old : ComesFirst(j, k, q)} \subseteq {j \in new : ComesFirst(j, k, q)'}
      BY <2>3, <2>4, <2>5, <2>7
    <3>2. IsFiniteSet({j \in new : ComesFirst(j, k, q)'})
      BY <2>6, <2>7, FS_Subset
    <3> QED BY <3>1, <3>2, FS_Subset, FS_CardinalityType DEF Rank
  <2>9. replay.began \subseteq old
    BY <2>1, <2>7 DEF Covered, found
  <2>10. ASSUME replay.pc = "reading", NEW k \in replay.began, Rank(k, new, q)' < replay.offset
         PROVE  k \in replay.seen
    <3>1. replay.offset \in Nat
      BY <2>10 DEF ReplayInv
    <3>2. Rank(k, old, q) < replay.offset
      BY <2>8, <2>9, <2>10, <3>1
    <3> QED BY <2>1, <2>7, <2>10, <3>2 DEF Covered, found
  <2> QED BY <1>5, <2>1, <2>3, <2>7, <2>9, <2>10 DEF Covered, found, next
<1>8. \A p \in pages' : VerdictEarned(p)'
  BY <1>1 DEF ReplayInv, VerdictEarned
<1>9. replay'.pc = "reading" => replay'.offset \in Nat /\ QueryOf[replay'.query].pageSize \in Nat
  BY <1>5 DEF ReplayInv
<1> QED BY <1>4, <1>5, <1>6, <1>7, <1>8, <1>9 DEF ReplayInv, Covered

(* What a page says of its records is earned. *)
LEMMA PageEarned ==
  ASSUME NEW p, NEW records, records = {p.items[i].record : i \in DOMAIN p.items},
         p.verdict = DeterminismStatus(records, QueryOf[p.query])
  PROVE  VerdictEarned(p)
<1> SUFFICES ASSUME QueryOf[p.query].execution = "rule_recompute", p.verdict = "deterministic",
                    NEW i \in DOMAIN p.items, BuildDiffSummary(p.items[i].record) = "diverged"
             PROVE  \E j \in DOMAIN p.items : Recomputed[p.items[j].record] = {}
  BY DEF VerdictEarned
<1> DEFINE diffs == {BuildDiffSummary(r) : r \in records}
<1>1. AggregateDiffSummaries(diffs) # "diverged"
  BY DEF DeterminismStatus
<1>2. "diverged" \in diffs
  OBVIOUS
<1>3. "not_comparable" \in diffs
  BY <1>1, <1>2 DEF AggregateDiffSummaries
<1>4. PICK j \in DOMAIN p.items : BuildDiffSummary(p.items[j].record) = "not_comparable"
  BY <1>3
<1> QED BY <1>4 DEF BuildDiffSummary

(* The page at the offset returns the keys whose rank is on it, and the last page is
   the one that reaches the end. *)
LEMMA PageCovers ==
  ASSUME StoreTyped, NEW query, NEW asOf, NEW offset \in Nat, QueryOf[query].pageSize \in Nat,
         NEW k \in Filtered(query, asOf)
  PROVE  LET page == PageAt(query, asOf, offset)
             rank == Rank(k, Filtered(query, asOf), query)
         IN  /\ rank \in Nat
             /\ offset <= rank /\ rank < offset + QueryOf[query].pageSize =>
                  \E i \in DOMAIN page.items : page.items[i].key = k
             /\ ~page.more => rank < offset + QueryOf[query].pageSize
<1> DEFINE sorted == SortRecords(Filtered(query, asOf), query)
<1>1. PICK size \in Nat : size = QueryOf[query].pageSize
  OBVIOUS
<1>2. PICK rank \in Nat : rank = Rank(k, Filtered(query, asOf), query)
  BY SortedByRank
<1>3. PICK n \in Nat : n = Len(sorted)
  BY SortedByRank
<1>4. rank < n /\ sorted[rank + 1] = k
  BY <1>2, <1>3, SortedByRank
<1>5. PICK last : last = IF offset + size < n THEN offset + size ELSE n
  OBVIOUS
<1>6. PageAt(query, asOf, offset) =
        [items |-> [i \in 1..(IF last > offset THEN last - offset ELSE 0) |->
                      [key |-> sorted[offset + i], record |-> auditStore[sorted[offset + i]].record]],
         more  |-> offset + size < n]
  BY <1>1, <1>3, <1>5 DEF PageAt
<1> HIDE DEF sorted
<1>7. ASSUME offset <= rank, rank < offset + size
      PROVE  \E i \in DOMAIN PageAt(query, asOf, offset).items : PageAt(query, asOf, offset).items[i].key = k
  <2>1. PICK i \in Nat : i = rank + 1 - offset
    BY <1>7
  <2>2. i \in 1..(IF last > offset THEN last - offset ELSE 0) /\ offset + i = rank + 1
    BY <1>4, <1>5, <1>7, <2>1
  <2> QED BY <1>4, <1>6, <2>2
<1>8. ~PageAt(query, asOf, offset).more => rank < offset + size
  <2>1. CASE offset + size < n
    <3>1. (offset + size < n) = TRUE
      BY <2>1, Zenon
    <3>2. PICK items : items = [i \in 1..(IF last > offset THEN last - offset ELSE 0) |->
                      [key |-> sorted[offset + i], record |-> auditStore[sorted[offset + i]].record]]
      OBVIOUS
    <3>3. PageAt(query, asOf, offset) = [items |-> items, more |-> TRUE]
      BY <1>6, <3>1, <3>2, Zenon
    <3> QED BY <3>3
  <2>2. CASE ~ (offset + size < n)
    BY <1>4, <2>2
  <2> QED BY <2>1, <2>2
<1> QED BY <1>1, <1>2, <1>7, <1>8

LEMMA ReplayStep == ASSUME ReplayInv, [AuditNext]_auditVars PROVE ReplayInv'
<1>1. ASSUME UNCHANGED <<auditStore, replay, pages>> PROVE ReplayInv'
  BY <1>1 DEF ReplayInv, StoreTyped, Covered, VerdictEarned, Filtered, MatchesBase, Rank, ComesFirst
<1>2. ASSUME NEW request \in AppendRequests,
             AppendNew(request) \/ AppendAgain(request) \/ RefuseAppend(request)
      PROVE  ReplayInv'
  BY <1>1, <1>2, AppendCovers DEF AppendAgain, RefuseAppend
<1>3. ASSUME UNCHANGED <<auditStore, pages>>, DOMAIN replay' = DOMAIN NoReplay,
             replay'.pc \notin {"reading", "read"}
      PROVE  ReplayInv'
  BY <1>3 DEF ReplayInv, StoreTyped, VerdictEarned
<1>4. ASSUME UNCHANGED auditStore, NEW q, NEW a PROVE Filtered(q, a)' = Filtered(q, a)
  BY <1>4 DEF Filtered, MatchesBase
<1>5. ASSUME UNCHANGED auditStore, NEW q, NEW keys, NEW k PROVE Rank(k, keys, q)' = Rank(k, keys, q)
  BY <1>5 DEF Rank, ComesFirst
<1>6. ASSUME NEW query \in ReplayQueries, BeginReplay(query) PROVE ReplayInv'
  <2>1. UNCHANGED <<auditStore, pages>>
    BY <1>6 DEF BeginReplay
  <2>2. PICK asOf : asOf = ResolvedReplayAsOfAt(query)
    OBVIOUS
  <2>3. CASE ValidateQuery(QueryOf[query], asOf, auditTime)
    <3>1. replay' = [replay EXCEPT !.pc = "reading", !.query = query, !.asOf = asOf, !.offset = 0,
                                  !.seen = {}, !.moved = FALSE, !.count = @ + 1,
                                  !.began = Filtered(query, asOf)]
      BY <1>6, <2>2, <2>3 DEF BeginReplay
    <3>2. DOMAIN replay = DOMAIN NoReplay
      BY DEF ReplayInv
    <3>3. /\ DOMAIN replay' = DOMAIN NoReplay
          /\ replay'.pc = "reading" /\ replay'.query = query /\ replay'.asOf = asOf
          /\ replay'.offset = 0 /\ replay'.began = Filtered(query, asOf)
      BY <3>1, <3>2 DEF NoReplay
    <3>4. QueryOf[query].pageSize \in Nat
      <4>1. QueryOf[query].pageSize \in 1..200
        BY <2>3, Zenon DEF ValidateQuery
      <4> QED BY <4>1
    <3>5. ASSUME NEW k \in Filtered(query, asOf)
          PROVE  Rank(k, Filtered(query, asOf), query) \in Nat
      BY SortedByRank DEF ReplayInv
    <3>6. PICK found : found = Filtered(query, asOf)
      OBVIOUS
    <3>7. Filtered(query, asOf)' = found /\ \A k \in found : ~ (Rank(k, found, query)' < 0)
      BY <1>4, <1>5, <2>1, <3>5, <3>6
    <3>8. Covered(query, asOf)'
      BY <3>3, <3>6, <3>7 DEF Covered
    <3> QED BY <2>1, <3>3, <3>4, <3>8 DEF ReplayInv, StoreTyped, VerdictEarned, Covered
  <2>4. CASE ~ValidateQuery(QueryOf[query], asOf, auditTime)
    <3>1. replay' = [NoReplay EXCEPT !.pc = "refused", !.count = replay.count + 1]
      BY <1>6, <2>2, <2>4 DEF BeginReplay
    <3> QED BY <1>3, <2>1, <3>1 DEF NoReplay
  <2> QED BY <2>3, <2>4
<1>7. CASE Replay
  <2> DEFINE page == PageAt(replay.query, replay.asOf, replay.offset)
             records == {page.items[i].record : i \in DOMAIN page.items}
             answered == [query |-> replay.query, asOf |-> replay.asOf, offset |-> replay.offset,
                          items |-> page.items,
                          verdict |-> DeterminismStatus(records, QueryOf[replay.query]),
                          empty |-> EmptyResultObject(QueryOf[replay.query],
                                      MatchesBase(replay.query, replay.asOf),
                                      Filtered(replay.query, replay.asOf))]
  <2>1. /\ replay.pc = "reading" /\ pages' = pages \cup {answered} /\ UNCHANGED auditStore
        /\ replay' = [replay EXCEPT
             !.pc = IF page.more THEN "reading" ELSE "read",
             !.offset = NextOffset(@, QueryOf[replay.query].pageSize),
             !.seen = @ \cup {page.items[i].key : i \in DOMAIN page.items}]
    BY <1>7 DEF Replay
  <2>2. VerdictEarned(answered)
    BY PageEarned
  <2>3. \A p \in pages' : VerdictEarned(p)'
    BY <2>1, <2>2 DEF ReplayInv, VerdictEarned
  <2> HIDE DEF page, answered
  <2>4. PICK q, a, o, pg : q = replay.query /\ a = replay.asOf /\ o = replay.offset /\ pg = page
    OBVIOUS
  <2>5. PICK size : size = QueryOf[q].pageSize
    OBVIOUS
  <2>6. o \in Nat /\ size \in Nat
    BY <2>1, <2>4, <2>5 DEF ReplayInv
  <2>7. /\ DOMAIN replay' = DOMAIN NoReplay
        /\ replay'.pc = IF pg.more THEN "reading" ELSE "read"
        /\ replay'.offset = o + size
        /\ replay'.seen = replay.seen \cup {pg.items[i].key : i \in DOMAIN pg.items}
        /\ replay'.query = q /\ replay'.asOf = a /\ replay'.began = replay.began
        /\ replay'.moved = replay.moved
    BY <2>1, <2>4, <2>5 DEF ReplayInv, NoReplay, NextOffset
  <2>8. PICK found : found = Filtered(q, a)
    OBVIOUS
  <2>9. ASSUME ~replay.moved PROVE Covered(q, a)'
    <3>1. /\ replay.began \subseteq found
          /\ \A k \in replay.began : Rank(k, found, q) < o => k \in replay.seen
      BY <2>1, <2>4, <2>8, <2>9 DEF ReplayInv, Covered
    <3>2. ASSUME NEW k \in replay.began
          PROVE  /\ Rank(k, found, q) < o + size => k \in replay'.seen
                 /\ ~pg.more => k \in replay'.seen
      <4>1. PICK rank : rank = Rank(k, found, q)
        OBVIOUS
      <4>2. pg = PageAt(q, a, o)
        BY <2>4 DEF page
      <4>3. /\ rank \in Nat
            /\ o <= rank /\ rank < o + size => \E i \in DOMAIN pg.items : pg.items[i].key = k
            /\ ~pg.more => rank < o + size
        BY <2>5, <2>6, <2>8, <3>1, <4>1, <4>2, PageCovers DEF ReplayInv
      <4>4. rank < o + size => k \in replay'.seen
        BY <2>6, <2>7, <3>1, <4>1, <4>3
      <4> QED BY <4>1, <4>3, <4>4
    <3>3. Filtered(q, a)' = found /\ \A k : Rank(k, found, q)' = Rank(k, found, q)
      BY <1>4, <1>5, <2>1, <2>8
    <3> QED BY <2>7, <3>1, <3>2, <3>3 DEF Covered
  <2>10. replay'.offset \in Nat /\ QueryOf[replay'.query].pageSize \in Nat
    BY <2>5, <2>6, <2>7
  <2> QED BY <2>1, <2>3, <2>7, <2>9, <2>10 DEF ReplayInv, StoreTyped, Covered
<1>8. CASE RefusePage
  <2>1. UNCHANGED <<auditStore, pages>> /\ replay' = [replay EXCEPT !.pc = "refused"]
    BY <1>8 DEF RefusePage
  <2> QED BY <1>3, <2>1 DEF ReplayInv, NoReplay
<1>9. CASE EndReplay
  <2>1. UNCHANGED <<auditStore, pages>> /\ replay' = [NoReplay EXCEPT !.count = replay.count]
    BY <1>9 DEF EndReplay
  <2> QED BY <1>3, <2>1 DEF NoReplay
<1>10. CASE AuditTick \/ UNCHANGED auditVars
  BY <1>1, <1>10 DEF AuditTick, auditVars
<1> QED BY <1>2, <1>6, <1>7, <1>8, <1>9, <1>10 DEF AuditNext

(* A replay that was paged to its end returned all that matched when it began, with
   appends between its pages, and calls a page deterministic rightly: for any
   records, queries, cutoffs, page sizes and filters, with appends without bound. *)
THEOREM ReplayCorrect == AuditSpec => []ReplayTellsTheStore
<1>1. AuditInit => ReplayInv
  BY FS_EmptySet DEF AuditInit, ReplayInv, StoreTyped, NoReplay
<1>2. ReplayInv => ReplayTellsTheStore
  BY DEF ReplayInv, Covered, VerdictEarned, ReplayTellsTheStore
<1> QED BY <1>1, <1>2, ReplayStep, PTL DEF AuditSpec

----------------------------------------------------------------------------
(* Events endpoint *)

LEMMA Induction ==
  ASSUME NEW Good, 0 \in Good, \A n \in Nat : n \in Good => n + 1 \in Good
  PROVE  Nat \subseteq Good
<1> DEFINE Left == Nat \ Good
           Less == {pair \in Nat \X Nat : pair[1] < pair[2]}
<1> SUFFICES ASSUME Left # {} PROVE FALSE
  OBVIOUS
<1>1. PICK x \in Left : \A y \in Left : ~ (<<y, x>> \in Less)
  <2>1. IsWellFoundedOn(Less, Nat)
    BY NatLessThanWellFounded DEF OpToRel
  <2> HIDE DEF Less
  <2> QED BY <2>1, WFMin
<1>2. x \in Nat /\ x # 0 /\ x \notin Good
  OBVIOUS
<1>3. x - 1 \in Nat /\ (x - 1) + 1 = x /\ <<x - 1, x>> \in Less
  BY <1>2
<1>4. x - 1 \in Good
  BY <1>1, <1>3
<1> QED BY <1>2, <1>3, <1>4

(* The states before the events of a batch follow each other. *)
LEMMA BeforeSays ==
  ASSUME NEW b, NEW events, Len(events) \in Nat
  PROVE  /\ Before(b, events)[1] = [lastSeq |-> lastSeq, stored |-> stored]
         /\ \A n \in 1 .. Len(events) :
              Before(b, events)[n + 1] = After(Before(b, events)[n], b, events[n])
<1> DEFINE first == [lastSeq |-> lastSeq, stored |-> stored]
           Next1(g, m) == [n \in 1 .. m |-> IF n = 1 THEN first ELSE After(g[n - 1], b, events[n - 1])]
           Good == {m \in Nat : \E g : g = Next1(g, m)}
<1>1. 0 \in Good
  <2>1. PICK g : g = [n \in 1 .. 0 |-> first]
    OBVIOUS
  <2>2. g = Next1(g, 0)
    BY <2>1
  <2> QED BY <2>2
<1>2. ASSUME NEW m \in Nat, m \in Good PROVE m + 1 \in Good
  <2>1. PICK g : g = Next1(g, m)
    BY <1>2
  <2>2. PICK h : h = [n \in 1 .. m + 1 |-> IF n = 1 THEN first ELSE After(g[n - 1], b, events[n - 1])]
    OBVIOUS
  <2>3. \A n \in 1 .. m : h[n] = g[n]
    BY <2>1, <2>2
  <2>4. \A n \in 1 .. m + 1 : n # 1 => n - 1 \in 1 .. m
    OBVIOUS
  <2>5. \A n \in 1 .. m + 1 : n # 1 => After(g[n - 1], b, events[n - 1]) = After(h[n - 1], b, events[n - 1])
    BY <2>3, <2>4
  <2>6. h = Next1(h, m + 1)
    BY <2>2, <2>5
  <2> QED BY <2>6
<1>3. Len(events) + 1 \in Good
  <2> HIDE DEF Good
  <2> QED BY <1>1, <1>2, Induction
<1>4. Before(b, events) = CHOOSE f : f = Next1(f, Len(events) + 1)
  BY DEF Before
<1>5. Before(b, events) = Next1(Before(b, events), Len(events) + 1)
  BY <1>3, <1>4
<1>6. PICK f : f = Before(b, events)
  OBVIOUS
<1>7. f = Next1(f, Len(events) + 1)
  BY <1>5, <1>6
<1>8. f[1] = first
  BY <1>7
<1>9. \A n \in 1 .. Len(events) : f[n + 1] = After(f[n], b, events[n])
  BY <1>7
<1> QED BY <1>6, <1>8, <1>9

AnswerOf(s, b, e) == [batch |-> b, event |-> e, ack |-> Ack(s, b, e)]
KeyOf(a) == EventKeyOf[a.batch, a.event]

\* The first n answers of a list tell of what is stored in s.
TellsOf(s, list, n) ==
  LET accepted == {i \in 1 .. n : list[i].ack = "accepted"}
  IN  /\ \A i \in accepted : KeyOf(list[i]) \in DOMAIN s.stored
                             /\ s.stored[KeyOf(list[i])] = Payload[list[i].event]
      /\ \A key \in DOMAIN s.stored : \E i \in accepted : KeyOf(list[i]) = key
      /\ \A i, j \in accepted : i # j => KeyOf(list[i]) # KeyOf(list[j])
      /\ \A j \in 1 .. n : list[j].ack = "duplicate" =>
           \E i \in accepted : /\ i < j /\ KeyOf(list[i]) = KeyOf(list[j])
                               /\ Payload[list[i].event] = Payload[list[j].event]

(* One more event, with its acknowledgement. *)
LEMMA TellsNext ==
  ASSUME NEW s, NEW list, NEW n \in Nat, TellsOf(s, list, n),
         NEW b, NEW e, list[n + 1] = AnswerOf(s, b, e)
  PROVE  TellsOf(After(s, b, e), list, n + 1)
<1> DEFINE accepted == {i \in 1 .. n : list[i].ack = "accepted"}
           accepted1 == {i \in 1 .. n + 1 : list[i].ack = "accepted"}
           key == EventKeyOf[b, e]
           t == After(s, b, e)
<1>1. /\ list[n + 1].ack = Ack(s, b, e) /\ list[n + 1].event = e
      /\ KeyOf(list[n + 1]) = key
  BY DEF AnswerOf, KeyOf
<1>2. /\ Ack(s, b, e) = "accepted" => key \notin DOMAIN s.stored
      /\ Ack(s, b, e) = "duplicate" => key \in DOMAIN s.stored /\ s.stored[key] = Payload[e]
  <2> USE DEF Ack
  <2>1. Ack(s, b, e) = "accepted" => key \notin DOMAIN s.stored
    OBVIOUS
  <2>2. Ack(s, b, e) = "duplicate" => key \in DOMAIN s.stored
    OBVIOUS
  <2>3. Ack(s, b, e) = "duplicate" => s.stored[key] = Payload[e]
    OBVIOUS
  <2> QED BY <2>1, <2>2, <2>3
<1>3. \A i \in 1 .. n + 1 : i \in 1 .. n \/ i = n + 1
  OBVIOUS
<1>4. /\ \A i \in accepted : KeyOf(list[i]) \in DOMAIN s.stored
                             /\ s.stored[KeyOf(list[i])] = Payload[list[i].event]
      /\ \A k \in DOMAIN s.stored : \E i \in accepted : KeyOf(list[i]) = k
      /\ \A i, j \in accepted : i # j => KeyOf(list[i]) # KeyOf(list[j])
      /\ \A j \in 1 .. n : list[j].ack = "duplicate" =>
           \E i \in accepted : /\ i < j /\ KeyOf(list[i]) = KeyOf(list[j])
                               /\ Payload[list[i].event] = Payload[list[j].event]
  BY DEF TellsOf
<1>5. \A i \in accepted1 : i \in accepted \/ (i = n + 1 /\ Ack(s, b, e) = "accepted")
  BY <1>1, <1>3
<1>6. accepted \subseteq accepted1 /\ (Ack(s, b, e) = "accepted" => n + 1 \in accepted1)
  <2>1. n + 1 \in 1 .. n + 1 /\ 1 .. n \subseteq 1 .. n + 1
    OBVIOUS
  <2> QED BY <1>1, <2>1
<1>7. t.stored = IF Ack(s, b, e) = "accepted" THEN Set(s.stored, key, Payload[e]) ELSE s.stored
  BY DEF After
<1>8. Ack(s, b, e) = "accepted" =>
        /\ DOMAIN t.stored = DOMAIN s.stored \cup {key}
        /\ t.stored[key] = Payload[e]
        /\ \A k \in DOMAIN s.stored : t.stored[k] = s.stored[k]
  BY <1>2, <1>7 DEF Set
<1> HIDE DEF accepted, accepted1, key, t
<1>9. \A i \in accepted1 : KeyOf(list[i]) \in DOMAIN t.stored
                           /\ t.stored[KeyOf(list[i])] = Payload[list[i].event]
  BY <1>1, <1>4, <1>5, <1>7, <1>8
<1>10. \A k \in DOMAIN t.stored : \E i \in accepted1 : KeyOf(list[i]) = k
  BY <1>1, <1>4, <1>6, <1>7, <1>8
<1>11. \A i, j \in accepted1 : i # j => KeyOf(list[i]) # KeyOf(list[j])
  BY <1>1, <1>2, <1>4, <1>5
<1>12. ASSUME NEW j \in 1 .. n + 1, list[j].ack = "duplicate"
       PROVE  \E i \in accepted1 : /\ i < j /\ KeyOf(list[i]) = KeyOf(list[j])
                                   /\ Payload[list[i].event] = Payload[list[j].event]
  <2>1. CASE j \in 1 .. n
    BY <1>4, <1>6, <1>12, <2>1
  <2>2. CASE j = n + 1
    <3>1. key \in DOMAIN s.stored /\ s.stored[key] = Payload[e]
      BY <1>1, <1>2, <1>12, <2>2
    <3>2. PICK i \in accepted : KeyOf(list[i]) = key
      BY <1>4, <3>1
    <3>3. Payload[list[i].event] = Payload[e] /\ i < n + 1
      BY <1>4, <3>1, <3>2 DEF accepted
    <3> QED BY <1>1, <1>6, <2>2, <3>2, <3>3
  <2> QED BY <1>3, <2>1, <2>2
<1> QED BY <1>9, <1>10, <1>11, <1>12 DEF TellsOf, accepted1, t

(* Strengthening of AcceptedOnce: the acknowledgements tell exactly what is stored. *)
IngestInv ==
  /\ answers \in Seq([batch : Batches, event : IngestEvents, ack : {"accepted", "duplicate", "rejected"}])
  /\ TellsOf([stored |-> stored], answers, Len(answers))

LEMMA IngestStep == ASSUME IngestInv, [IngestNext]_ingestVars PROVE IngestInv'
<1>1. CASE UNCHANGED ingestVars
  BY <1>1 DEF ingestVars, IngestInv, TellsOf
<1> SUFFICES ASSUME NEW b \in Batches, NEW events \in EventLists, handlePostEvents(b, events)
             PROVE  IngestInv'
  BY <1>1 DEF IngestNext
<1>2. events \in Seq(IngestEvents) /\ Len(events) \in Nat /\ DOMAIN events = 1 .. Len(events)
  BY DEF EventLists
<1>3. PICK f : f = Before(b, events)
  OBVIOUS
<1>4. /\ f[1] = [lastSeq |-> lastSeq, stored |-> stored]
      /\ \A n \in 1 .. Len(events) : f[n + 1] = After(f[n], b, events[n])
  BY <1>2, <1>3, BeforeSays
<1> DEFINE new == [n \in 1 .. Len(events) |-> AnswerOf(f[n], b, events[n])]
           AnswerType == [batch : Batches, event : IngestEvents, ack : {"accepted", "duplicate", "rejected"}]
<1>5. answers' = answers \o new /\ stored' = f[Len(events) + 1].stored
  BY <1>2, <1>3 DEF handlePostEvents, AnswerOf
<1>6. \A n \in 1 .. Len(events) : AnswerOf(f[n], b, events[n]) \in AnswerType
  BY <1>2 DEF AnswerOf, Ack
<1>7. new \in Seq(AnswerType) /\ Len(new) = Len(events)
  BY <1>2, <1>6
<1>8. PICK m \in Nat : m = Len(answers)
  BY DEF IngestInv
<1> HIDE DEF new, AnswerType
<1>9. /\ answers' \in Seq(AnswerType) /\ Len(answers') = m + Len(events)
      /\ \A i \in 1 .. m : answers'[i] = answers[i]
      /\ \A n \in 1 .. Len(events) : answers'[m + n] = new[n]
  <2>1. answers \in Seq(AnswerType) /\ Len(answers) \in Nat
    BY DEF IngestInv, AnswerType
  <2> QED BY <1>2, <1>5, <1>7, <1>8, <2>1
<1>10. PICK list : list = answers'
  OBVIOUS
<1> DEFINE Good == {n \in Nat : n <= Len(events) => TellsOf(f[n + 1], list, m + n)}
<1>11. 0 \in Good
  <2>1. f[1].stored = stored
    BY <1>4
  <2>2. \A i \in 1 .. m : list[i] = answers[i]
    BY <1>9, <1>10
  <2>3. TellsOf([stored |-> stored], answers, m)
    BY <1>8 DEF IngestInv
  <2>4. TellsOf(f[1], list, m)
    BY <2>1, <2>2, <2>3 DEF TellsOf
  <2> QED BY <1>8, <2>4
<1>12. ASSUME NEW n \in Nat, n \in Good PROVE n + 1 \in Good
  <2> SUFFICES ASSUME n + 1 <= Len(events) PROVE TellsOf(f[n + 2], list, m + n + 1)
    BY <1>2
  <2>1. TellsOf(f[n + 1], list, m + n)
    BY <1>2, <1>12
  <2>2. n + 1 \in 1 .. Len(events) /\ m + n \in Nat /\ (m + n) + 1 = m + (n + 1)
    BY <1>2
  <2>3. list[m + n + 1] = AnswerOf(f[n + 1], b, events[n + 1])
    BY <1>9, <1>10, <2>2 DEF new
  <2>4. f[n + 2] = After(f[n + 1], b, events[n + 1])
    BY <1>4, <2>2
  <2> QED BY <2>1, <2>2, <2>3, <2>4, TellsNext
<1>13. TellsOf(f[Len(events) + 1], list, m + Len(events))
  <2>1. Nat \subseteq Good
    <3> HIDE DEF Good
    <3> QED BY <1>11, <1>12, Induction
  <2> QED BY <1>2, <2>1
<1>14. TellsOf([stored |-> stored'], list, Len(answers'))
  <2>1. Len(answers') = m + Len(events)
    BY <1>9
  <2>2. PICK t : t = [stored |-> stored']
    OBVIOUS
  <2>3. t.stored = f[Len(events) + 1].stored
    BY <1>5, <2>2
  <2>4. TellsOf(t, list, m + Len(events))
    BY <1>13, <2>3, Zenon DEF TellsOf
  <2> QED BY <2>1, <2>2, <2>4
<1> QED BY <1>9, <1>10, <1>14 DEF IngestInv, TellsOf, AnswerType

(* A client that posts its events again, in any batches, has one event accepted under
   a key, once, and is told of a duplicate only of what was accepted: for any events
   and batches of any length, and any number of answers. *)
THEOREM IngestCorrect == IngestSpec => []AcceptedOnce
<1>1. IngestInit => IngestInv
  BY DEF IngestInit, IngestInv, TellsOf
<1>2. IngestInv => AcceptedOnce
  <2> SUFFICES ASSUME IngestInv PROVE AcceptedOnce
    OBVIOUS
  <2>1. Len(answers) \in Nat /\ DOMAIN answers = 1 .. Len(answers)
    BY DEF IngestInv
  <2>2. \A i \in DOMAIN answers : KeyAt(i) = KeyOf(answers[i])
    BY DEF KeyAt, KeyOf
  <2>3. Accepted = {i \in 1 .. Len(answers) : answers[i].ack = "accepted"}
    BY <2>1 DEF Accepted
  <2> QED BY <2>1, <2>2, <2>3 DEF IngestInv, TellsOf, AcceptedOnce
<1> QED BY <1>1, <1>2, IngestStep, PTL DEF IngestSpec

-------------------------------------------------------------------------------
(***************************************************************************)
(* Closures and billing.  Each event of the code becomes an operator on    *)
(* one closure, so the proofs reason about the operators first.  What was  *)
(* billed stands since what a snapshot says of an attempt stays true while *)
(* the event waits to be mapped.                                           *)
(***************************************************************************)
NowOK(c) == c \in ClosureType /\ c.openedAt <= now

(* The operators of the module keep a closure well formed. *)
LEMMA OperatorsTyped ==
  ASSUME now \in Nat, NEW c, NowOK(c),
         NEW s \in Sources \cup {"none", Synthesized},
         NEW impression \in BOOLEAN, NEW signal \in BOOLEAN
  PROVE  /\ NowOK(Signalled(c))
         /\ NowOK(Impressed(c))
         /\ NowOK(Failed(c, s))
         /\ NowOK(Batched(c, impression, s, signal))
<1>0. ASSUME NEW d, NowOK(d) PROVE NowOK(Ensured(d))
  BY <1>0 DEF NowOK, ClosureType, Ensured
<1>a. ASSUME NEW d, NowOK(d), NEW state \in {"open", "closed_success", "closed_failure"},
             NEW source \in Sources \cup {"none", "impression", Synthesized}
      PROVE  NowOK([d EXCEPT !.state = state, !.source = source])
  BY <1>a DEF NowOK, ClosureType
<1>1. ASSUME NEW d, NowOK(d) PROVE NowOK(Signalled(d))
  <2>1. NowOK(Ensured(d))
    BY <1>0, <1>1
  <2> QED BY <2>1 DEF NowOK, ClosureType, Signalled
<1>2. ASSUME NEW d, NowOK(d) PROVE NowOK(Impressed(d))
  BY <1>0, <1>a, <1>2 DEF Impressed
<1>3. ASSUME NEW d, NowOK(d) PROVE NowOK(Failed(d, s))
  BY <1>0, <1>a, <1>3 DEF Failed
<1>4. NowOK(Batched(c, impression, s, signal))
  BY <1>1, <1>2, <1>3 DEF Batched
<1> QED BY <1>1, <1>2, <1>3, <1>4

(* Every step keeps the closures well formed, also when opening signals arrive
   late. *)
LEMMA TypeStep == TypeOK /\ [Next]_vars => TypeOK'
<1> SUFFICES ASSUME TypeOK, [Next]_vars PROVE TypeOK'
  OBVIOUS
<1> USE DEF TypeOK
<1>0. ASSUME NEW a \in Attempts PROVE NowOK(closure[a])
  BY DEF NowOK
<1>a. ASSUME UNCHANGED now, NEW a \in Attempts, NEW d, NowOK(d),
             closure' = [closure EXCEPT ![a] = d]
      PROVE  TypeOK'
  BY <1>a DEF NowOK
<1>1. ASSUME NEW a \in Attempts, Signal(a) PROVE TypeOK'
  BY <1>1, <1>0, <1>a, OperatorsTyped DEF Signal
<1>2. ASSUME NEW a \in Attempts, Impression(a) PROVE TypeOK'
  BY <1>2, <1>0, <1>a, OperatorsTyped DEF Impression
<1>3. ASSUME NEW a \in Attempts, NEW s \in Sources, Failure(a, s) PROVE TypeOK'
  BY <1>3, <1>0, <1>a, OperatorsTyped DEF Failure
<1>4. ASSUME NEW a \in Attempts, NEW i \in BOOLEAN, NEW g \in BOOLEAN,
             NEW s \in Sources \cup {"none"}, Batch(a, i, s, g)
      PROVE  TypeOK'
  BY <1>4, <1>0, <1>a, OperatorsTyped DEF Batch
<1>5. CASE ScanTimeouts
  <2>1. \A a \in Attempts : NowOK(Failed(closure[a], Synthesized))
    BY <1>0, OperatorsTyped
  <2> QED BY <1>5, <1>0, <2>1 DEF ScanTimeouts, NowOK
<1>6. CASE Tick
  BY <1>6 DEF Tick, ClosureType
<1>7. CASE UNCHANGED vars
  BY <1>7 DEF vars
<1> QED BY <1>1, <1>2, <1>3, <1>4, <1>5, <1>6, <1>7 DEF Next

(* The type invariant, for any attempts, sources, windows and bounds. *)
THEOREM ClosuresTyped == Spec => []TypeOK
<1>1. Init => TypeOK
  BY ConstantsAssumption DEF Init, TypeOK, ClosureType, NoClosure
<1> QED BY <1>1, TypeStep, PTL DEF Spec

----------------------------------------------------------------------------
(* A closure that changes in order either keeps its outcome or takes a step an
   attempt's outcome may take. *)
Advances(c, d) ==
  \/ OutcomeOf(d) = OutcomeOf(c)
  \/ OutcomeOf(c) = "pending" /\ OutcomeOf(d) \in {"presumed", "failed", "succeeded"}
  \/ OutcomeOf(c) = "presumed" /\ OutcomeOf(d) = "succeeded"

LEMMA OperatorsAdvance ==
  ASSUME NEW c \in ClosureType, NEW s \in Sources \cup {"none"},
         NEW impression \in BOOLEAN
  PROVE  /\ c.state \in {"none", "open"} => OutcomeOf(Signalled(c)) = OutcomeOf(c)
         /\ Advances(c, Impressed(c))
         /\ Advances(c, Failed(c, s))
         /\ Advances(c, Batched(c, impression, s, FALSE))
<1> USE DEF ClosureType, OutcomeOf, Ensured, Advances
<1>1. c.state \in {"none", "open"} => OutcomeOf(Signalled(c)) = OutcomeOf(c)
  BY DEF Signalled
<1>2. Advances(c, Impressed(c))
  BY DEF Impressed
<1>3. Advances(c, Failed(c, s))
  BY DEF Failed
<1>4. impression => Batched(c, impression, s, FALSE) = Impressed(c) \/ Impressed(c).state \in {"none", "open"} \/ s = "none"
  BY DEF Batched, Failed
<1>5. Impressed(c).state \notin {"none", "open"}
  BY DEF Impressed
<1>6. Advances(c, Batched(c, impression, s, FALSE))
  <2>1. CASE impression
    BY <2>1, <1>2, <1>4, <1>5 DEF Batched
  <2>2. CASE ~impression
    BY <2>2, <1>3 DEF Batched
  <2> QED BY <2>1, <2>2
<1> QED BY <1>1, <1>2, <1>3, <1>6

(* One attempt's advance is a step of AttemptOutcome, or none. *)
LEMMA AdvanceIsStep ==
  ASSUME TypeOK, NEW a \in Attempts, NEW d \in ClosureType,
         Advances(closure[a], d),
         closure' = [closure EXCEPT ![a] = d]
  PROVE  [Promise!Next]_([b \in Attempts |-> OutcomeOf(closure[b])])
<1> DEFINE out == [b \in Attempts |-> OutcomeOf(closure[b])]
           new == [b \in Attempts |-> OutcomeOf(closure'[b])]
<1>1. new = [out EXCEPT ![a] = OutcomeOf(d)]
  BY DEF TypeOK
<1>2. CASE OutcomeOf(d) = OutcomeOf(closure[a])
  BY <1>1, <1>2
<1>3. CASE OutcomeOf(d) = "succeeded" /\ OutcomeOf(closure[a]) \in {"pending", "presumed"}
  BY <1>1, <1>3 DEF Promise!Next, Promise!Succeed
<1>4. CASE OutcomeOf(d) = "failed" /\ OutcomeOf(closure[a]) = "pending"
  BY <1>1, <1>4 DEF Promise!Next, Promise!Fail
<1>5. CASE OutcomeOf(d) = "presumed" /\ OutcomeOf(closure[a]) = "pending"
  <2>1. new = [b \in Attempts |-> IF b \in {a} THEN "presumed" ELSE out[b]]
    BY <1>1, <1>5
  <2>2. Promise!Presume({a})
    BY <2>1, <1>5 DEF Promise!Presume
  <2> QED BY <2>2 DEF Promise!Next
<1> QED BY <1>2, <1>3, <1>4, <1>5 DEF Advances

(* While opening signals come first, every step of the closures is a step of
   AttemptOutcome: an attempt is decided once. *)
THEOREM ImplementsOutcome == ASSUME LateSignals = FALSE PROVE Spec => ImplementsAttemptOutcome
<1>1. Init => Promise!Init
  BY DEF Init, Promise!Init, OutcomeOf, NoClosure
<1>2. TypeOK /\ [Next]_vars => [Promise!Next]_([a \in Attempts |-> OutcomeOf(closure[a])])
  <2> DEFINE out == [b \in Attempts |-> OutcomeOf(closure[b])]
  <2> SUFFICES ASSUME TypeOK, [Next]_vars PROVE [Promise!Next]_out
    OBVIOUS
  <2>0. /\ \A a \in Attempts : closure[a] \in ClosureType /\ NowOK(closure[a])
        /\ now \in Nat /\ closure \in [Attempts -> ClosureType]
    BY DEF TypeOK, NowOK
  <2>1. ASSUME NEW a \in Attempts, Signal(a) PROVE [Promise!Next]_out
    <3>1. Signalled(closure[a]) \in ClosureType
      BY <2>0, OperatorsTyped DEF NowOK
    <3>2. Advances(closure[a], Signalled(closure[a]))
      BY <2>0, <2>1, OperatorsAdvance DEF Signal, InOrder, Advances
    <3> QED BY <2>1, <3>1, <3>2, AdvanceIsStep DEF Signal
  <2>2. ASSUME NEW a \in Attempts, Impression(a) PROVE [Promise!Next]_out
    <3>1. Impressed(closure[a]) \in ClosureType /\ Advances(closure[a], Impressed(closure[a]))
      BY <2>0, OperatorsTyped, OperatorsAdvance DEF NowOK
    <3> QED BY <2>2, <3>1, AdvanceIsStep DEF Impression
  <2>3. ASSUME NEW a \in Attempts, NEW s \in Sources, Failure(a, s) PROVE [Promise!Next]_out
    <3>1. Failed(closure[a], s) \in ClosureType /\ Advances(closure[a], Failed(closure[a], s))
      BY <2>0, OperatorsTyped, OperatorsAdvance DEF NowOK
    <3> QED BY <2>3, <3>1, AdvanceIsStep DEF Failure
  <2>4. ASSUME NEW a \in Attempts, NEW i \in BOOLEAN, NEW g \in BOOLEAN,
               NEW s \in Sources \cup {"none"}, Batch(a, i, s, g)
        PROVE  [Promise!Next]_out
    <3>0. g = FALSE
      BY <2>4 DEF Batch
    <3>1. /\ Batched(closure[a], i, s, g) \in ClosureType
          /\ Advances(closure[a], Batched(closure[a], i, s, g))
      BY <3>0, <2>0, OperatorsTyped, OperatorsAdvance DEF NowOK
    <3> QED BY <2>4, <3>1, AdvanceIsStep DEF Batch
  <2>5. CASE ScanTimeouts
    <3> DEFINE S == {a \in Attempts : Due(a)}
    <3>1. \A a \in S : out[a] = "pending"
      BY DEF Due, OutcomeOf
    <3>2. \A a \in Attempts : OutcomeOf(closure'[a]) = IF a \in S THEN "presumed" ELSE out[a]
      BY <2>0, <2>5 DEF ScanTimeouts, Due, OutcomeOf, Failed, Ensured, ClosureType
    <3>3. Promise!Presume(S)
      BY <3>1, <3>2 DEF Promise!Presume
    <3> QED BY <3>3 DEF Promise!Next
  <2>6. CASE Tick
    BY <2>6 DEF Tick
  <2>7. CASE UNCHANGED vars
    BY <2>7 DEF vars
  <2> QED BY <2>1, <2>2, <2>3, <2>4, <2>5, <2>6, <2>7 DEF Next
<1> QED BY <1>1, <1>2, ClosuresTyped, PTL DEF Spec, ImplementsAttemptOutcome, Promise!Spec

(* While opening signals come first, a successful attempt stays successful. *)
LEMMA SuccessStands ==
  ASSUME TypeOK, LateSignals = FALSE, [Next]_vars, NEW a \in Attempts,
         closure[a].state = "closed_success"
  PROVE  closure'[a].state = "closed_success"
<1>0. closure \in [Attempts -> ClosureType]
  BY DEF TypeOK
<1>1. ASSUME NEW b \in Attempts, Signal(b) PROVE b # a
  BY <1>1 DEF Signal, InOrder
<1>2. ASSUME NEW b \in Attempts, Impression(b) PROVE closure'[a].state = "closed_success"
  BY <1>0, <1>2 DEF Impression, Impressed
<1>3. ASSUME NEW b \in Attempts, NEW s \in Sources, Failure(b, s)
      PROVE closure'[a].state = "closed_success"
  BY <1>0, <1>3 DEF Failure, Failed
<1>4. ASSUME NEW b \in Attempts, NEW i \in BOOLEAN, NEW g \in BOOLEAN,
             NEW s \in Sources \cup {"none"}, Batch(b, i, s, g)
      PROVE closure'[a].state = "closed_success"
  BY <1>0, <1>4 DEF Batch, Batched, Impressed, Failed
<1>5. CASE ScanTimeouts
  BY <1>5 DEF ScanTimeouts, Due
<1>6. CASE Tick \/ UNCHANGED vars
  BY <1>6 DEF Tick, vars
<1>7. ASSUME NEW b \in Attempts, Signal(b) PROVE closure'[a].state = "closed_success"
  BY <1>0, <1>1, <1>7 DEF Signal
<1> QED BY <1>2, <1>3, <1>4, <1>5, <1>6, <1>7 DEF Next

----------------------------------------------------------------------------
(* Billing *)

(* One fact was returned for every key in the store, and none for another. *)
StoreTellsEmitted ==
  \A f \in Attempts \X Types : emitted[f] = IF f \in billed THEN 1 ELSE 0

(* An impression whose snapshot shows a success belongs to a successful attempt. *)
SnapshotsStand ==
  \A r \in reports : r.type = "impression" /\ r.snapshot = "closed_success"
                       => closure[r.attempt].state = "closed_success"

(* A billed impression belongs to a successful attempt, a billed click to a
   billed impression. *)
BilledStands ==
  \A a \in Attempts :
    /\ <<a, "impression">> \in billed => closure[a].state = "closed_success"
    /\ <<a, "click">> \in billed => <<a, "impression">> \in billed

BillingInv == FactsTypeOK /\ StoreTellsEmitted /\ SnapshotsStand /\ BilledStands

(* The closures take their own steps, or none, whatever happens to the facts. *)
LEMMA FactsStepClosure == [FactsNext]_factVars => [Next]_vars
BY DEF FactsNext, factVars, vars, Next, ReportImpression, ReportClick, Unbilled, MapFacts

LEMMA TypeHolds == ASSUME FactsTypeOK, [FactsNext]_factVars PROVE FactsTypeOK'
<1>0. TypeOK'
  BY FactsStepClosure, TypeStep DEF FactsTypeOK
<1> USE DEF FactsTypeOK
<1>1. ASSUME NEW a \in Attempts, NEW ack \in Acks, ReportImpression(a, ack)
      PROVE FactsTypeOK'
  <2>1. closure'[a].state \in States
    BY <1>0 DEF TypeOK, ClosureType, States
  <2> QED BY <1>0, <1>1, <2>1 DEF ReportImpression, Processed, Types
<1>2. ASSUME NEW a \in Attempts, NEW ack \in Acks, ReportClick(a, ack)
      PROVE FactsTypeOK'
  <2>1. closure[a].state \in States
    BY DEF TypeOK, ClosureType, States
  <2> QED BY <1>0, <1>2, <2>1 DEF ReportClick, Processed, Types
<1>3. CASE Unbilled
  BY <1>0, <1>3 DEF Unbilled
<1>4. ASSUME NEW r \in reports, MapFacts(r) PROVE FactsTypeOK'
  <2>1. /\ r.attempt \in Attempts /\ r.type \in Types /\ now \in Nat
        /\ reports' \subseteq reports
    BY <1>4 DEF MapFacts, TypeOK
  <2>2. CASE Bill(r)
    <3>1. billed' \subseteq Attempts \X Types
      BY <2>1, <2>2 DEF Bill
    <3>2. emitted' \in [Attempts \X Types -> Nat]
      BY <2>1, <2>2 DEF Bill
    <3> QED BY <1>0, <2>1, <2>2, <3>1, <3>2 DEF Bill
  <2>3. CASE NotBilled(r)
    BY <1>0, <2>1, <2>3 DEF NotBilled
  <2> QED BY <1>4, <2>2, <2>3 DEF MapFacts
<1>5. CASE UNCHANGED factVars
  BY <1>0, <1>5 DEF factVars
<1> QED BY <1>1, <1>2, <1>3, <1>4, <1>5 DEF FactsNext

LEMMA BillingStep ==
  ASSUME LateSignals = FALSE, BillingInv, [FactsNext]_factVars
  PROVE  BillingInv'
<1> USE DEF BillingInv, FactsTypeOK
<1>1. FactsTypeOK'
  BY TypeHolds
<1>2. \A a \in Attempts : closure[a].state = "closed_success" => closure'[a].state = "closed_success"
  BY FactsStepClosure, SuccessStands
<1>3. ASSUME UNCHANGED <<billed, emitted>> PROVE StoreTellsEmitted' /\ BilledStands'
  BY <1>2, <1>3 DEF StoreTellsEmitted, BilledStands
<1>4. ASSUME reports' \subseteq reports PROVE SnapshotsStand'
  BY <1>2, <1>4 DEF SnapshotsStand
<1>5. ASSUME NEW a \in Attempts, NEW ack \in Acks, ReportImpression(a, ack)
      PROVE SnapshotsStand' /\ UNCHANGED <<billed, emitted>>
  BY <1>2, <1>5 DEF ReportImpression, Processed, SnapshotsStand
<1>6. ASSUME NEW a \in Attempts, NEW ack \in Acks, ReportClick(a, ack)
      PROVE SnapshotsStand' /\ UNCHANGED <<billed, emitted>>
  BY <1>2, <1>6 DEF ReportClick, Processed, SnapshotsStand
<1>7. CASE Unbilled
  BY <1>1, <1>3, <1>4, <1>7 DEF Unbilled
<1>8. ASSUME NEW r \in reports, MapFacts(r) PROVE BillingInv'
  <2>1. SnapshotsStand'
    BY <1>4, <1>8 DEF MapFacts
  <2>2. CASE Bill(r)
    <3>1. r.attempt \in Attempts /\ r.type \in Types
      OBVIOUS
    <3> DEFINE f == <<r.attempt, r.type>>
    <3>2. /\ f \in Attempts \X Types /\ f \notin billed
          /\ billed' = billed \cup {f}
          /\ emitted' = [emitted EXCEPT ![f] = @ + 1]
      BY <2>2, <3>1 DEF Bill
    <3>3. StoreTellsEmitted'
      <4> SUFFICES ASSUME NEW g \in Attempts \X Types
                   PROVE  emitted'[g] = IF g \in billed' THEN 1 ELSE 0
        BY DEF StoreTellsEmitted
      <4>1. CASE g = f
        BY <3>2, <4>1 DEF StoreTellsEmitted
      <4>2. CASE g # f
        BY <3>2, <4>2 DEF StoreTellsEmitted
      <4> QED BY <4>1, <4>2
    <3>4. BilledStands'
      <4> SUFFICES ASSUME NEW a \in Attempts
                   PROVE  /\ <<a, "impression">> \in billed' => closure'[a].state = "closed_success"
                          /\ <<a, "click">> \in billed' => <<a, "impression">> \in billed'
        BY DEF BilledStands
      <4>1. f = <<a, "impression">> => closure'[a].state = "closed_success"
        BY <1>2, <2>2 DEF Bill, Billable, SnapshotsStand
      <4>2. f = <<a, "click">> => <<a, "impression">> \in billed
        BY <2>2 DEF Bill, Billable
      <4>3. <<a, "impression">> \in billed => closure'[a].state = "closed_success"
        BY <1>2 DEF BilledStands
      <4>4. <<a, "click">> \in billed => <<a, "impression">> \in billed
        BY DEF BilledStands
      <4> QED BY <3>2, <4>1, <4>2, <4>3, <4>4
    <3> QED BY <1>1, <2>1, <3>3, <3>4
  <2>3. CASE NotBilled(r)
    BY <1>1, <1>3, <2>1, <2>3 DEF NotBilled
  <2> QED BY <1>8, <2>2, <2>3 DEF MapFacts
<1>9. CASE UNCHANGED factVars
  BY <1>1, <1>3, <1>4, <1>9 DEF factVars
<1> QED BY <1>1, <1>3, <1>5, <1>6, <1>7, <1>8, <1>9 DEF FactsNext

(* While opening signals come first, an impression and a click are billed at most
   once, and what was billed stands as a success. *)
THEOREM BillingCorrect ==
  ASSUME LateSignals = FALSE PROVE FactsSpec => [](BilledOnce /\ BilledIsSuccess)
<1>1. FactsInit => BillingInv
  <2>1. Init => TypeOK
    BY ConstantsAssumption DEF Init, TypeOK, ClosureType, NoClosure
  <2> QED BY <2>1 DEF FactsInit, BillingInv, FactsTypeOK, StoreTellsEmitted, SnapshotsStand, BilledStands
<1>2. BillingInv => BilledOnce /\ BilledIsSuccess
  BY DEF BillingInv, StoreTellsEmitted, BilledStands, BilledOnce, BilledIsSuccess, Emitted, Types
<1> QED BY <1>1, <1>2, BillingStep, PTL DEF FactsSpec

(* While opening signals come first, a failure that was reported stands. *)
LEMMA FailureStands ==
  ASSUME TypeOK, LateSignals = FALSE, [Next]_vars, NEW a \in Attempts,
         OutcomeOf(closure[a]) = "failed"
  PROVE  OutcomeOf(closure'[a]) = "failed"
<1>0. /\ closure \in [Attempts -> ClosureType]
      /\ closure[a].state = "closed_failure" /\ closure[a].source # Synthesized
  BY DEF TypeOK, OutcomeOf, ClosureType
<1> SUFFICES closure'[a] = closure[a]
  OBVIOUS
<1>1. /\ Impressed(closure[a]) = closure[a]
      /\ \A s : Failed(closure[a], s) = closure[a]
      /\ \A i \in BOOLEAN : \A s : Batched(closure[a], i, s, FALSE) = closure[a]
  BY <1>0 DEF Impressed, Failed, Batched
<1>2. ASSUME NEW b \in Attempts, Signal(b) PROVE closure'[a] = closure[a]
  BY <1>0, <1>2 DEF Signal, InOrder
<1>3. ASSUME NEW b \in Attempts, Impression(b) PROVE closure'[a] = closure[a]
  BY <1>0, <1>1, <1>3 DEF Impression
<1>4. ASSUME NEW b \in Attempts, NEW s \in Sources, Failure(b, s) PROVE closure'[a] = closure[a]
  BY <1>0, <1>1, <1>4 DEF Failure
<1>5. ASSUME NEW b \in Attempts, NEW i \in BOOLEAN, NEW g \in BOOLEAN,
             NEW s \in Sources \cup {"none"}, Batch(b, i, s, g)
      PROVE  closure'[a] = closure[a]
  <2>1. g = FALSE
    BY <1>5 DEF Batch
  <2> QED BY <1>0, <1>1, <1>5, <2>1 DEF Batch
<1>6. CASE ScanTimeouts
  BY <1>0, <1>6 DEF ScanTimeouts, Due
<1>7. CASE Tick \/ UNCHANGED vars
  BY <1>7 DEF Tick, vars
<1> QED BY <1>2, <1>3, <1>4, <1>5, <1>6, <1>7 DEF Next

(* An impression that waits to be mapped found a success, or a failure that stands. *)
ImpressionsDecided ==
  \A r \in reports :
    r.type = "impression" =>
      r.snapshot = "closed_success" \/ OutcomeOf(closure[r.attempt]) = "failed"

LEMMA DecidedStep ==
  ASSUME LateSignals = FALSE, FactsTypeOK, ImpressionsDecided, [FactsNext]_factVars
  PROVE  ImpressionsDecided'
<1>1. \A a \in Attempts : OutcomeOf(closure[a]) = "failed" => OutcomeOf(closure'[a]) = "failed"
  BY FactsStepClosure, FailureStands DEF FactsTypeOK
<1>2. ASSUME NEW r \in reports, r.type = "impression"
      PROVE  r.snapshot = "closed_success" \/ OutcomeOf(closure'[r.attempt]) = "failed"
  BY <1>1, <1>2 DEF ImpressionsDecided, FactsTypeOK
<1>3. ASSUME NEW a \in Attempts, NEW ack \in Acks, ReportImpression(a, ack) PROVE ImpressionsDecided'
  <2>1. closure[a] \in ClosureType /\ closure'[a] = Impressed(closure[a])
    BY <1>3 DEF ReportImpression, Impression, FactsTypeOK, TypeOK
  <2>2. closure'[a].state = "closed_success" \/ OutcomeOf(closure'[a]) = "failed"
    BY <2>1 DEF Impressed, Ensured, OutcomeOf, ClosureType
  <2> QED BY <1>2, <1>3, <2>2 DEF ReportImpression, Processed, ImpressionsDecided
<1>4. ASSUME NEW a \in Attempts, NEW ack \in Acks, ReportClick(a, ack) PROVE ImpressionsDecided'
  BY <1>2, <1>4 DEF ReportClick, Processed, ImpressionsDecided
<1>5. CASE Unbilled \/ UNCHANGED factVars \/ (\E r \in reports : MapFacts(r))
  BY <1>2, <1>5 DEF Unbilled, factVars, MapFacts, ImpressionsDecided
<1> QED BY <1>3, <1>4, <1>5 DEF FactsNext

LEMMA FactsStart == FactsInit => BillingInv /\ ImpressionsDecided
<1>1. Init => TypeOK
  BY ConstantsAssumption DEF Init, TypeOK, ClosureType, NoClosure
<1> QED BY <1>1 DEF FactsInit, BillingInv, FactsTypeOK, StoreTellsEmitted, SnapshotsStand,
                    BilledStands, ImpressionsDecided

(* While opening signals come first, an accepted impression of an attempt that
   succeeded is billed once it is mapped, also one that came after the timeout: for
   any attempts, reports that wait, and order of events, scans and mappings. *)
THEOREM AcceptedBilled == ASSUME LateSignals = FALSE PROVE FactsSpec => AcceptedIsBilled
<1>1. ASSUME BillingInv, ImpressionsDecided, [FactsNext]_factVars
      PROVE  [\A r \in reports :
                r \notin reports' /\ r.type = "impression" /\ r.ack = "accepted"
                  /\ closure[r.attempt].state = "closed_success"
                => emitted'[<<r.attempt, "impression">>] = 1]_factVars
  <2> SUFFICES ASSUME FactsNext, NEW r \in reports, r \notin reports', r.type = "impression",
                      r.ack = "accepted", closure[r.attempt].state = "closed_success"
               PROVE  emitted'[<<r.attempt, "impression">>] = 1
    BY <1>1
  <2>1. MapFacts(r)
    BY DEF FactsNext, ReportImpression, ReportClick, Processed, Unbilled, MapFacts
  <2>2. r.snapshot = "closed_success"
    BY <1>1 DEF ImpressionsDecided, OutcomeOf
  <2>3. Billable(r)
    BY <2>2 DEF Billable
  <2>4. PICK f \in Attempts \X Types : f = <<r.attempt, r.type>>
    BY <1>1 DEF BillingInv, FactsTypeOK
  <2>5. emitted \in [Attempts \X Types -> Nat] /\ emitted[f] = IF f \in billed THEN 1 ELSE 0
    BY <1>1, <2>4 DEF BillingInv, FactsTypeOK, StoreTellsEmitted
  <2>6. CASE Bill(r)
    BY <2>4, <2>5, <2>6 DEF Bill
  <2>7. CASE NotBilled(r)
    BY <2>3, <2>4, <2>5, <2>7 DEF NotBilled
  <2> QED BY <2>1, <2>6, <2>7 DEF MapFacts
<1>2. BillingInv => FactsTypeOK
  BY DEF BillingInv
<1> QED BY <1>1, <1>2, FactsStart, BillingStep, DecidedStep, PTL DEF FactsSpec, AcceptedIsBilled
=============================================================================
