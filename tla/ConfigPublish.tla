----------------------------- MODULE ConfigPublish -----------------------------
(***************************************************************************)
(* Publishing and rolling back configuration.  A release unit (a global,   *)
(* an app or a placement configuration of an environment) has one current  *)
(* version; an operator's request names the version it builds on and the   *)
(* one it leads to.  Requests are deduplicated for a while under a key     *)
(* the client chooses or the service computes.                             *)
(*                                                                         *)
(* publishConfig awaits nothing, so a call is one step.                    *)
(***************************************************************************)
EXTENDS Integers, Sequences, SequencesExt

CONSTANTS
  Units, ScopeOf,   \* release units, and the scope of each
  Versions,         \* version snapshots
  PublishRequests,  \* the requests operators send
  DedupWindow,      \* publishDedupWindowMs
  MaxTime,          \* bound on the clock
  MaxCalls          \* bound on the publish calls

Nothing == "nothing"
Scopes == {"global", "app", "placement"}

ASSUME PublishAssumption ==
  /\ ScopeOf \in [Units -> Scopes]
  /\ Nothing \notin Versions
  /\ PublishRequests \subseteq
       [key : STRING, payload : STRING, wellFormed : BOOLEAN, action : {"publish", "rollback"},
        unit : Units, changeSet : STRING, base : Versions, target : Versions, dryRun : BOOLEAN,
        operator : STRING, actor : STRING, role : STRING, grants : SUBSET Units,
        issuedAt : Nat, expiresAt : Nat, publishAt : Nat]
  /\ DedupWindow \in Nat /\ MaxTime \in Nat /\ MaxCalls \in Nat

VARIABLES
  now,
  unit,    \* per unit: its current version and the change sets published in it
  dedup,   \* per key: the payload and the answer it was first given
  calls    \* the answers of all calls; an operation is named by the call that opened it

publishVars == <<unit, dedup, calls>>

PublishKeys == {r.key : r \in PublishRequests}
NoRecord == [payload |-> Nothing]

----------------------------------------------------------------------------
\* validatePublishContract: every field is there, action, scope and target fit
\* each other and the versions the action needs are complete.
WellFormed(r) == r.wellFormed

RolesFor(scope) ==
  CASE scope = "global" -> {"config_admin"}
    [] scope = "app" -> {"config_admin", "app_operator"}
    [] scope = "placement" -> {"config_admin", "app_operator", "placement_operator"}

\* extractTargetParts and isScopeAllowed: the bindings name the environment, and
\* the app and the placement the unit has.
ScopeAllowed(r) == r.unit \in r.grants

\* authorizePublish: who publishes is who the token names, while it is valid,
\* in a role and with bindings that cover the unit.
Authorized(r) ==
  /\ r.operator = r.actor
  /\ r.issuedAt <= r.publishAt /\ r.publishAt <= r.expiresAt /\ now <= r.expiresAt
  /\ r.role \in RolesFor(ScopeOf[r.unit])
  /\ ScopeAllowed(r)

\* The client's idempotency key, or a hash of what the operation is about; the
\* payload hash covers all of the request but the token and the key.
IdempotencyKey(r) == r.key
PayloadHash(r) == r.payload
Record(r) == dedup[IdempotencyKey(r)]
Remembered(r) == Record(r) # NoRecord /\ now - Record(r).at <= DedupWindow

CurrentOp == Len(calls) + 1

Answer(r, op, state, reason) ==
  /\ Len(calls) < MaxCalls
  /\ calls' = Append(calls, [request |-> r, op |-> op, state |-> state, reason |-> reason])

\* An answer that is remembered under the key of the request.
AnswerAndStore(r, state, reason) ==
  /\ Answer(r, CurrentOp, state, reason)
  /\ dedup' = [dedup EXCEPT ![IdempotencyKey(r)] =
       [payload |-> PayloadHash(r), at |-> now, op |-> CurrentOp, state |-> state]]

RefuseMalformed(r) ==
  /\ ~WellFormed(r)
  /\ Answer(r, CurrentOp, "failed", "validation_failed")
  /\ UNCHANGED <<unit, dedup>>

\* The stored answer is given again, a failure reported retryable included.
ReuseOperation(r) ==
  /\ WellFormed(r) /\ Remembered(r) /\ Record(r).payload = PayloadHash(r)
  /\ Answer(r, Record(r).op, Record(r).state, "duplicate_reused_operation")
  /\ UNCHANGED <<unit, dedup>>

RefusePayload(r) ==
  /\ WellFormed(r) /\ Remembered(r) /\ Record(r).payload # PayloadHash(r)
  /\ Answer(r, Record(r).op, "failed", "idempotency_payload_conflict")
  /\ UNCHANGED <<unit, dedup>>

Fresh(r) == WellFormed(r) /\ ~Remembered(r)

RefuseOperator(r) ==
  /\ Fresh(r) /\ ~Authorized(r)
  /\ AnswerAndStore(r, "failed", "not_authorized")
  /\ UNCHANGED unit

Repeated(r) == r.action = "publish" /\ r.changeSet \in unit[r.unit].changeSets
BaseConflicts(r) == unit[r.unit].current \notin {Nothing, r.base}

RefuseChange(r) ==
  /\ Fresh(r) /\ Authorized(r)
  /\ \/ Repeated(r) /\ AnswerAndStore(r, "failed", "validation_failed")
     \/ ~Repeated(r) /\ BaseConflicts(r) /\ AnswerAndStore(r, "failed", "base_version_conflict")
  /\ UNCHANGED unit

Accepted(r) == Fresh(r) /\ Authorized(r) /\ ~Repeated(r) /\ ~BaseConflicts(r)

DryRun(r) ==
  /\ Accepted(r) /\ r.dryRun
  /\ AnswerAndStore(r, "validated", "dry_run_validated")
  /\ UNCHANGED unit

Publish(r) ==
  /\ Accepted(r) /\ ~r.dryRun /\ r.action = "publish"
  /\ unit' = [unit EXCEPT ![r.unit] = [current |-> r.target, changeSets |-> @.changeSets \cup {r.changeSet}]]
  /\ AnswerAndStore(r, "published", "published")

\* Fault: what is taken back may be published again.
RollbackForgets(r) ==
  /\ Accepted(r) /\ ~r.dryRun /\ r.action = "rollback" /\ unit[r.unit].current # Nothing
  /\ unit' = [unit EXCEPT ![r.unit] = [current |-> r.target, changeSets |-> {}]]
  /\ AnswerAndStore(r, "rolled_back", "rolled_back")

Rollback(r) ==
  /\ Accepted(r) /\ ~r.dryRun /\ r.action = "rollback" /\ unit[r.unit].current # Nothing
  /\ unit' = [unit EXCEPT ![r.unit].current = r.target]
  /\ AnswerAndStore(r, "rolled_back", "rolled_back")

NothingToRollBack(r) ==
  /\ Accepted(r) /\ ~r.dryRun /\ r.action = "rollback" /\ unit[r.unit].current = Nothing
  /\ AnswerAndStore(r, "failed", "rollback_target_not_found")
  /\ UNCHANGED unit

\* The commit fails before anything was changed.  The compensation restores what
\* the unit had, or, where it had nothing, what the request builds on.
CommitFails(r) ==
  /\ Accepted(r) /\ ~r.dryRun
  /\ r.action = "publish" \/ unit[r.unit].current # Nothing
  /\ \/ /\ unit' = [unit EXCEPT ![r.unit].current = IF @ = Nothing THEN r.base ELSE @]
        /\ AnswerAndStore(r, "failed", "compensation_triggered")
     \/ /\ UNCHANGED unit
        /\ AnswerAndStore(r, "failed", "compensation_failed")

publishConfig(r) ==
  \/ RefuseMalformed(r) \/ ReuseOperation(r) \/ RefusePayload(r) \/ RefuseOperator(r)
  \/ RefuseChange(r) \/ DryRun(r) \/ Publish(r) \/ Rollback(r) \/ NothingToRollBack(r)
  \/ CommitFails(r)

PublishInit ==
  /\ now = 0
  /\ unit = [u \in Units |-> [current |-> Nothing, changeSets |-> {}]]
  /\ dedup = [k \in PublishKeys |-> NoRecord]
  /\ calls = <<>>

----------------------------------------------------------------------------
PublishTypeOK ==
  /\ now \in 0 .. MaxTime
  /\ unit \in [Units -> [current : Versions \cup {Nothing}, changeSets : SUBSET STRING]]
  /\ \A n \in DOMAIN calls : calls[n].op \in 1 .. n /\ calls[n].request \in PublishRequests

\* The calls that changed a unit.
Applied(u) ==
  {n \in DOMAIN calls : calls[n].reason \in {"published", "rolled_back"} /\ calls[n].request.unit = u}

(* The versions of a unit form one line: every change that was answered with
   success builds on what the change before it led to, across failed commits and
   their compensation, dry runs, retries and requests that raced for the same
   base; and the unit holds what the last one led to.  Only where nothing was
   published yet can it hold the base of a request whose commit failed. *)
OneLine ==
  \A u \in Units :
    /\ \A n \in Applied(u) :
         /\ \A m \in Applied(u) : m < n /\ Applied(u) \cap (m + 1) .. (n - 1) = {} =>
              calls[n].request.base = calls[m].request.target
         /\ (\A m \in Applied(u) : m <= n) => unit[u].current = calls[n].request.target
    /\ Applied(u) = {} /\ unit[u].current # Nothing =>
         \E n \in DOMAIN calls : /\ calls[n].reason = "compensation_triggered"
                                 /\ calls[n].request.unit = u
                                 /\ calls[n].request.base = unit[u].current

(* The line is written once: a change set is published once in a unit, however
   often and under whatever keys it is asked for, even when the version it led to
   was rolled back since; and who is told of a success is told of the operation
   that brought it.  (config-publish.js:427, 476, 564) *)
VersionsInLine ==
  /\ OneLine
  /\ \A m, n \in DOMAIN calls :
       /\ calls[m].reason = "published" /\ calls[n].reason = "published" /\ m # n
       /\ calls[m].request.unit = calls[n].request.unit
       => calls[m].request.changeSet # calls[n].request.changeSet
  /\ \A n \in DOMAIN calls : calls[n].state \in {"published", "rolled_back"} =>
       LET first == calls[calls[n].op]
       IN  first.reason = calls[n].state /\ first.request.payload = calls[n].request.payload
=============================================================================
