------------------------- MODULE BudgetReservations --------------------------
(***************************************************************************)
(* Campaign budgets of the mediation gateway: the tables budget_limits,    *)
(* budget_reservations and budget_ledger, and the calls that work on them, *)
(* one database statement at a time.                                       *)
(*                                                                         *)
(* A call runs on a gateway process with its own connection pool.  Its     *)
(* transaction is READ COMMITTED: every statement sees what is committed   *)
(* when it runs plus the transaction's own writes, rows it wrote are       *)
(* locked until it ends, and what it wrote becomes visible at COMMIT.      *)
(* The rows written and not yet committed are released[c] (given back by   *)
(* its cleanups, with their ledger entries), the reservation of a call at  *)
(* "commit" and the settlement of a call at "settleCommit".                *)
(***************************************************************************)
EXTENDS Integers, FiniteSets, FiniteSetsExt

CONSTANTS
  Campaigns,
  Bids,            \* (request_id, campaign_id, ad_id): the unique index of a reservation
  CampaignOf,      \* the campaign of a bid
  CpcUsd,          \* what a bid reserves
  ChargesUsd,      \* per bid, the amounts a click on it may settle
  Calls,           \* concurrent calls of tryReserve... and settle...
  Instances,       \* gateway processes
  InstanceOf,      \* the process a call runs on
  PoolMax,         \* DB_POOL_MAX: connections of a process
  ReservationTtl,  \* BUDGET_RESERVATION_TTL_MS
  DayLength,       \* clock units in a day
  MaxTime,         \* bound on the clock
  InitialBudgets,  \* per campaign, the budget it starts with
  Upserts          \* the budgets the dashboard may submit

\* lifetimeUsd = 0: no limits row;  dailyUsd = 0: daily_budget_usd is NULL.
Budgets == [active : BOOLEAN, lifetimeUsd : Nat, dailyUsd : Nat]

ASSUME ConstantsAssumption ==
  /\ IsFiniteSet(Bids) /\ IsFiniteSet(Calls) /\ IsFiniteSet(Instances)
  /\ CampaignOf \in [Bids -> Campaigns]
  /\ CpcUsd \in [Bids -> Nat \ {0}]
  /\ ChargesUsd \in [Bids -> SUBSET (Nat \ {0})]
  /\ InstanceOf \in [Calls -> Instances]
  /\ PoolMax \in Nat \ {0}
  /\ ReservationTtl \in Nat \ {0}
  /\ DayLength \in Nat \ {0}
  /\ MaxTime \in Nat
  /\ InitialBudgets \in [Campaigns -> Budgets]
  /\ Upserts \subseteq Budgets

VARIABLES
  status,      \* per bid: "none" (no row), "reserved", "released", "settled"
  expiresAt,   \* per bid: expires_at of its row
  ledger,      \* per bid: how many entries of each type it has
  charged,     \* per bid: the amount of its settle entries
  settledAt,   \* per bid: created_at of its settle entry
  budget,      \* per campaign: its campaigns and campaign_budget_limits rows
  upsert,      \* a dashboard upsert between its two statements
  now,
  pc,          \* per call: the next statement
  bid,         \* per call: the bid it works on
  startedAt,   \* per call: NOW() of its transaction
  released,    \* per call: the rows its open transaction has given back
  amount,      \* per call: the amount it settles
  outcome      \* per call: reasonCode of its last result

tables == <<status, expiresAt, ledger, charged, settledAt>>
admin  == <<budget, upsert>>
calls  == <<pc, bid, startedAt, released, amount, outcome>>
vars   == <<tables, admin, now, calls>>

None == "none"
EntryTypes == {"reserve", "release", "settle"}
Waiting == {"connect", "settleConnect"}
InReserve == {"cleanup", "lookup", "snapshotCleanup", "snapshot", "insert", "commit"}
InSettle == {"settleLock", "settleCommit"}
InTransaction == InReserve \cup InSettle
AfterCommit == {"postSnapshot", "postAlready"}
Outcomes == {None, "budget_reserved", "budget_already_reserved", "budget_unconfigured",
             "budget_campaign_inactive", "budget_exhausted", "budget_reservation_error",
             "budget_settled", "budget_already_settled", "budget_reservation_missing",
             "budget_reservation_not_active", "budget_settlement_error", "connect_timeout"}

----------------------------------------------------------------------------
(* The tables as a statement sees them. *)

\* Amounts are counted unit by unit, which asks for no recursion.
Sum(f, S) == Cardinality(UNION {{b} \X (1 .. f[b]) : b \in S})
BidsOf(k) == {b \in Bids : CampaignOf[b] = k}

ViewStatus(c, b) == IF b \in released[c] THEN "released" ELSE status[b]

SpentLifetime(k) == Sum(charged, BidsOf(k))
SpentSince(k, t) == Sum(charged, {b \in BidsOf(k) : settledAt[b] \div DayLength >= t \div DayLength})
\* Fault: the open reservations are forgotten in the headroom.
NothingReserved(c, k) == 0
ReservedOpen(c, k) ==
  Sum(CpcUsd, {b \in BidsOf(k) : ViewStatus(c, b) = "reserved" /\ expiresAt[b] > startedAt[c]})

\* remainingUsd of getCampaignBudgetSnapshot covers usd: both limits do.  A
\* daily limit that is not set is read as 0 by clampNumber, not as no limit.
Covers(c, k, usd) ==
  /\ budget[k].lifetimeUsd - SpentLifetime(k) - ReservedOpen(c, k) >= usd
  /\ budget[k].dailyUsd - SpentSince(k, startedAt[c]) - ReservedOpen(c, k) >= usd

----------------------------------------------------------------------------
(* Connections and row locks. *)

HoldsConnection(c) == pc[c] \in InTransaction \cup AfterCommit
FreeConnection(i) ==
  Cardinality({c \in Calls : InstanceOf[c] = i /\ HoldsConnection(c)}) < PoolMax

Locks(c) == released[c] \cup (IF pc[c] = "settleCommit" THEN {bid[c]} ELSE {})
LockedByOther(c, b) == \E d \in Calls \ {c} : b \in Locks(d)
ExpiredAt(t) == {b \in Bids : status[b] = "reserved" /\ expiresAt[b] <= t}
Expired == ExpiredAt(now)

Goto(c, label) == pc' = [pc EXCEPT ![c] = label]

\* The call returns: its client is released and its transaction, if one is
\* still open, is gone.
Return(c, reason) ==
  /\ Goto(c, "idle")
  /\ outcome' = [outcome EXCEPT ![c] = reason]
  /\ startedAt' = [startedAt EXCEPT ![c] = 0]
  /\ released' = [released EXCEPT ![c] = {}]
  /\ amount' = [amount EXCEPT ![c] = 0]
  /\ UNCHANGED bid

\* Return after a ROLLBACK: the tables keep nothing of the transaction.
Rollback(c, reason) == Return(c, reason) /\ UNCHANGED tables

AddEntries(S, type) ==
  ledger' = [b \in Bids |-> IF b \in S THEN [ledger[b] EXCEPT ![type] = @ + 1] ELSE ledger[b]]

\* The expired reservations S become 'released', each with its ledger entry.
GiveBack(S) ==
  /\ status' = [b \in Bids |-> IF b \in S THEN "released" ELSE status[b]]
  /\ AddEntries(S, "release")
  /\ UNCHANGED <<expiresAt, charged, settledAt>>

\* The cleanup outside a transaction.  It waits for rows others have locked.
AutocommitCleanup ==
  /\ \A b \in Expired : \A d \in Calls : b \notin Locks(d)
  /\ GiveBack(Expired)

----------------------------------------------------------------------------
(* tryReserveCampaignBudget *)

ReserveStart(c, b) ==
  /\ pc[c] = "idle"
  /\ Goto(c, "connect")
  /\ bid' = [bid EXCEPT ![c] = b]
  /\ outcome' = [outcome EXCEPT ![c] = None]
  /\ UNCHANGED <<tables, admin, now, startedAt, released, amount>>

\* db.connect() answers, nowAt and expiresAt are fixed and BEGIN runs.
Connect(c) ==
  /\ pc[c] \in Waiting
  /\ FreeConnection(InstanceOf[c])
  /\ Goto(c, IF pc[c] = "connect" THEN "cleanup" ELSE "settleLock")
  /\ startedAt' = [startedAt EXCEPT ![c] = now]
  /\ UNCHANGED <<tables, admin, now, bid, released, amount, outcome>>

\* Fault: the pool has no connection timeout.
NeverTimesOut(c) == FALSE

\* DB_POOL_CONNECTION_TIMEOUT_MS passed with every connection taken.
ConnectTimeout(c) ==
  /\ pc[c] \in Waiting
  /\ ~FreeConnection(InstanceOf[c])
  /\ Rollback(c, "connect_timeout")
  /\ UNCHANGED <<admin, now>>

\* The first cleanup of the transaction uses its nowAt, the snapshot's the clock.
ExpiredFor(c) == ExpiredAt(IF pc[c] = "cleanup" THEN startedAt[c] ELSE now)

Cleanup(c) ==
  /\ pc[c] \in {"cleanup", "snapshotCleanup"}
  /\ \A b \in ExpiredFor(c) : ~LockedByOther(c, b)
  /\ released' = [released EXCEPT ![c] = @ \cup ExpiredFor(c)]
  /\ Goto(c, IF pc[c] = "cleanup" THEN "lookup" ELSE "snapshot")
  /\ UNCHANGED <<tables, admin, now, bid, startedAt, amount, outcome>>

\* The bid already holds a live reservation: COMMIT, which makes the
\* cleanup permanent.
LookupFound(c) ==
  /\ pc[c] = "lookup"
  /\ ViewStatus(c, bid[c]) = "reserved" /\ expiresAt[bid[c]] > now
  /\ GiveBack(released[c])
  /\ released' = [released EXCEPT ![c] = {}]
  /\ Goto(c, "postAlready")
  /\ UNCHANGED <<admin, now, bid, startedAt, amount, outcome>>

LookupNotFound(c) ==
  /\ pc[c] = "lookup"
  /\ ~(ViewStatus(c, bid[c]) = "reserved" /\ expiresAt[bid[c]] > now)
  /\ Goto(c, "snapshotCleanup")
  /\ UNCHANGED <<tables, admin, now, bid, startedAt, released, amount, outcome>>

Refusal(c) ==
  LET k == CampaignOf[bid[c]]
  IN  CASE budget[k].lifetimeUsd = 0            -> "budget_unconfigured"
        [] budget[k].lifetimeUsd > 0 /\ ~budget[k].active -> "budget_campaign_inactive"
        [] OTHER                                -> "budget_exhausted"

Affordable(c) ==
  LET k == CampaignOf[bid[c]]
  IN  budget[k].lifetimeUsd > 0 /\ budget[k].active /\ Covers(c, k, CpcUsd[bid[c]])

SnapshotAllows(c) ==
  /\ pc[c] = "snapshot"
  /\ Affordable(c)
  /\ Goto(c, "insert")
  /\ UNCHANGED <<tables, admin, now, bid, startedAt, released, amount, outcome>>

SnapshotRefuses(c) ==
  /\ pc[c] = "snapshot"
  /\ ~Affordable(c)
  /\ Rollback(c, Refusal(c))
  /\ UNCHANGED <<admin, now>>

\* INSERT of the reservation and of its ledger entry.  The unique index makes
\* it wait for another transaction inserting the same bid.
Insert(c) ==
  /\ pc[c] = "insert"
  /\ \A d \in Calls \ {c} : ~(pc[d] = "commit" /\ bid[d] = bid[c])
  /\ status[bid[c]] = None
  /\ Goto(c, "commit")
  /\ UNCHANGED <<tables, admin, now, bid, startedAt, released, amount, outcome>>

\* The bid had a reservation once: unique violation.
InsertConflict(c) ==
  /\ pc[c] = "insert"
  /\ status[bid[c]] # None
  /\ Rollback(c, "budget_reservation_error")
  /\ UNCHANGED <<admin, now>>

CommitReservation(c) ==
  /\ status' = [b \in Bids |-> IF b = bid[c] THEN "reserved"
                               ELSE IF b \in released[c] THEN "released" ELSE status[b]]
  /\ ledger' = [b \in Bids |->
                  IF b = bid[c] THEN [ledger[b] EXCEPT !["reserve"] = @ + 1]
                  ELSE IF b \in released[c] THEN [ledger[b] EXCEPT !["release"] = @ + 1]
                  ELSE ledger[b]]
  /\ expiresAt' = [expiresAt EXCEPT ![bid[c]] = startedAt[c] + ReservationTtl]
  /\ UNCHANGED <<charged, settledAt>>

Commit(c) ==
  /\ pc[c] = "commit"
  /\ CommitReservation(c)
  /\ Goto(c, "postSnapshot")
  /\ released' = [released EXCEPT ![c] = {}]
  /\ UNCHANGED <<admin, now, bid, startedAt, amount, outcome>>

\* The result of a fresh reservation carries a snapshot read through the pool,
\* while the call still holds its own connection.
PostSnapshot(c) ==
  /\ pc[c] = "postSnapshot"
  /\ FreeConnection(InstanceOf[c])
  /\ AutocommitCleanup
  /\ Return(c, "budget_reserved")
  /\ UNCHANGED <<admin, now>>

\* No second connection in time: the catch block answers with an error,
\* ROLLBACK finds no transaction, and the committed reservation stays.
PostSnapshotTimeout(c) ==
  /\ pc[c] = "postSnapshot"
  /\ ~FreeConnection(InstanceOf[c])
  /\ Rollback(c, "budget_reservation_error")
  /\ UNCHANGED <<admin, now>>

\* The snapshot of an existing reservation is read on the call's own connection.
PostAlready(c) ==
  /\ pc[c] = "postAlready"
  /\ AutocommitCleanup
  /\ Return(c, "budget_already_reserved")
  /\ UNCHANGED <<admin, now>>

----------------------------------------------------------------------------
(* settleCampaignBudgetReservation *)

SettleStart(c, b, usd) ==
  /\ pc[c] = "idle"
  /\ usd \in ChargesUsd[b]
  /\ Goto(c, "settleConnect")
  /\ bid' = [bid EXCEPT ![c] = b]
  /\ amount' = [amount EXCEPT ![c] = usd]
  /\ outcome' = [outcome EXCEPT ![c] = None]
  /\ UNCHANGED <<tables, admin, now, startedAt, released>>

\* Fault: the row is read without FOR UPDATE.
SettleWithoutLock(c) ==
  /\ pc[c] = "settleLock"
  /\ status[bid[c]] = "reserved"
  /\ Goto(c, "settleCommit")
  /\ UNCHANGED <<tables, admin, now, bid, startedAt, released, amount, outcome>>

\* Fault: an expired reservation may still be settled after it was given back.
SettleReleased(c) ==
  /\ pc[c] = "settleLock"
  /\ ~LockedByOther(c, bid[c])
  /\ status[bid[c]] \in {"reserved", "released"}
  /\ Goto(c, "settleCommit")
  /\ UNCHANGED <<tables, admin, now, bid, startedAt, released, amount, outcome>>

\* SELECT ... FOR UPDATE waits for the row, then the UPDATE and the ledger
\* INSERT follow in the same transaction.
SettleLock(c) ==
  /\ pc[c] = "settleLock"
  /\ ~LockedByOther(c, bid[c])
  /\ status[bid[c]] = "reserved"
  /\ Goto(c, "settleCommit")
  /\ UNCHANGED <<tables, admin, now, bid, startedAt, released, amount, outcome>>

SettleRefused(c) ==
  /\ pc[c] = "settleLock"
  /\ ~LockedByOther(c, bid[c])
  /\ \/ status[bid[c]] = None /\ Rollback(c, "budget_reservation_missing")
     \/ status[bid[c]] = "settled" /\ Rollback(c, "budget_already_settled")
     \/ status[bid[c]] = "released" /\ Rollback(c, "budget_reservation_not_active")
  /\ UNCHANGED <<admin, now>>

CommitSettlement(c) ==
  /\ status' = [status EXCEPT ![bid[c]] = "settled"]
  /\ AddEntries({bid[c]}, "settle")
  /\ charged' = [charged EXCEPT ![bid[c]] = @ + amount[c]]
  /\ settledAt' = [settledAt EXCEPT ![bid[c]] = startedAt[c]]
  /\ UNCHANGED expiresAt

SettleCommit(c) ==
  /\ pc[c] = "settleCommit"
  /\ CommitSettlement(c)
  /\ Return(c, "budget_settled")
  /\ UNCHANGED <<admin, now>>

----------------------------------------------------------------------------
(* Failures, the dashboard and the clock. *)

ErrorOf(c) == IF pc[c] \in InSettle THEN "budget_settlement_error" ELSE "budget_reservation_error"

\* A statement fails: the catch block rolls back and answers with an error.
StatementFails(c) ==
  /\ HoldsConnection(c)
  /\ Rollback(c, ErrorOf(c))
  /\ UNCHANGED <<admin, now>>

\* The connection is lost on COMMIT: the server has committed, the call
\* reports an error.
CommitAckLost(c) ==
  /\ \/ pc[c] = "commit" /\ CommitReservation(c)
     \/ pc[c] = "settleCommit" /\ CommitSettlement(c)
  /\ Return(c, ErrorOf(c))
  /\ UNCHANGED <<admin, now>>

\* A process dies with its calls; the server rolls their transactions back.
Crash(i) ==
  LET dead == {c \in Calls : InstanceOf[c] = i}
      Reset(f, v) == [c \in Calls |-> IF c \in dead THEN v ELSE f[c]]
  IN  /\ \E c \in dead : pc[c] # "idle"
      /\ pc' = Reset(pc, "idle")
      /\ startedAt' = Reset(startedAt, 0)
      /\ released' = Reset(released, {})
      /\ amount' = Reset(amount, 0)
      /\ outcome' = Reset(outcome, None)
      /\ UNCHANGED <<tables, admin, now, bid>>

\* The budget list of the dashboard starts with a cleanup of its own.
DashboardCleanup ==
  /\ \E i \in Instances : FreeConnection(i)
  /\ Expired # {}
  /\ AutocommitCleanup
  /\ UNCHANGED <<admin, now, calls>>

\* upsertCampaignBudgetConfig: the campaigns row, then the limits row, each
\* committed on its own.
UpsertCampaign(k, config) ==
  /\ upsert = <<>>
  /\ \E i \in Instances : FreeConnection(i)
  /\ config.lifetimeUsd > 0
  /\ budget' = [budget EXCEPT ![k].active = config.active]
  /\ upsert' = <<k, config>>
  /\ UNCHANGED <<tables, now, calls>>

UpsertLimits ==
  /\ upsert # <<>>
  /\ \E i \in Instances : FreeConnection(i)
  /\ budget' = [budget EXCEPT ![upsert[1]].lifetimeUsd = upsert[2].lifetimeUsd,
                              ![upsert[1]].dailyUsd = upsert[2].dailyUsd]
  /\ upsert' = <<>>
  /\ UNCHANGED <<tables, now, calls>>

\* The second statement never runs: an error, or the process died.
UpsertFails ==
  /\ upsert # <<>>
  /\ upsert' = <<>>
  /\ UNCHANGED <<tables, budget, now, calls>>

Tick ==
  /\ now < MaxTime
  /\ now' = now + 1
  /\ UNCHANGED <<tables, admin, calls>>

----------------------------------------------------------------------------
Init ==
  /\ status = [b \in Bids |-> None]
  /\ expiresAt = [b \in Bids |-> 0]
  /\ ledger = [b \in Bids |-> [type \in EntryTypes |-> 0]]
  /\ charged = [b \in Bids |-> 0]
  /\ settledAt = [b \in Bids |-> 0]
  /\ budget = InitialBudgets
  /\ upsert = <<>>
  /\ now = 0
  /\ pc = [c \in Calls |-> "idle"]
  /\ bid \in [Calls -> Bids]
  /\ startedAt = [c \in Calls |-> 0]
  /\ released = [c \in Calls |-> {}]
  /\ amount = [c \in Calls |-> 0]
  /\ outcome = [c \in Calls |-> None]

ReserveStep(c) ==
  \/ Cleanup(c) \/ LookupFound(c) \/ LookupNotFound(c)
  \/ SnapshotAllows(c) \/ SnapshotRefuses(c)
  \/ Insert(c) \/ InsertConflict(c) \/ Commit(c)
  \/ PostSnapshot(c) \/ PostSnapshotTimeout(c) \/ PostAlready(c)

SettleStep(c) == SettleLock(c) \/ SettleRefused(c) \/ SettleCommit(c)

\* The statements that wait for rows other transactions have locked.
WaitForRow(c) ==
  Cleanup(c) \/ PostSnapshot(c) \/ PostAlready(c) \/ SettleLock(c) \/ SettleRefused(c) \/ Insert(c)

CallStep(c) == Connect(c) \/ ConnectTimeout(c) \/ ReserveStep(c) \/ SettleStep(c)

Next ==
  \/ \E c \in Calls :
       \/ CallStep(c)
       \/ StatementFails(c)
       \/ CommitAckLost(c)
       \/ \E b \in Bids :
            \/ ReserveStart(c, b)
            \/ \E usd \in ChargesUsd[b] : SettleStart(c, b, usd)
  \/ \E i \in Instances : Crash(i)
  \/ DashboardCleanup
  \/ \E k \in Campaigns, config \in Upserts : UpsertCampaign(k, config)
  \/ UpsertLimits
  \/ UpsertFails
  \/ Tick

Spec == Init /\ [][Next]_vars

\* The event loop and the database carry every call on.  Waiters for a row are
\* served in order, so one that could run again and again is not passed over.
Fairness == \A c \in Calls : WF_vars(CallStep(c)) /\ SF_vars(WaitForRow(c))

----------------------------------------------------------------------------
TypeOK ==
  /\ status \in [Bids -> {None, "reserved", "released", "settled"}]
  /\ expiresAt \in [Bids -> Nat]
  /\ ledger \in [Bids -> [EntryTypes -> Nat]]
  /\ charged \in [Bids -> Nat]
  /\ settledAt \in [Bids -> Nat]
  /\ budget \in [Campaigns -> Budgets]
  /\ upsert \in {<<>>} \cup (Campaigns \X Upserts)
  /\ now \in 0 .. MaxTime
  /\ pc \in [Calls -> {"idle"} \cup Waiting \cup InTransaction \cup AfterCommit]
  /\ bid \in [Calls -> Bids]
  /\ startedAt \in [Calls -> Nat]
  /\ released \in [Calls -> SUBSET Bids]
  /\ amount \in [Calls -> Nat]
  /\ outcome \in [Calls -> Outcomes]

(* The ledger tells the life of every reservation: one 'reserve' entry as long
   as its row exists, and one 'release' or one 'settle' entry, never both and
   never two, exactly when the row says so.  A cleanup and a click's settlement
   racing for an expired row must not both book it. *)
LedgerTellsStatus ==
  \A b \in Bids :
    /\ ledger[b]["reserve"] = (IF status[b] = None THEN 0 ELSE 1)
    /\ ledger[b]["release"] = (IF status[b] = "released" THEN 1 ELSE 0)
    /\ ledger[b]["settle"] = (IF status[b] = "settled" THEN 1 ELSE 0)

(* What a campaign has settled, ever and today, and holds reserved exceeds its
   largest budget by at most one reservation for every further connection: the
   headroom is read without locking the campaign, so each concurrent
   transaction can spend it once, but no more than that is ever lost.  A click
   that settles more than its bid has reserved counts as what was reserved: a
   settlement looks at no budget (mediation-gateway.js:6475). *)
Configs(k) == {config \in {InitialBudgets[k]} \cup Upserts : config.lifetimeUsd > 0}
Held(k) == Sum(CpcUsd, {b \in BidsOf(k) : status[b] = "reserved"})
Kept == [b \in Bids |-> Min({charged[b], CpcUsd[b]})]
Today(k) == {b \in BidsOf(k) : settledAt[b] \div DayLength >= now \div DayLength}
Slack == (Cardinality(Instances) * PoolMax - 1) * Max({CpcUsd[b] : b \in Bids})
OverReservationBounded ==
  \A k \in Campaigns :
    /\ Sum(Kept, BidsOf(k)) + Held(k) > 0 =>
         \E config \in Configs(k) : Sum(Kept, BidsOf(k)) + Held(k) <= config.lifetimeUsd + Slack
    /\ Sum(Kept, Today(k)) + Held(k) > 0 =>
         \E config \in Configs(k) : Sum(Kept, Today(k)) + Held(k) <= config.dailyUsd + Slack

(* The transactions implement the account of BudgetAccount, read off the
   ledger: concurrent cleanups, settlements, crashes and lost answers do not
   reopen, charge twice or charge back a bid. *)
AccountOf(b) ==
  IF ledger[b]["reserve"] = 0 THEN "none"
  ELSE IF ledger[b]["settle"] > 0 THEN "charged"
  ELSE IF ledger[b]["release"] > 0 THEN "released" ELSE "open"
Account == INSTANCE BudgetAccount WITH account <- [b \in Bids |-> AccountOf(b)], charge <- charged
ImplementsAccount == Account!Spec

(* Every call returns: no wait for a connection or for a row is forever, in
   particular the one of a call that holds the only connection of its pool. *)
CallsReturn == \A c \in Calls : pc[c] # "idle" ~> pc[c] = "idle"
=============================================================================
