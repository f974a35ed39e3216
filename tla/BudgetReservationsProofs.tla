----------------------- MODULE BudgetReservationsProofs -----------------------
(***************************************************************************)
(* Proofs about BudgetReservations, for every set of bids, calls, gateway  *)
(* processes and budgets: its type invariant; that the ledger always tells *)
(* the status of every reservation; that the transactions implement the    *)
(* account of BudgetAccount; and that a campaign is never overdrawn by     *)
(* more than one reservation per further connection.                       *)
(*                                                                         *)
(* The ledger needs the lock discipline of the transactions as an          *)
(* inductive strengthening: what two open transactions intend to write     *)
(* never overlaps, and is still true of the committed rows.  The bound     *)
(* needs BoundInv below.                                                   *)
(***************************************************************************)
EXTENDS BudgetReservations, FiniteSetTheorems, WellFoundedInduction, TLAPS

(* The type invariant is preserved by every step of every call, by crashes,
   the dashboard and the clock. *)
LEMMA ReturnType ==
  ASSUME TypeOK, NEW c \in Calls, NEW reason \in Outcomes, Return(c, reason)
  PROVE  /\ pc' \in [Calls -> {"idle"} \cup Waiting \cup InTransaction \cup AfterCommit]
         /\ bid' \in [Calls -> Bids]
         /\ startedAt' \in [Calls -> Nat]
         /\ released' \in [Calls -> SUBSET Bids]
         /\ amount' \in [Calls -> Nat]
         /\ outcome' \in [Calls -> Outcomes]
BY DEF TypeOK, Return, Goto

LEMMA GiveBackType ==
  ASSUME TypeOK, NEW S \in SUBSET Bids, GiveBack(S)
  PROVE  /\ status' \in [Bids -> {None, "reserved", "released", "settled"}]
         /\ expiresAt' \in [Bids -> Nat]
         /\ ledger' \in [Bids -> [EntryTypes -> Nat]]
         /\ charged' \in [Bids -> Nat]
         /\ settledAt' \in [Bids -> Nat]
BY DEF TypeOK, GiveBack, AddEntries, EntryTypes

TablesType ==
  /\ status \in [Bids -> {None, "reserved", "released", "settled"}]
  /\ expiresAt \in [Bids -> Nat]
  /\ ledger \in [Bids -> [EntryTypes -> Nat]]
  /\ charged \in [Bids -> Nat]
  /\ settledAt \in [Bids -> Nat]

LEMMA CommitReservationType ==
  ASSUME TypeOK, NEW c \in Calls, CommitReservation(c)
  PROVE  TablesType'
<1>1. ledger' \in [Bids -> [EntryTypes -> Nat]]
  <2>1. \A b \in Bids : \A type \in EntryTypes : ledger[b][type] \in Nat
    BY DEF TypeOK
  <2>2. \A b \in Bids, type \in EntryTypes :
          [ledger[b] EXCEPT ![type] = @ + 1] \in [EntryTypes -> Nat]
    BY <2>1 DEF TypeOK
  <2>3. "reserve" \in EntryTypes /\ "release" \in EntryTypes
    BY DEF EntryTypes
  <2>4. \A b \in Bids : ledger[b] \in [EntryTypes -> Nat]
    BY DEF TypeOK
  <2>5. QED BY <2>2, <2>3, <2>4 DEF CommitReservation
<1>2. expiresAt' \in [Bids -> Nat]
  <2>1. startedAt[c] + ReservationTtl \in Nat
    BY ConstantsAssumption DEF TypeOK
  <2>2. QED BY <2>1 DEF TypeOK, CommitReservation
<1>3. QED BY <1>1, <1>2 DEF TypeOK, TablesType, CommitReservation

LEMMA CommitSettlementType ==
  ASSUME TypeOK, NEW c \in Calls, CommitSettlement(c)
  PROVE  TablesType'
<1>1. ledger' \in [Bids -> [EntryTypes -> Nat]]
  <2>1. \A b \in Bids : [ledger[b] EXCEPT !["settle"] = @ + 1] \in [EntryTypes -> Nat]
    BY DEF TypeOK, EntryTypes
  <2>2. \A b \in Bids : ledger[b] \in [EntryTypes -> Nat]
    BY DEF TypeOK
  <2>3. QED BY <2>1, <2>2 DEF CommitSettlement, AddEntries
<1>2. charged' \in [Bids -> Nat]
  BY DEF TypeOK, CommitSettlement
<1>3. QED BY <1>1, <1>2 DEF TypeOK, TablesType, CommitSettlement

LEMMA BudgetsType ==
  ASSUME NEW f \in [Campaigns -> Budgets], NEW k \in Campaigns, NEW config \in Budgets
  PROVE  /\ [f EXCEPT ![k].active = config.active] \in [Campaigns -> Budgets]
         /\ [f EXCEPT ![k].lifetimeUsd = config.lifetimeUsd] \in [Campaigns -> Budgets]
         /\ [f EXCEPT ![k].dailyUsd = config.dailyUsd] \in [Campaigns -> Budgets]
BY DEF Budgets

LEMMA TypeNext == ASSUME TypeOK, [Next]_vars PROVE TypeOK'
<1> USE ConstantsAssumption DEF TypeOK, tables, admin, calls
<1>1. CASE UNCHANGED vars
  BY <1>1 DEF vars
<1>2. ASSUME NEW c \in Calls, CallStep(c) PROVE TypeOK'
  <2>1. CASE Connect(c)
    BY <2>1 DEF Connect, Goto, InTransaction, InReserve, InSettle
  <2>2. CASE ConnectTimeout(c)
    BY <2>2, ReturnType DEF ConnectTimeout, Rollback, Outcomes
  <2>3. CASE Cleanup(c)
    BY <2>3 DEF Cleanup, Goto, ExpiredFor, ExpiredAt, InTransaction, InReserve
  <2>4. CASE LookupFound(c)
    BY <2>4, GiveBackType DEF LookupFound, Goto, AfterCommit
  <2>5. CASE LookupNotFound(c)
    BY <2>5 DEF LookupNotFound, Goto, InTransaction, InReserve
  <2>6. CASE SnapshotAllows(c)
    BY <2>6 DEF SnapshotAllows, Goto, InTransaction, InReserve
  <2>7. CASE SnapshotRefuses(c)
    <3>1. Refusal(c) \in Outcomes
      BY DEF Refusal, Outcomes, Budgets
    <3>2. QED BY <2>7, <3>1, ReturnType DEF SnapshotRefuses, Rollback
  <2>8. CASE Insert(c)
    BY <2>8 DEF Insert, Goto, InTransaction, InReserve
  <2>9. CASE InsertConflict(c)
    BY <2>9, ReturnType DEF InsertConflict, Rollback, Outcomes
  <2>10. CASE Commit(c)
    <3>1. TablesType'
      BY <2>10, CommitReservationType DEF Commit
    <3>2. QED BY <2>10, <3>1 DEF TablesType, Commit, Goto, AfterCommit
  <2>11. CASE PostSnapshot(c)
    BY <2>11, ReturnType, GiveBackType DEF PostSnapshot, AutocommitCleanup, Expired, ExpiredAt, Outcomes
  <2>12. CASE PostSnapshotTimeout(c)
    BY <2>12, ReturnType DEF PostSnapshotTimeout, Rollback, Outcomes
  <2>13. CASE PostAlready(c)
    BY <2>13, ReturnType, GiveBackType DEF PostAlready, AutocommitCleanup, Expired, ExpiredAt, Outcomes
  <2>14. CASE SettleLock(c)
    BY <2>14 DEF SettleLock, Goto, InTransaction, InSettle
  <2>15. CASE SettleRefused(c)
    BY <2>15, ReturnType DEF SettleRefused, Rollback, Outcomes
  <2>16. CASE SettleCommit(c)
    <3>1. TablesType'
      BY <2>16, CommitSettlementType DEF SettleCommit
    <3>2. "budget_settled" \in Outcomes
      BY DEF Outcomes
    <3>3. QED BY <2>16, <3>1, <3>2, ReturnType DEF TablesType, SettleCommit
  <2>17. QED
    BY <1>2, <2>1, <2>2, <2>3, <2>4, <2>5, <2>6, <2>7, <2>8, <2>9, <2>10, <2>11, <2>12,
       <2>13, <2>14, <2>15, <2>16 DEF CallStep, ReserveStep, SettleStep
<1>3. ASSUME NEW c \in Calls, StatementFails(c) PROVE TypeOK'
  BY <1>3, ReturnType DEF StatementFails, Rollback, ErrorOf, Outcomes
<1>4. ASSUME NEW c \in Calls, CommitAckLost(c) PROVE TypeOK'
  <2>1. ErrorOf(c) \in Outcomes
    BY DEF ErrorOf, Outcomes
  <2>2. TablesType'
    BY <1>4, CommitReservationType, CommitSettlementType DEF CommitAckLost
  <2>3. QED BY <1>4, <2>1, <2>2, ReturnType DEF TablesType, CommitAckLost
<1>5. ASSUME NEW c \in Calls, NEW b \in Bids, ReserveStart(c, b) PROVE TypeOK'
  BY <1>5 DEF ReserveStart, Goto, Waiting, Outcomes
<1>6. ASSUME NEW c \in Calls, NEW b \in Bids, NEW usd \in ChargesUsd[b], SettleStart(c, b, usd)
      PROVE  TypeOK'
  BY <1>6 DEF SettleStart, Goto, Waiting, Outcomes
<1>7. ASSUME NEW i \in Instances, Crash(i) PROVE TypeOK'
  BY <1>7 DEF Crash, Outcomes
<1>8. CASE DashboardCleanup
  BY <1>8, GiveBackType DEF DashboardCleanup, AutocommitCleanup, Expired, ExpiredAt
<1>9. ASSUME NEW k \in Campaigns, NEW config \in Upserts, UpsertCampaign(k, config) PROVE TypeOK'
  <2>1. config \in Budgets
    OBVIOUS
  <2>2. budget' \in [Campaigns -> Budgets]
    BY <1>9, <2>1, BudgetsType DEF UpsertCampaign
  <2>3. QED BY <1>9, <2>2 DEF UpsertCampaign
<1>10. CASE UpsertLimits
  <2>1. PICK k \in Campaigns, config \in Upserts : upsert = <<k, config>>
    BY <1>10 DEF UpsertLimits
  <2>2. config \in Budgets
    OBVIOUS
  <2> DEFINE step == [budget EXCEPT ![k].lifetimeUsd = config.lifetimeUsd]
  <2>3. step \in [Campaigns -> Budgets]
    BY <2>2, BudgetsType
  <2> HIDE DEF step
  <2>4. [step EXCEPT ![k].dailyUsd = config.dailyUsd] \in [Campaigns -> Budgets]
    BY <2>2, <2>3, BudgetsType
  <2>5. budget' = [step EXCEPT ![k].dailyUsd = config.dailyUsd]
    BY <1>10, <2>1 DEF UpsertLimits, step
  <2>6. QED BY <1>10, <2>4, <2>5 DEF UpsertLimits
<1>11. CASE UpsertFails
  BY <1>11 DEF UpsertFails
<1>12. CASE Tick
  BY <1>12 DEF Tick
<1>13. QED
  BY <1>1, <1>2, <1>3, <1>4, <1>5, <1>6, <1>7, <1>8, <1>9, <1>10, <1>11, <1>12 DEF Next

(* Every reachable state of the tables, the calls and the clock is well typed. *)
THEOREM TypeCorrect == Spec => []TypeOK
<1>1. Init => TypeOK
  BY ConstantsAssumption DEF Init, TypeOK, EntryTypes, Outcomes
<1>2. QED BY <1>1, TypeNext, PTL DEF Spec

-------------------------------------------------------------------------------
(***************************************************************************)
(* The lock discipline.  Only a transaction that reserves holds rows it    *)
(* has given back; what an open transaction is about to write still        *)
(* starts from the committed rows it read; and no two transactions are     *)
(* about to write the same row, or to insert the same bid.                 *)
(***************************************************************************)
LockDiscipline ==
  /\ \A c \in Calls : released[c] # {} => pc[c] \in InReserve
  /\ \A c \in Calls : \A b \in released[c] : status[b] = "reserved"
  /\ \A c \in Calls : pc[c] = "settleCommit" => status[bid[c]] = "reserved"
  /\ \A c \in Calls : pc[c] = "commit" => status[bid[c]] = None
  /\ \A c, d \in Calls : c # d => Locks(c) \cap Locks(d) = {}
  /\ \A c, d \in Calls : c # d /\ pc[c] = "commit" /\ pc[d] = "commit" => bid[c] # bid[d]

IInv == TypeOK /\ LockDiscipline /\ LedgerTellsStatus

(* The three ways the tables change keep the ledger in step with the rows. *)
LEMMA GiveBackLedger ==
  ASSUME TypeOK, LedgerTellsStatus, NEW S \in SUBSET Bids, GiveBack(S),
         \A b \in S : status[b] = "reserved"
  PROVE  LedgerTellsStatus'
BY DEF TypeOK, LedgerTellsStatus, GiveBack, AddEntries, EntryTypes, None

LEMMA CommitReservationLedger ==
  ASSUME TypeOK, LedgerTellsStatus, NEW c \in Calls, CommitReservation(c),
         status[bid[c]] = None, \A b \in released[c] : status[b] = "reserved"
  PROVE  LedgerTellsStatus'
<1> SUFFICES ASSUME NEW b \in Bids
    PROVE /\ ledger'[b]["reserve"] = (IF status'[b] = None THEN 0 ELSE 1)
          /\ ledger'[b]["release"] = (IF status'[b] = "released" THEN 1 ELSE 0)
          /\ ledger'[b]["settle"] = (IF status'[b] = "settled" THEN 1 ELSE 0)
  BY DEF LedgerTellsStatus
<1>1. /\ ledger[b]["reserve"] = (IF status[b] = None THEN 0 ELSE 1)
      /\ ledger[b]["release"] = (IF status[b] = "released" THEN 1 ELSE 0)
      /\ ledger[b]["settle"] = (IF status[b] = "settled" THEN 1 ELSE 0)
      /\ ledger[b] \in [EntryTypes -> Nat] /\ {"reserve", "release", "settle"} = EntryTypes
  BY DEF TypeOK, LedgerTellsStatus, EntryTypes
<1>2. CASE b = bid[c]
  <2>1. status'[b] = "reserved" /\ ledger'[b] = [ledger[b] EXCEPT !["reserve"] = @ + 1] /\ status[b] = None
    BY <1>2 DEF CommitReservation
  <2> QED BY <1>1, <2>1 DEF None
<1>3. CASE b # bid[c] /\ b \in released[c]
  <2>1. status'[b] = "released" /\ ledger'[b] = [ledger[b] EXCEPT !["release"] = @ + 1] /\ status[b] = "reserved"
    BY <1>3 DEF CommitReservation
  <2> QED BY <1>1, <2>1 DEF None
<1>4. CASE b # bid[c] /\ b \notin released[c]
  BY <1>1, <1>4 DEF CommitReservation
<1> QED BY <1>2, <1>3, <1>4

LEMMA CommitSettlementLedger ==
  ASSUME TypeOK, LedgerTellsStatus, NEW c \in Calls, CommitSettlement(c),
         status[bid[c]] = "reserved"
  PROVE  LedgerTellsStatus'
<1> SUFFICES ASSUME NEW b \in Bids
    PROVE /\ ledger'[b]["reserve"] = (IF status'[b] = None THEN 0 ELSE 1)
          /\ ledger'[b]["release"] = (IF status'[b] = "released" THEN 1 ELSE 0)
          /\ ledger'[b]["settle"] = (IF status'[b] = "settled" THEN 1 ELSE 0)
  BY DEF LedgerTellsStatus
<1>1. /\ ledger[b]["reserve"] = (IF status[b] = None THEN 0 ELSE 1)
      /\ ledger[b]["release"] = (IF status[b] = "released" THEN 1 ELSE 0)
      /\ ledger[b]["settle"] = (IF status[b] = "settled" THEN 1 ELSE 0)
      /\ ledger[b] \in [EntryTypes -> Nat] /\ {"reserve", "release", "settle"} = EntryTypes
  BY DEF TypeOK, LedgerTellsStatus, EntryTypes
<1>2. CASE b = bid[c]
  <2>1. status'[b] = "settled" /\ ledger'[b] = [ledger[b] EXCEPT !["settle"] = @ + 1] /\ status[b] = "reserved"
    BY <1>2 DEF CommitSettlement, AddEntries, TypeOK
  <2> QED BY <1>1, <2>1 DEF None
<1>3. CASE b # bid[c]
  <2>1. status'[b] = status[b] /\ ledger'[b] = ledger[b]
    BY <1>3 DEF CommitSettlement, AddEntries, TypeOK
  <2> QED BY <1>1, <2>1
<1> QED BY <1>2, <1>3

(* A call that returns gives up its locks and the others keep theirs. *)
LEMMA ReturnLocks ==
  ASSUME TypeOK, LockDiscipline, NEW c \in Calls, NEW reason, Rollback(c, reason)
  PROVE  LockDiscipline'
<1>1. pc'[c] = "idle" /\ released'[c] = {} /\ bid' = bid /\ status' = status
  BY DEF TypeOK, Rollback, Return, Goto, tables
<1>2. \A d \in Calls \ {c} : pc'[d] = pc[d] /\ released'[d] = released[d]
  BY DEF TypeOK, Rollback, Return, Goto
<1>3. \A d \in Calls : Locks(d)' \subseteq Locks(d)
  BY <1>1, <1>2 DEF Locks
<1>4. QED BY <1>1, <1>2, <1>3 DEF LockDiscipline

(* Rows no open transaction has locked are given back without disturbing any. *)
LEMMA GiveBackLocks ==
  ASSUME TypeOK, LockDiscipline, NEW S \in SUBSET Bids, GiveBack(S),
         \A b \in S : status[b] = "reserved" /\ \A d \in Calls : b \notin Locks(d),
         UNCHANGED <<pc, bid, released>>
  PROVE  LockDiscipline'
<1>1. \A b \in Bids \ S : status'[b] = status[b]
  BY DEF GiveBack
<1>2. \A d \in Calls : Locks(d)' = Locks(d)
  BY DEF Locks
<1>3. \A d \in Calls : pc[d] = "commit" => bid[d] \notin S
  BY DEF TypeOK, LockDiscipline, None
<1>4. \A d \in Calls : released[d] \cap S = {}
  BY DEF Locks
<1>5. \A d \in Calls : pc[d] = "settleCommit" => bid[d] \notin S
  BY DEF Locks
<1>6. QED BY <1>1, <1>2, <1>3, <1>4, <1>5 DEF TypeOK, LockDiscipline

(* A call that moves on to a statement that writes nothing keeps its locks. *)
LEMMA AdvanceLocks ==
  ASSUME TypeOK, LockDiscipline, NEW c \in Calls, NEW label, Goto(c, label),
         UNCHANGED <<status, released>>,
         \A d \in Calls \ {c} : bid'[d] = bid[d],
         label \notin {"commit", "settleCommit"},
         released[c] # {} => label \in InReserve
  PROVE  LockDiscipline'
<1>1. pc'[c] = label /\ \A d \in Calls \ {c} : pc'[d] = pc[d]
  BY DEF TypeOK, Goto
<1>2. \A d \in Calls : Locks(d)' \subseteq Locks(d)
  BY <1>1 DEF Locks
<1>3. QED BY <1>1, <1>2 DEF LockDiscipline

(* The commit of rows a call has given back: nobody else was about to write them. *)
LEMMA CommitLocks ==
  ASSUME TypeOK, LockDiscipline, NEW c \in Calls, NEW label,
         pc[c] \in InReserve, Goto(c, label), label \notin InTransaction,
         UNCHANGED bid, \A d \in Calls : released'[d] = IF d = c THEN {} ELSE released[d],
         \A b \in Bids : status'[b] # status[b] =>
            \/ b \in released[c]
            \/ pc[c] = "commit" /\ b = bid[c]
  PROVE  LockDiscipline'
<1>1. pc'[c] = label /\ \A d \in Calls \ {c} : pc'[d] = pc[d]
  BY DEF TypeOK, Goto
<1>2. \A d \in Calls : Locks(d)' \subseteq Locks(d)
  BY <1>1 DEF Locks, InTransaction, InSettle
<1>3. \A d \in Calls \ {c} : \A b \in Locks(d) : status'[b] = status[b]
  <2> SUFFICES ASSUME NEW d \in Calls \ {c}, NEW b \in Locks(d) PROVE status'[b] = status[b]
    OBVIOUS
  <2>1. b \in Bids /\ b \notin released[c]
    BY DEF TypeOK, LockDiscipline, Locks
  <2>2. status[b] = "reserved"
    BY DEF LockDiscipline, Locks
  <2>3. QED BY <2>1, <2>2 DEF LockDiscipline, None
<1>4. ASSUME NEW d \in Calls \ {c}, pc[d] = "commit" PROVE status'[bid[d]] = None
  <2>1. bid[d] \in Bids /\ status[bid[d]] = None
    BY <1>4 DEF TypeOK, LockDiscipline
  <2>2. bid[d] \notin released[c]
    BY <2>1 DEF LockDiscipline, None
  <2>3. pc[c] = "commit" => bid[c] # bid[d]
    BY <1>4 DEF LockDiscipline
  <2>4. QED BY <2>1, <2>2, <2>3
<1>5. pc'[c] # "commit" /\ pc'[c] # "settleCommit" /\ released'[c] = {}
  BY <1>1 DEF InTransaction, InReserve, InSettle
<1>6. \A d \in Calls : pc'[d] = "settleCommit" => status'[bid'[d]] = "reserved"
  BY <1>1, <1>3, <1>5 DEF LockDiscipline, Locks
<1>7. \A d \in Calls : \A b \in released'[d] : status'[b] = "reserved"
  BY <1>3 DEF LockDiscipline, Locks
<1>8. \A d \in Calls : pc'[d] = "commit" => status'[bid'[d]] = None
  BY <1>1, <1>4, <1>5
<1>9. \A d \in Calls : released'[d] # {} => pc'[d] \in InReserve
  BY <1>1, <1>5 DEF LockDiscipline
<1>10. \A d, e \in Calls : d # e => Locks(d)' \cap Locks(e)' = {}
  BY <1>2 DEF LockDiscipline
<1>11. \A d, e \in Calls : d # e /\ pc'[d] = "commit" /\ pc'[e] = "commit" => bid'[d] # bid'[e]
  BY <1>1, <1>5 DEF LockDiscipline
<1>12. QED BY <1>6, <1>7, <1>8, <1>9, <1>10, <1>11 DEF LockDiscipline

(* A settlement commits and its call returns: it held the row alone. *)
LEMMA SettlementKeeps ==
  ASSUME IInv, NEW c \in Calls, pc[c] = "settleCommit", CommitSettlement(c),
         NEW reason, Return(c, reason)
  PROVE  LockDiscipline' /\ LedgerTellsStatus'
<1> USE DEF IInv
<1>1. pc'[c] = "idle" /\ released'[c] = {} /\ bid' = bid
  BY DEF TypeOK, Return, Goto
<1>2. \A d \in Calls \ {c} : pc'[d] = pc[d] /\ released'[d] = released[d]
  BY DEF TypeOK, Return, Goto
<1>3. \A d \in Calls : Locks(d)' \subseteq Locks(d)
  BY <1>1, <1>2 DEF Locks
<1>4. status[bid[c]] = "reserved" /\ bid[c] \in Locks(c)
  BY DEF LockDiscipline, Locks
<1>5. \A d \in Calls \ {c} : \A b \in Locks(d) : b # bid[c] /\ b \in Bids
  BY <1>4 DEF LockDiscipline, Locks, TypeOK
<1>6. \A b \in Bids \ {bid[c]} : status'[b] = status[b]
  BY DEF CommitSettlement, TypeOK
<1>7. \A d \in Calls : \A b \in released'[d] : status'[b] = "reserved"
  BY <1>1, <1>2, <1>5, <1>6 DEF LockDiscipline, Locks
<1>8. \A d \in Calls : pc'[d] = "settleCommit" => status'[bid'[d]] = "reserved"
  BY <1>1, <1>2, <1>5, <1>6 DEF LockDiscipline, Locks
<1>9. \A d \in Calls : pc'[d] = "commit" => status'[bid'[d]] = None
  <2> SUFFICES ASSUME NEW d \in Calls, pc'[d] = "commit" PROVE status'[bid[d]] = None
    BY <1>1
  <2>1. d # c /\ pc[d] = "commit"
    BY <1>1, <1>2
  <2>2. bid[d] \in Bids /\ status[bid[d]] = None
    BY <2>1 DEF LockDiscipline, TypeOK
  <2>3. QED BY <1>4, <1>6, <2>2 DEF None
<1>10. \A d, e \in Calls : d # e => Locks(d)' \cap Locks(e)' = {}
  BY <1>3 DEF LockDiscipline
<1>11. LockDiscipline'
  BY <1>1, <1>2, <1>7, <1>8, <1>9, <1>10 DEF LockDiscipline
<1>12. QED BY <1>4, <1>11, CommitSettlementLedger

(* Every step of a call keeps the lock discipline and the ledger. *)
LEMMA CallStepKeeps ==
  ASSUME IInv, NEW c \in Calls, CallStep(c)
  PROVE  LockDiscipline' /\ LedgerTellsStatus'
<1> USE DEF IInv
<1>1. UNCHANGED tables => LedgerTellsStatus'
  BY DEF LedgerTellsStatus, tables
<1>2. CASE Connect(c)
  <2>1. released[c] = {}
    BY <1>2 DEF Connect, LockDiscipline, Waiting, InReserve
  <2> DEFINE label == IF pc[c] = "connect" THEN "cleanup" ELSE "settleLock"
  <2>2. Goto(c, label) /\ label \notin {"commit", "settleCommit"} /\ UNCHANGED <<status, released, bid>>
    BY <1>2 DEF Connect, tables
  <2>3. LockDiscipline'
    BY <2>1, <2>2, AdvanceLocks
  <2>4. QED BY <1>1, <1>2, <2>3 DEF Connect
<1>3. CASE ConnectTimeout(c)
  BY <1>1, <1>3, ReturnLocks DEF ConnectTimeout, Rollback
<1>4. CASE Cleanup(c)
  <2> DEFINE label == IF pc[c] = "cleanup" THEN "lookup" ELSE "snapshot"
  <2>1. pc'[c] = label /\ \A d \in Calls \ {c} : pc'[d] = pc[d]
    BY <1>4 DEF Cleanup, Goto, TypeOK
  <2>2. released'[c] = released[c] \cup ExpiredFor(c) /\ \A d \in Calls \ {c} : released'[d] = released[d]
    BY <1>4 DEF Cleanup, TypeOK
  <2>3. \A b \in ExpiredFor(c) : status[b] = "reserved" /\ \A d \in Calls \ {c} : b \notin Locks(d)
    BY <1>4 DEF Cleanup, ExpiredFor, ExpiredAt, LockedByOther
  <2>4. Locks(c)' \subseteq Locks(c) \cup ExpiredFor(c) /\ \A d \in Calls \ {c} : Locks(d)' = Locks(d)
    BY <1>4, <2>1, <2>2 DEF Cleanup, Locks
  <2>5. UNCHANGED <<status, bid>>
    BY <1>4 DEF Cleanup, tables
  <2>6. label \in InReserve \ {"commit", "settleCommit"}
    BY DEF InReserve
  <2>7. \A d, e \in Calls : d # e => Locks(d)' \cap Locks(e)' = {}
    <3> SUFFICES ASSUME NEW d \in Calls, NEW e \in Calls, d # e PROVE Locks(d)' \cap Locks(e)' = {}
      OBVIOUS
    <3>1. CASE d # c /\ e # c
      BY <2>4, <3>1 DEF LockDiscipline
    <3>2. CASE d = c
      BY <2>3, <2>4, <3>2 DEF LockDiscipline
    <3>3. CASE e = c
      BY <2>3, <2>4, <3>3 DEF LockDiscipline
    <3>4. QED BY <3>1, <3>2, <3>3
  <2>8. LockDiscipline'
    BY <2>1, <2>2, <2>3, <2>5, <2>6, <2>7 DEF LockDiscipline
  <2>9. QED BY <1>1, <1>4, <2>8 DEF Cleanup
<1>5. CASE LookupFound(c)
  <2>1. \A b \in released[c] : b \in Bids /\ status[b] = "reserved"
    BY DEF LockDiscipline, TypeOK
  <2>2. LockDiscipline'
    <3>1. pc[c] \in InReserve /\ "postAlready" \notin InTransaction
      BY <1>5 DEF LookupFound, InTransaction, InReserve, InSettle
    <3>2. \A b \in Bids : status'[b] # status[b] => b \in released[c]
      BY <1>5 DEF LookupFound, GiveBack
    <3>3. \A d \in Calls : released'[d] = IF d = c THEN {} ELSE released[d]
      BY <1>5 DEF LookupFound, TypeOK
    <3>4. QED BY <1>5, <3>1, <3>2, <3>3, CommitLocks DEF LookupFound
  <2>3. QED BY <1>5, <2>1, <2>2, GiveBackLedger DEF LookupFound
<1>6. CASE LookupNotFound(c)
  BY <1>1, <1>6, AdvanceLocks DEF LookupNotFound, InReserve, tables
<1>7. CASE SnapshotAllows(c)
  BY <1>1, <1>7, AdvanceLocks DEF SnapshotAllows, InReserve, tables
<1>8. CASE SnapshotRefuses(c)
  BY <1>1, <1>8, ReturnLocks DEF SnapshotRefuses, Rollback
<1>9. CASE Insert(c)
  <2>1. pc'[c] = "commit" /\ \A d \in Calls \ {c} : pc'[d] = pc[d]
    BY <1>9 DEF Insert, Goto, TypeOK
  <2>2. UNCHANGED <<status, bid, released>> /\ status[bid[c]] = None
    BY <1>9 DEF Insert, tables
  <2>3. \A d \in Calls : Locks(d)' \subseteq Locks(d)
    BY <2>1, <2>2 DEF Locks
  <2>4. \A d \in Calls \ {c} : pc[d] = "commit" => bid[d] # bid[c]
    BY <1>9 DEF Insert
  <2>5. LockDiscipline'
    BY <2>1, <2>2, <2>3, <2>4 DEF LockDiscipline, InReserve
  <2>6. QED BY <1>1, <1>9, <2>5 DEF Insert
<1>10. CASE InsertConflict(c)
  BY <1>1, <1>10, ReturnLocks DEF InsertConflict, Rollback
<1>11. CASE Commit(c)
  <2>1. status[bid[c]] = None /\ \A b \in released[c] : status[b] = "reserved"
    BY <1>11 DEF Commit, LockDiscipline
  <2>2. LockDiscipline'
    <3>1. pc[c] \in InReserve /\ "postSnapshot" \notin InTransaction
      BY <1>11 DEF Commit, InTransaction, InReserve, InSettle
    <3>2. \A b \in Bids : status'[b] # status[b] => b \in released[c] \/ b = bid[c]
      BY <1>11 DEF Commit, CommitReservation
    <3>3. \A d \in Calls : released'[d] = IF d = c THEN {} ELSE released[d]
      BY <1>11 DEF Commit, TypeOK
    <3>4. QED BY <1>11, <3>1, <3>2, <3>3, CommitLocks DEF Commit
  <2>3. QED BY <1>11, <2>1, <2>2, CommitReservationLedger DEF Commit
<1>12. CASE PostSnapshot(c) \/ PostAlready(c)
  <2>1. PICK reason : Return(c, reason)
    BY <1>12 DEF PostSnapshot, PostAlready
  <2>2. GiveBack(Expired) /\ \A b \in Expired : status[b] = "reserved" /\ \A d \in Calls : b \notin Locks(d)
    BY <1>12 DEF PostSnapshot, PostAlready, AutocommitCleanup, Expired, ExpiredAt
  <2>3. Expired \subseteq Bids
    BY DEF Expired, ExpiredAt
  <2>4. released[c] = {}
    BY <1>12 DEF PostSnapshot, PostAlready, LockDiscipline, InReserve
  <2>5. pc'[c] = "idle" /\ (\A d \in Calls \ {c} : pc'[d] = pc[d]) /\ UNCHANGED <<bid, released>>
    BY <2>1, <2>4 DEF Return, Goto, TypeOK
  <2>6. LockDiscipline'
    <3>1. \A b \in Bids \ Expired : status'[b] = status[b]
      BY <2>2 DEF GiveBack
    <3>2. \A d \in Calls : Locks(d)' \subseteq Locks(d)
      BY <2>5 DEF Locks
    <3>3. ASSUME NEW d \in Calls, pc'[d] = "commit" PROVE bid[d] \notin Expired
      <4>1. pc[d] = "commit"
        BY <2>5, <3>3
      <4>2. status[bid[d]] = None
        BY <4>1 DEF LockDiscipline
      <4>3. QED BY <2>2, <4>2 DEF None
    <3>4. \A d \in Calls : released[d] \cap Expired = {}
      BY <2>2 DEF Locks
    <3>5. \A d \in Calls : pc'[d] = "settleCommit" => bid[d] \notin Expired
      BY <2>2, <2>5 DEF Locks
    <3>6. \A d \in Calls : released'[d] # {} => pc'[d] \in InReserve
      BY <2>4, <2>5 DEF LockDiscipline
    <3>7. \A d \in Calls : \A b \in released'[d] : status'[b] = "reserved"
      BY <2>5, <3>1, <3>4 DEF LockDiscipline, TypeOK
    <3>8. \A d \in Calls : pc'[d] = "settleCommit" => status'[bid'[d]] = "reserved"
      BY <2>5, <3>1, <3>5 DEF LockDiscipline, TypeOK
    <3>9. \A d \in Calls : pc'[d] = "commit" => status'[bid'[d]] = None
      BY <2>5, <3>1, <3>3 DEF LockDiscipline, TypeOK
    <3>10. \A d, e \in Calls : d # e /\ pc'[d] = "commit" /\ pc'[e] = "commit" => bid'[d] # bid'[e]
      BY <2>5 DEF LockDiscipline
    <3>11. \A d, e \in Calls : d # e => Locks(d)' \cap Locks(e)' = {}
      BY <3>2 DEF LockDiscipline
    <3>12. QED BY <3>6, <3>7, <3>8, <3>9, <3>10, <3>11 DEF LockDiscipline
  <2>7. QED BY <2>2, <2>3, <2>6, GiveBackLedger
<1>13. CASE PostSnapshotTimeout(c)
  BY <1>1, <1>13, ReturnLocks DEF PostSnapshotTimeout, Rollback
<1>14. CASE SettleLock(c)
  <2>1. pc'[c] = "settleCommit" /\ \A d \in Calls \ {c} : pc'[d] = pc[d]
    BY <1>14 DEF SettleLock, Goto, TypeOK
  <2>2. UNCHANGED <<status, bid, released>> /\ status[bid[c]] = "reserved" /\ released[c] = {}
    BY <1>14 DEF SettleLock, tables, LockDiscipline, InReserve
  <2>3. Locks(c)' = {bid[c]} /\ \A d \in Calls \ {c} : Locks(d)' = Locks(d) /\ bid[c] \notin Locks(d)
    BY <1>14, <2>1, <2>2 DEF SettleLock, Locks, LockedByOther
  <2>4. \A d, e \in Calls : d # e => Locks(d)' \cap Locks(e)' = {}
    <3> SUFFICES ASSUME NEW d \in Calls, NEW e \in Calls, d # e PROVE Locks(d)' \cap Locks(e)' = {}
      OBVIOUS
    <3>1. CASE d # c /\ e # c
      BY <2>3, <3>1 DEF LockDiscipline
    <3>2. CASE d = c \/ e = c
      BY <2>3, <3>2
    <3>3. QED BY <3>1, <3>2
  <2>5. LockDiscipline'
    BY <2>1, <2>2, <2>4 DEF LockDiscipline
  <2>6. QED BY <1>1, <1>14, <2>5 DEF SettleLock
<1>15. CASE SettleRefused(c)
  BY <1>1, <1>15, ReturnLocks DEF SettleRefused, Rollback
<1>16. CASE SettleCommit(c)
  BY <1>16, SettlementKeeps DEF SettleCommit
<1>17. QED
  BY <1>2, <1>3, <1>4, <1>5, <1>6, <1>7, <1>8, <1>9, <1>10, <1>11, <1>12, <1>13, <1>14,
     <1>15, <1>16 DEF CallStep, ReserveStep, SettleStep

(* So does every other step: a call that starts, fails or loses the answer to
   its COMMIT, a process that dies, the dashboard, the clock. *)
LEMMA IInvNext == ASSUME IInv, [Next]_vars PROVE IInv'
<1> USE DEF IInv
<1>1. TypeOK'
  BY TypeNext
<1>2. UNCHANGED tables => LedgerTellsStatus'
  BY DEF LedgerTellsStatus, tables
<1>3. UNCHANGED <<status, pc, bid, released>> => LockDiscipline'
  BY DEF LockDiscipline, Locks
<1>4. ASSUME UNCHANGED vars PROVE LockDiscipline' /\ LedgerTellsStatus'
  BY <1>2, <1>3, <1>4 DEF vars, tables, calls
<1>5. ASSUME NEW c \in Calls, CallStep(c) PROVE LockDiscipline' /\ LedgerTellsStatus'
  BY <1>5, CallStepKeeps
<1>6. ASSUME NEW c \in Calls, StatementFails(c) PROVE LockDiscipline' /\ LedgerTellsStatus'
  BY <1>2, <1>6, ReturnLocks DEF StatementFails, Rollback
<1>7. ASSUME NEW c \in Calls, CommitAckLost(c) PROVE LockDiscipline' /\ LedgerTellsStatus'
  <2>1. CASE pc[c] = "commit" /\ CommitReservation(c)
    <3>1. status[bid[c]] = None /\ \A b \in released[c] : status[b] = "reserved"
      BY <2>1 DEF LockDiscipline
    <3>2. Goto(c, "idle") /\ UNCHANGED bid
      BY <1>7 DEF CommitAckLost, Return
    <3>3. \A d \in Calls : released'[d] = IF d = c THEN {} ELSE released[d]
      BY <1>7 DEF CommitAckLost, Return, TypeOK
    <3>4. \A b \in Bids : status'[b] # status[b] => b \in released[c] \/ b = bid[c]
      BY <2>1 DEF CommitReservation
    <3>5. pc[c] \in InReserve /\ "idle" \notin InTransaction
      BY <2>1 DEF InTransaction, InReserve, InSettle
    <3>6. LockDiscipline'
      BY <2>1, <3>2, <3>3, <3>4, <3>5, CommitLocks
    <3>7. QED BY <2>1, <3>1, <3>6, CommitReservationLedger
  <2>2. CASE pc[c] = "settleCommit" /\ CommitSettlement(c)
    BY <1>7, <2>2, SettlementKeeps DEF CommitAckLost
  <2>3. QED BY <1>7, <2>1, <2>2 DEF CommitAckLost
<1>8. ASSUME NEW c \in Calls, NEW b \in Bids,
             \/ ReserveStart(c, b)
             \/ \E usd \in ChargesUsd[b] : SettleStart(c, b, usd)
      PROVE  LockDiscipline' /\ LedgerTellsStatus'
  <2>1. PICK label \in Waiting : Goto(c, label)
    BY <1>8 DEF ReserveStart, SettleStart, Waiting
  <2>2. released[c] = {}
    BY <1>8 DEF ReserveStart, SettleStart, LockDiscipline, InReserve
  <2>3. UNCHANGED <<tables, released>> /\ \A d \in Calls \ {c} : bid'[d] = bid[d]
    BY <1>8 DEF ReserveStart, SettleStart, TypeOK
  <2>4. LockDiscipline'
    BY <2>1, <2>2, <2>3, AdvanceLocks DEF Waiting, tables
  <2>5. QED BY <1>2, <2>3, <2>4
<1>9. ASSUME NEW i \in Instances, Crash(i) PROVE LockDiscipline' /\ LedgerTellsStatus'
  <2>1. UNCHANGED <<status, bid>>
    BY <1>9 DEF Crash, tables
  <2>2. ASSUME NEW d \in Calls
        PROVE  (pc'[d] = pc[d] /\ released'[d] = released[d]) \/ (pc'[d] = "idle" /\ released'[d] = {})
    <3>1. pc'[d] = IF d \in {c \in Calls : InstanceOf[c] = i} THEN "idle" ELSE pc[d]
      BY <1>9 DEF Crash
    <3>2. released'[d] = IF d \in {c \in Calls : InstanceOf[c] = i} THEN {} ELSE released[d]
      BY <1>9 DEF Crash
    <3>3. QED BY <3>1, <3>2
  <2>3. \A d \in Calls : Locks(d)' \subseteq Locks(d)
    BY <2>1, <2>2 DEF Locks
  <2>4. LockDiscipline'
    BY <2>1, <2>2, <2>3 DEF LockDiscipline
  <2>5. QED BY <1>2, <1>9, <2>4 DEF Crash
<1>10. CASE DashboardCleanup
  <2>1. GiveBack(Expired) /\ Expired \in SUBSET Bids /\ UNCHANGED <<pc, bid, released>>
    BY <1>10 DEF DashboardCleanup, AutocommitCleanup, Expired, ExpiredAt, calls
  <2>2. \A b \in Expired : status[b] = "reserved" /\ \A d \in Calls : b \notin Locks(d)
    BY <1>10 DEF DashboardCleanup, AutocommitCleanup, Expired, ExpiredAt
  <2>3. LockDiscipline'
    BY ONLY IInv, <2>1, <2>2, GiveBackLocks DEF IInv
  <2>4. LedgerTellsStatus'
    BY ONLY IInv, <2>1, <2>2, GiveBackLedger DEF IInv
  <2>5. QED BY <1>1, <2>3, <2>4
<1>11. CASE \/ \E k \in Campaigns, config \in Upserts : UpsertCampaign(k, config)
            \/ UpsertLimits \/ UpsertFails \/ Tick
  <2>1. UNCHANGED <<tables, calls>>
    BY <1>11 DEF UpsertCampaign, UpsertLimits, UpsertFails, Tick
  <2>2. QED BY <1>1, <1>2, <1>3, <2>1 DEF tables, calls
<1>12. QED
  BY <1>1, <1>4, <1>5, <1>6, <1>7, <1>8, <1>9, <1>10, <1>11 DEF Next

(* The ledger books every reservation once, and gives it back or charges it
   once, whatever the interleaving of cleanups, settlements and failures. *)
THEOREM LedgerCorrect == Spec => []LedgerTellsStatus
<1>1. Init => IInv
  <2>1. Init => TypeOK
    BY ConstantsAssumption DEF Init, TypeOK, EntryTypes, Outcomes
  <2>2. Init => LockDiscipline /\ LedgerTellsStatus
    BY DEF Init, LockDiscipline, Locks, LedgerTellsStatus, EntryTypes, None
  <2>3. QED BY <2>1, <2>2 DEF IInv
<1>2. IInv => LedgerTellsStatus
  BY DEF IInv
<1>3. QED BY <1>1, <1>2, IInvNext, PTL DEF Spec

-------------------------------------------------------------------------------
(***************************************************************************)
(* BudgetReservations implements BudgetAccount.  Beyond IInv this needs    *)
(* that nothing is charged before the settlement, and that a settling call *)
(* keeps the amount it was given.                                          *)
(***************************************************************************)
ChargeInv ==
  /\ \A b \in Bids : status[b] # "settled" => charged[b] = 0
  /\ \A c \in Calls : pc[c] \in {"settleConnect"} \cup InSettle => amount[c] \in ChargesUsd[bid[c]]

(* A call that is not settling leaves the amounts of the others alone. *)
LEMMA AmountsKept ==
  ASSUME TypeOK, ChargeInv, NEW c \in Calls, NEW label, Goto(c, label),
         UNCHANGED charged,
         \A b \in Bids : status'[b] = status[b] \/ status[b] # "settled",
         \A d \in Calls \ {c} : bid'[d] = bid[d] /\ amount'[d] = amount[d],
         label \in {"settleConnect"} \cup InSettle => amount'[c] \in ChargesUsd[bid'[c]]
  PROVE  ChargeInv'
<1>1. pc'[c] = label /\ \A d \in Calls \ {c} : pc'[d] = pc[d]
  BY DEF TypeOK, Goto
<1>2. \A b \in Bids : status'[b] # "settled" => status[b] # "settled"
  OBVIOUS
<1>3. QED BY <1>1, <1>2 DEF ChargeInv

LEMMA ReturnCharge ==
  ASSUME TypeOK, ChargeInv, NEW c \in Calls, NEW reason, Return(c, reason),
         UNCHANGED charged,
         \A b \in Bids : status'[b] = status[b] \/ status[b] # "settled"
  PROVE  ChargeInv'
<1>1. Goto(c, "idle") /\ \A d \in Calls \ {c} : bid'[d] = bid[d] /\ amount'[d] = amount[d]
  BY DEF TypeOK, Return
<1>2. "idle" \notin {"settleConnect"} \cup InSettle
  BY DEF InSettle
<1>3. QED BY <1>1, <1>2, AmountsKept

LEMMA SettlementCharge ==
  ASSUME IInv, ChargeInv, NEW c \in Calls, NEW reason, pc[c] = "settleCommit",
         CommitSettlement(c), Return(c, reason)
  PROVE  ChargeInv'
<1>1. \A b \in Bids : b # bid[c] => status'[b] = status[b] /\ charged'[b] = charged[b]
  BY DEF IInv, TypeOK, CommitSettlement
<1>2. status'[bid[c]] = "settled"
  BY DEF IInv, TypeOK, CommitSettlement
<1>3. pc'[c] = "idle" /\ UNCHANGED bid
  BY DEF IInv, TypeOK, Return, Goto
<1>4. \A d \in Calls \ {c} : pc'[d] = pc[d] /\ amount'[d] = amount[d]
  BY DEF IInv, TypeOK, Return, Goto
<1>5. QED BY <1>1, <1>2, <1>3, <1>4 DEF ChargeInv, InSettle

LEMMA ChargeNext == ASSUME IInv, ChargeInv, [Next]_vars PROVE ChargeInv'
<1> USE DEF IInv
<1> DEFINE SettledStay == \A b \in Bids : status'[b] = status[b] \/ status[b] # "settled"
<1>1. UNCHANGED tables => SettledStay /\ UNCHANGED charged
  BY DEF tables
<1>2. ASSUME NEW S \in SUBSET Bids, GiveBack(S), \A b \in S : status[b] = "reserved"
      PROVE  SettledStay /\ UNCHANGED charged
  BY <1>2 DEF GiveBack
<1>3. ASSUME NEW c \in Calls, CommitReservation(c), pc[c] = "commit"
      PROVE  SettledStay /\ UNCHANGED charged
  <2>1. status[bid[c]] # "settled" /\ \A b \in released[c] : status[b] # "settled"
    BY <1>3 DEF LockDiscipline, None
  <2>2. QED BY <1>3, <2>1 DEF CommitReservation
<1>4. UNCHANGED <<tables, pc, bid, amount>> => ChargeInv'
  BY DEF tables, ChargeInv
<1>5. ASSUME NEW c \in Calls, CallStep(c) PROVE ChargeInv'
  <2>1. CASE Connect(c)
    <3> DEFINE label == IF pc[c] = "connect" THEN "cleanup" ELSE "settleLock"
    <3>1. label \in {"settleConnect"} \cup InSettle => amount[c] \in ChargesUsd[bid[c]]
      BY <2>1 DEF Connect, Waiting, InSettle, ChargeInv
    <3>2. Goto(c, label) /\ UNCHANGED <<tables, bid, amount>>
      BY <2>1 DEF Connect
    <3>3. QED BY <1>1, <3>1, <3>2, AmountsKept
  <2>2. CASE Cleanup(c) \/ LookupNotFound(c) \/ SnapshotAllows(c) \/ Insert(c)
    <3>1. PICK label \in InReserve : Goto(c, label)
      BY <2>2 DEF Cleanup, LookupNotFound, SnapshotAllows, Insert, InReserve
    <3>2. UNCHANGED <<tables, bid, amount>>
      BY <2>2 DEF Cleanup, LookupNotFound, SnapshotAllows, Insert
    <3>3. label \notin {"settleConnect"} \cup InSettle
      BY DEF InReserve, InSettle
    <3>4. QED BY <1>1, <3>1, <3>2, <3>3, AmountsKept
  <2>3. CASE LookupFound(c)
    <3>1. \A b \in released[c] : b \in Bids /\ status[b] = "reserved"
      BY DEF LockDiscipline, TypeOK
    <3>2. SettledStay /\ UNCHANGED charged
      BY <1>2, <2>3, <3>1 DEF LookupFound
    <3>3. "postAlready" \notin {"settleConnect"} \cup InSettle
      BY DEF InSettle
    <3>4. QED BY <2>3, <3>2, <3>3, AmountsKept DEF LookupFound
  <2>4. CASE Commit(c)
    <3>1. SettledStay /\ UNCHANGED charged
      BY <1>3, <2>4 DEF Commit
    <3>2. "postSnapshot" \notin {"settleConnect"} \cup InSettle
      BY DEF InSettle
    <3>3. QED BY <2>4, <3>1, <3>2, AmountsKept DEF Commit
  <2>5. CASE SettleLock(c)
    <3>1. amount[c] \in ChargesUsd[bid[c]]
      BY <2>5 DEF SettleLock, InSettle, ChargeInv
    <3>2. QED BY <1>1, <2>5, <3>1, AmountsKept DEF SettleLock
  <2>6. CASE SettleCommit(c)
    BY <2>6, SettlementCharge DEF SettleCommit
  <2>7. CASE PostSnapshot(c) \/ PostAlready(c)
    <3>1. PICK reason : Return(c, reason)
      BY <2>7 DEF PostSnapshot, PostAlready
    <3>2. GiveBack(Expired) /\ Expired \in SUBSET Bids /\ \A b \in Expired : status[b] = "reserved"
      BY <2>7 DEF PostSnapshot, PostAlready, AutocommitCleanup, Expired, ExpiredAt
    <3>3. QED BY <1>2, <3>1, <3>2, ReturnCharge
  <2>8. ASSUME NEW reason, Rollback(c, reason) PROVE ChargeInv'
    BY <1>1, <2>8, ReturnCharge DEF Rollback
  <2>9. QED
    BY <1>5, <2>1, <2>2, <2>3, <2>4, <2>5, <2>6, <2>7, <2>8
    DEF CallStep, ReserveStep, SettleStep, ConnectTimeout, SnapshotRefuses, InsertConflict,
        PostSnapshotTimeout, SettleRefused
<1>6. ASSUME NEW c \in Calls, StatementFails(c) PROVE ChargeInv'
  BY <1>1, <1>6, ReturnCharge DEF StatementFails, Rollback
<1>7. ASSUME NEW c \in Calls, CommitAckLost(c) PROVE ChargeInv'
  <2>1. CASE pc[c] = "commit" /\ CommitReservation(c)
    BY <1>3, <1>7, <2>1, ReturnCharge DEF CommitAckLost
  <2>2. CASE pc[c] = "settleCommit" /\ CommitSettlement(c)
    BY <1>7, <2>2, SettlementCharge DEF CommitAckLost
  <2>3. QED BY <1>7, <2>1, <2>2 DEF CommitAckLost
<1>8. ASSUME NEW c \in Calls, NEW b \in Bids, ReserveStart(c, b) PROVE ChargeInv'
  <2>1. Goto(c, "connect") /\ UNCHANGED <<tables, amount>> /\ \A d \in Calls \ {c} : bid'[d] = bid[d]
    BY <1>8 DEF ReserveStart, TypeOK
  <2>2. "connect" \notin {"settleConnect"} \cup InSettle
    BY DEF InSettle
  <2>3. QED BY <1>1, <2>1, <2>2, AmountsKept
<1>9. ASSUME NEW c \in Calls, NEW b \in Bids, NEW usd \in ChargesUsd[b], SettleStart(c, b, usd)
      PROVE  ChargeInv'
  <2>1. bid'[c] = b /\ amount'[c] = usd
    BY <1>9 DEF SettleStart, TypeOK
  <2>2. \A d \in Calls \ {c} : bid'[d] = bid[d] /\ amount'[d] = amount[d]
    BY <1>9 DEF SettleStart, TypeOK
  <2>3. QED BY <1>1, <1>9, <2>1, <2>2, AmountsKept DEF SettleStart
<1>10. ASSUME NEW i \in Instances, Crash(i) PROVE ChargeInv'
  <2>1. ASSUME NEW d \in Calls PROVE pc'[d] = "idle" \/ (pc'[d] = pc[d] /\ amount'[d] = amount[d])
    <3>1. pc'[d] = IF d \in {c \in Calls : InstanceOf[c] = i} THEN "idle" ELSE pc[d]
      BY <1>10 DEF Crash
    <3>2. amount'[d] = IF d \in {c \in Calls : InstanceOf[c] = i} THEN 0 ELSE amount[d]
      BY <1>10 DEF Crash
    <3>3. QED BY <3>1, <3>2
  <2>2. UNCHANGED <<tables, bid>>
    BY <1>10 DEF Crash
  <2>3. QED BY <2>1, <2>2 DEF ChargeInv, tables, InSettle
<1>11. CASE DashboardCleanup
  <2>1. GiveBack(Expired) /\ Expired \in SUBSET Bids /\ \A b \in Expired : status[b] = "reserved"
    BY <1>11 DEF DashboardCleanup, AutocommitCleanup, Expired, ExpiredAt
  <2>2. SettledStay /\ UNCHANGED charged
    BY <1>2, <2>1
  <2>3. UNCHANGED <<pc, bid, amount>>
    BY <1>11 DEF DashboardCleanup, calls
  <2>4. QED BY <2>2, <2>3 DEF ChargeInv
<1>12. CASE \/ \E k \in Campaigns, config \in Upserts : UpsertCampaign(k, config)
            \/ UpsertLimits \/ UpsertFails \/ Tick
  <2>1. UNCHANGED <<tables, calls>>
    BY <1>12 DEF UpsertCampaign, UpsertLimits, UpsertFails, Tick
  <2>2. QED BY <1>4, <2>1 DEF calls
<1>13. CASE UNCHANGED vars
  BY <1>4, <1>13 DEF vars, calls
<1>14. QED
  BY <1>5, <1>6, <1>7, <1>8, <1>9, <1>10, <1>11, <1>12, <1>13 DEF Next

(* On consistent tables the account is a reading of the status column. *)
LEMMA AccountIsStatus ==
  ASSUME LedgerTellsStatus, TypeOK, NEW b \in Bids
  PROVE  AccountOf(b) = CASE status[b] = None -> "none"
                          [] status[b] = "reserved" -> "open"
                          [] status[b] = "released" -> "released"
                          [] status[b] = "settled" -> "charged"
BY DEF LedgerTellsStatus, AccountOf, TypeOK, None

LEMMA NextAccountIsStatus ==
  ASSUME LedgerTellsStatus', TypeOK', NEW b \in Bids
  PROVE  AccountOf(b)' = CASE status'[b] = None -> "none"
                           [] status'[b] = "reserved" -> "open"
                           [] status'[b] = "released" -> "released"
                           [] status'[b] = "settled" -> "charged"
BY DEF LedgerTellsStatus, AccountOf, TypeOK, None

AccountNow == [b \in Bids |-> AccountOf(b)]

(* The effects on the tables are steps of the account. *)
LEMMA GiveBackAccount ==
  ASSUME IInv, IInv', NEW S \in SUBSET Bids, GiveBack(S), \A b \in S : status[b] = "reserved"
  PROVE  Account!Next
<1> USE DEF IInv
<1>1. \A b \in S : AccountNow[b] = "open"
  BY AccountIsStatus DEF AccountNow, None
<1>2. \A b \in Bids : AccountOf(b)' = IF b \in S THEN "released" ELSE AccountOf(b)
  BY DEF GiveBack, AddEntries, AccountOf, LedgerTellsStatus, TypeOK, EntryTypes, None
<1>3. AccountNow' = [b \in Bids |-> IF b \in S THEN "released" ELSE AccountNow[b]]
  BY <1>2 DEF AccountNow
<1>4. Account!Release(S)
  BY <1>1, <1>3 DEF Account!Release, GiveBack, AccountNow
<1>5. QED BY <1>4 DEF Account!Next

LEMMA CommitReservationAccount ==
  ASSUME IInv, IInv', NEW c \in Calls, CommitReservation(c), pc[c] = "commit"
  PROVE  Account!Next
<1> USE DEF IInv
<1>1. bid[c] \in Bids /\ released[c] \in SUBSET Bids
  BY DEF TypeOK
<1>2. status[bid[c]] = None /\ \A b \in released[c] : status[b] = "reserved"
  BY DEF LockDiscipline
<1>3. AccountNow[bid[c]] = "none" /\ \A b \in released[c] : AccountNow[b] = "open"
  BY <1>1, <1>2, AccountIsStatus DEF AccountNow, None
<1>4. \A b \in Bids : AccountOf(b)' = IF b = bid[c] THEN "open"
                                     ELSE IF b \in released[c] THEN "released" ELSE AccountOf(b)
  <2> SUFFICES ASSUME NEW b \in Bids
               PROVE  AccountOf(b)' = IF b = bid[c] THEN "open"
                                      ELSE IF b \in released[c] THEN "released" ELSE AccountOf(b)
    OBVIOUS
  <2>1. status'[b] = IF b = bid[c] THEN "reserved"
                     ELSE IF b \in released[c] THEN "released" ELSE status[b]
    BY DEF CommitReservation
  <2>2. status[b] \in {None, "reserved", "released", "settled"}
    BY DEF TypeOK
  <2>3. QED BY <2>1, <2>2, AccountIsStatus, NextAccountIsStatus DEF None
<1>5. Account!OpenAndRelease(bid[c], released[c])
  BY <1>3, <1>4 DEF Account!OpenAndRelease, CommitReservation, AccountNow
<1>6. QED BY <1>1, <1>5 DEF Account!Next

LEMMA SettlementAccount ==
  ASSUME IInv, ChargeInv, IInv', NEW c \in Calls, CommitSettlement(c), pc[c] = "settleCommit"
  PROVE  Account!Next
<1> USE DEF IInv
<1>1. bid[c] \in Bids /\ status[bid[c]] = "reserved"
  BY DEF TypeOK, LockDiscipline
<1>2. AccountNow[bid[c]] = "open"
  BY <1>1, AccountIsStatus DEF AccountNow, None
<1>3. \A b \in Bids : AccountOf(b)' = IF b = bid[c] THEN "charged" ELSE AccountOf(b)
  <2> SUFFICES ASSUME NEW b \in Bids
               PROVE  AccountOf(b)' = IF b = bid[c] THEN "charged" ELSE AccountOf(b)
    OBVIOUS
  <2>1. status'[b] = IF b = bid[c] THEN "settled" ELSE status[b]
    BY DEF CommitSettlement, TypeOK
  <2>2. status[b] \in {None, "reserved", "released", "settled"}
    BY DEF TypeOK
  <2>3. QED BY <2>1, <2>2, AccountIsStatus, NextAccountIsStatus DEF None
<1>4. AccountNow' = [AccountNow EXCEPT ![bid[c]] = "charged"]
  BY <1>3 DEF AccountNow
<1>5. charged[bid[c]] = 0 /\ amount[c] \in ChargesUsd[bid[c]] /\ amount[c] \in Nat
  BY <1>1 DEF ChargeInv, InSettle, TypeOK
<1>6. charged' = [charged EXCEPT ![bid[c]] = amount[c]]
  <2>1. 0 + amount[c] = amount[c]
    BY <1>5
  <2>2. charged' = [charged EXCEPT ![bid[c]] = charged[bid[c]] + amount[c]]
    BY DEF CommitSettlement
  <2>3. QED BY <1>5, <2>1, <2>2
<1>7. Account!Charge(bid[c], amount[c])
  BY <1>2, <1>4, <1>6 DEF Account!Charge, AccountNow
<1>8. QED BY <1>1, <1>5, <1>7 DEF Account!Next

(* A step of the transactions is a step of the account or leaves it alone. *)
LEMMA AccountStep ==
  ASSUME IInv, ChargeInv, IInv', [Next]_vars
  PROVE  [Account!Next]_(Account!vars)
<1>1. ASSUME UNCHANGED tables PROVE UNCHANGED Account!vars
  BY <1>1 DEF tables, Account!vars, AccountOf
<1>2. \A b \in Expired : b \in Bids /\ status[b] = "reserved"
  BY DEF Expired, ExpiredAt
<1>3. ASSUME GiveBack(Expired) PROVE Account!Next
  BY <1>2, <1>3, GiveBackAccount
<1>4. ASSUME NEW c \in Calls, CallStep(c) PROVE [Account!Next]_(Account!vars)
  <2>1. CASE LookupFound(c)
    <3>1. released[c] \in SUBSET Bids /\ \A b \in released[c] : status[b] = "reserved"
      BY DEF IInv, TypeOK, LockDiscipline
    <3>2. QED BY <2>1, <3>1, GiveBackAccount DEF LookupFound
  <2>2. CASE Commit(c)
    BY <2>2, CommitReservationAccount DEF Commit
  <2>3. CASE SettleCommit(c)
    BY <2>3, SettlementAccount DEF SettleCommit
  <2>4. CASE PostSnapshot(c) \/ PostAlready(c)
    BY <1>3, <2>4 DEF PostSnapshot, PostAlready, AutocommitCleanup
  <2>5. CASE ~(LookupFound(c) \/ Commit(c) \/ SettleCommit(c) \/ PostSnapshot(c) \/ PostAlready(c))
    BY <1>1, <1>4, <2>5
    DEF CallStep, ReserveStep, SettleStep, Connect, ConnectTimeout, Cleanup, LookupNotFound,
        SnapshotAllows, SnapshotRefuses, Insert, InsertConflict, PostSnapshotTimeout, SettleLock,
        SettleRefused, Rollback
  <2>6. QED BY <2>1, <2>2, <2>3, <2>4, <2>5
<1>5. ASSUME NEW c \in Calls, CommitAckLost(c) PROVE Account!Next
  BY <1>5, CommitReservationAccount, SettlementAccount DEF CommitAckLost
<1>6. CASE DashboardCleanup
  BY <1>3, <1>6 DEF DashboardCleanup, AutocommitCleanup
<1>7. ASSUME \/ \E c \in Calls : \/ StatementFails(c)
                                 \/ \E b \in Bids : \/ ReserveStart(c, b)
                                                    \/ \E usd \in ChargesUsd[b] : SettleStart(c, b, usd)
             \/ \E i \in Instances : Crash(i)
             \/ \E k \in Campaigns, config \in Upserts : UpsertCampaign(k, config)
             \/ UpsertLimits \/ UpsertFails \/ Tick
             \/ UNCHANGED vars
      PROVE  UNCHANGED tables
  BY <1>7 DEF StatementFails, Rollback, ReserveStart, SettleStart, Crash, UpsertCampaign,
              UpsertLimits, UpsertFails, Tick, vars
<1>8. QED BY <1>1, <1>4, <1>5, <1>6, <1>7 DEF Next

(* The budget transactions implement the account: under every interleaving,
   failure and crash a bid is opened once, and then released or charged once. *)
THEOREM ImplementsBudgetAccount == Spec => ImplementsAccount
<1>1. Init => IInv
  <2>1. Init => TypeOK
    BY ConstantsAssumption DEF Init, TypeOK, EntryTypes, Outcomes
  <2>2. Init => LockDiscipline /\ LedgerTellsStatus
    BY DEF Init, LockDiscipline, Locks, LedgerTellsStatus, EntryTypes, None
  <2>3. QED BY <2>1, <2>2 DEF IInv
<1>2. Init => ChargeInv
  BY DEF Init, ChargeInv, InSettle
<1>3. Init => Account!Init
  BY DEF Init, Account!Init, AccountOf, EntryTypes
<1>4. QED
  BY <1>1, <1>2, <1>3, IInvNext, ChargeNext, AccountStep, PTL
  DEF Spec, ImplementsAccount, Account!Spec

-------------------------------------------------------------------------------
(* How many there are. *)
LEMMA Fewer ==
  ASSUME NEW T, IsFiniteSet(T), NEW S \in SUBSET T
  PROVE  /\ IsFiniteSet(S) /\ Cardinality(S) \in Nat /\ Cardinality(T) \in Nat
         /\ Cardinality(S) <= Cardinality(T)
BY FS_Subset, FS_CardinalityType

LEMMA OneMore ==
  ASSUME NEW S, IsFiniteSet(S), NEW x
  PROVE  IsFiniteSet(S \cup {x}) /\ Cardinality(S \cup {x}) <= Cardinality(S) + 1
<1>1. IsFiniteSet(S \cup {x}) /\ Cardinality(S \cup {x}) = IF x \in S THEN Cardinality(S) ELSE Cardinality(S) + 1
  BY FS_AddElement
<1>2. Cardinality(S) \in Nat
  BY FS_CardinalityType
<1> QED BY <1>1, <1>2

-------------------------------------------------------------------------------
(***************************************************************************)
(* Sums of amounts.  An amount is as many units as it says, so that a sum  *)
(* is the number of elements of a set.                                     *)
(***************************************************************************)
Units(f, S) == UNION {{b} \X (1 .. f[b]) : b \in S}

LEMMA UnitsFinite ==
  ASSUME NEW S, IsFiniteSet(S), NEW f, \A b \in S : f[b] \in Nat
  PROVE  IsFiniteSet(Units(f, S))
<1> DEFINE Part(b) == {b} \X (1 .. f[b])
           parts == {Part(b) : b \in S}
<1>1. IsFiniteSet(parts)
  <2> DEFINE g == [b \in S |-> Part(b)]
  <2>1. g \in Surjection(S, parts)
    BY DEF Surjection
  <2> QED BY <2>1, FS_Surjection
<1>2. ASSUME NEW b \in S PROVE IsFiniteSet(Part(b))
  <2>1. 1 \in Int /\ f[b] \in Int
    BY <1>2
  <2>2. IsFiniteSet(1 .. f[b])
    BY <2>1, FS_Interval, Zenon
  <2>3. IsFiniteSet({b})
    BY FS_Singleton, Zenon
  <2> QED BY <2>2, <2>3, FS_Product
<1>3. \A T \in parts : IsFiniteSet(T)
  BY <1>2
<1>4. IsFiniteSet(UNION parts)
  BY <1>1, <1>3, FS_UNION
<1> QED BY <1>4 DEF Units

LEMMA SumIsCount == \A f, S : Sum(f, S) = Cardinality(Units(f, S))
BY DEF Sum, Units

LEMMA SumType ==
  ASSUME NEW S, IsFiniteSet(S), NEW f, \A b \in S : f[b] \in Nat
  PROVE  Sum(f, S) \in Nat
BY UnitsFinite, SumIsCount, FS_CardinalityType

\* Of fewer amounts, none of which is larger, the sum is not larger.
LEMMA SumMonotone ==
  ASSUME NEW T, IsFiniteSet(T), NEW S \in SUBSET T, NEW f, NEW g,
         \A b \in S : f[b] \in Nat, \A b \in T : g[b] \in Nat, \A b \in S : f[b] <= g[b]
  PROVE  Sum(f, S) <= Sum(g, T)
<1>1. Units(f, S) \subseteq Units(g, T)
  <2> SUFFICES ASSUME NEW x \in Units(f, S) PROVE x \in Units(g, T)
    OBVIOUS
  <2>1. PICK b \in S : x \in {b} \X (1 .. f[b])
    BY DEF Units
  <2>2. x \in {b} \X (1 .. g[b])
    BY <2>1
  <2> QED BY <2>2 DEF Units
<1>2. IsFiniteSet(Units(g, T))
  BY UnitsFinite
<1> QED BY <1>1, <1>2, FS_Subset, SumIsCount

LEMMA SumUnion ==
  ASSUME NEW S, IsFiniteSet(S), NEW T, IsFiniteSet(T), NEW f, \A b \in S \cup T : f[b] \in Nat
  PROVE  /\ Sum(f, S \cup T) <= Sum(f, S) + Sum(f, T)
         /\ S \cap T = {} => Sum(f, S \cup T) = Sum(f, S) + Sum(f, T)
<1>1. IsFiniteSet(Units(f, S)) /\ IsFiniteSet(Units(f, T))
  BY UnitsFinite
<1>2. Units(f, S \cup T) = Units(f, S) \cup Units(f, T)
  BY DEF Units
<1>3. Cardinality(Units(f, S) \cup Units(f, T)) =
        Cardinality(Units(f, S)) + Cardinality(Units(f, T)) - Cardinality(Units(f, S) \cap Units(f, T))
  BY <1>1, FS_Union
<1>4. /\ IsFiniteSet(Units(f, S) \cap Units(f, T))
      /\ Cardinality(Units(f, S) \cap Units(f, T)) \in Nat
      /\ Cardinality(Units(f, S)) \in Nat /\ Cardinality(Units(f, T)) \in Nat
  BY <1>1, FS_Intersection, FS_CardinalityType
<1>5. S \cap T = {} => Units(f, S) \cap Units(f, T) = {}
  <2> SUFFICES ASSUME S \cap T = {}, NEW x \in Units(f, S), x \in Units(f, T) PROVE FALSE
    OBVIOUS
  <2>1. PICK b \in S : x \in {b} \X (1 .. f[b])
    BY DEF Units
  <2>2. PICK d \in T : x \in {d} \X (1 .. f[d])
    BY DEF Units
  <2>3. x[1] = b /\ x[1] = d
    BY <2>1, <2>2
  <2> QED BY <2>3
<1>6. S \cap T = {} => Cardinality(Units(f, S) \cap Units(f, T)) = 0
  BY <1>5, FS_EmptySet
<1>7. /\ Sum(f, S \cup T) = Cardinality(Units(f, S) \cup Units(f, T))
      /\ Sum(f, S) = Cardinality(Units(f, S)) /\ Sum(f, T) = Cardinality(Units(f, T))
  BY <1>2, SumIsCount
<1> QED BY <1>3, <1>4, <1>6, <1>7

LEMMA SumOne ==
  ASSUME NEW b, NEW f, f[b] \in Nat
  PROVE  Sum(f, {b}) = f[b]
<1>1. Units(f, {b}) = {b} \X (1 .. f[b])
  BY DEF Units
<1> DEFINE units == 1 .. f[b]
<1>2. IsFiniteSet(units) /\ Cardinality(units) = f[b]
  <2>1. 1 \in Int /\ f[b] \in Int
    OBVIOUS
  <2>2. IsFiniteSet(1 .. f[b]) /\ Cardinality(1 .. f[b]) = IF 1 > f[b] THEN 0 ELSE f[b] - 1 + 1
    BY <2>1, FS_Interval, Zenon
  <2> QED BY <2>2
<1>3. IsFiniteSet({b}) /\ Cardinality({b}) = 1
  BY FS_Singleton, Zenon
<1> HIDE DEF units
<1>4. Cardinality({b} \X units) = Cardinality({b}) * Cardinality(units)
  BY <1>2, <1>3, FS_Product
<1>5. Cardinality({b} \X units) = f[b]
  BY <1>2, <1>3, <1>4
<1> QED BY <1>1, <1>5, SumIsCount DEF units

\* No amount is larger than m.
LEMMA SumOfBounded ==
  ASSUME NEW S, IsFiniteSet(S), NEW f, NEW m \in Nat, \A b \in S : f[b] \in Nat /\ f[b] <= m
  PROVE  Sum(f, S) <= Cardinality(S) * m
<1>1. Units(f, S) \subseteq S \X (1 .. m)
  <2> SUFFICES ASSUME NEW x \in Units(f, S) PROVE x \in S \X (1 .. m)
    OBVIOUS
  <2>1. PICK b \in S : x \in {b} \X (1 .. f[b])
    BY DEF Units
  <2> QED BY <2>1
<1>2. IsFiniteSet(1 .. m) /\ Cardinality(1 .. m) = m
  BY FS_Interval
<1>3. IsFiniteSet(S \X (1 .. m)) /\ Cardinality(S \X (1 .. m)) = Cardinality(S) * m
  BY <1>2, FS_Product
<1> QED BY <1>1, <1>3, FS_Subset, SumIsCount

-------------------------------------------------------------------------------
(* The largest reservation. *)
Largest == Max({CpcUsd[b] : b \in Bids})

LEMMA HasLeast ==
  ASSUME NEW S \in SUBSET Nat, S # {}
  PROVE  \E n \in S : \A m \in S : n <= m
<1> DEFINE Less == {pair \in Nat \X Nat : pair[1] < pair[2]}
<1>1. PICK n \in S : \A m \in S : ~ (<<m, n>> \in Less)
  <2>1. IsWellFoundedOn(Less, Nat)
    BY NatLessThanWellFounded DEF OpToRel
  <2> HIDE DEF Less
  <2> QED BY <2>1, WFMin
<1>2. \A m \in S : m < n => <<m, n>> \in Less
  OBVIOUS
<1> HIDE DEF Less
<1>3. ASSUME NEW m \in S PROVE n <= m
  <2>1. ~ (m < n) /\ m \in Nat /\ n \in Nat
    BY <1>1, <1>2
  <2> QED BY <2>1
<1> QED BY <1>3

LEMMA LargestIsBound ==
  ASSUME NEW b0 \in Bids
  PROVE  Largest \in Nat /\ \A b \in Bids : CpcUsd[b] <= Largest
<1> DEFINE Amounts == {CpcUsd[b] : b \in Bids}
           Bounds == {n \in Nat : \A b \in Bids : CpcUsd[b] <= n}
<1>1. \A b \in Bids : CpcUsd[b] \in Nat /\ CpcUsd[b] > 0
  BY ConstantsAssumption
<1>2. Sum(CpcUsd, Bids) \in Bounds
  <2>1. Sum(CpcUsd, Bids) \in Nat
    BY <1>1, ConstantsAssumption, SumType
  <2>2. ASSUME NEW b \in Bids PROVE CpcUsd[b] <= Sum(CpcUsd, Bids)
    <3>1. {b} \in SUBSET Bids
      OBVIOUS
    <3>2. Sum(CpcUsd, {b}) <= Sum(CpcUsd, Bids)
      BY <1>1, <3>1, ConstantsAssumption, SumMonotone
    <3> QED BY <1>1, <3>2, SumOne
  <2> QED BY <2>1, <2>2
<1>3. PICK n \in Bounds : \A m \in Bounds : n <= m
  BY <1>2, HasLeast
<1>4. \E b \in Bids : CpcUsd[b] = n
  <2> SUFFICES ASSUME \A b \in Bids : CpcUsd[b] # n PROVE FALSE
    OBVIOUS
  <2>1. n - 1 \in Bounds
    BY <1>1, <1>3
  <2> QED BY <1>3, <2>1
<1>5. n \in Amounts /\ \A y \in Amounts : n >= y
  BY <1>1, <1>3, <1>4
<1>6. Largest \in Amounts /\ \A y \in Amounts : Largest >= y
  BY <1>5 DEF Largest, Max
<1> QED BY <1>1, <1>6

-------------------------------------------------------------------------------
(* The connections. *)
Connections == Cardinality(Instances) * PoolMax

\* What fits into every pool fits into all of them together.
LEMMA AllPools ==
  ASSUME NEW H \in SUBSET Calls,
         \A i \in Instances : Cardinality({c \in H : InstanceOf[c] = i}) <= PoolMax
  PROVE  IsFiniteSet(H) /\ Cardinality(H) <= Connections
<1> DEFINE Part(i) == {c \in H : InstanceOf[c] = i}
           num == [i \in Instances |-> CHOOSE g : g \in Injection(Part(i), 1 .. PoolMax)]
           place == [c \in H |-> <<InstanceOf[c], num[InstanceOf[c]][c]>>]
<1>1. IsFiniteSet(H)
  BY ConstantsAssumption, FS_Subset
<1>2. PoolMax \in Nat /\ IsFiniteSet(1 .. PoolMax) /\ Cardinality(1 .. PoolMax) = PoolMax
  BY ConstantsAssumption, FS_Interval
<1>3. ASSUME NEW i \in Instances PROVE \E g : g \in Injection(Part(i), 1 .. PoolMax)
  <2> DEFINE n == Cardinality(Part(i))
  <2>1. IsFiniteSet(Part(i)) /\ n \in Nat /\ n <= PoolMax
    BY <1>1, FS_Subset, FS_CardinalityType
  <2> HIDE DEF n
  <2>2. IsFiniteSet(1 .. n) /\ Cardinality(1 .. n) = n
    BY <2>1, FS_Interval
  <2>3. ExistsBijection(Part(i), 1 .. n)
    BY <2>1, <2>2, FS_SameCardinalityBij DEF n
  <2>4. PICK g : g \in Bijection(Part(i), 1 .. n)
    BY <2>3 DEF ExistsBijection
  <2>5. 1 .. n \subseteq 1 .. PoolMax
    BY <1>2, <2>1
  <2>6. g \in Injection(Part(i), 1 .. PoolMax)
    BY <2>4, <2>5 DEF Bijection, Injection, IsInjective
  <2> QED BY <2>6
<1>4. \A i \in Instances : num[i] \in Injection(Part(i), 1 .. PoolMax)
  BY <1>3
<1> HIDE DEF num
<1>5. place \in Injection(H, Instances \X (1 .. PoolMax))
  <2>1. \A c \in H : InstanceOf[c] \in Instances /\ c \in Part(InstanceOf[c])
    BY ConstantsAssumption
  <2>2. \A i \in Instances : num[i] \in [Part(i) -> 1 .. PoolMax] /\ \A c, d \in Part(i) : num[i][c] = num[i][d] => c = d
    BY <1>4 DEF Injection, IsInjective
  <2>3. place \in [H -> Instances \X (1 .. PoolMax)]
    <3>1. \A c \in H : num[InstanceOf[c]][c] \in 1 .. PoolMax
      BY <2>1, <2>2
    <3> QED BY <2>1, <3>1
  <2>4. ASSUME NEW c \in H, NEW d \in H, place[c] = place[d] PROVE c = d
    BY <2>1, <2>2, <2>4
  <2> QED BY <2>3, <2>4 DEF Injection, IsInjective
<1>6. /\ IsFiniteSet(Instances \X (1 .. PoolMax))
      /\ Cardinality(Instances \X (1 .. PoolMax)) = Cardinality(Instances) * PoolMax
  BY <1>2, ConstantsAssumption, FS_Product
<1> QED BY <1>1, <1>5, <1>6, FS_Injection DEF Connections

-------------------------------------------------------------------------------
(***************************************************************************)
(* The bound.  Pending are the calls that have found headroom and not      *)
(* committed.  The invariant says of every set of them that the bound      *)
(* still holds when they all commit (PendingCovered).  A call finds its    *)
(* headroom in rows that do not tell all: those Uncounted were committed   *)
(* after its cleanup by transactions that are older than a reservation     *)
(* lives.  RivalsBounded counts them together with its Rivals, the         *)
(* transactions that may commit beside it: one connection is not both.     *)
(***************************************************************************)
PastCleanup == {"lookup", "snapshotCleanup", "snapshot", "insert", "commit"}
Reserved == {b \in Bids : status[b] = "reserved"}
Pending == {c \in Calls : pc[c] \in {"insert", "commit"} /\ status[bid[c]] = None}
GivenBack(B) == UNION {released[c] : c \in B}
After(B) == (Reserved \ GivenBack(B)) \cup {bid[c] : c \in B}
Uncounted(c) == {b \in Reserved \ released[c] : expiresAt[b] <= startedAt[c]}
Rivals(c) ==
  {d \in Calls \ {c} :
     /\ pc[d] \in InReserve
     /\ startedAt[d] < startedAt[c] \/ pc[d] \in PastCleanup
     /\ released[d] \cap Uncounted(c) = {}}

TimesInLine == \A c \in Calls : startedAt[c] <= now
PoolsHold ==
  \A i \in Instances : Cardinality({c \in Calls : InstanceOf[c] = i /\ HoldsConnection(c)}) <= PoolMax
RivalsBounded ==
  \A c \in Calls : pc[c] \in PastCleanup =>
    Cardinality(Uncounted(c)) + Cardinality(Rivals(c)) <= Connections - 1
BudgetsKnown ==
  /\ \A k \in Campaigns : budget[k].lifetimeUsd > 0 =>
       \E config \in Configs(k) :
         config.lifetimeUsd = budget[k].lifetimeUsd /\ config.dailyUsd = budget[k].dailyUsd
  /\ upsert # <<>> => upsert[2].lifetimeUsd > 0

Total(k, rows, B) == Sum(Kept, rows) + Sum(CpcUsd, After(B) \cap BidsOf(k))
Covered(k, B) ==
  /\ Total(k, BidsOf(k), B) > 0 =>
       \E config \in Configs(k) : Total(k, BidsOf(k), B) <= config.lifetimeUsd + Slack
  /\ Total(k, Today(k), B) > 0 =>
       \E config \in Configs(k) : Total(k, Today(k), B) <= config.dailyUsd + Slack
PendingCovered == \A k \in Campaigns : \A B \in SUBSET Pending : Covered(k, B)

BoundInv == TimesInLine /\ PoolsHold /\ RivalsBounded /\ BudgetsKnown /\ PendingCovered

\* A step that grants nothing: rows stop being reserved, unless an open
\* transaction has given them back, and transactions go on, begin or end.
Calm ==
  /\ expiresAt' = expiresAt /\ now' \in Nat /\ now <= now'
  /\ \A b \in Bids : status'[b] # status[b] =>
       /\ status[b] = "reserved" /\ status'[b] \in {"released", "settled"}
       /\ \A d \in Calls : b \in released[d] => pc'[d] \notin InReserve
  /\ \A d \in Calls :
       \/ pc'[d] \notin InReserve
       \/ pc'[d] = "cleanup" /\ startedAt'[d] = now /\ pc[d] \notin InReserve
       \/ /\ pc[d] \in InReserve /\ (pc'[d] \in PastCleanup => pc[d] \in PastCleanup)
          /\ startedAt'[d] = startedAt[d] /\ released'[d] = released[d] /\ bid'[d] = bid[d]
  /\ \A d \in Calls : startedAt'[d] \in {0, startedAt[d], now}

NothingCharged == charged' = charged /\ settledAt' = settledAt
NoneApproved == \A d \in Calls : pc'[d] \in {"insert", "commit"} => pc[d] \in {"insert", "commit"}
NoneConnected == \A d \in Calls : HoldsConnection(d)' => HoldsConnection(d)

\* The call x commits its reservation, and is done.
Reserves(x) ==
  /\ pc[x] = "commit" /\ CommitReservation(x)
  /\ pc'[x] \notin InReserve /\ startedAt'[x] \in {0, startedAt[x]}
  /\ \A d \in Calls \ {x} : pc'[d] = pc[d] /\ released'[d] = released[d] /\ startedAt'[d] = startedAt[d]
  /\ bid' = bid /\ now' = now

\* Every step is one of these.
LEMMA ReturnCalm ==
  ASSUME IInv, NEW c \in Calls, NEW reason, Return(c, reason), UNCHANGED now, expiresAt' = expiresAt,
         \A b \in Bids : status'[b] # status[b] =>
            /\ status[b] = "reserved" /\ status'[b] \in {"released", "settled"}
            /\ \A d \in Calls \ {c} : b \notin released[d]
  PROVE  Calm /\ NoneApproved /\ NoneConnected
<1> USE DEF IInv, TypeOK
<1>1. /\ pc'[c] = "idle" /\ startedAt'[c] = 0 /\ bid' = bid
      /\ \A d \in Calls \ {c} :
           pc'[d] = pc[d] /\ released'[d] = released[d] /\ startedAt'[d] = startedAt[d]
  BY DEF Return, Goto
<1>2. now' \in Nat /\ now <= now'
  BY ConstantsAssumption
<1>3. "idle" \notin InReserve
  BY DEF InReserve
<1>4. \A d \in Calls :
       \/ pc'[d] \notin InReserve
       \/ pc'[d] = "cleanup" /\ startedAt'[d] = now /\ pc[d] \notin InReserve
       \/ /\ pc[d] \in InReserve /\ (pc'[d] \in PastCleanup => pc[d] \in PastCleanup)
          /\ startedAt'[d] = startedAt[d] /\ released'[d] = released[d] /\ bid'[d] = bid[d]
  BY <1>1, <1>3
<1>5. \A d \in Calls : startedAt'[d] \in {0, startedAt[d], now}
  BY <1>1
<1>6. \A b \in Bids : status'[b] # status[b] =>
       /\ status[b] = "reserved" /\ status'[b] \in {"released", "settled"}
       /\ \A d \in Calls : b \in released[d] => pc'[d] \notin InReserve
  BY <1>1, <1>3
<1>7. Calm
  BY <1>2, <1>4, <1>5, <1>6 DEF Calm
<1>8. NoneApproved /\ NoneConnected
  BY <1>1 DEF NoneApproved, NoneConnected, HoldsConnection, InTransaction, InReserve, InSettle, AfterCommit
<1> QED BY <1>7, <1>8

\* A call that only goes on.
LEMMA AdvanceCalm ==
  ASSUME IInv, NEW c \in Calls, NEW label, Goto(c, label), UNCHANGED <<now, tables, startedAt, released>>,
         \A d \in Calls \ {c} : bid'[d] = bid[d],
         label \in InReserve => pc[c] \in PastCleanup /\ bid'[c] = bid[c]
  PROVE  Calm
<1> USE DEF IInv, TypeOK
<1>1. pc'[c] = label /\ \A d \in Calls \ {c} : pc'[d] = pc[d]
  BY DEF Goto
<1>2. PastCleanup \subseteq InReserve
  BY DEF PastCleanup, InReserve
<1>3. now' \in Nat /\ now <= now'
  BY ConstantsAssumption
<1>4. \A d \in Calls :
       \/ pc'[d] \notin InReserve
       \/ /\ pc[d] \in InReserve /\ (pc'[d] \in PastCleanup => pc[d] \in PastCleanup)
          /\ startedAt'[d] = startedAt[d] /\ released'[d] = released[d] /\ bid'[d] = bid[d]
  BY <1>1, <1>2
<1> QED BY <1>3, <1>4 DEF Calm, tables

\* A settlement ends its call; it held the row alone.
Settles(c) ==
  /\ pc[c] = "settleCommit" /\ CommitSettlement(c) /\ now' = now
  /\ Calm /\ NoneApproved /\ NoneConnected

LEMMA SettlesAlone ==
  ASSUME IInv, NEW c \in Calls, pc[c] = "settleCommit", CommitSettlement(c),
         NEW reason, Return(c, reason), now' = now
  PROVE  Settles(c)
<1> USE DEF IInv, TypeOK
<1>1. expiresAt' = expiresAt /\ \A b \in Bids : status'[b] = IF b = bid[c] THEN "settled" ELSE status[b]
  BY DEF CommitSettlement
<1>2. status[bid[c]] = "reserved" /\ \A d \in Calls \ {c} : bid[c] \notin released[d]
  BY DEF LockDiscipline, Locks
<1>3. \A b \in Bids : status'[b] # status[b] =>
        /\ status[b] = "reserved" /\ status'[b] \in {"released", "settled"}
        /\ \A d \in Calls \ {c} : b \notin released[d]
  BY <1>1, <1>2
<1>4. Calm /\ NoneApproved /\ NoneConnected
  BY <1>1, <1>3, ReturnCalm
<1> QED BY <1>4 DEF Settles

LEMMA GiveBackCalm ==
  ASSUME IInv, NEW S \in SUBSET Bids, \A b \in S : status[b] = "reserved", GiveBack(S)
  PROVE  /\ expiresAt' = expiresAt /\ NothingCharged
         /\ \A b \in Bids : status'[b] # status[b] =>
              b \in S /\ status[b] = "reserved" /\ status'[b] = "released"
BY DEF GiveBack, NothingCharged, IInv, TypeOK

LEMMA CleanupCalm ==
  ASSUME IInv, AutocommitCleanup
  PROVE  /\ expiresAt' = expiresAt /\ NothingCharged
         /\ \A b \in Bids : status'[b] # status[b] =>
              /\ status[b] = "reserved" /\ status'[b] = "released"
              /\ \A d \in Calls : b \notin released[d]
<1>1. Expired \subseteq Bids /\ \A b \in Expired : status[b] = "reserved"
  BY DEF Expired, ExpiredAt
<1>2. GiveBack(Expired)
  BY DEF AutocommitCleanup
<1>3. \A b \in Expired, d \in Calls : b \notin released[d]
  BY DEF AutocommitCleanup, Locks
<1> QED BY <1>1, <1>2, <1>3, GiveBackCalm

\* Nothing at all happens to the tables, the calls or the clock.
LEMMA StillCalm ==
  ASSUME IInv, UNCHANGED <<tables, calls>>, now' \in Nat, now <= now'
  PROVE  Calm /\ NothingCharged /\ NoneApproved /\ NoneConnected
BY DEF Calm, NothingCharged, NoneApproved, NoneConnected, HoldsConnection, tables, calls

LEMMA RollbackCalm ==
  ASSUME IInv, NEW c \in Calls, NEW reason, Rollback(c, reason), UNCHANGED now
  PROVE  Calm /\ NothingCharged /\ NoneApproved /\ NoneConnected
<1>1. UNCHANGED tables /\ Return(c, reason)
  BY DEF Rollback
<1>2. NothingCharged /\ expiresAt' = expiresAt /\ status' = status
  BY <1>1 DEF NothingCharged, tables
<1> QED BY <1>1, <1>2, ReturnCalm

Quiet == Calm /\ NothingCharged /\ NoneApproved /\ NoneConnected

LEMMA LookupFoundQuiet ==
  ASSUME IInv, NEW c \in Calls, LookupFound(c)
  PROVE  Quiet
<1> USE DEF IInv, TypeOK
<1>1. /\ pc'[c] = "postAlready" /\ \A d \in Calls \ {c} : pc'[d] = pc[d]
      /\ pc[c] = "lookup" /\ startedAt' = startedAt /\ bid' = bid /\ now' = now
      /\ \A d \in Calls \ {c} : released'[d] = released[d]
  BY DEF LookupFound, Goto
<1>2. /\ expiresAt' = expiresAt /\ NothingCharged
      /\ \A b \in Bids : status'[b] # status[b] =>
           b \in released[c] /\ status[b] = "reserved" /\ status'[b] = "released"
  <2>1. released[c] \in SUBSET Bids /\ \A b \in released[c] : status[b] = "reserved"
    BY DEF LockDiscipline
  <2>2. GiveBack(released[c])
    BY DEF LookupFound
  <2> QED BY <2>1, <2>2, GiveBackCalm
<1>3. "postAlready" \notin InReserve
  BY DEF InReserve
<1>4. \A b \in released[c], d \in Calls \ {c} : b \notin released[d]
  BY DEF LockDiscipline, Locks
<1>5. \A d \in Calls :
       \/ pc'[d] \notin InReserve
       \/ /\ pc[d] \in InReserve /\ (pc'[d] \in PastCleanup => pc[d] \in PastCleanup)
          /\ startedAt'[d] = startedAt[d] /\ released'[d] = released[d] /\ bid'[d] = bid[d]
  BY <1>1, <1>3
<1>6. \A b \in Bids : status'[b] # status[b] =>
       /\ status[b] = "reserved" /\ status'[b] \in {"released", "settled"}
       /\ \A d \in Calls : b \in released[d] => pc'[d] \notin InReserve
  BY <1>1, <1>2, <1>3, <1>4
<1>7. now' \in Nat /\ now <= now'
  BY <1>1, ConstantsAssumption
<1>8. Calm
  BY <1>1, <1>2, <1>5, <1>6, <1>7 DEF Calm
<1>9. NoneApproved /\ NoneConnected
  BY <1>1 DEF NoneApproved, NoneConnected, HoldsConnection, InTransaction, InReserve, InSettle, AfterCommit
<1> QED BY <1>2, <1>8, <1>9 DEF Quiet

LEMMA CallStepKinds ==
  ASSUME IInv, NEW c \in Calls, CallStep(c)
  PROVE  Quiet \/ Connect(c) \/ Cleanup(c) \/ SnapshotAllows(c)
           \/ (Reserves(c) /\ NothingCharged /\ NoneConnected) \/ Settles(c)
<1> USE DEF IInv, TypeOK
<1>1. ASSUME Rollback(c, "connect_timeout") \/ \E reason : Rollback(c, reason), UNCHANGED now PROVE Quiet
  BY <1>1, RollbackCalm DEF Quiet
<1>2. CASE ConnectTimeout(c)
  BY <1>1, <1>2 DEF ConnectTimeout
<1>3. CASE LookupFound(c)
  BY <1>3, LookupFoundQuiet
<1>4. ASSUME NEW label \in {"snapshotCleanup", "commit", "settleCommit"}, Goto(c, label),
             UNCHANGED <<now, tables, startedAt, released, bid>>,
             pc[c] \in PastCleanup \/ label = "settleCommit", label = "commit" => pc[c] = "insert",
             HoldsConnection(c)
      PROVE  Quiet
  <2>1. label \in InReserve => pc[c] \in PastCleanup
    BY <1>4 DEF InReserve
  <2>2. Calm
    BY <1>4, <2>1, AdvanceCalm
  <2>3. NothingCharged
    BY <1>4 DEF NothingCharged, tables
  <2>4. \A d \in Calls : pc'[d] = IF d = c THEN label ELSE pc[d]
    BY <1>4 DEF Goto
  <2>5. NoneApproved
    BY <1>4, <2>4 DEF NoneApproved
  <2>6. NoneConnected
    BY <1>4, <2>4 DEF NoneConnected, HoldsConnection
  <2> QED BY <2>2, <2>3, <2>5, <2>6 DEF Quiet
<1>5. CASE LookupNotFound(c)
  BY <1>4, <1>5 DEF LookupNotFound, PastCleanup, HoldsConnection, InTransaction, InReserve
<1>6. CASE SnapshotRefuses(c)
  BY <1>1, <1>6 DEF SnapshotRefuses
<1>7. CASE Insert(c)
  BY <1>4, <1>7 DEF Insert, PastCleanup, HoldsConnection, InTransaction, InReserve
<1>8. CASE InsertConflict(c)
  BY <1>1, <1>8 DEF InsertConflict
<1>9. CASE Commit(c)
  <2>1. pc[c] = "commit" /\ CommitReservation(c) /\ startedAt' = startedAt /\ bid' = bid /\ now' = now
    BY <1>9 DEF Commit
  <2>2. \A d \in Calls \ {c} : pc'[d] = pc[d] /\ released'[d] = released[d]
    BY <1>9 DEF Commit, Goto
  <2>3. pc'[c] = "postSnapshot"
    BY <1>9 DEF Commit, Goto
  <2>4. Reserves(c)
    BY <2>1, <2>2, <2>3 DEF Reserves, InReserve
  <2>5. NothingCharged
    BY <2>1 DEF NothingCharged, CommitReservation
  <2>6. NoneConnected
    BY <2>1, <2>2, <2>3 DEF NoneConnected, HoldsConnection, InTransaction, InReserve
  <2> QED BY <2>4, <2>5, <2>6
<1>10. CASE PostSnapshot(c) \/ PostAlready(c)
  <2>1. AutocommitCleanup /\ now' = now /\ \E reason : Return(c, reason)
    BY <1>10 DEF PostSnapshot, PostAlready
  <2> QED BY <2>1, CleanupCalm, ReturnCalm DEF Quiet
<1>11. CASE PostSnapshotTimeout(c)
  BY <1>1, <1>11 DEF PostSnapshotTimeout
<1>12. CASE SettleLock(c)
  BY <1>4, <1>12 DEF SettleLock, HoldsConnection, InTransaction, InSettle
<1>13. CASE SettleRefused(c)
  BY <1>1, <1>13 DEF SettleRefused
<1>14. CASE SettleCommit(c)
  <2>1. pc[c] = "settleCommit" /\ CommitSettlement(c) /\ Return(c, "budget_settled") /\ now' = now
    BY <1>14 DEF SettleCommit
  <2> QED BY <2>1, SettlesAlone
<1> QED
  BY <1>2, <1>3, <1>5, <1>6, <1>7, <1>8, <1>9, <1>10, <1>11, <1>12, <1>13, <1>14
     DEF CallStep, ReserveStep, SettleStep

LEMMA StepKinds ==
  ASSUME IInv, [Next]_vars
  PROVE  \/ Quiet
         \/ \E c \in Calls :
              \/ Connect(c) \/ Cleanup(c) \/ SnapshotAllows(c)
              \/ (Reserves(c) /\ NothingCharged /\ NoneConnected) \/ Settles(c)
<1> USE DEF IInv
<1>0. now \in Nat /\ now <= now
  BY ConstantsAssumption DEF TypeOK
<1>1. CASE UNCHANGED vars
  BY <1>0, <1>1, StillCalm DEF Quiet, vars
<1>2. ASSUME NEW c \in Calls, CallStep(c)
      PROVE  Quiet \/ Connect(c) \/ Cleanup(c) \/ SnapshotAllows(c)
               \/ (Reserves(c) /\ NothingCharged /\ NoneConnected) \/ Settles(c)
  BY <1>2, CallStepKinds
<1>3. ASSUME NEW c \in Calls, StatementFails(c) PROVE Quiet
  BY <1>3, RollbackCalm DEF StatementFails, Quiet
<1>4. ASSUME NEW c \in Calls, CommitAckLost(c)
      PROVE  (Reserves(c) /\ NothingCharged /\ NoneConnected) \/ Settles(c)
  <2>1. now' = now /\ Return(c, ErrorOf(c))
    BY <1>4 DEF CommitAckLost
  <2>2. CASE pc[c] = "settleCommit" /\ CommitSettlement(c)
    BY <2>1, <2>2, SettlesAlone
  <2>3. CASE pc[c] = "commit" /\ CommitReservation(c)
    <3>1. /\ pc'[c] = "idle" /\ startedAt'[c] = 0 /\ bid' = bid
          /\ \A d \in Calls \ {c} :
               pc'[d] = pc[d] /\ released'[d] = released[d] /\ startedAt'[d] = startedAt[d]
      BY <2>1 DEF Return, Goto, TypeOK
    <3>2. Reserves(c)
      BY <2>1, <2>3, <3>1 DEF Reserves, InReserve
    <3>3. NothingCharged /\ NoneConnected
      BY <2>3, <3>1 DEF NothingCharged, CommitReservation, NoneConnected, HoldsConnection,
                        InTransaction, InReserve, InSettle, AfterCommit
    <3> QED BY <3>2, <3>3
  <2> QED BY <1>4, <2>2, <2>3 DEF CommitAckLost
<1>5. ASSUME NEW c \in Calls, pc[c] = "idle", NEW label \in Waiting, Goto(c, label),
             UNCHANGED <<tables, now, startedAt, released>>,
             \A d \in Calls \ {c} : bid'[d] = bid[d]
      PROVE  Quiet
  <2>1. label \notin InReserve
    BY DEF Waiting, InReserve
  <2>2. Calm
    BY <1>5, <2>1, AdvanceCalm
  <2>3. \A d \in Calls : pc'[d] = IF d = c THEN label ELSE pc[d]
    BY <1>5 DEF Goto, TypeOK
  <2>4. NothingCharged /\ NoneApproved /\ NoneConnected
    BY <1>5, <2>3 DEF NothingCharged, NoneApproved, NoneConnected, HoldsConnection, Waiting,
                      InTransaction, InReserve, InSettle, AfterCommit, tables
  <2> QED BY <2>2, <2>4 DEF Quiet
<1>6. ASSUME NEW c \in Calls, NEW b \in Bids, ReserveStart(c, b) PROVE Quiet
  BY <1>5, <1>6 DEF ReserveStart, TypeOK, Waiting
<1>7. ASSUME NEW c \in Calls, NEW b \in Bids, NEW usd \in ChargesUsd[b], SettleStart(c, b, usd) PROVE Quiet
  BY <1>5, <1>7 DEF SettleStart, TypeOK, Waiting
<1>8. ASSUME NEW i \in Instances, Crash(i) PROVE Quiet
  <2>1. UNCHANGED <<tables, now, bid>>
    BY <1>8 DEF Crash
  <2>2. \A d \in Calls :
          \/ pc'[d] = "idle" /\ startedAt'[d] = 0
          \/ pc'[d] = pc[d] /\ released'[d] = released[d] /\ startedAt'[d] = startedAt[d]
    BY <1>8 DEF Crash
  <2>3. "idle" \notin InReserve /\ "idle" \notin InTransaction /\ "idle" \notin AfterCommit
    BY DEF InTransaction, InReserve, InSettle, AfterCommit
  <2>4. Calm
    BY <1>0, <2>1, <2>2, <2>3 DEF Calm, tables
  <2>5. NothingCharged /\ NoneApproved /\ NoneConnected
    BY <2>1, <2>2, <2>3 DEF NothingCharged, NoneApproved, NoneConnected, HoldsConnection, tables
  <2> QED BY <2>4, <2>5 DEF Quiet
<1>9. CASE DashboardCleanup
  <2>1. AutocommitCleanup /\ UNCHANGED <<now, calls>>
    BY <1>9 DEF DashboardCleanup
  <2>2. Calm
    BY <1>0, <2>1, CleanupCalm DEF Calm, calls
  <2>3. NothingCharged /\ NoneApproved /\ NoneConnected
    BY <2>1, CleanupCalm DEF NoneApproved, NoneConnected, HoldsConnection, calls
  <2> QED BY <2>2, <2>3 DEF Quiet
<1>10. ASSUME NEW k \in Campaigns, NEW config \in Upserts, UpsertCampaign(k, config) PROVE Quiet
  BY <1>0, <1>10, StillCalm DEF UpsertCampaign, Quiet
<1>11. CASE UpsertLimits \/ UpsertFails
  BY <1>0, <1>11, StillCalm DEF UpsertLimits, UpsertFails, Quiet
<1>12. CASE Tick
  <2>1. now' = now + 1 /\ UNCHANGED <<tables, calls>>
    BY <1>12 DEF Tick
  <2>2. now' \in Nat /\ now <= now'
    BY <1>0, <2>1
  <2> QED BY <2>1, <2>2, StillCalm DEF Quiet
<1> QED
  BY <1>1, <1>2, <1>3, <1>4, <1>6, <1>7, <1>8, <1>9, <1>10, <1>11, <1>12 DEF Next

-------------------------------------------------------------------------------
(* Transactions do not start in the future. *)
LEMMA TimesNext ==
  ASSUME IInv, TimesInLine, [Next]_vars
  PROVE  TimesInLine'
<1>1. /\ now \in Nat /\ now' \in Nat /\ now <= now'
      /\ \A d \in Calls : startedAt'[d] \in {0, startedAt[d], now} /\ startedAt[d] \in Nat
  <2>1. now \in Nat /\ \A d \in Calls : startedAt[d] \in Nat
    BY ConstantsAssumption DEF IInv, TypeOK
  <2>2. CASE Calm
    BY <2>1, <2>2 DEF Calm
  <2>3. ASSUME NEW c \in Calls, Connect(c) \/ Cleanup(c) \/ SnapshotAllows(c) PROVE <1>1
    BY <2>1, <2>3 DEF Connect, Cleanup, SnapshotAllows, IInv, TypeOK
  <2>4. ASSUME NEW c \in Calls, Reserves(c) PROVE <1>1
    BY <2>1, <2>4 DEF Reserves
  <2> QED BY <2>2, <2>3, <2>4, StepKinds DEF Quiet, Settles
<1> QED BY <1>1 DEF TimesInLine

(* No pool gives out more connections than it has. *)
LEMMA PoolsNext ==
  ASSUME IInv, PoolsHold, [Next]_vars
  PROVE  PoolsHold'
<1> DEFINE Holding(i) == {c \in Calls : InstanceOf[c] = i /\ HoldsConnection(c)}
<1>0. \A i \in Instances : IsFiniteSet(Holding(i))
  BY ConstantsAssumption, FS_Subset
<1>1. CASE NoneConnected
  <2> SUFFICES ASSUME NEW i \in Instances PROVE Cardinality(Holding(i)') <= PoolMax
    BY DEF PoolsHold
  <2>1. Holding(i)' \subseteq Holding(i)
    BY <1>1 DEF NoneConnected
  <2>2. Cardinality(Holding(i)') <= Cardinality(Holding(i))
    BY <1>0, <2>1, FS_Subset
  <2>3. Cardinality(Holding(i)) \in Nat /\ Cardinality(Holding(i)') \in Nat
    BY <1>0, <2>1, FS_Subset, FS_CardinalityType
  <2>4. Cardinality(Holding(i)) <= PoolMax
    BY DEF PoolsHold
  <2> HIDE DEF Holding
  <2> QED BY <2>2, <2>3, <2>4, ConstantsAssumption
<1>2. ASSUME NEW c \in Calls, Connect(c) PROVE PoolsHold'
  <2> SUFFICES ASSUME NEW i \in Instances PROVE Cardinality(Holding(i)') <= PoolMax
    BY DEF PoolsHold
  <2>1. \A d \in Calls \ {c} : HoldsConnection(d)' <=> HoldsConnection(d)
    BY <1>2 DEF Connect, Goto, HoldsConnection, IInv, TypeOK
  <2>2. Cardinality(Holding(i)) \in Nat /\ Cardinality(Holding(i)) <= PoolMax
    BY <1>0, FS_CardinalityType DEF PoolsHold
  <2>3. CASE InstanceOf[c] # i
    <3>1. Holding(i)' = Holding(i)
      BY <2>1, <2>3
    <3> QED BY <2>2, <3>1
  <2>4. CASE InstanceOf[c] = i
    <3>1. Cardinality(Holding(i)) < PoolMax
      BY <1>2, <2>4 DEF Connect, FreeConnection
    <3>2. Holding(i)' \subseteq Holding(i) \cup {c}
      BY <2>1
    <3>3. IsFiniteSet(Holding(i) \cup {c}) /\ Cardinality(Holding(i) \cup {c}) <= Cardinality(Holding(i)) + 1
      BY <1>0, OneMore
    <3>4. Cardinality(Holding(i)') <= Cardinality(Holding(i) \cup {c})
      BY <3>2, <3>3, FS_Subset
    <3>5. Cardinality(Holding(i)') \in Nat /\ Cardinality(Holding(i) \cup {c}) \in Nat
      BY <3>2, <3>3, FS_Subset, FS_CardinalityType
    <3> HIDE DEF Holding
    <3> QED BY <2>2, <3>1, <3>3, <3>4, <3>5, ConstantsAssumption
  <2> QED BY <2>3, <2>4
<1>3. ASSUME NEW c \in Calls, Cleanup(c) \/ SnapshotAllows(c) PROVE NoneConnected
  BY <1>3 DEF Cleanup, SnapshotAllows, Goto, NoneConnected, HoldsConnection, InTransaction, InReserve,
              IInv, TypeOK
<1> QED BY <1>1, <1>2, <1>3, StepKinds DEF Quiet, Settles

(* A campaign's limits are those of one configuration. *)
LEMMA BudgetsNext ==
  ASSUME IInv, BudgetsKnown, [Next]_vars
  PROVE  BudgetsKnown'
<1> USE DEF IInv
<1>1. CASE UNCHANGED admin
  BY <1>1 DEF BudgetsKnown, Configs, admin
<1>2. ASSUME NEW k \in Campaigns, NEW config \in Upserts, UpsertCampaign(k, config) PROVE BudgetsKnown'
  <2>1. \A j \in Campaigns :
          budget'[j].lifetimeUsd = budget[j].lifetimeUsd /\ budget'[j].dailyUsd = budget[j].dailyUsd
    BY <1>2 DEF UpsertCampaign, TypeOK, Budgets
  <2>2. upsert' = <<k, config>> /\ config.lifetimeUsd > 0
    BY <1>2 DEF UpsertCampaign
  <2> QED BY <2>1, <2>2 DEF BudgetsKnown, Configs
<1>3. CASE UpsertLimits
  <2>1. upsert # <<>> /\ upsert' = <<>>
    BY <1>3 DEF UpsertLimits
  <2>2. upsert[1] \in Campaigns /\ upsert[2] \in Upserts
    BY <2>1 DEF TypeOK
  <2>3. upsert[2] \in Configs(upsert[1])
    BY <2>1, <2>2 DEF BudgetsKnown, Configs
  <2>4. /\ budget'[upsert[1]].lifetimeUsd = upsert[2].lifetimeUsd
        /\ budget'[upsert[1]].dailyUsd = upsert[2].dailyUsd
        /\ \A j \in Campaigns \ {upsert[1]} : budget'[j] = budget[j]
    BY <1>3, <2>2 DEF UpsertLimits, TypeOK, Budgets
  <2>5. \A j \in Campaigns : Configs(j)' = Configs(j)
    BY DEF Configs
  <2>6. ASSUME NEW j \in Campaigns, budget'[j].lifetimeUsd > 0
        PROVE  \E config \in Configs(j)' :
                 config.lifetimeUsd = budget'[j].lifetimeUsd /\ config.dailyUsd = budget'[j].dailyUsd
    <3>1. CASE j = upsert[1]
      BY <2>3, <2>4, <2>5, <3>1
    <3>2. CASE j # upsert[1]
      BY <2>4, <2>5, <2>6, <3>2 DEF BudgetsKnown
    <3> QED BY <3>1, <3>2
  <2> QED BY <2>1, <2>6 DEF BudgetsKnown
<1>4. CASE UpsertFails
  BY <1>4 DEF UpsertFails, BudgetsKnown, Configs
<1>5. ASSUME NEW c \in Calls, CallStep(c) PROVE UNCHANGED admin
  BY <1>5 DEF CallStep, ReserveStep, SettleStep, Connect, ConnectTimeout, Cleanup, LookupFound, LookupNotFound,
              SnapshotAllows, SnapshotRefuses, Insert, InsertConflict, Commit, PostSnapshot,
              PostSnapshotTimeout, PostAlready, SettleLock, SettleRefused, SettleCommit
<1>6. ASSUME NEW c \in Calls, StatementFails(c) \/ CommitAckLost(c) PROVE UNCHANGED admin
  BY <1>6 DEF StatementFails, CommitAckLost
<1>7. ASSUME NEW c \in Calls, NEW b \in Bids,
             ReserveStart(c, b) \/ \E usd \in ChargesUsd[b] : SettleStart(c, b, usd)
      PROVE  UNCHANGED admin
  BY <1>7 DEF ReserveStart, SettleStart
<1>8. ASSUME NEW i \in Instances, Crash(i) PROVE UNCHANGED admin
  BY <1>8 DEF Crash
<1>9. CASE DashboardCleanup \/ Tick \/ UNCHANGED vars
  BY <1>1, <1>9 DEF DashboardCleanup, Tick, vars
<1> QED BY <1>1, <1>2, <1>3, <1>4, <1>5, <1>6, <1>7, <1>8, <1>9 DEF Next

-------------------------------------------------------------------------------
LEMMA HoldersCount ==
  ASSUME PoolsHold
  PROVE  LET H == {c \in Calls : HoldsConnection(c)}
         IN  IsFiniteSet(H) /\ Cardinality(H) <= Connections
<1> DEFINE H == {c \in Calls : HoldsConnection(c)}
<1>1. \A i \in Instances : {c \in H : InstanceOf[c] = i} = {c \in Calls : InstanceOf[c] = i /\ HoldsConnection(c)}
  OBVIOUS
<1>2. \A i \in Instances : Cardinality({c \in H : InstanceOf[c] = i}) <= PoolMax
  BY <1>1 DEF PoolsHold
<1>3. H \in SUBSET Calls
  OBVIOUS
<1> HIDE DEF H
<1>4. IsFiniteSet(H) /\ Cardinality(H) <= Connections
  BY <1>2, <1>3, AllPools
<1> QED BY <1>4 DEF H

LEMMA ConnectionsType == Connections \in Nat
<1>1. Cardinality(Instances) \in Nat /\ PoolMax \in Nat
  BY ConstantsAssumption, FS_CardinalityType
<1> QED BY <1>1 DEF Connections

\* Whoever holds a connection, one of them is c's own.
LEMMA OthersCount ==
  ASSUME PoolsHold, NEW c \in Calls, HoldsConnection(c),
         NEW S \in SUBSET Calls, \A d \in S : d # c /\ HoldsConnection(d)
  PROVE  IsFiniteSet(S) /\ Cardinality(S) <= Connections - 1
<1> DEFINE H == {d \in Calls : HoldsConnection(d)}
<1>1. IsFiniteSet(H) /\ Cardinality(H) <= Connections
  BY HoldersCount
<1>2. c \in H /\ S \subseteq H \ {c}
  OBVIOUS
<1> HIDE DEF H
<1>3. IsFiniteSet(H \ {c}) /\ Cardinality(H \ {c}) = Cardinality(H) - 1
  BY <1>1, <1>2, FS_RemoveElement
<1>4. Cardinality(H) \in Nat
  BY <1>1, FS_CardinalityType
<1>5. IsFiniteSet(S) /\ Cardinality(S) \in Nat /\ Cardinality(S) <= Cardinality(H \ {c})
  BY <1>2, <1>3, Fewer
<1> QED BY <1>1, <1>3, <1>4, <1>5, ConnectionsType

LEMMA CountsFinite ==
  ASSUME NEW c
  PROVE  /\ IsFiniteSet(Uncounted(c)) /\ Cardinality(Uncounted(c)) \in Nat
         /\ IsFiniteSet(Rivals(c)) /\ Cardinality(Rivals(c)) \in Nat
<1>1. Uncounted(c) \in SUBSET Bids /\ Rivals(c) \in SUBSET Calls
  BY DEF Uncounted, Rivals, Reserved
<1> QED BY <1>1, Fewer, ConstantsAssumption

LEMMA RivalsCalm ==
  ASSUME IInv, TimesInLine, Calm, NEW c \in Calls, pc'[c] \in PastCleanup
  PROVE  pc[c] \in PastCleanup /\ Uncounted(c)' \subseteq Uncounted(c) /\ Rivals(c)' \subseteq Rivals(c)
<1> USE DEF IInv, TypeOK
<1>0. PastCleanup \subseteq InReserve /\ "cleanup" \notin PastCleanup
  BY DEF PastCleanup, InReserve
<1>1. pc[c] \in PastCleanup /\ startedAt'[c] = startedAt[c] /\ released'[c] = released[c]
  BY <1>0 DEF Calm
<1>2. Uncounted(c)' \subseteq Uncounted(c)
  BY <1>1 DEF Calm, Uncounted, Reserved
<1>3. ASSUME NEW d \in Calls \ {c}, d \in Rivals(c)' PROVE d \in Rivals(c)
  <2>1. released'[d] \cap Uncounted(c)' = {}
    BY <1>3 DEF Rivals
  <2>2. /\ pc'[d] \in InReserve /\ (startedAt'[d] < startedAt[c] \/ pc'[d] \in PastCleanup)
    BY <1>0, <1>1, <1>3 DEF Rivals
  <2>3. ~ (pc'[d] = "cleanup" /\ startedAt'[d] = now)
    <3>1. startedAt[c] <= now /\ now \in Nat /\ startedAt[c] \in Nat
      BY ConstantsAssumption DEF TimesInLine
    <3> QED BY <1>0, <2>2, <3>1
  <2>4. /\ pc[d] \in InReserve /\ (pc'[d] \in PastCleanup => pc[d] \in PastCleanup)
        /\ startedAt'[d] = startedAt[d] /\ released'[d] = released[d]
    BY <2>2, <2>3 DEF Calm
  <2>5. ASSUME NEW b \in released[d], b \in Uncounted(c) PROVE b \in Uncounted(c)'
    <3>1. b \in Bids /\ status'[b] = status[b]
      BY <2>2, <2>5 DEF Calm, Uncounted, Reserved
    <3> QED BY <1>1, <2>5, <3>1 DEF Calm, Uncounted, Reserved
  <2>6. released[d] \cap Uncounted(c) = {}
    BY <2>1, <2>4, <2>5
  <2> QED BY <2>2, <2>4, <2>6 DEF Rivals
<1>4. Rivals(c)' \subseteq Rivals(c)
  BY <1>3 DEF Rivals
<1> QED BY <1>1, <1>2, <1>4

LEMMA ConnectCalm ==
  ASSUME IInv, NEW c \in Calls, Connect(c)
  PROVE  Calm /\ NothingCharged /\ NoneApproved
<1> USE DEF IInv, TypeOK
<1>1. /\ pc[c] \notin InReserve /\ pc'[c] \in {"cleanup", "settleLock"} /\ startedAt'[c] = now
      /\ \A d \in Calls \ {c} : pc'[d] = pc[d] /\ startedAt'[d] = startedAt[d]
      /\ UNCHANGED <<tables, released, bid, now>>
  BY DEF Connect, Goto, Waiting, InReserve
<1>2. "settleLock" \notin InReserve /\ now \in Nat /\ now <= now
  BY ConstantsAssumption DEF InReserve
<1>3. Calm
  BY <1>1, <1>2 DEF Calm, tables
<1> QED BY <1>1, <1>3 DEF NothingCharged, NoneApproved, tables

LEMMA SnapshotCalm ==
  ASSUME IInv, NEW c \in Calls, SnapshotAllows(c)
  PROVE  Calm /\ NothingCharged
<1>1. /\ Goto(c, "insert") /\ UNCHANGED <<now, tables, startedAt, released>> /\ bid' = bid
      /\ pc[c] \in PastCleanup
  BY DEF SnapshotAllows, PastCleanup
<1>2. Calm
  BY <1>1, AdvanceCalm
<1> QED BY <1>1, <1>2 DEF NothingCharged, tables

LEMMA RivalsReserve ==
  ASSUME IInv, NEW x \in Calls, Reserves(x), NEW c \in Calls, pc'[c] \in PastCleanup
  PROVE  /\ pc[c] \in PastCleanup
         /\ Cardinality(Uncounted(c)') + Cardinality(Rivals(c)') <= Cardinality(Uncounted(c)) + Cardinality(Rivals(c))
<1> USE DEF IInv, TypeOK
<1>0. PastCleanup \subseteq InReserve /\ pc[x] \in PastCleanup
  BY DEF PastCleanup, InReserve, Reserves
<1>1. /\ c # x /\ pc[c] \in PastCleanup /\ pc'[c] = pc[c]
      /\ startedAt'[c] = startedAt[c] /\ released'[c] = released[c]
  BY <1>0 DEF Reserves
<1>2. bid[x] \in Bids /\ status[bid[x]] = None /\ \A b \in released[x] : status[b] = "reserved"
  BY DEF Reserves, LockDiscipline
<1>3. \A b \in Bids : /\ status'[b] = IF b = bid[x] THEN "reserved"
                                      ELSE IF b \in released[x] THEN "released" ELSE status[b]
                      /\ expiresAt'[b] = IF b = bid[x] THEN startedAt[x] + ReservationTtl ELSE expiresAt[b]
  BY DEF Reserves, CommitReservation
<1> DEFINE U == Uncounted(c)  U1 == Uncounted(c)'  R == Rivals(c)  R1 == Rivals(c)'
<1>4. /\ IsFiniteSet(U) /\ Cardinality(U) \in Nat /\ IsFiniteSet(R) /\ Cardinality(R) \in Nat
  BY CountsFinite
<1>5. U1 \subseteq (U \ released[x]) \cup {bid[x]}
  BY <1>1, <1>3 DEF Uncounted, Reserved
<1>6. bid[x] \in U1 => startedAt[x] < startedAt[c]
  <2>1. startedAt[x] \in Nat /\ startedAt[c] \in Nat /\ ReservationTtl \in Nat \ {0}
    BY ConstantsAssumption
  <2>2. bid[x] \in U1 => startedAt[x] + ReservationTtl <= startedAt[c]
    BY <1>1, <1>2, <1>3 DEF Uncounted
  <2> QED BY <2>1, <2>2
<1>7. ASSUME NEW d \in R1 PROVE d \in R \ {x}
  <2>1. d \in Calls \ {c} /\ pc'[d] \in InReserve /\ released'[d] \cap U1 = {}
    BY <1>7 DEF Rivals
  <2>2. d # x
    BY <2>1 DEF Reserves
  <2>3. pc'[d] = pc[d] /\ released'[d] = released[d] /\ startedAt'[d] = startedAt[d]
    BY <2>1, <2>2 DEF Reserves
  <2>4. released[d] \cap released[x] = {}
    BY <2>1, <2>2 DEF LockDiscipline, Locks
  <2>5. ASSUME NEW b \in released[d], b \in U PROVE b \in U1
    <3>1. b \in Bids /\ status[b] = "reserved" /\ b \notin released[x]
      BY <2>4, <2>5 DEF Uncounted, Reserved
    <3>2. b # bid[x]
      BY <1>2, <3>1 DEF None
    <3> QED BY <1>1, <1>3, <2>5, <3>1, <3>2 DEF Uncounted, Reserved
  <2>6. released[d] \cap U = {}
    BY <2>1, <2>3, <2>5
  <2>7. startedAt[d] < startedAt[c] \/ pc[d] \in PastCleanup
    BY <1>1, <1>7, <2>3 DEF Rivals
  <2> QED BY <2>1, <2>2, <2>3, <2>6, <2>7 DEF Rivals
<1>8. x \in Calls \ {c} /\ pc[x] \in InReserve /\ pc[x] \in PastCleanup
  BY <1>0, <1>1
<1>9. R = {d \in Calls \ {c} : /\ pc[d] \in InReserve
                               /\ startedAt[d] < startedAt[c] \/ pc[d] \in PastCleanup
                               /\ released[d] \cap U = {}}
  BY DEF Rivals
<1> HIDE DEF U, U1, R, R1
<1>10. R1 \in SUBSET (R \ {x})
  BY <1>7
<1>11. CASE x \in R
  <2>1. IsFiniteSet(R \ {x}) /\ Cardinality(R \ {x}) = Cardinality(R) - 1
    BY <1>4, <1>11, FS_RemoveElement
  <2>2. Cardinality(R1) \in Nat /\ Cardinality(R1) <= Cardinality(R \ {x})
    BY <1>10, <2>1, Fewer
  <2>3. IsFiniteSet(U \cup {bid[x]}) /\ Cardinality(U \cup {bid[x]}) <= Cardinality(U) + 1
    BY <1>4, OneMore
  <2>4. U1 \in SUBSET (U \cup {bid[x]})
    BY <1>5
  <2>5. Cardinality(U1) \in Nat /\ Cardinality(U1) <= Cardinality(U \cup {bid[x]}) /\ Cardinality(U \cup {bid[x]}) \in Nat
    BY <2>3, <2>4, Fewer
  <2>6. Cardinality(U1) + Cardinality(R1) <= Cardinality(U) + Cardinality(R)
    BY <1>4, <2>1, <2>2, <2>3, <2>5
  <2> QED BY <1>1, <2>6 DEF U, U1, R, R1
<1>12. CASE x \notin R
  <2>1. R1 \in SUBSET R
    BY <1>10
  <2>2. Cardinality(R1) \in Nat /\ Cardinality(R1) <= Cardinality(R)
    BY <1>4, <2>1, Fewer
  <2>3. Cardinality(U1) \in Nat /\ Cardinality(U1) <= Cardinality(U)
    <3>1. CASE bid[x] \notin U1
      <4>1. U1 \in SUBSET U
        BY <1>5, <3>1
      <4> QED BY <1>4, <4>1, Fewer
    <3>2. CASE bid[x] \in U1
      <4>1. released[x] \cap U # {}
        BY <1>6, <1>8, <1>9, <1>12, <3>2
      <4>2. PICK b : b \in released[x] /\ b \in U
        BY <4>1
      <4>3. U1 \in SUBSET ((U \ {b}) \cup {bid[x]})
        BY <1>5, <4>2
      <4>4. IsFiniteSet(U \ {b}) /\ Cardinality(U \ {b}) = Cardinality(U) - 1
        BY <1>4, <4>2, FS_RemoveElement
      <4>5. IsFiniteSet((U \ {b}) \cup {bid[x]}) /\ Cardinality((U \ {b}) \cup {bid[x]}) <= Cardinality(U \ {b}) + 1
        BY <4>4, OneMore
      <4>6. Cardinality(U1) \in Nat /\ Cardinality(U1) <= Cardinality((U \ {b}) \cup {bid[x]})
             /\ Cardinality((U \ {b}) \cup {bid[x]}) \in Nat
        BY <4>3, <4>5, Fewer
      <4> QED BY <1>4, <4>4, <4>5, <4>6
    <3> QED BY <3>1, <3>2
  <2>4. Cardinality(U1) + Cardinality(R1) <= Cardinality(U) + Cardinality(R)
    BY <1>4, <2>2, <2>3
  <2> QED BY <1>1, <2>4 DEF U, U1, R, R1
<1> QED BY <1>11, <1>12

LEMMA RivalsCleanup ==
  ASSUME IInv, TimesInLine, PoolsHold, RivalsBounded, NEW e \in Calls, Cleanup(e),
         NEW c \in Calls, pc'[c] \in PastCleanup
  PROVE  Cardinality(Uncounted(c)') + Cardinality(Rivals(c)') <= Connections - 1
<1> USE DEF IInv, TypeOK
<1> DEFINE U == Uncounted(c)  U1 == Uncounted(c)'  R == Rivals(c)  R1 == Rivals(c)'
<1>1. /\ pc[e] \in {"cleanup", "snapshotCleanup"} /\ pc'[e] \in PastCleanup
      /\ released'[e] = released[e] \cup ExpiredFor(e)
      /\ \A d \in Calls \ {e} : pc'[d] = pc[d] /\ released'[d] = released[d]
      /\ UNCHANGED <<status, expiresAt, startedAt, now>>
  BY DEF Cleanup, Goto, PastCleanup, tables
<1>2. /\ pc[e] \in InReserve /\ PastCleanup \subseteq InReserve
      /\ \A d \in Calls : pc[d] \in InReserve => HoldsConnection(d)
      /\ pc[e] \in PastCleanup \/ pc[e] = "cleanup"
  BY <1>1 DEF PastCleanup, InReserve, HoldsConnection, InTransaction
<1>3. pc[c] \in InReserve /\ HoldsConnection(c)
  BY <1>1, <1>2
<1>4. R1 \in SUBSET Calls /\ \A d \in R1 : d # c /\ HoldsConnection(d)
  BY <1>1, <1>2 DEF Rivals
<1>5. IsFiniteSet(R1) /\ Cardinality(R1) <= Connections - 1 /\ Cardinality(R1) \in Nat
  BY <1>3, <1>4, OthersCount, FS_CardinalityType
<1>6. startedAt[e] <= now /\ startedAt[c] <= now /\ startedAt[e] \in Nat /\ startedAt[c] \in Nat /\ now \in Nat
  BY ConstantsAssumption DEF TimesInLine
<1>7. ASSUME NEW b \in Reserved, expiresAt[b] <= startedAt[e] PROVE b \in released'[e]
  <2>1. b \in Bids /\ status[b] = "reserved" /\ expiresAt[b] \in Nat
    BY DEF Reserved
  <2>2. b \in ExpiredFor(e)
    BY <1>6, <1>7, <2>1 DEF ExpiredFor, ExpiredAt
  <2> QED BY <1>1, <2>2
<1>8. U1 = {} => Cardinality(U1) = 0
  BY FS_EmptySet
<1>9. CASE c = e
  <2>1. U1 = {}
    BY <1>1, <1>7, <1>9 DEF Uncounted, Reserved
  <2>2. Cardinality(U1) + Cardinality(R1) <= Connections - 1
    BY <1>5, <1>8, <2>1
  <2> QED BY <2>2
<1>10. CASE c # e
  <2>1. U1 = U /\ pc[c] \in PastCleanup
    BY <1>1, <1>10 DEF Uncounted, Reserved
  <2>2. \A d \in Calls \ {e} : d \in R1 => d \in R
    BY <1>1, <1>10, <2>1 DEF Rivals
  <2>3. Cardinality(U) + Cardinality(R) <= Connections - 1
    BY <2>1 DEF RivalsBounded
  <2>4. /\ IsFiniteSet(U) /\ Cardinality(U) \in Nat /\ IsFiniteSet(R) /\ Cardinality(R) \in Nat
    BY CountsFinite
  <2>5. CASE e \in R \/ e \notin R1
    <3>1. R1 \in SUBSET R
      BY <1>4, <2>2, <2>5
    <3>2. Cardinality(R1) <= Cardinality(R)
      BY <2>4, <3>1, Fewer
    <3> HIDE DEF U, U1, R, R1
    <3>3. Cardinality(U1) + Cardinality(R1) <= Connections - 1
      BY <1>5, <2>1, <2>3, <2>4, <3>2, ConnectionsType
    <3> QED BY <3>3 DEF U1, R1
  <2>6. CASE e \notin R /\ e \in R1
    <3>1. released'[e] \cap U = {} /\ e \in Calls \ {c}
      BY <2>1, <2>6 DEF Rivals
    <3>2. released[e] \cap U = {}
      BY <1>1, <3>1
    <3>3. ~ (startedAt[e] < startedAt[c])
      BY <1>2, <2>6, <3>1, <3>2 DEF Rivals
    <3>4. ASSUME NEW b \in U PROVE FALSE
      <4>1. b \in Reserved /\ expiresAt[b] <= startedAt[c] /\ expiresAt[b] \in Nat
        BY DEF Uncounted, Reserved
      <4>2. b \in released'[e]
        BY <1>6, <1>7, <3>3, <4>1
      <4> QED BY <3>1, <4>2
    <3>5. U1 = {}
      BY <2>1, <3>4
    <3>6. Cardinality(U1) + Cardinality(R1) <= Connections - 1
      BY <1>5, <1>8, <3>5
    <3> QED BY <3>6
  <2> QED BY <2>5, <2>6
<1> QED BY <1>9, <1>10

LEMMA RivalsNext ==
  ASSUME IInv, TimesInLine, PoolsHold, RivalsBounded, [Next]_vars
  PROVE  RivalsBounded'
<1> SUFFICES ASSUME NEW c \in Calls, pc'[c] \in PastCleanup
             PROVE  Cardinality(Uncounted(c)') + Cardinality(Rivals(c)') <= Connections - 1
  BY DEF RivalsBounded, Connections
<1>0. /\ IsFiniteSet(Uncounted(c)) /\ Cardinality(Uncounted(c)) \in Nat
      /\ IsFiniteSet(Rivals(c)) /\ Cardinality(Rivals(c)) \in Nat
  BY CountsFinite
<1>1. CASE Calm
  <2>1. pc[c] \in PastCleanup /\ Uncounted(c)' \subseteq Uncounted(c) /\ Rivals(c)' \subseteq Rivals(c)
    BY <1>1, RivalsCalm
  <2>2. /\ Cardinality(Uncounted(c)') \in Nat /\ Cardinality(Uncounted(c)') <= Cardinality(Uncounted(c))
        /\ Cardinality(Rivals(c)') \in Nat /\ Cardinality(Rivals(c)') <= Cardinality(Rivals(c))
    BY <1>0, <2>1, Fewer
  <2>3. Cardinality(Uncounted(c)) + Cardinality(Rivals(c)) <= Connections - 1
    BY <2>1 DEF RivalsBounded
  <2> QED BY <1>0, <2>2, <2>3, ConnectionsType
<1>2. ASSUME NEW x \in Calls, Reserves(x)
      PROVE  Cardinality(Uncounted(c)') + Cardinality(Rivals(c)') <= Connections - 1
  <2>1. /\ pc[c] \in PastCleanup
        /\ Cardinality(Uncounted(c)') + Cardinality(Rivals(c)') <= Cardinality(Uncounted(c)) + Cardinality(Rivals(c))
    BY <1>2, RivalsReserve
  <2>2. Cardinality(Uncounted(c)) + Cardinality(Rivals(c)) <= Connections - 1
    BY <2>1 DEF RivalsBounded
  <2>3. Cardinality(Uncounted(c)') \in Nat /\ Cardinality(Rivals(c)') \in Nat
    <3>1. IsFiniteSet(Bids) /\ IsFiniteSet(Calls)
      BY ConstantsAssumption
    <3>2. Uncounted(c)' \in SUBSET Bids /\ Rivals(c)' \in SUBSET Calls
      BY DEF Uncounted, Rivals, Reserved
    <3> QED BY <3>1, <3>2, Fewer
  <2> QED BY <1>0, <2>1, <2>2, <2>3, ConnectionsType
<1> QED
  BY <1>1, <1>2, StepKinds, ConnectCalm, SnapshotCalm, RivalsCleanup DEF Quiet, Settles

-------------------------------------------------------------------------------
LEMMA Facts ==
  ASSUME IInv
  PROVE  /\ now \in Nat /\ now <= now /\ DayLength \in Nat \ {0}
         /\ \A c \in Calls : bid[c] \in Bids /\ startedAt[c] \in Nat /\ released[c] \in SUBSET Bids
         /\ \A b \in Bids : expiresAt[b] \in Nat /\ settledAt[b] \in Nat
         /\ \A k \in Campaigns : budget[k].lifetimeUsd \in Nat /\ budget[k].dailyUsd \in Nat
<1>1. now \in Nat /\ DayLength \in Nat \ {0}
  BY ConstantsAssumption DEF IInv, TypeOK
<1>2. \A c \in Calls : bid[c] \in Bids /\ startedAt[c] \in Nat /\ released[c] \in SUBSET Bids
  BY DEF IInv, TypeOK
<1>3. \A b \in Bids : expiresAt[b] \in Nat /\ settledAt[b] \in Nat
  BY DEF IInv, TypeOK
<1>4. \A k \in Campaigns : budget[k].lifetimeUsd \in Nat /\ budget[k].dailyUsd \in Nat
  BY DEF IInv, TypeOK, Budgets
<1> QED BY <1>1, <1>2, <1>3, <1>4

\* Of the transactions that have found headroom, all but the rivals of c have
\* given back a row c does not count.
LEMMA RivalCount ==
  ASSUME IInv, NEW c \in Calls, NEW B \in SUBSET (Calls \ {c}),
         \A d \in B : pc[d] \in {"insert", "commit"}
  PROVE  Cardinality(Uncounted(c) \ GivenBack(B)) + Cardinality(B) <= Cardinality(Uncounted(c)) + Cardinality(Rivals(c))
<1> DEFINE U == Uncounted(c)  R == Rivals(c)  G == GivenBack(B)
           taken == [d \in B \ R |-> CHOOSE b : b \in released[d] /\ b \in U]
<1>1. /\ IsFiniteSet(U) /\ Cardinality(U) \in Nat /\ IsFiniteSet(R) /\ Cardinality(R) \in Nat
  BY CountsFinite
<1>2. IsFiniteSet(B) /\ Cardinality(B) \in Nat
  BY Fewer, ConstantsAssumption
<1>3. ASSUME NEW d \in B \ R PROVE \E b : b \in released[d] /\ b \in U
  <2>1. d \in Calls \ {c} /\ pc[d] \in InReserve /\ pc[d] \in PastCleanup
    BY DEF PastCleanup, InReserve
  <2>2. released[d] \cap U # {}
    BY <1>3, <2>1 DEF Rivals
  <2> QED BY <2>2
<1>4. \A d \in B \ R : taken[d] \in released[d] /\ taken[d] \in U
  BY <1>3
<1> HIDE DEF taken
<1>5. taken \in Injection(B \ R, U \cap G)
  <2>1. \A d \in B \ R : taken[d] \in U \cap G
    BY <1>4 DEF GivenBack
  <2>2. taken \in [B \ R -> U \cap G]
    BY <2>1 DEF taken
  <2>3. ASSUME NEW d \in B \ R, NEW e \in B \ R, taken[d] = taken[e] PROVE d = e
    <3>1. taken[d] \in released[d] /\ taken[d] \in released[e]
      BY <1>4, <2>3
    <3> QED BY <3>1 DEF IInv, LockDiscipline, Locks
  <2> QED BY <2>2, <2>3 DEF Injection, IsInjective
<1>6. IsFiniteSet(U \cap G) /\ Cardinality(U \cap G) \in Nat
  BY <1>1, Fewer
<1>7. Cardinality(B \ R) <= Cardinality(U \cap G)
  BY <1>5, <1>6, FS_Injection
<1>8. Cardinality(U \ G) = Cardinality(U) - Cardinality(U \cap G)
  BY <1>1, FS_Difference
<1>9. Cardinality(B \ R) = Cardinality(B) - Cardinality(B \cap R)
  BY <1>2, FS_Difference
<1>10. Cardinality(B \cap R) <= Cardinality(R) /\ Cardinality(B \cap R) \in Nat
  BY <1>1, Fewer
<1> HIDE DEF U, R, G
<1>11. Cardinality(U \ G) + Cardinality(B) <= Cardinality(U) + Cardinality(R)
  BY <1>1, <1>2, <1>6, <1>7, <1>8, <1>9, <1>10
<1> QED BY <1>11 DEF U, R, G

-------------------------------------------------------------------------------
LEMMA LeastOfTwo ==
  ASSUME NEW m \in Nat, NEW n \in Nat
  PROVE  Min({m, n}) \in Nat /\ Min({m, n}) <= m /\ Min({m, n}) <= n
<1>1. \E x \in {m, n} : \A y \in {m, n} : x <= y
  OBVIOUS
<1>2. Min({m, n}) \in {m, n} /\ \A y \in {m, n} : Min({m, n}) <= y
  BY <1>1 DEF Min
<1> QED BY <1>2

LEMMA AmountsType ==
  ASSUME IInv, NEW b \in Bids
  PROVE  /\ CpcUsd[b] \in Nat /\ charged[b] \in Nat /\ Kept[b] \in Nat
         /\ Kept[b] <= charged[b] /\ Kept[b] <= CpcUsd[b]
<1>1. CpcUsd[b] \in Nat /\ charged[b] \in Nat
  BY ConstantsAssumption DEF IInv, TypeOK
<1>2. Kept[b] = Min({charged[b], CpcUsd[b]})
  BY DEF Kept
<1> QED BY <1>1, <1>2, LeastOfTwo

LEMMA DivMonotone ==
  ASSUME NEW m \in Nat, NEW n \in Nat, m <= n, NEW d \in Nat \ {0}
  PROVE  m \div d <= n \div d
<1>1. m \div d \in Nat /\ n \div d \in Nat
  OBVIOUS
<1>2. d * (m \div d) <= m /\ n < d * (n \div d) + d
  OBVIOUS
<1>3. ASSUME m \div d > n \div d PROVE FALSE
  <2> DEFINE p == m \div d  q == n \div d
  <2>1. p >= q + 1 /\ p \in Nat /\ q \in Nat
    BY <1>1, <1>3
  <2>2. d * p <= m /\ n < d * q + d
    BY <1>2
  <2> HIDE DEF p, q
  <2>3. d * p >= d * (q + 1)
    BY <2>1
  <2>4. d * (q + 1) = d * q + d
    BY <2>1
  <2> QED BY <2>1, <2>2, <2>3, <2>4
<1> QED BY <1>1, <1>3

LEMMA TimesMonotone ==
  ASSUME NEW m \in Nat, NEW n \in Int, m <= n, NEW d \in Nat
  PROVE  m * d <= n * d
OBVIOUS

LEMMA Subsets ==
  ASSUME NEW k, NEW B
  PROVE  /\ BidsOf(k) \in SUBSET Bids /\ IsFiniteSet(BidsOf(k))
         /\ Today(k) \in SUBSET BidsOf(k) /\ IsFiniteSet(Today(k))
         /\ After(B) \cap BidsOf(k) \in SUBSET Bids /\ IsFiniteSet(After(B) \cap BidsOf(k))
<1>1. /\ BidsOf(k) \in SUBSET Bids /\ Today(k) \in SUBSET BidsOf(k) /\ After(B) \cap BidsOf(k) \in SUBSET Bids
  BY DEF BidsOf, Today
<1> QED BY <1>1, FS_Subset, ConstantsAssumption

LEMMA TotalType ==
  ASSUME IInv, NEW k, NEW rows \in SUBSET Bids, NEW B
  PROVE  Total(k, rows, B) \in Nat
<1>1. \A b \in Bids : CpcUsd[b] \in Nat /\ Kept[b] \in Nat
  BY AmountsType
<1>2. IsFiniteSet(rows)
  BY ConstantsAssumption, FS_Subset
<1>3. Sum(Kept, rows) \in Nat
  BY <1>1, <1>2, SumType
<1>4. Sum(CpcUsd, After(B) \cap BidsOf(k)) \in Nat
  BY <1>1, Subsets, SumType
<1> QED BY <1>3, <1>4 DEF Total

LEMMA SlackType ==
  ASSUME NEW b \in Bids
  PROVE  Slack \in Int /\ Slack = (Connections - 1) * Largest /\ Largest \in Nat
<1>1. Largest \in Nat
  BY LargestIsBound
<1>2. Slack = (Connections - 1) * Largest
  BY DEF Slack, Connections, Largest
<1> QED BY <1>1, <1>2, ConnectionsType

LEMMA ConnectionsPositive ==
  ASSUME NEW c \in Calls
  PROVE  Connections - 1 \in Nat
<1> DEFINE n == Cardinality(Instances)
<1>1. n \in Nat /\ n # 0 /\ PoolMax \in Nat \ {0}
  <2>1. InstanceOf[c] \in Instances
    BY ConstantsAssumption
  <2> QED BY <2>1, ConstantsAssumption, FS_CardinalityType, FS_EmptySet
<1> HIDE DEF n
<1>2. n * PoolMax \in Nat /\ n * PoolMax >= 1
  BY <1>1
<1> QED BY <1>2 DEF Connections, n

\* Where something is kept or reserved, there is a bid.
LEMMA TotalNeedsBid ==
  ASSUME Bids = {}, NEW k, NEW rows \in SUBSET Bids, NEW B
  PROVE  Total(k, rows, B) = 0
<1>1. rows = {} /\ After(B) \cap BidsOf(k) = {}
  BY DEF BidsOf
<1>2. ASSUME NEW f PROVE Sum(f, {}) = 0
  <2>1. Units(f, {}) = {}
    BY DEF Units
  <2> QED BY <2>1, SumIsCount, FS_EmptySet
<1> QED BY <1>1, <1>2 DEF Total

\* The totals of a set of calls are not larger than those of one before the step.
LEMMA CoveredShrinks ==
  ASSUME IInv, IInv', NEW k \in Campaigns, NEW B, NEW C, Covered(k, C),
         Total(k, BidsOf(k), B)' <= Total(k, BidsOf(k), C),
         Total(k, Today(k), B)' <= Total(k, Today(k), C)
  PROVE  Covered(k, B)'
<1> DEFINE T1 == Total(k, BidsOf(k), B)'  T == Total(k, BidsOf(k), C)
           D1 == Total(k, Today(k), B)'   D == Total(k, Today(k), C)
<1>1. T \in Nat /\ D \in Nat
  <2>1. BidsOf(k) \in SUBSET Bids /\ Today(k) \in SUBSET Bids
    BY DEF BidsOf, Today
  <2> QED BY <2>1, TotalType
<1>2. T1 \in Nat /\ D1 \in Nat
  <2>1. \A b \in Bids : CpcUsd[b] \in Nat /\ Kept'[b] \in Nat
    <3>1. \A b \in Bids : CpcUsd[b] \in Nat /\ charged'[b] \in Nat
      BY ConstantsAssumption DEF IInv, TypeOK
    <3>2. \A b \in Bids : Kept'[b] = Min({charged'[b], CpcUsd[b]})
      BY DEF Kept
    <3> QED BY <3>1, <3>2, LeastOfTwo
  <2>2. BidsOf(k) \in SUBSET Bids /\ Today(k)' \in SUBSET Bids /\ (After(B) \cap BidsOf(k))' \in SUBSET Bids
    BY DEF BidsOf, Today
  <2>3. IsFiniteSet(BidsOf(k)) /\ IsFiniteSet(Today(k)') /\ IsFiniteSet((After(B) \cap BidsOf(k))')
    BY <2>2, ConstantsAssumption, FS_Subset
  <2>4. \A b \in BidsOf(k) : Kept'[b] \in Nat
    BY <2>1, <2>2
  <2>5. \A b \in Today(k)' : Kept'[b] \in Nat
    BY <2>1, <2>2
  <2>6. \A b \in (After(B) \cap BidsOf(k))' : CpcUsd[b] \in Nat
    BY <2>1, <2>2
  <2>7. Sum(Kept', BidsOf(k)) \in Nat
    BY <2>3, <2>4, SumType
  <2>8. Sum(Kept', Today(k)') \in Nat
    BY <2>3, <2>5, SumType
  <2>9. Sum(CpcUsd, (After(B) \cap BidsOf(k))') \in Nat
    BY <2>3, <2>6, SumType
  <2>10. T1 = Sum(Kept', BidsOf(k)) + Sum(CpcUsd, (After(B) \cap BidsOf(k))')
    BY DEF Total, Sum, BidsOf
  <2>11. D1 = Sum(Kept', Today(k)') + Sum(CpcUsd, (After(B) \cap BidsOf(k))')
    BY DEF Total, Sum
  <2> QED BY <2>7, <2>8, <2>9, <2>10, <2>11
<1>3. \A config \in Configs(k) : config.lifetimeUsd \in Nat /\ config.dailyUsd \in Nat
  BY ConstantsAssumption DEF Configs, Budgets
<1>4. \/ Slack \in Int
      \/ T = 0 /\ D = 0
  <2>1. CASE Bids # {}
    BY <2>1, SlackType
  <2>2. CASE Bids = {}
    <3>1. BidsOf(k) \in SUBSET Bids /\ Today(k) \in SUBSET Bids
      BY DEF BidsOf, Today
    <3> QED BY <2>2, <3>1, TotalNeedsBid
  <2> QED BY <2>1, <2>2
<1>5. T1 <= T /\ D1 <= D
  OBVIOUS
<1>6. /\ T > 0 => \E config \in Configs(k) : T <= config.lifetimeUsd + Slack
      /\ D > 0 => \E config \in Configs(k) : D <= config.dailyUsd + Slack
  BY DEF Covered
<1> HIDE DEF T, T1, D, D1
<1>7. T1 > 0 => \E config \in Configs(k) : T1 <= config.lifetimeUsd + Slack
  <2> SUFFICES ASSUME T1 > 0 PROVE \E config \in Configs(k) : T1 <= config.lifetimeUsd + Slack
    OBVIOUS
  <2>1. T > 0 /\ Slack \in Int
    BY <1>1, <1>2, <1>4, <1>5
  <2>2. PICK config \in Configs(k) : T <= config.lifetimeUsd + Slack
    BY <1>6, <2>1
  <2>3. T1 <= config.lifetimeUsd + Slack
    BY <1>1, <1>2, <1>3, <1>5, <2>1, <2>2
  <2> QED BY <2>3
<1>8. D1 > 0 => \E config \in Configs(k) : D1 <= config.dailyUsd + Slack
  <2> SUFFICES ASSUME D1 > 0 PROVE \E config \in Configs(k) : D1 <= config.dailyUsd + Slack
    OBVIOUS
  <2>1. D > 0 /\ Slack \in Int
    BY <1>1, <1>2, <1>4, <1>5
  <2>2. PICK config \in Configs(k) : D <= config.dailyUsd + Slack
    BY <1>6, <2>1
  <2>3. D1 <= config.dailyUsd + Slack
    BY <1>1, <1>2, <1>3, <1>5, <2>1, <2>2
  <2> QED BY <2>3
<1>9. Configs(k)' = Configs(k) /\ Slack' = Slack
  BY DEF Configs, Slack
<1> QED BY <1>7, <1>8, <1>9 DEF Covered, T1, D1

\* Nothing is charged, and what may come to be reserved is not more than before.
LEMMA NothingAdded ==
  ASSUME IInv, IInv', NothingCharged, now <= now', NEW k \in Campaigns, NEW B, NEW C, Covered(k, C),
         (After(B) \cap BidsOf(k))' \subseteq After(C) \cap BidsOf(k)
  PROVE  Covered(k, B)'
<1>1. Kept' = Kept
  BY DEF Kept, NothingCharged
<1>2. Today(k)' \subseteq Today(k)
  <2>1. now \in Nat /\ now' \in Nat /\ DayLength \in Nat \ {0} /\ \A b \in Bids : settledAt[b] \in Nat
    BY ConstantsAssumption DEF IInv, TypeOK
  <2>2. now \div DayLength <= now' \div DayLength
    BY <2>1, DivMonotone
  <2>3. ASSUME NEW b \in Bids PROVE settledAt[b] \div DayLength \in Int
    BY <2>1
  <2>4. now \div DayLength \in Int /\ now' \div DayLength \in Int
    BY <2>1
  <2>5. ASSUME NEW b \in Bids, settledAt[b] \div DayLength >= now' \div DayLength
        PROVE  settledAt[b] \div DayLength >= now \div DayLength
    BY <2>2, <2>3, <2>4, <2>5
  <2>6. Today(k)' = {b \in BidsOf(k) : settledAt[b] \div DayLength >= now' \div DayLength}
    BY DEF Today, NothingCharged, BidsOf
  <2>7. \A b \in BidsOf(k) : b \in Bids
    BY DEF BidsOf
  <2> QED BY <2>5, <2>6, <2>7 DEF Today
<1> DEFINE A1 == (After(B) \cap BidsOf(k))'  A == After(C) \cap BidsOf(k)
           D1 == Today(k)'  D == Today(k)
<1>3. \A b \in Bids : CpcUsd[b] \in Nat /\ Kept[b] \in Nat
  BY AmountsType
<1>4. /\ IsFiniteSet(A) /\ A \subseteq Bids /\ A1 \in SUBSET A
      /\ IsFiniteSet(D) /\ D \subseteq Bids /\ D1 \in SUBSET D
      /\ IsFiniteSet(BidsOf(k)) /\ BidsOf(k) \subseteq Bids
  BY <1>2, Subsets DEF BidsOf, Today
<1> HIDE DEF A1, A, D1, D
<1>5. \A b \in Bids : CpcUsd[b] <= CpcUsd[b] /\ Kept[b] <= Kept[b]
  BY <1>3
<1>6. Sum(CpcUsd, A1) <= Sum(CpcUsd, A) /\ Sum(CpcUsd, A1) \in Nat /\ Sum(CpcUsd, A) \in Nat
  <2>1. \A b \in A : CpcUsd[b] \in Nat
    BY <1>3, <1>4
  <2>2. \A b \in A1 : CpcUsd[b] \in Nat /\ CpcUsd[b] <= CpcUsd[b]
    BY <1>3, <1>4, <1>5
  <2>3. IsFiniteSet(A1)
    BY <1>4, FS_Subset
  <2> QED BY <1>4, <2>1, <2>2, <2>3, SumMonotone, SumType
<1>7. Sum(Kept, D1) <= Sum(Kept, D) /\ Sum(Kept, D1) \in Nat /\ Sum(Kept, D) \in Nat
  <2>1. \A b \in D : Kept[b] \in Nat
    BY <1>3, <1>4
  <2>2. \A b \in D1 : Kept[b] \in Nat /\ Kept[b] <= Kept[b]
    BY <1>3, <1>4, <1>5
  <2>3. IsFiniteSet(D1)
    BY <1>4, FS_Subset
  <2> QED BY <1>4, <2>1, <2>2, <2>3, SumMonotone, SumType
<1>8. Sum(Kept, BidsOf(k)) \in Nat
  BY <1>3, <1>4, SumType
<1>9. Total(k, BidsOf(k), B)' = Sum(Kept', BidsOf(k)) + Sum(CpcUsd, A1)
  BY DEF Total, Sum, BidsOf, A1
<1>10. Total(k, Today(k), B)' = Sum(Kept', D1) + Sum(CpcUsd, A1)
  BY DEF Total, Sum, A1, D1
<1>11. Total(k, BidsOf(k), C) = Sum(Kept, BidsOf(k)) + Sum(CpcUsd, A)
  BY DEF Total, A
<1>12. Total(k, Today(k), C) = Sum(Kept, D) + Sum(CpcUsd, A)
  BY DEF Total, A, D
<1>13. Total(k, BidsOf(k), B)' <= Total(k, BidsOf(k), C)
  BY <1>1, <1>6, <1>8, <1>9, <1>11
<1>14. Total(k, Today(k), B)' <= Total(k, Today(k), C)
  BY <1>1, <1>6, <1>7, <1>10, <1>12
<1> QED BY <1>13, <1>14, CoveredShrinks

-------------------------------------------------------------------------------
LEMMA GivenBackKept ==
  ASSUME NEW B, \A c \in B : released'[c] = released[c]
  PROVE  GivenBack(B)' = GivenBack(B)
<1>1. ASSUME NEW b PROVE b \in GivenBack(B)' <=> b \in GivenBack(B)
  BY DEF GivenBack
<1> QED BY <1>1

LEMMA PendingCalm ==
  ASSUME IInv, Calm, NoneApproved, NEW B \in SUBSET Pending'
  PROVE  B \in SUBSET Pending /\ After(B)' \subseteq After(B)
<1> USE DEF IInv, TypeOK
<1>1. ASSUME NEW c \in B
      PROVE  c \in Pending /\ bid'[c] = bid[c] /\ released'[c] = released[c]
  <2>1. c \in Calls /\ pc'[c] \in {"insert", "commit"} /\ status'[bid'[c]] = None
    BY <1>1 DEF Pending
  <2>2. pc[c] \in {"insert", "commit"} /\ pc'[c] \in InReserve /\ pc'[c] # "cleanup"
    BY <2>1 DEF NoneApproved, InReserve
  <2>3. released'[c] = released[c] /\ bid'[c] = bid[c]
    BY <2>1, <2>2 DEF Calm
  <2>4. status[bid[c]] = None
    BY <2>1, <2>3 DEF Calm, None
  <2> QED BY <2>1, <2>2, <2>3, <2>4 DEF Pending
<1>2. Reserved' \subseteq Reserved
  BY DEF Reserved, Calm
<1>3. GivenBack(B)' = GivenBack(B)
  <2>1. \A c \in B : released'[c] = released[c]
    BY <1>1
  <2> QED BY <2>1, GivenBackKept
<1>4. ASSUME NEW b \in After(B)' PROVE b \in After(B)
  <2>1. CASE b \in Reserved' \ GivenBack(B)'
    BY <1>2, <1>3, <2>1 DEF After
  <2>2. CASE b \notin Reserved' \ GivenBack(B)'
    <3>1. PICK c \in B : b = bid'[c]
      BY <2>2 DEF After
    <3>2. b = bid[c]
      BY <1>1, <3>1
    <3> QED BY <3>2 DEF After
  <2> QED BY <2>1, <2>2
<1> QED BY <1>1, <1>4

LEMMA PendingQuiet ==
  ASSUME IInv, IInv', PendingCovered, Calm, NoneApproved, NothingCharged
  PROVE  PendingCovered'
<1> SUFFICES ASSUME NEW k \in Campaigns, NEW B \in SUBSET Pending' PROVE Covered(k, B)'
  BY DEF PendingCovered
<1>1. B \in SUBSET Pending /\ After(B)' \subseteq After(B)
  BY PendingCalm
<1>2. Covered(k, B)
  BY <1>1 DEF PendingCovered
<1>3. (After(B) \cap BidsOf(k))' \subseteq After(B) \cap BidsOf(k)
  BY <1>1 DEF BidsOf
<1>4. now <= now'
  BY DEF Calm
<1> QED BY <1>2, <1>3, <1>4, NothingAdded

LEMMA PendingCleanup ==
  ASSUME IInv, IInv', PendingCovered, NEW e \in Calls, Cleanup(e)
  PROVE  PendingCovered'
<1> USE DEF IInv, TypeOK
<1> SUFFICES ASSUME NEW k \in Campaigns, NEW B \in SUBSET Pending' PROVE Covered(k, B)'
  BY DEF PendingCovered
<1>1. /\ pc'[e] \in {"lookup", "snapshot"}
      /\ \A d \in Calls \ {e} : pc'[d] = pc[d] /\ released'[d] = released[d]
      /\ UNCHANGED <<status, bid, now, charged, settledAt>>
  BY DEF Cleanup, Goto, tables
<1>2. \A c \in B : c # e /\ c \in Pending
  BY <1>1 DEF Pending
<1>3. \A c \in B : released'[c] = released[c]
  BY <1>1, <1>2 DEF Pending
<1>4. GivenBack(B)' = GivenBack(B) /\ Reserved' = Reserved
  BY <1>1, <1>3, GivenBackKept DEF Reserved
<1>5. (After(B) \cap BidsOf(k))' \subseteq After(B) \cap BidsOf(k)
  BY <1>1, <1>4 DEF After, BidsOf
<1>6. Covered(k, B)
  BY <1>2 DEF PendingCovered
<1>7. NothingCharged /\ now <= now'
  BY <1>1, ConstantsAssumption DEF NothingCharged
<1> QED BY <1>5, <1>6, <1>7, NothingAdded

LEMMA PendingReserve ==
  ASSUME IInv, IInv', PendingCovered, NEW x \in Calls, Reserves(x), NothingCharged
  PROVE  PendingCovered'
<1> SUFFICES ASSUME NEW k \in Campaigns, NEW B \in SUBSET Pending' PROVE Covered(k, B)'
  BY DEF PendingCovered
<1> DEFINE C == B \cup {x}
<1>1. /\ pc[x] = "commit" /\ status[bid[x]] = None /\ \A b \in released[x] : status[b] = "reserved"
      /\ bid[x] \in Bids /\ bid' = bid
  BY Facts DEF Reserves, IInv, LockDiscipline
<1>2. \A b \in Bids : status'[b] = IF b = bid[x] THEN "reserved"
                                   ELSE IF b \in released[x] THEN "released" ELSE status[b]
  BY DEF Reserves, CommitReservation
<1>3. ASSUME NEW c \in B PROVE c # x /\ c \in Pending /\ released'[c] = released[c]
  <2>1. c \in Calls /\ pc'[c] \in {"insert", "commit"} /\ status'[bid[c]] = None
    BY <1>1, <1>3 DEF Pending
  <2>2. c # x
    BY <2>1 DEF Reserves, InReserve
  <2>3. pc'[c] = pc[c] /\ released'[c] = released[c]
    BY <2>1, <2>2 DEF Reserves
  <2>4. bid[c] \in Bids
    BY <2>1, Facts
  <2>5. status[bid[c]] = None
    BY <1>2, <2>1, <2>4 DEF None
  <2> QED BY <2>1, <2>2, <2>3, <2>5 DEF Pending
<1>4. C \in SUBSET Pending
  BY <1>1, <1>3 DEF Pending
<1>5. Reserved' = (Reserved \ released[x]) \cup {bid[x]}
  BY <1>1, <1>2 DEF Reserved
<1>6. GivenBack(B)' = GivenBack(B) /\ GivenBack(C) = GivenBack(B) \cup released[x]
  <2>1. \A c \in B : released'[c] = released[c]
    BY <1>3
  <2>2. GivenBack(C) = GivenBack(B) \cup released[x]
    BY DEF GivenBack
  <2> QED BY <2>1, <2>2, GivenBackKept
<1>7. (After(B) \cap BidsOf(k))' \subseteq After(C) \cap BidsOf(k)
  BY <1>1, <1>5, <1>6 DEF After, BidsOf
<1>8. Covered(k, C)
  BY <1>4 DEF PendingCovered
<1>9. now <= now'
  BY Facts DEF Reserves
<1> HIDE DEF C
<1> QED BY <1>7, <1>8, <1>9, NothingAdded

\* What a settlement charges takes the place of what was reserved for it.
LEMMA SettledInstead ==
  ASSUME NEW f, NEW g, NEW rows \in SUBSET Bids, NEW rows1 \in SUBSET Bids,
         NEW A \in SUBSET Bids, NEW A1 \in SUBSET Bids, NEW x \in Bids,
         \A b \in Bids : f[b] \in Nat /\ g[b] \in Nat,
         \A b \in Bids \ {x} : g[b] = f[b],
         g[x] <= CpcUsd[x],
         x \in A \/ x \notin rows1,
         rows1 \subseteq rows \cup {x}, A1 \subseteq A \ {x}
  PROVE  Sum(g, rows1) + Sum(CpcUsd, A1) <= Sum(f, rows) + Sum(CpcUsd, A)
<1>1. \A b \in Bids : CpcUsd[b] \in Nat
  BY ConstantsAssumption
<1>2. \A S \in SUBSET Bids : IsFiniteSet(S)
  BY ConstantsAssumption, FS_Subset
<1>3. Sum(g, rows1 \ {x}) <= Sum(f, rows)
  <2>1. rows1 \ {x} \in SUBSET rows /\ IsFiniteSet(rows)
    BY <1>2
  <2>2. \A b \in rows1 \ {x} : g[b] \in Nat /\ g[b] <= f[b]
    OBVIOUS
  <2>3. \A b \in rows : f[b] \in Nat
    OBVIOUS
  <2> QED BY <2>1, <2>2, <2>3, SumMonotone
<1>4. /\ Sum(g, rows1) \in Nat /\ Sum(g, rows1 \ {x}) \in Nat /\ Sum(f, rows) \in Nat
      /\ Sum(CpcUsd, A1) \in Nat /\ Sum(CpcUsd, A) \in Nat /\ Sum(CpcUsd, A \ {x}) \in Nat
  <2>1. \A S \in SUBSET Bids : Sum(g, S) \in Nat /\ Sum(f, S) \in Nat /\ Sum(CpcUsd, S) \in Nat
    <3> SUFFICES ASSUME NEW S \in SUBSET Bids
                 PROVE  Sum(g, S) \in Nat /\ Sum(f, S) \in Nat /\ Sum(CpcUsd, S) \in Nat
      OBVIOUS
    <3>1. IsFiniteSet(S) /\ \A b \in S : g[b] \in Nat /\ f[b] \in Nat /\ CpcUsd[b] \in Nat
      BY <1>1, <1>2
    <3> QED BY <3>1, SumType
  <2>2. rows1 \ {x} \in SUBSET Bids /\ A \ {x} \in SUBSET Bids
    OBVIOUS
  <2> QED BY <2>1, <2>2
<1>5. Sum(CpcUsd, A1) <= Sum(CpcUsd, A \ {x})
  <2>1. A1 \in SUBSET (A \ {x}) /\ IsFiniteSet(A \ {x})
    BY <1>2
  <2>2. \A b \in A \ {x} : CpcUsd[b] \in Nat /\ CpcUsd[b] <= CpcUsd[b]
    BY <1>1
  <2>3. \A b \in A1 : CpcUsd[b] \in Nat /\ CpcUsd[b] <= CpcUsd[b]
    BY <2>1, <2>2
  <2> QED BY <2>1, <2>2, <2>3, SumMonotone
<1>6. CASE x \notin rows1
  <2>1. rows1 \ {x} = rows1
    BY <1>6
  <2>2. Sum(CpcUsd, A \ {x}) <= Sum(CpcUsd, A)
    <3>1. A \ {x} \in SUBSET A /\ IsFiniteSet(A)
      BY <1>2
    <3>2. \A b \in A : CpcUsd[b] \in Nat /\ CpcUsd[b] <= CpcUsd[b]
      BY <1>1
    <3>3. \A b \in A \ {x} : CpcUsd[b] \in Nat /\ CpcUsd[b] <= CpcUsd[b]
      BY <3>2
    <3> QED BY <3>1, <3>2, <3>3, SumMonotone
  <2> DEFINE s1 == Sum(g, rows1)  s3 == Sum(f, rows)
             a1 == Sum(CpcUsd, A1)  a2 == Sum(CpcUsd, A \ {x})  a3 == Sum(CpcUsd, A)
  <2>3. s1 \in Nat /\ s3 \in Nat /\ a1 \in Nat /\ a2 \in Nat /\ a3 \in Nat
    BY <1>4
  <2>4. s1 <= s3 /\ a1 <= a2 /\ a2 <= a3
    BY <1>3, <1>5, <2>1, <2>2
  <2> HIDE DEF s1, s3, a1, a2, a3
  <2>5. s1 + a1 <= s3 + a3
    BY <2>3, <2>4
  <2> QED BY <2>5 DEF s1, s3, a1, a3
<1>7. CASE x \in A
  <2>1. Sum(CpcUsd, A) = Sum(CpcUsd, A \ {x}) + CpcUsd[x]
    <3>1. (A \ {x}) \cup {x} = A /\ (A \ {x}) \cap {x} = {}
      BY <1>7
    <3>2. IsFiniteSet(A \ {x}) /\ IsFiniteSet({x})
      BY <1>2
    <3>3. \A b \in (A \ {x}) \cup {x} : CpcUsd[b] \in Nat
      BY <1>1
    <3>4. Sum(CpcUsd, (A \ {x}) \cup {x}) = Sum(CpcUsd, A \ {x}) + Sum(CpcUsd, {x})
      BY <3>1, <3>2, <3>3, SumUnion
    <3>5. Sum(CpcUsd, {x}) = CpcUsd[x]
      BY <1>1, SumOne
    <3> QED BY <3>1, <3>4, <3>5
  <2>2. Sum(g, rows1) <= Sum(g, rows1 \ {x}) + g[x]
    <3>1. rows1 \in SUBSET ((rows1 \ {x}) \cup {x}) /\ IsFiniteSet((rows1 \ {x}) \cup {x})
      BY <1>2
    <3>2. IsFiniteSet(rows1 \ {x}) /\ IsFiniteSet({x})
      BY <1>2
    <3>3. \A b \in (rows1 \ {x}) \cup {x} : g[b] \in Nat /\ g[b] <= g[b]
      OBVIOUS
    <3>4. Sum(g, (rows1 \ {x}) \cup {x}) <= Sum(g, rows1 \ {x}) + Sum(g, {x})
      BY <3>2, <3>3, SumUnion
    <3>5. Sum(g, {x}) = g[x]
      BY SumOne
    <3>6. \A b \in rows1 : g[b] \in Nat /\ g[b] <= g[b]
      BY <3>3
    <3>7. Sum(g, rows1) <= Sum(g, (rows1 \ {x}) \cup {x})
      BY <3>1, <3>3, <3>6, SumMonotone
    <3>8. Sum(g, (rows1 \ {x}) \cup {x}) \in Nat
      BY <3>1, <3>3, SumType
    <3> QED BY <1>4, <3>4, <3>5, <3>7, <3>8
  <2>3. g[x] \in Nat /\ CpcUsd[x] \in Nat /\ g[x] <= CpcUsd[x]
    BY <1>1
  <2> DEFINE s1 == Sum(g, rows1)  s2 == Sum(g, rows1 \ {x})  s3 == Sum(f, rows)
             a1 == Sum(CpcUsd, A1)  a2 == Sum(CpcUsd, A \ {x})  a3 == Sum(CpcUsd, A)
  <2>4. /\ s1 \in Nat /\ s2 \in Nat /\ s3 \in Nat /\ a1 \in Nat /\ a2 \in Nat /\ a3 \in Nat
        /\ s2 <= s3 /\ a1 <= a2
    BY <1>3, <1>4, <1>5
  <2>5. a3 = a2 + CpcUsd[x] /\ s1 <= s2 + g[x]
    BY <2>1, <2>2
  <2> HIDE DEF s1, s2, s3, a1, a2, a3
  <2>6. s1 + a1 <= s3 + a3
    BY <2>3, <2>4, <2>5
  <2> QED BY <2>6 DEF s1, s3, a1, a3
<1> QED BY <1>6, <1>7

LEMMA PendingSettle ==
  ASSUME IInv, IInv', PendingCovered, NEW c \in Calls, Settles(c)
  PROVE  PendingCovered'
<1> USE DEF IInv, TypeOK
<1> SUFFICES ASSUME NEW k \in Campaigns, NEW B \in SUBSET Pending' PROVE Covered(k, B)'
  BY DEF PendingCovered
<1> DEFINE x == bid[c]
<1>1. B \in SUBSET Pending /\ After(B)' \subseteq After(B)
  BY PendingCalm DEF Settles
<1>2. Covered(k, B)
  BY <1>1 DEF PendingCovered
<1>3. /\ x \in Bids /\ status[x] = "reserved" /\ \A d \in Calls : x \notin released[d]
      /\ \A b \in Bids : status'[b] = IF b = x THEN "settled" ELSE status[b]
      /\ \A b \in Bids \ {x} : charged'[b] = charged[b] /\ settledAt'[b] = settledAt[b]
  <2>1. pc[c] = "settleCommit" /\ CommitSettlement(c)
    BY DEF Settles
  <2>2. x \in Bids /\ status[x] = "reserved"
    BY <2>1 DEF LockDiscipline
  <2>3. \A d \in Calls : x \notin released[d]
    <3>1. x \in Locks(c)
      BY <2>1 DEF Locks
    <3>2. released[c] = {}
      BY <2>1 DEF LockDiscipline, InReserve
    <3>3. \A d \in Calls \ {c} : released[d] \cap Locks(c) = {}
      BY DEF LockDiscipline, Locks
    <3> QED BY <3>1, <3>2, <3>3
  <2>4. \A b \in Bids : status'[b] = IF b = x THEN "settled" ELSE status[b]
    BY <2>1 DEF CommitSettlement
  <2>5. \A b \in Bids \ {x} : charged'[b] = charged[b] /\ settledAt'[b] = settledAt[b]
    BY <2>1 DEF CommitSettlement
  <2> QED BY <2>2, <2>3, <2>4, <2>5
<1>4. x \in After(B)
  BY <1>1, <1>3 DEF After, Reserved, GivenBack, Pending
<1>5. x \notin After(B)'
  <2>1. x \notin Reserved'
    BY <1>3 DEF Reserved
  <2>2. ASSUME NEW d \in B, bid'[d] = x PROVE FALSE
    <3>1. status'[x] = None
      BY <2>2 DEF Pending
    <3> QED BY <1>3, <3>1 DEF None
  <2> QED BY <2>1, <2>2 DEF After
<1>6. \A b \in Bids : Kept[b] \in Nat /\ Kept[b] <= CpcUsd[b]
  BY AmountsType
<1>7. ASSUME NEW b \in Bids PROVE Kept'[b] \in Nat /\ Kept'[b] <= CpcUsd[b] /\ (b # x => Kept'[b] = Kept[b])
  <2>1. Kept'[b] = Min({charged'[b], CpcUsd[b]}) /\ Kept[b] = Min({charged[b], CpcUsd[b]})
    BY DEF Kept
  <2>2. charged'[b] \in Nat /\ CpcUsd[b] \in Nat
    BY ConstantsAssumption
  <2>3. Min({charged'[b], CpcUsd[b]}) \in Nat /\ Min({charged'[b], CpcUsd[b]}) <= CpcUsd[b]
    BY <2>2, LeastOfTwo
  <2>4. b # x => charged'[b] = charged[b]
    BY <1>3
  <2> QED BY <2>1, <2>3, <2>4
<1> DEFINE A1 == (After(B) \cap BidsOf(k))'  A == After(B) \cap BidsOf(k)
           D1 == Today(k)'  D == Today(k)  f == Kept  g == Kept'
<1>8. /\ A1 \in SUBSET Bids /\ A \in SUBSET Bids /\ D1 \in SUBSET BidsOf(k) /\ D \in SUBSET Bids
      /\ BidsOf(k) \in SUBSET Bids
  BY DEF BidsOf, Today
<1>9. A1 \subseteq A \ {x} /\ (x \in A \/ x \notin BidsOf(k))
  BY <1>1, <1>4, <1>5 DEF BidsOf
<1>10. D1 \subseteq D \cup {x}
  <2>1. now' = now
    BY DEF Settles
  <2> QED BY <1>3, <2>1 DEF Today, BidsOf
<1>11. /\ Total(k, BidsOf(k), B)' = Sum(g, BidsOf(k)) + Sum(CpcUsd, A1)
       /\ Total(k, Today(k), B)' = Sum(g, D1) + Sum(CpcUsd, A1)
  BY DEF Total, Sum, BidsOf
<1>12. /\ Total(k, BidsOf(k), B) = Sum(f, BidsOf(k)) + Sum(CpcUsd, A)
       /\ Total(k, Today(k), B) = Sum(f, D) + Sum(CpcUsd, A)
  BY DEF Total
<1>13. \A b \in Bids : f[b] \in Nat /\ g[b] \in Nat
  BY <1>6, <1>7
<1>14. (\A b \in Bids \ {x} : g[b] = f[b]) /\ g[x] <= CpcUsd[x]
  BY <1>3, <1>7
<1>15. x \in Bids
  BY <1>3
<1> HIDE DEF A1, A, D1, D, f, g, x
<1>16. Sum(g, BidsOf(k)) + Sum(CpcUsd, A1) <= Sum(f, BidsOf(k)) + Sum(CpcUsd, A)
  BY <1>8, <1>9, <1>13, <1>14, <1>15, SettledInstead
<1>17. D1 \in SUBSET Bids /\ (x \in A \/ x \notin D1)
  BY <1>8, <1>9
<1>18. Sum(g, D1) + Sum(CpcUsd, A1) <= Sum(f, D) + Sum(CpcUsd, A)
  BY <1>8, <1>9, <1>10, <1>13, <1>14, <1>15, <1>17, SettledInstead
<1> QED BY <1>2, <1>11, <1>12, <1>16, <1>18, CoveredShrinks

-------------------------------------------------------------------------------
\* The rows a set of pending calls leaves reserved beside those c has counted
\* are at most as many as the other connections.
LEMMA NotCounted ==
  ASSUME IInv, RivalsBounded, NEW c \in Calls, pc[c] = "snapshot", NEW B \in SUBSET Pending
  PROVE  LET V == (Uncounted(c) \ GivenBack(B)) \cup {bid[d] : d \in B}
         IN  V \in SUBSET Bids /\ IsFiniteSet(V) /\ Cardinality(V) \in Nat /\ Cardinality(V) <= Connections - 1
<1> DEFINE U == Uncounted(c) \ GivenBack(B)  W == {bid[d] : d \in B}  V == U \cup W
           place == [d \in B |-> bid[d]]
<1>1. B \in SUBSET (Calls \ {c}) /\ \A d \in B : pc[d] \in {"insert", "commit"}
  BY DEF Pending
<1>2. Cardinality(U) + Cardinality(B) <= Cardinality(Uncounted(c)) + Cardinality(Rivals(c))
  BY <1>1, RivalCount
<1>3. Cardinality(Uncounted(c)) + Cardinality(Rivals(c)) <= Connections - 1
  BY DEF RivalsBounded, PastCleanup
<1>4. /\ IsFiniteSet(Uncounted(c)) /\ Cardinality(Uncounted(c)) \in Nat
      /\ IsFiniteSet(Rivals(c)) /\ Cardinality(Rivals(c)) \in Nat
  BY CountsFinite
<1>5. IsFiniteSet(U) /\ Cardinality(U) \in Nat
  BY <1>4, Fewer
<1>6. IsFiniteSet(B) /\ Cardinality(B) \in Nat
  BY <1>1, Fewer, ConstantsAssumption
<1>7. place \in Surjection(B, W)
  BY DEF Surjection
<1>8. IsFiniteSet(W) /\ Cardinality(W) <= Cardinality(B) /\ Cardinality(W) \in Nat
  BY <1>6, <1>7, FS_Surjection, FS_CardinalityType
<1>9. V \in SUBSET Bids
  BY <1>1, Facts DEF Uncounted, Reserved
<1> HIDE DEF U, W
<1>10. IsFiniteSet(V) /\ Cardinality(V) = Cardinality(U) + Cardinality(W) - Cardinality(U \cap W)
  BY <1>5, <1>8, FS_Union
<1>11. Cardinality(U \cap W) \in Nat /\ Cardinality(V) \in Nat
  BY <1>5, <1>10, Fewer, FS_CardinalityType
<1>12. Cardinality(V) <= Connections - 1
  BY <1>2, <1>3, <1>4, <1>5, <1>6, <1>8, <1>10, <1>11, ConnectionsType
<1> QED BY <1>9, <1>10, <1>11, <1>12 DEF U, W

\* What may come to be reserved when c, which has found headroom, is pending too.
LEMMA HeadroomHolds ==
  ASSUME IInv, RivalsBounded, NEW c \in Calls, pc[c] = "snapshot", NEW B \in SUBSET Pending,
         NEW A \in SUBSET BidsOf(CampaignOf[bid[c]]),
         A \subseteq (Reserved \ (GivenBack(B) \cup released[c])) \cup {bid[d] : d \in B} \cup {bid[c]}
  PROVE  Sum(CpcUsd, A) <= ReservedOpen(c, CampaignOf[bid[c]]) + Slack + CpcUsd[bid[c]]
<1> DEFINE k == CampaignOf[bid[c]]  x == bid[c]
           O == {b \in BidsOf(k) : ViewStatus(c, b) = "reserved" /\ expiresAt[b] > startedAt[c]}
           V == (Uncounted(c) \ GivenBack(B)) \cup {bid[d] : d \in B}
<1>1. V \in SUBSET Bids /\ IsFiniteSet(V) /\ Cardinality(V) \in Nat /\ Cardinality(V) <= Connections - 1
  BY NotCounted
<1>2. x \in Bids
  BY Facts
<1>3. ASSUME NEW b \in A PROVE b \in O \cup V \cup {x}
  <2>1. CASE b \in Reserved \ (GivenBack(B) \cup released[c])
    <3>1. b \in Bids /\ status[b] = "reserved" /\ b \notin released[c] /\ b \notin GivenBack(B)
      BY <2>1 DEF Reserved
    <3>2. expiresAt[b] \in Nat /\ startedAt[c] \in Nat
      BY <3>1, Facts
    <3>3. CASE expiresAt[b] > startedAt[c]
      BY <3>1, <3>3 DEF ViewStatus
    <3>4. CASE expiresAt[b] <= startedAt[c]
      BY <2>1, <3>1, <3>4 DEF Uncounted
    <3> QED BY <3>2, <3>3, <3>4
  <2>2. CASE b \notin Reserved \ (GivenBack(B) \cup released[c])
    BY <2>2
  <2> QED BY <2>1, <2>2
<1>4. O \in SUBSET Bids
  BY DEF BidsOf
<1>5. ReservedOpen(c, k) = Sum(CpcUsd, O)
  BY DEF ReservedOpen
<1>6. \A b \in Bids : CpcUsd[b] \in Nat
  BY ConstantsAssumption
<1> HIDE DEF O, V, x, k
<1>7. IsFiniteSet(O) /\ IsFiniteSet(V) /\ IsFiniteSet(O \cup V) /\ IsFiniteSet({x}) /\ IsFiniteSet(O \cup V \cup {x})
  <2>1. O \in SUBSET Bids /\ V \in SUBSET Bids /\ O \cup V \in SUBSET Bids /\ {x} \in SUBSET Bids
        /\ O \cup V \cup {x} \in SUBSET Bids
    BY <1>1, <1>2, <1>4
  <2> QED BY <2>1, Fewer, ConstantsAssumption
<1>8. A \in SUBSET (O \cup V \cup {x})
  BY <1>3
<1>9. \A b \in O \cup V \cup {x} : CpcUsd[b] \in Nat /\ CpcUsd[b] <= CpcUsd[b]
  BY <1>1, <1>2, <1>4, <1>6
<1> DEFINE sA == Sum(CpcUsd, A)  sOVX == Sum(CpcUsd, O \cup V \cup {x})  sOV == Sum(CpcUsd, O \cup V)
           sO == Sum(CpcUsd, O)  sV == Sum(CpcUsd, V)
<1>10. sA <= sOVX
  <2>1. \A b \in A : CpcUsd[b] \in Nat /\ CpcUsd[b] <= CpcUsd[b]
    BY <1>8, <1>9
  <2> QED BY <1>7, <1>8, <1>9, <2>1, SumMonotone
<1>11. sOVX <= sOV + CpcUsd[x]
  <2>1. \A b \in (O \cup V) \cup {x} : CpcUsd[b] \in Nat
    BY <1>9
  <2>2. Sum(CpcUsd, (O \cup V) \cup {x}) <= Sum(CpcUsd, O \cup V) + Sum(CpcUsd, {x})
    BY <1>7, <2>1, SumUnion
  <2>3. Sum(CpcUsd, {x}) = CpcUsd[x]
    BY <1>2, <1>6, SumOne
  <2> QED BY <2>2, <2>3
<1>12. sOV <= sO + sV
  <2>1. \A b \in O \cup V : CpcUsd[b] \in Nat
    BY <1>9
  <2> QED BY <1>7, <2>1, SumUnion
<1>13. Largest \in Nat /\ \A b \in Bids : CpcUsd[b] <= Largest
  BY <1>2, LargestIsBound
<1>14. sV <= Cardinality(V) * Largest
  <2>1. \A b \in V : CpcUsd[b] \in Nat /\ CpcUsd[b] <= Largest
    BY <1>1, <1>6, <1>13
  <2> QED BY <1>7, <1>13, <2>1, SumOfBounded
<1>15. /\ sA \in Nat /\ sOVX \in Nat /\ sOV \in Nat /\ sO \in Nat /\ sV \in Nat
  <2>1. IsFiniteSet(A)
    BY <1>7, <1>8, FS_Subset
  <2>2. \A b \in A : CpcUsd[b] \in Nat
    BY <1>8, <1>9
  <2>3. \A b \in O : CpcUsd[b] \in Nat
    BY <1>9
  <2>4. \A b \in V : CpcUsd[b] \in Nat
    BY <1>9
  <2>5. \A b \in O \cup V : CpcUsd[b] \in Nat
    BY <1>9
  <2> QED BY <1>7, <1>9, <2>1, <2>2, <2>3, <2>4, <2>5, SumType
<1>16. Cardinality(V) * Largest <= (Connections - 1) * Largest
  <2> DEFINE n == Cardinality(V)  p == Connections - 1
  <2>1. n \in Nat /\ p \in Int /\ n <= p
    BY <1>1, ConnectionsType
  <2> HIDE DEF n, p
  <2>2. n * Largest <= p * Largest
    BY <1>13, <2>1, TimesMonotone
  <2> QED BY <2>2 DEF n, p
<1>17. Slack \in Int /\ Slack = (Connections - 1) * Largest
  BY <1>2, SlackType
<1> DEFINE m == Cardinality(V) * Largest
<1>18. m \in Int /\ m <= Slack /\ sV <= m
  BY <1>1, <1>13, <1>14, <1>16, <1>17
<1>19. CpcUsd[x] \in Nat
  BY <1>2, <1>6
<1> HIDE DEF sA, sOVX, sOV, sO, sV, m
<1>20. sA <= sO + Slack + CpcUsd[x]
  BY <1>10, <1>11, <1>12, <1>15, <1>17, <1>18, <1>19
<1> QED BY <1>5, <1>20 DEF sA, sO, k, x

LEMMA KeptIsSpent ==
  ASSUME IInv, TimesInLine, NEW k, NEW c \in Calls
  PROVE  /\ Sum(Kept, BidsOf(k)) <= SpentLifetime(k)
         /\ Sum(Kept, Today(k)) <= SpentSince(k, startedAt[c])
         /\ Sum(Kept, BidsOf(k)) \in Nat /\ SpentLifetime(k) \in Nat
         /\ Sum(Kept, Today(k)) \in Nat /\ SpentSince(k, startedAt[c]) \in Nat
<1> DEFINE S == {b \in BidsOf(k) : settledAt[b] \div DayLength >= startedAt[c] \div DayLength}
<1>1. /\ BidsOf(k) \in SUBSET Bids /\ IsFiniteSet(BidsOf(k))
      /\ Today(k) \in SUBSET BidsOf(k) /\ IsFiniteSet(Today(k))
  BY Subsets
<1>2. \A b \in Bids : charged[b] \in Nat /\ Kept[b] \in Nat /\ Kept[b] <= charged[b]
  BY AmountsType
<1>3. /\ startedAt[c] \in Nat /\ now \in Nat /\ startedAt[c] <= now /\ DayLength \in Nat \ {0}
      /\ \A b \in Bids : settledAt[b] \in Nat
  BY Facts DEF TimesInLine
<1>4. Today(k) \in SUBSET S
  <2> SUFFICES ASSUME NEW b \in Today(k) PROVE b \in S
    OBVIOUS
  <2>1. b \in BidsOf(k) /\ b \in Bids /\ settledAt[b] \div DayLength >= now \div DayLength
    BY <1>1 DEF Today
  <2> DEFINE y == settledAt[b] \div DayLength  m == startedAt[c] \div DayLength  n == now \div DayLength
  <2>2. m <= n
    BY <1>3, DivMonotone
  <2>3. y \in Int /\ m \in Int /\ n \in Int /\ y >= n
    BY <1>3, <2>1
  <2> HIDE DEF y, m, n
  <2>4. y >= m
    BY <2>2, <2>3
  <2> QED BY <2>1, <2>4 DEF y, m
<1>5. S \in SUBSET Bids /\ IsFiniteSet(S)
  BY <1>1, FS_Subset
<1>6. SpentSince(k, startedAt[c]) = Sum(charged, S)
  BY DEF SpentSince
<1> HIDE DEF S
<1>7. Sum(Kept, Today(k)) <= Sum(charged, S) /\ Sum(Kept, Today(k)) \in Nat /\ Sum(charged, S) \in Nat
  <2>1. \A b \in S : charged[b] \in Nat
    BY <1>2, <1>5
  <2>2. \A b \in Today(k) : Kept[b] \in Nat /\ Kept[b] <= charged[b]
    BY <1>1, <1>2
  <2> QED BY <1>1, <1>4, <1>5, <2>1, <2>2, SumMonotone, SumType
<1>8. /\ Sum(Kept, BidsOf(k)) <= Sum(charged, BidsOf(k))
      /\ Sum(Kept, BidsOf(k)) \in Nat /\ Sum(charged, BidsOf(k)) \in Nat
  <2>1. \A b \in BidsOf(k) : charged[b] \in Nat /\ Kept[b] \in Nat /\ Kept[b] <= charged[b]
    BY <1>1, <1>2
  <2>2. BidsOf(k) \in SUBSET BidsOf(k)
    OBVIOUS
  <2> QED BY <1>1, <2>1, <2>2, SumMonotone, SumType
<1> QED BY <1>6, <1>7, <1>8 DEF SpentLifetime

LEMMA OpenType ==
  ASSUME IInv, NEW k, NEW c \in Calls
  PROVE  ReservedOpen(c, k) \in Nat
<1> DEFINE O == {b \in BidsOf(k) : ViewStatus(c, b) = "reserved" /\ expiresAt[b] > startedAt[c]}
<1>1. O \in SUBSET Bids /\ IsFiniteSet(O)
  <2>1. O \in SUBSET BidsOf(k) /\ IsFiniteSet(BidsOf(k)) /\ BidsOf(k) \in SUBSET Bids
    BY Subsets
  <2> HIDE DEF O
  <2> QED BY <2>1, FS_Subset
<1>2. ReservedOpen(c, k) = Sum(CpcUsd, O)
  BY DEF ReservedOpen
<1> HIDE DEF O
<1>3. \A b \in O : CpcUsd[b] \in Nat
  BY <1>1, ConstantsAssumption
<1> QED BY <1>1, <1>2, <1>3, SumType

LEMMA PendingSnapshot ==
  ASSUME IInv, IInv', TimesInLine, RivalsBounded, BudgetsKnown, PendingCovered,
         NEW c \in Calls, SnapshotAllows(c)
  PROVE  PendingCovered'
<1> SUFFICES ASSUME NEW k \in Campaigns, NEW B \in SUBSET Pending' PROVE Covered(k, B)'
  BY DEF PendingCovered
<1> DEFINE B0 == B \ {c}  x == bid[c]
<1>1. /\ pc[c] = "snapshot" /\ Affordable(c)
      /\ \A d \in Calls \ {c} : pc'[d] = pc[d]
      /\ UNCHANGED <<status, charged, settledAt, now, bid, released>>
  BY DEF SnapshotAllows, Goto, tables, IInv, TypeOK
<1>2. B0 \in SUBSET Pending /\ c \notin B0
  BY <1>1 DEF Pending
<1>3. Covered(k, B0)
  BY <1>2 DEF PendingCovered
<1>4. NothingCharged /\ now <= now'
  BY <1>1, Facts DEF NothingCharged
<1>5. After(B)' = (Reserved \ GivenBack(B)) \cup {bid[d] : d \in B}
  BY <1>1 DEF After, Reserved, GivenBack
<1>6. CASE c \notin B
  <2>1. B0 = B
    BY <1>6
  <2>2. (After(B) \cap BidsOf(k))' \subseteq After(B0) \cap BidsOf(k)
    BY <1>5, <2>1 DEF After, BidsOf
  <2> QED BY <1>3, <1>4, <2>2, NothingAdded
<1>7. ASSUME c \in B PROVE /\ GivenBack(B) = GivenBack(B0) \cup released[c]
                           /\ {bid[d] : d \in B} = {bid[d] : d \in B0} \cup {x}
  BY <1>7 DEF GivenBack
<1>8. CASE c \in B /\ CampaignOf[x] # k
  <2>1. x \notin BidsOf(k)
    BY <1>8 DEF BidsOf
  <2>2. (After(B) \cap BidsOf(k))' = After(B)' \cap BidsOf(k)
    BY DEF BidsOf
  <2>3. (After(B) \cap BidsOf(k))' \subseteq After(B0) \cap BidsOf(k)
    BY <1>5, <1>7, <1>8, <2>1, <2>2 DEF After
  <2> QED BY <1>3, <1>4, <2>3, NothingAdded
<1>9. CASE c \in B /\ CampaignOf[x] = k
  <2> DEFINE A == (After(B) \cap BidsOf(k))'
             L == Sum(Kept, BidsOf(k))  D == Sum(Kept, Today(k))
  <2>1. A \in SUBSET BidsOf(k)
    BY DEF BidsOf
  <2>2. A \subseteq (Reserved \ (GivenBack(B0) \cup released[c])) \cup {bid[d] : d \in B0} \cup {x}
    BY <1>5, <1>7, <1>9
  <2>3. Sum(CpcUsd, A) <= ReservedOpen(c, k) + Slack + CpcUsd[x]
    BY <1>1, <1>2, <1>9, <2>1, <2>2, HeadroomHolds
  <2>4. /\ budget[k].lifetimeUsd > 0 /\ Covers(c, k, CpcUsd[x])
    BY <1>1, <1>9 DEF Affordable
  <2>5. /\ budget[k].lifetimeUsd - SpentLifetime(k) - ReservedOpen(c, k) >= CpcUsd[x]
        /\ budget[k].dailyUsd - SpentSince(k, startedAt[c]) - ReservedOpen(c, k) >= CpcUsd[x]
    BY <2>4 DEF Covers
  <2>6. \A b \in Bids : CpcUsd[b] \in Nat /\ charged[b] \in Nat /\ Kept[b] \in Nat /\ Kept[b] <= charged[b]
    BY AmountsType
  <2>7. /\ BidsOf(k) \in SUBSET Bids /\ IsFiniteSet(BidsOf(k))
        /\ Today(k) \in SUBSET BidsOf(k) /\ IsFiniteSet(Today(k))
    BY Subsets
  <2>8. L <= SpentLifetime(k) /\ L \in Nat /\ SpentLifetime(k) \in Nat
    BY KeptIsSpent
  <2>9. D <= SpentSince(k, startedAt[c]) /\ D \in Nat /\ SpentSince(k, startedAt[c]) \in Nat
    BY KeptIsSpent
  <2>10. ReservedOpen(c, k) \in Nat
    BY OpenType
  <2>11. Sum(CpcUsd, A) \in Nat
    <3>1. A \in SUBSET Bids /\ IsFiniteSet(A)
      BY <2>1, <2>7, FS_Subset
    <3> HIDE DEF A
    <3>2. \A b \in A : CpcUsd[b] \in Nat
      BY <2>6, <3>1
    <3> QED BY <3>1, <3>2, SumType
  <2>12. x \in Bids /\ Slack \in Int /\ CpcUsd[x] \in Nat
    BY <2>6, Facts, SlackType
  <2>13. budget[k].lifetimeUsd \in Nat /\ budget[k].dailyUsd \in Nat
    BY Facts
  <2>14. PICK config \in Configs(k) :
           config.lifetimeUsd = budget[k].lifetimeUsd /\ config.dailyUsd = budget[k].dailyUsd
    BY <2>4 DEF BudgetsKnown
  <2> DEFINE a == Sum(CpcUsd, A)  r == ReservedOpen(c, k)  s == SpentLifetime(k)
             t == SpentSince(k, startedAt[c])  u == CpcUsd[x]  p == budget[k].lifetimeUsd  q == budget[k].dailyUsd
  <2>15. /\ a \in Nat /\ r \in Nat /\ s \in Nat /\ t \in Nat /\ u \in Nat /\ p \in Nat /\ q \in Nat
         /\ L \in Nat /\ D \in Nat /\ L <= s /\ D <= t
    BY <2>8, <2>9, <2>10, <2>11, <2>12, <2>13
  <2>16. a <= r + Slack + u /\ p - s - r >= u /\ q - t - r >= u /\ Slack \in Int
    BY <2>3, <2>5, <2>12
  <2>17. config.lifetimeUsd = p /\ config.dailyUsd = q
    BY <2>14
  <2>18. Total(k, BidsOf(k), B)' = Sum(Kept', BidsOf(k)) + a /\ Total(k, Today(k), B)' = Sum(Kept', Today(k)') + a
    BY DEF Total, Sum, BidsOf
  <2>19. Kept' = Kept /\ Today(k)' = Today(k) /\ Configs(k)' = Configs(k) /\ Slack' = Slack
    BY <1>1 DEF Kept, Today, Configs, Slack, BidsOf
  <2> HIDE DEF A, L, D, a, r, s, t, u, p, q
  <2>20. L + a <= p + Slack /\ D + a <= q + Slack
    BY <2>15, <2>16
  <2>21. Total(k, BidsOf(k), B)' = L + a /\ Total(k, Today(k), B)' = D + a
    BY <2>18, <2>19 DEF L, D
  <2>22. config \in Configs(k)'
    BY <2>14, <2>19
  <2>23. /\ Total(k, BidsOf(k), B)' <= config.lifetimeUsd + Slack'
         /\ Total(k, Today(k), B)' <= config.dailyUsd + Slack'
    BY <2>17, <2>19, <2>20, <2>21
  <2> QED BY <2>22, <2>23 DEF Covered
<1> QED BY <1>6, <1>8, <1>9

-------------------------------------------------------------------------------
LEMMA PendingNext ==
  ASSUME IInv, IInv', BoundInv, [Next]_vars
  PROVE  PendingCovered'
<1> USE DEF BoundInv
<1>1. CASE Quiet
  BY <1>1, PendingQuiet DEF Quiet
<1>2. ASSUME NEW c \in Calls, Connect(c) PROVE PendingCovered'
  BY <1>2, ConnectCalm, PendingQuiet
<1>3. ASSUME NEW c \in Calls, Cleanup(c) PROVE PendingCovered'
  BY <1>3, PendingCleanup
<1>4. ASSUME NEW c \in Calls, SnapshotAllows(c) PROVE PendingCovered'
  BY <1>4, PendingSnapshot
<1>5. ASSUME NEW c \in Calls, Reserves(c), NothingCharged PROVE PendingCovered'
  BY <1>5, PendingReserve
<1>6. ASSUME NEW c \in Calls, Settles(c) PROVE PendingCovered'
  BY <1>6, PendingSettle
<1> QED BY <1>1, <1>2, <1>3, <1>4, <1>5, <1>6, StepKinds

LEMMA BoundNext ==
  ASSUME IInv, BoundInv, [Next]_vars
  PROVE  BoundInv'
<1>1. IInv'
  BY IInvNext
<1>2. TimesInLine' /\ PoolsHold' /\ RivalsBounded' /\ BudgetsKnown'
  BY TimesNext, PoolsNext, RivalsNext, BudgetsNext DEF BoundInv
<1>3. PendingCovered'
  BY <1>1, PendingNext
<1> QED BY <1>2, <1>3 DEF BoundInv

LEMMA BoundInit ==
  ASSUME Init, IInv
  PROVE  BoundInv
<1>1. /\ pc = [c \in Calls |-> "idle"] /\ startedAt = [c \in Calls |-> 0] /\ now = 0
      /\ status = [b \in Bids |-> None] /\ charged = [b \in Bids |-> 0]
      /\ budget = InitialBudgets /\ upsert = <<>>
  BY DEF Init
<1>2. TimesInLine
  BY <1>1 DEF TimesInLine
<1>3. PoolsHold
  <2>1. \A i \in Instances : {c \in Calls : InstanceOf[c] = i /\ HoldsConnection(c)} = {}
    BY <1>1 DEF HoldsConnection, InTransaction, InReserve, InSettle, AfterCommit
  <2>2. Cardinality({}) = 0 /\ PoolMax \in Nat
    BY FS_EmptySet, ConstantsAssumption
  <2>3. 0 <= PoolMax
    BY <2>2
  <2> SUFFICES ASSUME NEW i \in Instances
               PROVE  Cardinality({c \in Calls : InstanceOf[c] = i /\ HoldsConnection(c)}) <= PoolMax
    BY DEF PoolsHold
  <2> QED BY <2>1, <2>2, <2>3
<1>4. RivalsBounded
  BY <1>1 DEF RivalsBounded, PastCleanup
<1>5. BudgetsKnown
  BY <1>1 DEF BudgetsKnown, Configs
<1>6. PendingCovered
  <2> SUFFICES ASSUME NEW k \in Campaigns, NEW B \in SUBSET Pending PROVE Covered(k, B)
    BY DEF PendingCovered
  <2>1. After(B) \cap BidsOf(k) = {}
    <3>1. B = {}
      BY <1>1 DEF Pending
    <3> QED BY <1>1, <3>1 DEF After, Reserved, None
  <2>2. \A b \in Bids : Kept[b] = 0
    <3> SUFFICES ASSUME NEW b \in Bids PROVE Kept[b] = 0
      OBVIOUS
    <3>1. charged[b] = 0 /\ Kept[b] \in Nat /\ Kept[b] <= charged[b]
      BY <1>1, AmountsType
    <3> QED BY <3>1
  <2>3. ASSUME NEW S \in SUBSET Bids, NEW f, \A b \in S : f[b] = 0 PROVE Sum(f, S) = 0
    <3>1. IsFiniteSet(S) /\ Cardinality(S) \in Nat
      BY Fewer, ConstantsAssumption
    <3>2. \A b \in S : f[b] \in Nat /\ f[b] <= 0
      BY <2>3
    <3>3. Sum(f, S) <= Cardinality(S) * 0
      BY <3>1, <3>2, SumOfBounded
    <3>4. Sum(f, S) \in Nat
      BY <3>1, <3>2, SumType
    <3> QED BY <3>1, <3>3, <3>4
  <2>4. BidsOf(k) \in SUBSET Bids /\ Today(k) \in SUBSET Bids /\ {} \in SUBSET Bids
    BY DEF BidsOf, Today
  <2>5. Sum(Kept, BidsOf(k)) = 0 /\ Sum(Kept, Today(k)) = 0 /\ Sum(CpcUsd, {}) = 0
    <3>1. \A b \in BidsOf(k) : Kept[b] = 0
      BY <2>2, <2>4
    <3>2. \A b \in Today(k) : Kept[b] = 0
      BY <2>2, <2>4
    <3> QED BY <2>3, <2>4, <3>1, <3>2
  <2> QED BY <2>1, <2>5 DEF Covered, Total
<1> QED BY <1>2, <1>3, <1>4, <1>5, <1>6 DEF BoundInv

(* What a campaign has settled and holds reserved exceeds its largest budget,
   ever and today, by at most one reservation for every further connection of
   the gateway's pools, whatever the interleaving, the crashes and the budgets. *)
THEOREM BudgetBound == Spec => []OverReservationBounded
<1>1. Init => IInv
  <2>1. Init => TypeOK
    BY ConstantsAssumption DEF Init, TypeOK, EntryTypes, Outcomes
  <2>2. Init => LockDiscipline /\ LedgerTellsStatus
    BY DEF Init, LockDiscipline, Locks, LedgerTellsStatus, EntryTypes, None
  <2> QED BY <2>1, <2>2 DEF IInv
<1>2. BoundInv => OverReservationBounded
  <2> SUFFICES ASSUME PendingCovered, NEW k \in Campaigns
               PROVE  LET held == Held(k)
                      IN  /\ Sum(Kept, BidsOf(k)) + held > 0 =>
                               \E config \in Configs(k) : Sum(Kept, BidsOf(k)) + held <= config.lifetimeUsd + Slack
                          /\ Sum(Kept, Today(k)) + held > 0 =>
                               \E config \in Configs(k) : Sum(Kept, Today(k)) + held <= config.dailyUsd + Slack
    BY DEF BoundInv, OverReservationBounded
  <2>1. Covered(k, {})
    BY DEF PendingCovered
  <2>2. After({}) \cap BidsOf(k) = {b \in BidsOf(k) : status[b] = "reserved"}
    BY DEF After, GivenBack, Reserved, BidsOf
  <2>3. Sum(CpcUsd, After({}) \cap BidsOf(k)) = Held(k)
    BY <2>2 DEF Held
  <2> QED BY <2>1, <2>3 DEF Covered, Total
<1>3. Init => BoundInv
  BY <1>1, BoundInit
<1> QED BY <1>1, <1>2, <1>3, IInvNext, BoundNext, PTL DEF Spec
===============================================================================
