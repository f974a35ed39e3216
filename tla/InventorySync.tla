----------------------------- MODULE InventorySync -----------------------------
(***************************************************************************)
(* The synchronization of the inventory (runtime/inventory-sync.js), which *)
(* an internal route starts: each network is fetched, its offers are       *)
(* upserted row by row, embeddings are built of what is active, and the    *)
(* serving snapshot is filled anew.  Every statement is a query of the     *)
(* pool, and the pool of a gateway has one connection (DB_POOL_MAX): the   *)
(* statements of all jobs, and of every other request, follow one another  *)
(* on it, those between the BEGIN and the COMMIT of a refresh included.    *)
(*                                                                         *)
(* A row is the version of the offer it was made of, 0 when there is none. *)
(***************************************************************************)
EXTENDS Naturals, Sequences, FiniteSets

CONSTANTS
  Offers,        \* offer ids, numbers, for the order of pages
  NetworkOf,     \* offer -> "house", "cj" or "partnerstack"
  ListOf,        \* offer -> the list its network has it on
  InactiveVersions, MaxVersion,
  Jobs,          \* calls of the route
  Wants,         \* job -> what it may ask: [networks, embed, refresh]
  PageSize, ChunkSize,
  MaxFaults      \* statements that fail by themselves

ASSUME SyncAssumption ==
  /\ Offers \subseteq Nat \ {0} /\ IsFiniteSet(Offers)
  /\ MaxVersion \in Nat /\ InactiveVersions \subseteq 1..MaxVersion
  /\ \A j \in Jobs : Wants[j] \subseteq [networks : Seq({"house", "cj", "partnerstack"}),
                                        embed : {"none", "full", "recent"}, refresh : BOOLEAN]
  /\ PageSize \in Nat \ {0} /\ ChunkSize \in Nat \ {0} /\ MaxFaults \in Nat

VARIABLES
  upstream,   \* the version each network has of its offers (environment)
  db,         \* [raw, norm, emb, snap, runs] as the connection sees it
  txn,        \* the connection's transaction: [open, aborted, before]
  jobs,       \* job -> its progress
  readings,   \* history: what refreshes have read
  faults

syncVars == <<upstream, db, txn, jobs, readings, faults>>

Active(v) == v # 0 /\ v \notin InactiveVersions
ActiveRows == {o \in Offers : Active(db.norm[o])}
NoTxn == [open |-> FALSE, aborted |-> FALSE, before |-> <<>>]
\* What other connections see, and what a crash leaves.
StoredDb == IF txn.open THEN txn.before ELSE db

NotYet == [at |-> "idle", want |-> <<>>, nets |-> <<>>, rows |-> <<>>, errors |-> FALSE,
           cursor |-> 0, due |-> {}, alone |-> FALSE, undone |-> FALSE, reading |-> <<>>]

\* How many of a set of offers come up to one of them.
Rank(ids, o) == Cardinality({p \in ids : p <= o})
Least(S) == CHOOSE x \in S : \A y \in S : x <= y
\* Fault: the cursor is taken for the first of the next page, and left out.
PageAfterNext(rows, cursor) ==
  LET after == {o \in rows : o > cursor + 1}
  IN  {o \in after : Rank(after, o) <= PageSize}

Page(rows, cursor) ==
  LET after == {o \in rows : o > cursor}
  IN  {o \in after : Rank(after, o) <= PageSize}

----------------------------------------------------------------------------
\* A job goes on; those whose statements it came between are not alone.
GoesOn(j, next) ==
  jobs' = [k \in Jobs |-> IF k = j THEN next ELSE [jobs[k] EXCEPT !.alone = FALSE]]
EndsWith(j, how) == [jobs[j] EXCEPT !.at = how]

\* A statement has its effect ...
Executes(j, effect, next) ==
  /\ ~txn.aborted
  /\ db' = effect
  /\ GoesOn(j, next)
  /\ UNCHANGED <<upstream, txn, readings, faults>>

\* ... or it fails: by itself, or since the transaction it falls into has failed.
Fails(j, next) ==
  /\ GoesOn(j, next)
  /\ UNCHANGED <<upstream, db, readings>>
  /\ \/ txn.aborted /\ UNCHANGED <<txn, faults>>
     \/ /\ ~txn.aborted /\ faults < MaxFaults /\ faults' = faults + 1
        /\ txn' = [txn EXCEPT !.aborted = txn.open]

Net(j) == Head(jobs[j].nets)
Recorded(j, status) == [db EXCEPT !.runs[<<j, Net(j)>>] = status]
NextNetwork(j) == [jobs[j] EXCEPT !.at = "begin run", !.nets = Tail(@)]

Asks(j, want) ==
  /\ jobs[j].at = "idle"
  /\ jobs' = [jobs EXCEPT ![j] = [NotYet EXCEPT !.at = "begin run", !.want = want, !.nets = want.networks]]
  /\ UNCHANGED <<upstream, db, txn, readings, faults>>

\* The record of a run; when it cannot be written, the request has failed.
BeginRun(j) ==
  /\ jobs[j].at = "begin run" /\ jobs[j].nets # <<>>
  /\ \/ Executes(j, Recorded(j, "running"), [jobs[j] EXCEPT !.at = "fetch", !.cursor = 0, !.errors = FALSE])
     \/ Fails(j, EndsWith(j, "500"))

Offered(net) == {o \in Offers : NetworkOf[o] = net /\ upstream[o] # 0}
\* What is made of a set of offers, in their order.
Ranked(ids, i) == CHOOSE o \in ids : Rank(ids, o) = i
Rows(ids, version) ==
  [i \in 1..Cardinality(ids) |-> <<Ranked(ids, i), version[Ranked(ids, i)]>>]

\* Of CJ, lists that fail are left out and that is no failure; PartnerStack's
\* fetch may fail as a whole.
FetchFromNetwork(j) ==
  /\ jobs[j].at = "fetch" /\ Net(j) # "house"
  /\ \/ \E lists \in SUBSET {ListOf[o] : o \in Offered(Net(j))} :
          /\ Net(j) # "cj" => lists = {ListOf[o] : o \in Offered(Net(j))}
          /\ GoesOn(j, [jobs[j] EXCEPT !.at = "raw",
                                     !.rows = Rows({o \in Offered(Net(j)) : ListOf[o] \in lists}, upstream)])
     \/ Net(j) # "cj" /\ GoesOn(j, [jobs[j] EXCEPT !.at = "give up"])
  /\ UNCHANGED <<upstream, db, txn, readings, faults>>

\* The house's offers are read page by page on the same connection.
FetchHousePage(j) ==
  /\ jobs[j].at = "fetch" /\ Net(j) = "house"
  /\ LET page == Page({o \in Offered("house") : Active(upstream[o])}, jobs[j].cursor)
     IN  \/ /\ page = {}
            /\ Executes(j, db, [jobs[j] EXCEPT !.at = "raw"])
         \/ /\ page # {}
            /\ Executes(j, db, [jobs[j] EXCEPT !.rows = @ \o Rows(page, upstream),
                                  !.cursor = CHOOSE o \in page : \A p \in page : p <= o])
         \/ Fails(j, [jobs[j] EXCEPT !.at = "give up", !.rows = <<>>])

\* upsertInventoryRows: a row whose upsert fails is counted, and the next one taken.
RowFailed(j) == [jobs[j] EXCEPT !.at = "raw", !.rows = Tail(@), !.errors = TRUE]

UpsertRaw(j) ==
  /\ jobs[j].at = "raw" /\ jobs[j].rows # <<>>
  /\ LET row == Head(jobs[j].rows)
     IN  \/ Executes(j, [db EXCEPT !.raw[row[1]] = row[2]], [jobs[j] EXCEPT !.at = "norm"])
         \/ Fails(j, RowFailed(j))

UpsertNorm(j) ==
  /\ jobs[j].at = "norm"
  /\ LET row == Head(jobs[j].rows)
         next == [jobs[j] EXCEPT !.at = "raw", !.rows = Tail(@)]
     IN  \/ /\ ~txn.aborted
            /\ db' = [db EXCEPT !.norm[row[1]] = row[2]]
            /\ jobs' = [k \in Jobs |->
                 IF k = j THEN next
                 ELSE [jobs[k] EXCEPT !.alone = FALSE,
                                      !.due = IF Active(row[2]) THEN @ ELSE @ \ {row[1]}]]
            /\ UNCHANGED <<upstream, txn, readings, faults>>
         \/ Fails(j, RowFailed(j))

\* A run whose last record cannot be written is given up, whatever it upserted.
FinishRun(j) ==
  /\ jobs[j].at = "raw" /\ jobs[j].rows = <<>>
  /\ \/ Executes(j, Recorded(j, IF jobs[j].errors THEN "partial" ELSE "success"), NextNetwork(j))
     \/ Fails(j, [jobs[j] EXCEPT !.at = "give up"])
GiveUpRun(j) ==
  /\ jobs[j].at = "give up"
  /\ Executes(j, Recorded(j, "failed"), NextNetwork(j)) \/ Fails(j, EndsWith(j, "500"))

----------------------------------------------------------------------------
\* buildInventoryEmbeddings.
NetworksDone(j) ==
  /\ jobs[j].at = "begin run" /\ jobs[j].nets = <<>>
  /\ LET want == jobs[j].want
     IN  jobs' = [jobs EXCEPT ![j] =
           [@ EXCEPT !.at = CASE want.embed # "none" -> "select"
                              [] want.embed = "none" /\ want.refresh -> "create"
                              [] OTHER -> "count",
                     !.cursor = 0, !.due = ActiveRows, !.undone = FALSE]]
  /\ UNCHANGED <<upstream, db, txn, readings, faults>>

Embedded(j) ==
  [jobs[j] EXCEPT !.at = IF jobs[j].want.refresh THEN "create" ELSE "count", !.rows = <<>>, !.due = {}]

\* A full rebuild goes through the active rows by pages, the other mode takes as
\* many as its limit allows, which is more than there are.
SelectForEmbedding(j) ==
  /\ jobs[j].at = "select"
  /\ LET page == IF jobs[j].want.embed = "full" THEN Page(ActiveRows, jobs[j].cursor) ELSE ActiveRows
     IN  \/ page = {} /\ Executes(j, db, Embedded(j))
         \/ /\ page # {}
            /\ Executes(j, db, [jobs[j] EXCEPT !.at = "embed", !.rows = Rows(page, db.norm),
                                  !.cursor = CHOOSE o \in page : \A p \in page : p <= o])
         \/ Fails(j, EndsWith(j, "500"))

\* One chunk; every row refers to a row of the inventory, or the chunk fails.
UpsertEmbeddings(j) ==
  /\ jobs[j].at = "embed"
  /\ LET rows == jobs[j].rows
         size == Least({ChunkSize, Len(rows)})
         ids == {rows[i][1] : i \in 1..size}
         version(o) == rows[CHOOSE i \in 1..size : rows[i][1] = o][2]
         rest == SubSeq(rows, size + 1, Len(rows))
         next == CASE rest # <<>> -> [jobs[j] EXCEPT !.rows = rest]
                   [] rest = <<>> /\ jobs[j].want.embed = "full" -> [jobs[j] EXCEPT !.at = "select", !.rows = <<>>]
                   [] OTHER -> Embedded(j)
     IN  \/ /\ \A o \in ids : db.norm[o] # 0
            /\ Executes(j, [db EXCEPT !.emb = [o \in Offers |-> IF o \in ids THEN version(o) ELSE @[o]]], next)
         \/ Fails(j, EndsWith(j, "500"))
         \/ /\ \E o \in ids : db.norm[o] = 0
            /\ ~txn.aborted
            /\ txn' = [txn EXCEPT !.aborted = txn.open]
            /\ GoesOn(j, EndsWith(j, "500"))
            /\ UNCHANGED <<upstream, db, readings, faults>>

----------------------------------------------------------------------------
\* materializeServingSnapshot, statement by statement.
CreateSnapshot(j) ==
  /\ jobs[j].at = "create"
  /\ Executes(j, db, [jobs[j] EXCEPT !.at = "begin"]) \/ Fails(j, EndsWith(j, "500"))

\* A transaction that is open already goes on.
Begin(j) ==
  /\ jobs[j].at = "begin"
  /\ \/ /\ ~txn.aborted
        /\ txn' = IF txn.open THEN txn ELSE [open |-> TRUE, aborted |-> FALSE, before |-> db]
        /\ GoesOn(j, [jobs[j] EXCEPT !.at = "truncate", !.alone = ~txn.open])
        /\ UNCHANGED <<upstream, db, readings, faults>>
     \/ Fails(j, EndsWith(j, "500"))

NoSnapshot == [o \in Offers |-> <<0, 0>>]
\* Fault: the snapshot is emptied on a connection of its own.
TruncateOutside(j) ==
  /\ jobs[j].at = "truncate"
  /\ db' = [db EXCEPT !.snap = NoSnapshot]
  /\ txn' = [txn EXCEPT !.before = IF txn.open THEN [txn.before EXCEPT !.snap = NoSnapshot] ELSE @]
  /\ GoesOn(j, [jobs[j] EXCEPT !.at = "insert"])
  /\ UNCHANGED <<upstream, readings, faults>>

Truncate(j) ==
  /\ jobs[j].at = "truncate"
  /\ \/ Executes(j, [db EXCEPT !.snap = NoSnapshot], [jobs[j] EXCEPT !.at = "insert"])
     \/ Fails(j, [jobs[j] EXCEPT !.at = "rollback"])

\* The offer is the key of the snapshot.
InsertSnapshot(j) ==
  /\ jobs[j].at = "insert"
  /\ LET reading == [o \in Offers |-> IF o \in ActiveRows THEN <<db.norm[o], db.emb[o]>> ELSE <<0, 0>>]
         rows == {o \in Offers : reading[o] # <<0, 0>>}
         taken == {o \in Offers : db.snap[o] # <<0, 0>>}
     IN  \/ /\ rows \cap taken = {} /\ ~txn.aborted
            /\ db' = [db EXCEPT !.snap = [o \in Offers |-> IF o \in rows THEN reading[o] ELSE @[o]]]
            /\ readings' = readings \cup {reading}
            /\ GoesOn(j, [jobs[j] EXCEPT !.at = "commit", !.reading = reading])
            /\ UNCHANGED <<upstream, txn, faults>>
         \/ /\ rows \cap taken # {} /\ ~txn.aborted
            /\ txn' = [txn EXCEPT !.aborted = txn.open]
            /\ GoesOn(j, [jobs[j] EXCEPT !.at = "rollback"])
            /\ UNCHANGED <<upstream, db, readings, faults>>
         \/ Fails(j, [jobs[j] EXCEPT !.at = "rollback"])

\* Ends the transaction; those whose statements were in it are undone.
UndoTo(state) ==
  /\ db' = state /\ txn' = NoTxn
  /\ UNCHANGED <<upstream, readings>>
Undone(next, j) ==
  jobs' = [k \in Jobs |-> IF k = j THEN next ELSE [jobs[k] EXCEPT !.alone = FALSE, !.undone = TRUE]]

\* COMMIT of a transaction that has failed rolls it back, and reports no error.  An
\* error of its own leaves open which it was.
Commit(j) ==
  /\ jobs[j].at = "commit"
  /\ LET next == [jobs[j] EXCEPT !.at = "count"]
     IN  \/ txn.aborted /\ UndoTo(txn.before) /\ Undone(next, j) /\ UNCHANGED faults
         \/ ~txn.aborted /\ UndoTo(db) /\ GoesOn(j, next) /\ UNCHANGED faults
         \/ /\ ~txn.aborted /\ faults < MaxFaults /\ faults' = faults + 1
            /\ \E state \in {db, StoredDb} : UndoTo(state)
            /\ Undone([jobs[j] EXCEPT !.at = "rollback"], j)

Rollback(j) ==
  /\ jobs[j].at = "rollback"
  /\ UndoTo(StoredDb) /\ Undone(EndsWith(j, "500"), j) /\ UNCHANGED faults

\* The statements that read counts and runs for the answer.
Count(j) ==
  /\ jobs[j].at = "count"
  /\ Executes(j, db, EndsWith(j, "200")) \/ Fails(j, EndsWith(j, "500"))

----------------------------------------------------------------------------
\* A network changes an offer.
NetworkChanges(o) ==
  /\ upstream[o] < MaxVersion
  /\ \E v \in upstream[o] + 1 .. MaxVersion : upstream' = [upstream EXCEPT ![o] = v]
  /\ UNCHANGED <<db, txn, jobs, readings, faults>>

\* The connection is lost while nobody waits for it; the pool makes a new one.
ConnectionLost ==
  /\ faults < MaxFaults /\ faults' = faults + 1
  /\ txn.open /\ db' = StoredDb /\ txn' = NoTxn
  /\ jobs' = [j \in Jobs |-> [jobs[j] EXCEPT !.alone = FALSE, !.undone = TRUE]]
  /\ UNCHANGED <<upstream, readings>>

\* The gateway dies: its runs stay on record as running.
Crash ==
  /\ faults < MaxFaults /\ faults' = faults + 1
  /\ \E j \in Jobs : jobs[j].at \notin {"idle", "200", "500", "dead"}
  /\ db' = StoredDb /\ txn' = NoTxn
  /\ jobs' = [j \in Jobs |-> IF jobs[j].at \in {"200", "500"} THEN jobs[j] ELSE [jobs[j] EXCEPT !.at = "dead"]]
  /\ UNCHANGED <<upstream, readings>>

\* Nothing has been synchronized yet, or all that is offered has been.
SyncInit ==
  /\ upstream \in [Offers -> 0..1]
  /\ \E synced \in {upstream, [o \in Offers |-> 0]} :
       db = [raw |-> synced, norm |-> synced, emb |-> synced,
             snap |-> [o \in Offers |-> <<synced[o], synced[o]>>],
             runs |-> [r \in Jobs \X {"house", "cj", "partnerstack"} |-> "none"]]
  /\ txn = NoTxn
  /\ jobs = [j \in Jobs |-> NotYet]
  /\ readings = {} /\ faults = 0

SyncNext ==
  \/ Crash \/ ConnectionLost
  \/ \E o \in Offers : NetworkChanges(o)
  \/ \E j \in Jobs :
       \/ \E want \in Wants[j] : Asks(j, want)
       \/ BeginRun(j) \/ FetchFromNetwork(j) \/ FetchHousePage(j)
       \/ UpsertRaw(j) \/ UpsertNorm(j) \/ FinishRun(j) \/ GiveUpRun(j)
       \/ NetworksDone(j) \/ SelectForEmbedding(j) \/ UpsertEmbeddings(j)
       \/ CreateSnapshot(j) \/ Begin(j) \/ Truncate(j) \/ InsertSnapshot(j)
       \/ Commit(j) \/ Rollback(j) \/ Count(j)

SyncSpec == SyncInit /\ [][SyncNext]_syncVars

----------------------------------------------------------------------------
Refreshing(j) == jobs[j].at \in {"truncate", "insert", "commit", "rollback"}
\* Two refreshes share a transaction, or one has lost its own.
Entangled ==
  \E j \in Jobs : Refreshing(j) /\ (~txn.open \/ \E k \in Jobs \ {j} : Refreshing(k))

(* While refreshes keep apart and their transaction lives, what others see of the
   snapshot changes only to what one statement has read, whatever statements of other
   jobs come between those of the refresh, whatever fails, and wherever the gateway
   dies; and a refresh that none came between is there when it is answered for. *)
SnapshotIsOneReading ==
  [][/\ StoredDb'.snap # StoredDb.snap => StoredDb'.snap \in readings' \/ Entangled
     /\ \A j \in Jobs :
          (jobs[j].at = "commit" /\ jobs'[j].at = "count" /\ jobs[j].alone)
          => StoredDb'.snap = jobs[j].reading]_syncVars

(* A full rebuild reaches every row that was active when it began and stayed so, though
   rows are added and changed between its pages and its chunks - unless a refresh of
   the same connection took back what it wrote. *)
RebuildReachesAll ==
  [][\A j \in Jobs :
       (/\ jobs[j].at = "select" /\ jobs'[j].at \in {"create", "count"}
        /\ jobs[j].want.embed = "full" /\ ~jobs[j].undone)
       => \A o \in jobs[j].due : db.emb[o] # 0]_syncVars
=============================================================================
