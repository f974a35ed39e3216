--------------------------- MODULE MCAuditReplay ---------------------------
(***************************************************************************)
(* Records that agree or differ in their key, their time and what they     *)
(* say; one is incomplete, one names a winner that took no part, one is    *)
(* too large.                                                              *)
(***************************************************************************)
EXTENDS AuditReplay

MCAuditRecords == {"shown", "noted", "late", "other", "bare", "wrong", "large"}
MCAnchors == {"schemaVersion"}

Part == [adapter |-> "cj", lacks |-> {}, status |-> "responded", latency |-> "3",
         didTimeout |-> FALSE, threshold |-> 5, reasons |-> {}]
Shown == [at |-> 0, id |-> 2, opportunity |-> "o1", trace |-> "t1", lacks |-> {},
          adapters |-> {Part}, winner |-> "cj", winnerReason |-> "won", renderReason |-> "NA",
          terminal |-> "impression", stated |-> [schemaVersion |-> "v1"],
          given |-> [schemaVersion |-> ""], status |-> "committed", bytes |-> 1, extensions |-> "x",
          archived |-> {[type |-> "billable_fact", status |-> "committed"]}]
Late == [Shown EXCEPT !.at = 1, !.winner = "NA", !.terminal = "NA",
           !.adapters = {[Part EXCEPT !.status = "timeout", !.didTimeout = TRUE, !.reasons = {"slow"}]}]

MCAuditContent ==
  [r \in MCAuditRecords |->
     CASE r = "shown" -> Shown
       [] r = "noted" -> [Shown EXCEPT !.extensions = "y"]
       [] r = "late"  -> Late
       [] r = "other" -> [Late EXCEPT !.id = 3, !.stated = [schemaVersion |-> ""], !.opportunity = "o2"]
       [] r = "bare"  -> [Shown EXCEPT !.lacks = {"auditAt"}]
       [] r = "wrong" -> [Shown EXCEPT !.winner = "house"]
       [] r = "large" -> [Shown EXCEPT !.bytes = 3]]

\* The decision on "shown" comes out with another winner, that on "late" is lost.
MCRecomputed ==
  [r \in MCAuditRecords |->
     CASE r \in {"shown", "noted"} -> {[BuildSummaryItem(r) EXCEPT !.winner = "house"]}
       [] r = "late" -> {}
       [] OTHER -> {BuildSummaryItem(r)}]

Ask(r, k, s, g) == [record |-> r, idempotencyKey |-> k, sync |-> s, gate |-> g]
MCAppendRequests ==
  {Ask("shown", 0, TRUE, "open"), Ask("shown", 0, FALSE, "open"), Ask("late", 0, TRUE, "open"),
   Ask("noted", 0, TRUE, "open"), Ask("noted", 1, TRUE, "open"),
   Ask("other", 0, TRUE, "open"), Ask("other", 1, FALSE, "open")}
  \cup {Ask("shown", 0, TRUE, g) : g \in {"bare", "contract", "auth", "rate", "unavailable"}}
  \cup {Ask(r, 0, TRUE, "open") : r \in {"bare", "wrong", "large"}}

Ranged == [mode |-> "by_time_range", opportunityKey |-> "", opportunityId |-> "", range |-> <<0, 2>>,
           pageSize |-> 1, stated |-> TRUE, asOf |-> 1, order |-> "desc", trace |-> "",
           filters |-> <<>>, pinned |-> <<>>, timeoutOnly |-> FALSE, conflictOnly |-> FALSE,
           execution |-> "snapshot_replay"]
MCReplayQueries == {"down", "now", "again", "backwards", "one"}
MCQueryOf ==
  [q \in MCReplayQueries |->
     CASE q = "down" -> Ranged
       [] q = "now"  -> [Ranged EXCEPT !.stated = FALSE]
       [] q = "again" -> [Ranged EXCEPT !.execution = "rule_recompute", !.pageSize = 2,
                                         !.order = "asc"]
       [] q = "backwards" -> [Ranged EXCEPT !.range = <<1, 0>>]
       [] q = "one"  -> [Ranged EXCEPT !.mode = "by_opportunity", !.range = <<>>, !.opportunityId = "o2",
                                       !.filters = [adapters |-> {"house"}]]]
=============================================================================
