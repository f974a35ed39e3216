------------------------------ MODULE EventFacts ------------------------------
(***************************************************************************)
(* Billable facts.  An event is acknowledged, moves the closure of its     *)
(* attempt, and is then mapped with the snapshot of the closure that was   *)
(* taken: the mapper decides whether it is billed.  Between an event's     *)
(* processing and its mapping, other events may be processed.              *)
(*                                                                         *)
(* Attribution facts are left out, the pending ones of clicks among them.  *)
(***************************************************************************)
EXTENDS TerminalClosure, FiniteSets

CONSTANT
  MaxReports    \* bound on the events between processing and mapping

VARIABLES
  reports,      \* events processed and not yet mapped, with their snapshots
  billed,       \* the billing keys in the store of the mapper
  emitted       \* per billing key, how many billable facts were returned

factVars == <<now, closure, reports, billed, emitted>>

Types == {"impression", "click"}
Acks == {"accepted", "duplicate", "rejected"}

Processed(r) ==
  /\ Cardinality(reports) < MaxReports
  /\ reports' = reports \cup {r}
  /\ UNCHANGED <<billed, emitted>>

\* Fault: the snapshot is taken before the event is processed.
ReportImpressionEarly(a, ack) ==
  /\ Impression(a)
  /\ Processed([attempt |-> a, type |-> "impression", ack |-> ack, snapshot |-> closure[a].state])
ReportImpression(a, ack) ==
  /\ Impression(a)
  /\ Processed([attempt |-> a, type |-> "impression", ack |-> ack, snapshot |-> closure'[a].state])

\* A click moves no closure.
ReportClick(a, ack) ==
  /\ UNCHANGED vars
  /\ Processed([attempt |-> a, type |-> "click", ack |-> ack, snapshot |-> closure[a].state])

\* Failures, signals and timeouts, which the mapper bills nothing for, and batches:
\* the impression of such a batch is not accepted, and its mapping changes nothing.
Unbilled == Next /\ UNCHANGED <<reports, billed, emitted>>

Billable(r) ==
  /\ r.ack = "accepted"
  /\ r.type = "impression" => r.snapshot = "closed_success"
  /\ r.type = "click" => r.snapshot # "closed_failure" /\ <<r.attempt, "impression">> \in billed

\* Fault: the billing key is not looked up.
BillAgain(r) ==
  /\ Billable(r)
  /\ billed' = billed \cup {<<r.attempt, r.type>>}
  /\ emitted' = [emitted EXCEPT ![<<r.attempt, r.type>>] = @ + 1]
Bill(r) ==
  /\ Billable(r) /\ <<r.attempt, r.type>> \notin billed
  /\ billed' = billed \cup {<<r.attempt, r.type>>}
  /\ emitted' = [emitted EXCEPT ![<<r.attempt, r.type>>] = @ + 1]

\* A click without an impression is answered attr_click_pending: it is remembered
\* nowhere, and billing the impression later bills no click.
NotBilled(r) ==
  /\ ~Billable(r) \/ <<r.attempt, r.type>> \in billed
  /\ UNCHANGED <<billed, emitted>>

MapFacts(r) ==
  /\ Bill(r) \/ NotBilled(r)
  /\ reports' = reports \ {r}
  /\ UNCHANGED vars

FactsInit ==
  /\ Init
  /\ reports = {} /\ billed = {}
  /\ emitted = [f \in Attempts \X Types |-> 0]

FactsNext ==
  \/ \E a \in Attempts, ack \in Acks : ReportImpression(a, ack) \/ ReportClick(a, ack)
  \/ Unbilled
  \/ \E r \in reports : MapFacts(r)

FactsSpec == FactsInit /\ [][FactsNext]_factVars

----------------------------------------------------------------------------
States == {"none", "open", "closed_success", "closed_failure"}
FactsTypeOK ==
  /\ TypeOK
  /\ reports \subseteq [attempt : Attempts, type : Types, ack : Acks, snapshot : States]
  /\ billed \subseteq Attempts \X Types
  /\ emitted \in [Attempts \X Types -> Nat]

Emitted(a, type) == emitted[<<a, type>>] > 0

(* An impression and a click are billed at most once per attempt, however many
   reports of them are accepted. *)
BilledOnce == \A f \in Attempts \X Types : emitted[f] <= 1

(* An attempt that was billed stands as a success, and its click was not billed
   without its impression. *)
BilledIsSuccess ==
  \A a \in Attempts :
    /\ Emitted(a, "impression") => closure[a].state = "closed_success"
    /\ Emitted(a, "click") => Emitted(a, "impression")

(* An accepted impression of a successful attempt has been billed once it is
   mapped, also one that arrived after the timeout. *)
AcceptedIsBilled ==
  [][\A r \in reports :
       r \notin reports' /\ r.type = "impression" /\ r.ack = "accepted"
         /\ closure[r.attempt].state = "closed_success"
       => emitted'[<<r.attempt, "impression">>] = 1]_factVars
=============================================================================
