---------------------------- MODULE TerminalClosure ----------------------------
(***************************************************************************)
(* The terminal closure of event attribution: each render attempt has a    *)
(* closure that an impression closes as a success and a failure, reported  *)
(* or synthesized after a timeout, closes as a failure.                    *)
(*                                                                         *)
(* Events without a closure key change nothing and are left out, as are    *)
(* events that are neither terminal nor an opening signal.                 *)
(***************************************************************************)
EXTENDS Integers

CONSTANTS
  Attempts,      \* closure keys: a response reference and a render attempt
  Sources,       \* what a reported failure may say of its origin
  WaitWindow,    \* terminalWaitWindowMs
  LateSignals,   \* ad_filled may arrive after, or together with, a terminal event
  MaxTime        \* bound on the clock

Synthesized == "system_timeout_synthesized"

ASSUME ConstantsAssumption ==
  /\ WaitWindow \in Nat /\ MaxTime \in Nat
  /\ LateSignals \in BOOLEAN
  /\ "impression" \notin Sources

VARIABLES now, closure

vars == <<now, closure>>

NoClosure == [state |-> "none", source |-> "none", openedAt |-> 0]
Ensured(c) ==
  IF c.state = "none" THEN [state |-> "open", source |-> "none", openedAt |-> now] ELSE c

\* An opening signal opens the closure whatever its state; when it was first
\* opened stays.
Signalled(c) == [Ensured(c) EXCEPT !.state = "open"]

\* Fault: an impression overrides every failure.
ImpressedAlways(c) == [Ensured(c) EXCEPT !.state = "closed_success", !.source = "impression"]
\* A failure stands against a later impression, unless it was synthesized.
Impressed(c) ==
  IF c.state \in {"none", "open"} \/ (c.state = "closed_failure" /\ c.source = Synthesized)
  THEN [Ensured(c) EXCEPT !.state = "closed_success", !.source = "impression"]
  ELSE c

Failed(c, source) ==
  IF c.state \in {"none", "open"}
  THEN [Ensured(c) EXCEPT !.state = "closed_failure", !.source = source]
  ELSE c

\* processBatch: impressions come first, then failures, then everything else.
\* source is the first failure's, or "none" if there is none.
Batched(c, impression, source, signal) ==
  LET i == IF impression THEN Impressed(c) ELSE c
      d == IF source = "none" THEN i ELSE Failed(i, source)
  IN  IF signal THEN Signalled(d) ELSE d

InOrder(a) == LateSignals \/ closure[a].state \in {"none", "open"}

----------------------------------------------------------------------------
Signal(a) ==
  /\ InOrder(a)
  /\ closure' = [closure EXCEPT ![a] = Signalled(@)]
  /\ UNCHANGED now

Impression(a) ==
  /\ closure' = [closure EXCEPT ![a] = Impressed(@)]
  /\ UNCHANGED now

Failure(a, source) ==
  /\ closure' = [closure EXCEPT ![a] = Failed(@, source)]
  /\ UNCHANGED now

\* The events of a batch on other attempts are batches of their own.
Batch(a, impression, source, signal) ==
  /\ signal => LateSignals
  /\ closure' = [closure EXCEPT ![a] = Batched(@, impression, source, signal)]
  /\ UNCHANGED now

Due(a) == closure[a].state = "open" /\ now - closure[a].openedAt >= WaitWindow

\* scanTimeouts gives up every attempt that is due.
ScanTimeouts ==
  /\ closure' = [a \in Attempts |-> IF Due(a) THEN Failed(closure[a], Synthesized) ELSE closure[a]]
  /\ UNCHANGED now

Tick ==
  /\ now < MaxTime
  /\ now' = now + 1
  /\ UNCHANGED closure

Init ==
  /\ now = 0
  /\ closure = [a \in Attempts |-> NoClosure]

Next ==
  \/ \E a \in Attempts :
       \/ Signal(a)
       \/ Impression(a)
       \/ \E source \in Sources : Failure(a, source)
       \/ \E impression, signal \in BOOLEAN, source \in Sources \cup {"none"} :
            Batch(a, impression, source, signal)
  \/ ScanTimeouts
  \/ Tick

Spec == Init /\ [][Next]_vars

----------------------------------------------------------------------------
ClosureType ==
  [state : {"none", "open", "closed_success", "closed_failure"},
   source : Sources \cup {"none", "impression", Synthesized},
   openedAt : Nat]

TypeOK ==
  /\ now \in Nat
  /\ closure \in [Attempts -> ClosureType]
  /\ \A a \in Attempts : closure[a].openedAt <= now

OutcomeOf(c) ==
  IF c.state \in {"none", "open"} THEN "pending"
  ELSE IF c.state = "closed_success" THEN "succeeded"
  ELSE IF c.source = Synthesized THEN "presumed"
  ELSE "failed"

(* While opening signals come before the terminal events, an attempt is decided
   once, and only a failure that was presumed gives way to an impression. *)
Promise == INSTANCE AttemptOutcome WITH outcome <- [a \in Attempts |-> OutcomeOf(closure[a])]
ImplementsAttemptOutcome == Promise!Spec

Terminal(c) == c.state \in {"closed_success", "closed_failure"}

(* A closure that was closed is never open again. *)
TerminalStands == [][\A a \in Attempts : Terminal(closure[a]) => Terminal(closure'[a])]_vars
=============================================================================
