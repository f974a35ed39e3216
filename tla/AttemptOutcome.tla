---------------------------- MODULE AttemptOutcome ----------------------------
(***************************************************************************)
(* What event attribution promises of a render attempt: it is decided      *)
(* once, as a success or as a failure.  A failure that was only presumed,  *)
(* since nothing was heard, may still turn into a success.                 *)
(***************************************************************************)
CONSTANT Attempts

VARIABLE outcome

Outcomes == {"pending", "presumed", "failed", "succeeded"}

Init == outcome = [a \in Attempts |-> "pending"]

\* All attempts of S, for which no answer came, are given up at once.
Presume(S) ==
  /\ \A a \in S : outcome[a] = "pending"
  /\ outcome' = [a \in Attempts |-> IF a \in S THEN "presumed" ELSE outcome[a]]

Fail(a) ==
  /\ outcome[a] = "pending"
  /\ outcome' = [outcome EXCEPT ![a] = "failed"]

Succeed(a) ==
  /\ outcome[a] \in {"pending", "presumed"}
  /\ outcome' = [outcome EXCEPT ![a] = "succeeded"]

Next ==
  \/ \E S \in SUBSET Attempts : Presume(S)
  \/ \E a \in Attempts : Fail(a) \/ Succeed(a)

Spec == Init /\ [][Next]_outcome
=============================================================================
