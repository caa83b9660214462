------------------------------ MODULE JobContract ------------------------------
(***************************************************************************)
(* What a background job promises to the client that submitted it, without *)
(* stores, threads, restarts or failures: it is tried a bounded number of  *)
(* times, one try after the other, and only a failure is tried again.      *)
(***************************************************************************)
EXTENDS Integers

CONSTANTS Job, MaxAttempts

VARIABLES
  phase,   \* absent, waiting, active, succeeded, failed or cancelled
  tries    \* the attempts begun

promise == <<phase, tries>>

Init == phase = [j \in Job |-> "absent"] /\ tries = [j \in Job |-> 0]

Turn(j, from, to) ==
  /\ phase[j] = from
  /\ phase' = [phase EXCEPT ![j] = to]

Accept(j) == Turn(j, "absent", "waiting") /\ UNCHANGED tries
Withdraw(j) == Turn(j, "waiting", "cancelled") /\ UNCHANGED tries
Begin(j) ==
  /\ Turn(j, "waiting", "active")
  /\ tries[j] < MaxAttempts[j]
  /\ tries' = [tries EXCEPT ![j] = @ + 1]
End(j) ==
  /\ \E to \in {"succeeded", "failed", "cancelled"} : Turn(j, "active", to)
  /\ UNCHANGED tries
Again(j) ==
  /\ Turn(j, "failed", "waiting")
  /\ tries[j] < MaxAttempts[j]
  /\ UNCHANGED tries

Next == \E j \in Job : Accept(j) \/ Withdraw(j) \/ Begin(j) \/ End(j) \/ Again(j)
Spec == Init /\ [][Next]_promise
=============================================================================
