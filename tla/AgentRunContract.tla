--------------------------- MODULE AgentRunContract ---------------------------
(***************************************************************************)
(* What an agent run promises to the client that submitted it, without the *)
(* pool, the records, restarts or failures.  A run works turn by turn and  *)
(* ends in one status; what it has completed stays completed; any other    *)
(* end may be taken up again, from the turns it has had.                   *)
(***************************************************************************)
EXTENDS Integers

VARIABLES
  status,   \* absent, queued, working, or how the run ended
  turns     \* the model responses it has had

promise == <<status, turns>>

Resumable == {"cancelled", "failed", "timed_out", "max_steps_reached"}

Init == status = "absent" /\ turns = 0

Submit == status = "absent" /\ status' = "queued" /\ UNCHANGED turns
Begin == status = "queued" /\ status' = "working" /\ UNCHANGED turns
Turn == status = "working" /\ turns' = turns + 1 /\ UNCHANGED status
End ==
  /\ \/ status = "working" /\ status' \in Resumable \cup {"completed"}
     \/ status = "queued" /\ status' = "failed"
  /\ UNCHANGED turns
Resume == status \in Resumable /\ status' = "queued" /\ UNCHANGED turns

Next == Submit \/ Begin \/ Turn \/ End \/ Resume
Spec == Init /\ [][Next]_promise
=============================================================================
