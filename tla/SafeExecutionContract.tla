------------------------ MODULE SafeExecutionContract ------------------------
(***************************************************************************)
(* SafeExecution implements PlanContract: the refinement mapping.          *)
(***************************************************************************)
EXTENDS SafeExecution

\* An execution that recovery gave up is FAILED with an item whose error code
\* says so; FAILED otherwise means that every item was refused.
GivenUp(e) == execution[e] = "FAILED" /\ \E n \in Item : error[e][n] = "unsafe"

phaseOf ==
  [e \in Execution |->
    CASE execution[e] = "ABSENT" -> "approved"
      [] execution[e] = "EXECUTING" -> "executing"
      [] execution[e] = "UNDOING" -> "undoing"
      [] execution[e] = "UNDONE" -> "undone"
      [] GivenUp(e) -> "abandoned"
      [] OTHER -> "closed"]

releasedOf == [e \in Execution |-> {n \in Item : <<e, n>> \in tampered}]
movedOf ==
  [e \in Execution |-> {n \in Item : <<e, n>> \notin tampered /\ Exists(e, n, "target")}]
reportedOf == [e \in Execution |-> ItemsIn(e, "COMPLETED") \cup ItemsIn(e, "UNDOING")]

Contract == INSTANCE PlanContract
  WITH Plan <- Execution, Entry <- Item, phase <- phaseOf, moved <- movedOf,
       reported <- reportedOf, released <- releasedOf

\* Without retries, which take up items that recovery has given up, every
\* behaviour of the service keeps the contract: whatever crashes, concurrent
\* requests and failed commits do to an execution, it closes with a report
\* that the disk confirms, for every file the user left alone.
KeepsContract == Contract!Spec
=============================================================================
