------------------------- MODULE SafeExecutionClaims -------------------------
(***************************************************************************)
(* What comments, docs and tests of the repository say about safe          *)
(* execution and its code does not do.  Each claim has a run of its own    *)
(* that ends in a counterexample.                                          *)
(***************************************************************************)
EXTENDS SafeExecution

\* tests/test_safe_execution_history.py retries the failed items of a partly
\* completed execution and finds it COMPLETED.  The summary of
\* retry_failed_operation_execution reads rows its session still holds from
\* before the retry, since SessionFactory does not expire them on commit.
RetrySummaryIsFresh ==
  \A e \in Execution :
    execution[e] = "PARTIALLY_COMPLETED" => ItemsIn(e, "FAILED") # {}

\* recover_unfinished_operation_executions: the startup handles the unfinished
\* executions it has found.  One execution that raises ends the loop, and the
\* process with it, so that one whose paths are clear is never handled.
ClearExecutionIsRecovered ==
  \A e \in Execution :
    server = "starting" /\ execution[e] = "EXECUTING" /\ ExecutionIsClear(e)
      ~> execution[e] # "EXECUTING" \/ ~ExecutionIsClear(e)

\* OperationStatus.COMPLETED: an explicit undo may follow.  A scan deletes the
\* FileEntry of a quarantined file, without which its undo cannot be recorded.
UndoCompletes ==
  \A e \in Execution : execution[e] = "UNDOING" ~> execution[e] = "UNDONE"

\* README_V2.md: after the operation, FileNest records its evidence and
\* synchronizes the FileEntry location.  While the index still lists a file
\* that is gone from the target path, the update violates the unique
\* constraint, on execution and on every recovery.
MovedIsRecorded ==
  \A e \in Execution, n \in Item :
    item[e][n] = "EXECUTING" /\ FileAt(e, n, "target") ~> item[e][n] = "COMPLETED"
=============================================================================
