---------------------------- MODULE SafeExecution ----------------------------
(***************************************************************************)
(* The execution history of approved operation plans and the file moves it *)
(* protects: backend/app/safe_execution.py with the conditional updates of *)
(* repositories.py, the movers (safe_file_mover.py, v2_file_mover.py,      *)
(* quarantine.py) and the startup recovery that main.py calls.             *)
(*                                                                         *)
(* A request thread executes, retries, undoes or compensates one           *)
(* OperationExecution; the startup thread recovers unfinished ones before  *)
(* the server accepts requests.  A step of a thread is one committed       *)
(* transaction or one visible step on the disk, so a crash, another        *)
(* thread, a workspace scan or the user can come between any two steps.    *)
(***************************************************************************)
EXTENDS Integers, FiniteSets

CONSTANTS
  Execution,      \* ids of the plans and of their executions, in creation order
  N,              \* operations of a plan (sequence_no 1..N)
  Quarantined,    \* pairs <<execution, sequence_no>> of operation_type quarantine
  Stale,          \* pairs whose target path the index still lists for a lost file
  Request,        \* request threads
  Startup,        \* the thread that runs the lifespan hook
  Operations,     \* services that are called: execute, undo, retry, compensate
  Disturbances,   \* what the environment does: create, edit, delete, rmdir,
                  \* policy, scan, lock, commit, statement
  MaxDisturb,     \* bound on the environment's steps
  MaxCrash,       \* bound on process crashes
  MaxAttempt,     \* bound on OperationExecution.attempt
  ExpireOnCommit  \* the session's expire_on_commit (FALSE in SessionFactory)

ASSUME ExecutionAssumption == Execution \subseteq Nat \ {0}
ASSUME NAssumption == N \in Nat \ {0}
ASSUME ThreadAssumption == Startup \notin Request
ASSUME BoundAssumption ==
  MaxDisturb \in Nat /\ MaxCrash \in Nat /\ MaxAttempt \in Nat /\ ExpireOnCommit \in BOOLEAN

Item == 1..N
Thread == Request \cup {Startup}
Side == {"source", "target"}

\* A file as its recorded evidence sees it: "touched" differs from the plan's
\* precondition in mtime only, "foreign" in the SHA-256 digest as well.
Content == {"original", "touched", "foreign"}
\* A path holds a file, is free, or lacks its parent directory.
Place == Content \cup {"vacant", "nodir"}

ExecutionStatus ==
  {"ABSENT", "EXECUTING", "PARTIALLY_COMPLETED", "COMPLETED", "FAILED", "UNDOING", "UNDONE"}
ItemStatus ==
  {"ABSENT", "PENDING", "EXECUTING", "COMPLETED", "FAILED", "UNDOING", "UNDONE"}
OperationStatus ==
  {"APPROVED", "EXECUTING", "PARTIAL_FAILED", "COMPLETED", "FAILED",
   "UNDOING", "UNDONE", "COMPENSATED"}

VARIABLES
  execution,  \* OperationExecution.status ("ABSENT" before the row exists)
  attempt,    \* OperationExecution.attempt
  item,       \* OperationExecutionItem.status
  error,      \* OperationExecutionItem.error_code
  after,      \* the after_* evidence of an item
  operation,  \* OperationStatusRecord.overall_status
  entry,      \* the side the planned FileEntry names, "gone" once deleted
  others,     \* the sides of an item that another FileEntry names
  disk,       \* what is at the source and the target path of an item
  policy,     \* the workspace policy still equals the plans' snapshot
  server,     \* "down", "starting" (lifespan hook runs) or "up"
  thread,     \* local state of each thread
  scan,       \* the disk walk of a running workspace scan
  disturbed, crashes,  \* counters of the bounds
  tampered,   \* history: items whose files the user changed
  asked       \* history: which restore was started for an execution

index == <<entry, others>>
db == <<execution, attempt, item, error, after, operation, index>>
environment == <<policy, scan, disturbed, crashes, tampered>>
vars == <<db, disk, server, thread, asked, environment>>

Restoring(task) == task \in {"undo", "compensate", "recover_undo"}
From(task) == IF Restoring(task) THEN "target" ELSE "source"
To(task) == IF Restoring(task) THEN "source" ELSE "target"

NoItems == [n \in Item |-> "ABSENT"]
Idle == [pc |-> "idle", task |-> "none", exec |-> 0, at |-> 0, left |-> {},
         reconcile |-> {}, view |-> NoItems, seen |-> "ABSENT"]

Init ==
  /\ execution = [e \in Execution |-> "ABSENT"]
  /\ attempt = [e \in Execution |-> 1]
  /\ item = [e \in Execution |-> NoItems]
  /\ error = [e \in Execution |-> [n \in Item |-> "none"]]
  /\ after = [e \in Execution |-> [n \in Item |-> "none"]]
  /\ operation = [e \in Execution |-> "APPROVED"]
  /\ entry = [e \in Execution |-> [n \in Item |-> "source"]]
  /\ others = [e \in Execution |-> [n \in Item |->
                IF <<e, n>> \in Stale \ Quarantined THEN {"target"} ELSE {}]]
  /\ disk = [e \in Execution |-> [n \in Item |->
               [s \in Side |-> IF s = "source" THEN "original"
                               ELSE IF <<e, n>> \in Quarantined THEN "nodir" ELSE "vacant"]]]
  /\ policy = TRUE
  /\ server = "up"
  /\ thread = [t \in Thread |-> Idle]
  /\ scan = [walked |-> FALSE, found |-> [e \in Execution |-> [n \in Item |-> {}]]]
  /\ disturbed = 0 /\ crashes = 0
  /\ tampered = {}
  /\ asked = [e \in Execution |-> "none"]

-----------------------------------------------------------------------------
Exists(e, n, s) == disk[e][n][s] \in Content
ItemsIn(e, status) == {n \in Item : item[e][n] = status}

\* The next item a loop takes: plan order forwards, reverse order to restore.
IsNext(t, n) ==
  /\ n \in thread[t].left
  /\ \A m \in thread[t].left : IF Restoring(thread[t].task) THEN m <= n ELSE n <= m

\* _EXECUTION_TO_OPERATION_STATUS
Projected(status) == IF status = "PARTIALLY_COMPLETED" THEN "PARTIAL_FAILED" ELSE status

Goto(t, local) == thread' = [thread EXCEPT ![t] = local]

\* An exception leaves the service: the request ends; in the lifespan hook,
\* which catches SQLAlchemyError only, the process stops.
Raise(t) ==
  /\ Goto(t, Idle)
  /\ server' = IF t = Startup THEN "down" ELSE server

\* An SQLAlchemyError leaves the service: the lifespan hook ignores it, and the
\* server starts with the executions that are still unfinished.
Abandon(t) ==
  /\ Goto(t, Idle)
  /\ server' = IF t = Startup THEN "up" ELSE server

At(t, pc, tasks) == thread[t].pc = pc /\ thread[t].task \in tasks
Forward == {"execute", "retry", "recover"}
Backward == {"undo", "compensate", "recover_undo"}

-----------------------------------------------------------------------------
(* Starting an execution. *)

\* validate_operation_plan: index, source evidence and target of every item.
PlanIsValid(e) ==
  \A n \in Item :
    /\ entry[e][n] = "source"
    /\ disk[e][n]["source"] = "original"
    /\ IF <<e, n>> \in Quarantined THEN ~Exists(e, n, "target")
                                   ELSE disk[e][n]["target"] = "vacant"

\* execute_safe_operation_plan up to the first write.  A plan that already has
\* an execution is answered from its history and changes nothing.
RequestExecute(t, e) ==
  /\ server = "up" /\ thread[t] = Idle
  /\ "execute" \in Operations
  /\ policy
  /\ execution[e] = "ABSENT"
  /\ PlanIsValid(e)
  /\ Goto(t, [Idle EXCEPT !.pc = "create", !.task = "execute", !.exec = e])
  /\ UNCHANGED <<db, disk, server, asked, environment>>

CreateHolds(t) ==
  /\ execution[thread[t].exec] = "ABSENT"
  /\ operation[thread[t].exec] = "APPROVED"

\* The history, with every item PENDING, is committed before any file moves.
CreateHistory(t) ==
  LET e == thread[t].exec IN
  /\ thread[t].pc = "create"
  /\ CreateHolds(t)
  /\ execution' = [execution EXCEPT ![e] = "EXECUTING"]
  /\ operation' = [operation EXCEPT ![e] = "EXECUTING"]
  /\ item' = [item EXCEPT ![e] = [n \in Item |-> "PENDING"]]
  /\ Goto(t, [thread[t] EXCEPT !.pc = "pick", !.left = Item,
                               !.view = [n \in Item |-> "PENDING"]])
  /\ UNCHANGED <<attempt, error, after, index, disk, server, asked, environment>>

-----------------------------------------------------------------------------
(* Starting a retry. *)

\* _validate_failed_item_for_retry
Retryable(e, n) ==
  /\ <<e, n>> \notin Quarantined
  /\ Exists(e, n, "source") => disk[e][n]["source"] = "original"

RequestRetry(t, e) ==
  /\ server = "up" /\ thread[t] = Idle
  /\ "retry" \in Operations
  /\ attempt[e] < MaxAttempt
  /\ execution[e] \in {"PARTIALLY_COMPLETED", "FAILED"}
  /\ ItemsIn(e, "FAILED") # {}
  /\ \A n \in Item : item[e][n] \in {"COMPLETED", "FAILED"}
  /\ policy
  /\ \A n \in ItemsIn(e, "FAILED") : Retryable(e, n)
  /\ Goto(t, [Idle EXCEPT !.pc = "mark", !.task = "retry", !.exec = e,
                          !.view = item[e], !.seen = execution[e]])
  /\ UNCHANGED <<db, disk, server, asked, environment>>

\* Mutant: an update by primary key alone.
MarkHoldsUnconditionally(t, status) == TRUE

\* The rows a mark step moves on still are what the thread has read.
MarkHolds(t, status) ==
  LET e == thread[t].exec IN
  /\ execution[e] = thread[t].seen
  /\ operation[e] = Projected(thread[t].seen)
  /\ \A n \in Item : thread[t].view[n] = status => item[e][n] = status

Marked(t, status) == {n \in Item : thread[t].view[n] = status}

MarkRetry(t) ==
  LET e == thread[t].exec
      failed == Marked(t, "FAILED") IN
  /\ At(t, "mark", {"retry"})
  /\ MarkHolds(t, "FAILED")
  /\ execution' = [execution EXCEPT ![e] = "EXECUTING"]
  /\ attempt' = [attempt EXCEPT ![e] = @ + 1]
  /\ operation' = [operation EXCEPT ![e] = "EXECUTING"]
  /\ item' = [item EXCEPT ![e] =
                [n \in Item |-> IF n \in failed THEN "PENDING" ELSE item[e][n]]]
  /\ error' = [error EXCEPT ![e] =
                [n \in Item |-> IF n \in failed THEN "none" ELSE error[e][n]]]
  /\ Goto(t, [thread[t] EXCEPT !.pc = "pick", !.left = failed])
  /\ UNCHANGED <<after, index, disk, server, asked, environment>>

-----------------------------------------------------------------------------
(* Starting an undo or a compensation: _restore_operation_execution. *)

AllowedFrom(task) ==
  IF task = "undo" THEN {"COMPLETED", "PARTIALLY_COMPLETED"} ELSE {"PARTIALLY_COMPLETED"}

\* _validate_completed_item_for_restore: the file moved by the item is
\* unchanged and nothing occupies its original path.
Restorable(e, n) ==
  /\ after[e][n] # "none"
  /\ disk[e][n]["target"] = after[e][n]
  /\ ~Exists(e, n, "source")

RequestRestore(t, e, task) ==
  /\ server = "up" /\ thread[t] = Idle
  /\ task \in Operations
  /\ execution[e] \in AllowedFrom(task)
  /\ ItemsIn(e, "COMPLETED") # {}
  /\ \A n \in Item : item[e][n] \in {"COMPLETED", "FAILED"}
  /\ (execution[e] = "COMPLETED") = (ItemsIn(e, "FAILED") = {})
  /\ policy
  /\ \A n \in ItemsIn(e, "COMPLETED") : Restorable(e, n)
  /\ Goto(t, [Idle EXCEPT !.pc = "mark", !.task = task, !.exec = e,
                          !.view = item[e], !.seen = execution[e]])
  /\ UNCHANGED <<db, disk, server, asked, environment>>

MarkRestore(t) ==
  LET e == thread[t].exec
      completed == Marked(t, "COMPLETED") IN
  /\ At(t, "mark", {"undo", "compensate"})
  /\ MarkHolds(t, "COMPLETED")
  /\ execution' = [execution EXCEPT ![e] = "UNDOING"]
  /\ operation' = [operation EXCEPT ![e] = "UNDOING"]
  /\ item' = [item EXCEPT ![e] =
                [n \in Item |-> IF n \in completed THEN "UNDOING" ELSE item[e][n]]]
  /\ asked' = [asked EXCEPT ![e] = thread[t].task]
  /\ Goto(t, [thread[t] EXCEPT !.pc = "pick", !.left = completed])
  /\ UNCHANGED <<attempt, error, after, index, disk, server, environment>>

-----------------------------------------------------------------------------
(* The loop over the items. *)

\* Taking item n: what remains, and the item in hand.
Taken(t, n, pc) == [thread[t] EXCEPT !.pc = pc, !.at = n, !.left = @ \ {n}]

StartHolds(t, n) ==
  \/ item[thread[t].exec][n] = "PENDING"
  \/ thread[t].task = "recover" /\ item[thread[t].exec][n] = "EXECUTING"

\* Mutant: the intent is only kept in the session.
AnnounceUncommitted(e, n) == UNCHANGED item

Announce(e, n) == item' = [item EXCEPT ![e][n] = "EXECUTING"]

\* The intent is durable before the side effect: PENDING -> EXECUTING is
\* committed first.  Recovery skips what was already EXECUTING and does not
\* move an item whose file it found at the target.
StartItem(t, n) ==
  LET e == thread[t].exec IN
  /\ At(t, "pick", Forward)
  /\ IsNext(t, n)
  /\ StartHolds(t, n)
  /\ Announce(e, n)
  /\ Goto(t, Taken(t, n, IF n \in thread[t].reconcile THEN "record" ELSE "check"))
  /\ UNCHANGED <<execution, attempt, error, after, operation, index, disk, server,
                 asked, environment>>

\* A restore has no durable per-item start: the item already is UNDOING.
StartRestoreItem(t, n) ==
  /\ At(t, "pick", Backward)
  /\ IsNext(t, n)
  /\ Goto(t, Taken(t, n, IF n \in thread[t].reconcile THEN "record" ELSE "check"))
  /\ UNCHANGED <<db, disk, server, asked, environment>>

\* The last look at the paths before the rename.  execute and retry compare
\* the source with the recorded evidence; recovery and restore only ask the
\* mover whether it exists.  A quarantine creates its target directory.
MovePossible(t) ==
  LET e == thread[t].exec
      n == thread[t].at
      task == thread[t].task
      target == disk[e][n][To(task)] IN
  /\ IF task \in {"execute", "retry"} THEN disk[e][n]["source"] = "original"
                                      ELSE Exists(e, n, From(task))
  /\ \/ target = "vacant"
     \/ target = "nodir" /\ task = "execute" /\ <<e, n>> \in Quarantined

CheckMove(t) ==
  LET e == thread[t].exec
      n == thread[t].at IN
  /\ thread[t].pc = "check"
  /\ MovePossible(t)
  /\ disk' = [disk EXCEPT ![e][n][To(thread[t].task)] = "vacant"]
  /\ Goto(t, [thread[t] EXCEPT !.pc = "rename"])
  /\ UNCHANGED <<db, server, asked, environment>>

\* The item in hand is settled; execute counts the outcome.
Settled(t, status) ==
  [thread[t] EXCEPT !.pc = "pick", !.at = 0,
     !.view = IF thread[t].task = "execute" THEN [@ EXCEPT ![thread[t].at] = status] ELSE @]

\* Mutant: a refused item is queued again at once.
FailItemRequeued(t) ==
  LET e == thread[t].exec
      n == thread[t].at IN
  /\ item[e][n] = "EXECUTING"
  /\ item' = [item EXCEPT ![e][n] = "PENDING"]
  /\ Goto(t, [thread[t] EXCEPT !.pc = "pick", !.at = 0, !.left = @ \cup {n}])
  /\ UNCHANGED <<execution, attempt, error, after, operation, index, disk, server, asked>>

\* A recoverable refusal is recorded on the item and the loop goes on.
FailItem(t) ==
  LET e == thread[t].exec
      n == thread[t].at IN
  /\ item[e][n] = "EXECUTING"
  /\ item' = [item EXCEPT ![e][n] = "FAILED"]
  /\ error' = [error EXCEPT ![e][n] = "refused"]
  /\ Goto(t, Settled(t, "FAILED"))
  /\ UNCHANGED <<execution, attempt, after, operation, index, disk, server, asked>>

RefuseMove(t) ==
  /\ At(t, "check", Forward)
  /\ ~MovePossible(t)
  /\ FailItem(t)
  /\ UNCHANGED environment

\* The mover's refusal is not handled by a restore: the request ends, or the
\* startup, with the execution UNDOING.
RestoreRefused(t) ==
  /\ At(t, "check", Backward)
  /\ ~MovePossible(t)
  /\ Raise(t)
  /\ UNCHANGED <<db, disk, asked, environment>>

\* shutil.move after the last check: what stands at the target by now is
\* replaced, and whatever is at the source by now is what moves.
RenamePossible(t) ==
  LET e == thread[t].exec
      n == thread[t].at IN
  /\ Exists(e, n, From(thread[t].task))
  /\ disk[e][n][To(thread[t].task)] # "nodir"

Rename(t) ==
  LET e == thread[t].exec
      n == thread[t].at
      from == From(thread[t].task) IN
  /\ thread[t].pc = "rename"
  /\ RenamePossible(t)
  /\ disk' = [disk EXCEPT ![e][n] =
                [s \in Side |-> IF s = from THEN "vacant" ELSE disk[e][n][from]]]
  /\ Goto(t, [thread[t] EXCEPT !.pc = "record"])
  /\ UNCHANGED <<db, server, asked, environment>>

\* _mark_interrupted_execution_failed: nothing moves any more, every item that
\* was not finished and the execution become FAILED.
MarkFailed(t, e) ==
  LET unfinished == ItemsIn(e, "PENDING") \cup ItemsIn(e, "EXECUTING") IN
  /\ item' = [item EXCEPT ![e] =
                [n \in Item |-> IF n \in unfinished THEN "FAILED" ELSE item[e][n]]]
  /\ error' = [error EXCEPT ![e] =
                [n \in Item |-> IF n \in unfinished THEN "unsafe" ELSE error[e][n]]]
  /\ execution' = [execution EXCEPT ![e] = "FAILED"]
  /\ operation' = [operation EXCEPT ![e] = "FAILED"]
  /\ Goto(t, Idle)
  /\ UNCHANGED <<attempt, after, index, disk, server, asked>>

\* v2_move_file returned None.  A target that exists by now is a recoverable
\* conflict; anything else is MOVE_FAILED, which only recovery handles.
MoveFails(t) ==
  LET e == thread[t].exec
      task == thread[t].task
      conflict == Exists(e, thread[t].at, To(task)) IN
  /\ \/ task \in Forward /\ conflict /\ FailItem(t)
     \/ task = "recover" /\ ~conflict /\ MarkFailed(t, e)
     \/ /\ task \in Backward \/ (task # "recover" /\ ~conflict)
        /\ Raise(t)
        /\ UNCHANGED <<db, disk, asked>>

RenameFails(t) ==
  /\ thread[t].pc = "rename"
  /\ ~RenamePossible(t)
  /\ MoveFails(t)
  /\ UNCHANGED environment

\* What the moved file must be for its item to be finished.  An execution
\* compares the digest and records the metadata it finds; recovery and restore
\* also compare the metadata with the plan's precondition.
EvidenceHolds(t) ==
  LET found == disk[thread[t].exec][thread[t].at][To(thread[t].task)] IN
  IF thread[t].task \in {"execute", "retry"} THEN found \in {"original", "touched"}
                                             ELSE found = "original"

RecordHolds(t) ==
  LET e == thread[t].exec
      n == thread[t].at IN
  /\ item[e][n] = IF Restoring(thread[t].task) THEN "UNDOING" ELSE "EXECUTING"
  /\ entry[e][n] = From(thread[t].task)

\* uq_file_entries_workspace_relative_path: another row names the path to which
\* the FileEntry is to go.
PathTaken(t) ==
  LET e == thread[t].exec
      n == thread[t].at IN
  /\ entry[e][n] = From(thread[t].task)
  /\ To(thread[t].task) \in others[e][n]

\* Mutant: the FileEntry is left to the next scan.
IndexAtLater(e, n, s) == UNCHANGED entry

\* compare_and_set_file_entry_location
IndexAt(e, n, s) == entry' = [entry EXCEPT ![e][n] = s]

\* The item and its FileEntry change in one transaction or not at all.
CommitMove(t) ==
  LET e == thread[t].exec
      n == thread[t].at IN
  /\ At(t, "record", Forward)
  /\ EvidenceHolds(t)
  /\ RecordHolds(t)
  /\ item' = [item EXCEPT ![e][n] = "COMPLETED"]
  /\ after' = [after EXCEPT ![e][n] = disk[e][n]["target"]]
  /\ ~PathTaken(t)
  /\ IndexAt(e, n, "target")
  /\ Goto(t, Settled(t, "COMPLETED"))
  /\ UNCHANGED <<execution, attempt, error, operation, others, disk, server, asked, environment>>

CommitRestore(t) ==
  LET e == thread[t].exec
      n == thread[t].at IN
  /\ At(t, "record", Backward)
  /\ EvidenceHolds(t)
  /\ RecordHolds(t)
  /\ item' = [item EXCEPT ![e][n] = "UNDONE"]
  /\ ~PathTaken(t)
  /\ IndexAt(e, n, "source")
  /\ Goto(t, [thread[t] EXCEPT !.pc = "pick", !.at = 0])
  /\ UNCHANGED <<execution, attempt, error, after, operation, others, disk, server, asked,
                 environment>>

\* The IntegrityError of the index update leaves the service, with the file
\* moved and neither row changed.
IndexRejected(t) ==
  /\ thread[t].pc = "record"
  /\ EvidenceHolds(t)
  /\ PathTaken(t)
  /\ Abandon(t)
  /\ UNCHANGED <<db, disk, asked, environment>>

\* FILE_CHANGED or RESULT_MISMATCH once the file has moved.
EvidenceRejected(t) ==
  /\ thread[t].pc = "record"
  /\ ~EvidenceHolds(t)
  /\ IF thread[t].task = "recover"
     THEN MarkFailed(t, thread[t].exec)
     ELSE Raise(t) /\ UNCHANGED <<db, disk, asked>>
  /\ UNCHANGED environment

-----------------------------------------------------------------------------
(* Closing an execution. *)

\* The statuses the summary is computed from: execute counts what it did,
\* recovery reads the rows again, and retry reads them through a session that
\* may still hold the objects it loaded before the first commit.
Summarised(t) ==
  LET stale == \/ thread[t].task = "execute"
               \/ thread[t].task = "retry" /\ ~ExpireOnCommit
      rows == IF stale THEN thread[t].view ELSE item[thread[t].exec] IN
  {rows[n] : n \in Item}

\* Mutant: one success makes the summary.
SummaryOptimistic(statuses) == IF "COMPLETED" \in statuses THEN "COMPLETED" ELSE "FAILED"

Summary(statuses) ==
  IF statuses = {"COMPLETED"} THEN "COMPLETED"
  ELSE IF statuses = {"FAILED"} THEN "FAILED"
  ELSE "PARTIALLY_COMPLETED"

FinishHolds(t, status) ==
  /\ execution[thread[t].exec] = status
  /\ operation[thread[t].exec] = status

FinishExecution(t) ==
  LET e == thread[t].exec
      final == Summary(Summarised(t)) IN
  /\ At(t, "pick", Forward)
  /\ thread[t].left = {}
  /\ FinishHolds(t, "EXECUTING")
  /\ Summarised(t) \subseteq {"COMPLETED", "FAILED"}
  /\ execution' = [execution EXCEPT ![e] = final]
  /\ operation' = [operation EXCEPT ![e] = Projected(final)]
  /\ Goto(t, Idle)
  /\ UNCHANGED <<attempt, item, error, after, index, disk, server, asked, environment>>

\* A restore ends in the status its caller asked for; recovery decides from
\* the rows.
RestoredStatus(t) ==
  CASE thread[t].task = "undo" -> "UNDONE"
    [] thread[t].task = "compensate" -> "COMPENSATED"
    [] OTHER -> IF ItemsIn(thread[t].exec, "FAILED") # {} THEN "COMPENSATED" ELSE "UNDONE"

\* Recovery takes an undo for finished only when every item is undone or had failed.
RestoreIsComplete(t) ==
  thread[t].task = "recover_undo" => \A n \in Item : item[thread[t].exec][n] \in {"UNDONE", "FAILED"}

FinishRestore(t) ==
  LET e == thread[t].exec IN
  /\ At(t, "pick", Backward)
  /\ thread[t].left = {}
  /\ FinishHolds(t, "UNDOING") /\ RestoreIsComplete(t)
  /\ execution' = [execution EXCEPT ![e] = "UNDONE"]
  /\ operation' = [operation EXCEPT ![e] = RestoredStatus(t)]
  /\ Goto(t, Idle)
  /\ UNCHANGED <<attempt, item, error, after, index, disk, server, asked, environment>>

\* What the conditional updates of the next transaction require.
UpdatesHold(t) ==
  LET local == thread[t] IN
  CASE local.pc = "create" -> CreateHolds(t)
    [] local.pc = "mark" -> MarkHolds(t, IF local.task = "retry" THEN "FAILED" ELSE "COMPLETED")
    [] local.pc = "pick" /\ local.left = {} /\ local.task \in Forward ->
         FinishHolds(t, "EXECUTING") /\ Summarised(t) \subseteq {"COMPLETED", "FAILED"}
    [] local.pc = "pick" /\ local.left = {} /\ local.task \in Backward ->
         FinishHolds(t, "UNDOING") /\ RestoreIsComplete(t)
    [] local.pc = "pick" /\ local.task \in Forward ->
         \E n \in local.left : IsNext(t, n) /\ StartHolds(t, n)
    [] local.pc = "check" /\ local.task \in Forward ->
         MovePossible(t) \/ item[local.exec][local.at] = "EXECUTING"
    [] local.pc = "record" -> EvidenceHolds(t) => RecordHolds(t) \/ PathTaken(t)
    [] OTHER -> TRUE

\* A conditional update matched no row, or a unique constraint was hit: the
\* transaction is rolled back and the service raises STATE_CHANGED (a losing
\* creation answers with the winner's history instead).
StateChanged(t) ==
  /\ thread[t] # Idle
  /\ ~UpdatesHold(t)
  /\ Raise(t)
  /\ UNCHANGED <<db, disk, asked, environment>>

-----------------------------------------------------------------------------
(* Startup recovery: recover_unfinished_operation_executions. *)

\* find_unfinished_operation_executions, by primary key.
Unfinished(e) == execution[e] \in {"EXECUTING", "UNDOING"} /\ operation[e] = execution[e]
IsFirstUnfinished(e) ==
  Unfinished(e) /\ \A f \in Execution : Unfinished(f) => e <= f

Boot ==
  /\ server = "down"
  /\ server' = "starting"
  /\ UNCHANGED <<db, disk, thread, asked, environment>>

BootDone ==
  /\ server = "starting" /\ thread[Startup] = Idle
  /\ \A e \in Execution : ~Unfinished(e)
  /\ server' = "up"
  /\ UNCHANGED <<db, disk, thread, asked, environment>>

Recoverable(e) == server = "starting" /\ thread[Startup] = Idle /\ IsFirstUnfinished(e)

\* _interrupted_path_action and _validate_recovery_file: exactly one of the
\* two paths exists and it holds the file the evidence describes.
PathIsClear(e, n, atTarget, atSource) ==
  /\ <<e, n>> \notin Quarantined
  /\ Exists(e, n, "source") # Exists(e, n, "target")
  /\ IF Exists(e, n, "target") THEN disk[e][n]["target"] = atTarget
                               ELSE disk[e][n]["source"] = atSource

\* Mutant: recovery takes the announced items only.
InterruptedAnnounced(e) == ItemsIn(e, "EXECUTING")

Interrupted(e) == ItemsIn(e, "PENDING") \cup ItemsIn(e, "EXECUTING")

ExecutionIsClear(e) ==
  \A n \in Interrupted(e) : PathIsClear(e, n, "original", "original")

\* Mutant: the disk is examined, and its answer dropped.
AlreadyMovedForgotten(e, items, s) == {}

\* Items whose move happened before the crash: only their rows are missing.
AlreadyMoved(e, items, s) == {n \in items : Exists(e, n, s)}

\* Every unfinished item is examined before the first one moves.
RecoverExecution(e) ==
  /\ Recoverable(e) /\ execution[e] = "EXECUTING"
  /\ policy
  /\ ExecutionIsClear(e)
  /\ Goto(Startup, [Idle EXCEPT !.pc = "pick", !.task = "recover", !.exec = e,
                      !.left = Interrupted(e), !.view = item[e],
                      !.reconcile = AlreadyMoved(e, Interrupted(e), "target")])
  /\ UNCHANGED <<db, disk, server, asked, environment>>

\* One unclear item fails the whole execution.
RecoveryUnsafe(e) ==
  /\ Recoverable(e) /\ execution[e] = "EXECUTING"
  /\ policy
  /\ ~ExecutionIsClear(e)
  /\ MarkFailed(Startup, e)
  /\ UNCHANGED environment

\* _recover_interrupted_undo_items: the undo has left out no item that is not failed,
\* and the files of those it has not undone are where the evidence says.
UndoIsClear(e) ==
  /\ \A n \in Item : item[e][n] \in {"UNDOING", "UNDONE", "FAILED"}
  /\ \A n \in ItemsIn(e, "UNDOING") :
       after[e][n] # "none" /\ PathIsClear(e, n, after[e][n], "original")

RecoverUndo(e) ==
  /\ Recoverable(e) /\ execution[e] = "UNDOING"
  /\ policy
  /\ UndoIsClear(e)
  /\ Goto(Startup, [Idle EXCEPT !.pc = "pick", !.task = "recover_undo", !.exec = e,
                      !.left = ItemsIn(e, "UNDOING"), !.view = item[e],
                      !.reconcile = AlreadyMoved(e, ItemsIn(e, "UNDOING"), "source")])
  /\ UNCHANGED <<db, disk, server, asked, environment>>

\* POLICY_CHANGED, and any doubt about an interrupted undo, leave the lifespan
\* hook as a SafeExecutionError: the process does not start.
RecoveryRefused(e) ==
  /\ Recoverable(e)
  /\ ~policy \/ (execution[e] = "UNDOING" /\ ~UndoIsClear(e))
  /\ Raise(Startup)
  /\ UNCHANGED <<db, disk, asked, environment>>

-----------------------------------------------------------------------------
(* The environment. *)

NothingFound == [e \in Execution |-> [n \in Item |-> {}]]

Disturb(kind) ==
  /\ kind \in Disturbances
  /\ disturbed < MaxDisturb
  /\ disturbed' = disturbed + 1

\* The process ends between two steps; the disk and committed rows remain.
Crash ==
  /\ server # "down"
  /\ crashes < MaxCrash
  /\ crashes' = crashes + 1
  /\ server' = "down"
  /\ thread' = [t \in Thread |-> Idle]
  /\ scan' = [scan EXCEPT !.walked = FALSE, !.found = NothingFound]
  /\ UNCHANGED <<db, disk, asked, policy, disturbed, tampered>>

\* The user, or another program, changes a file of the workspace.
UserFile(e, n, s) ==
  \E kind \in {"create", "edit", "delete"}, new \in Content \cup {"vacant"} :
    /\ Disturb(kind)
    /\ CASE kind = "create" -> disk[e][n][s] = "vacant" /\ new = "foreign"
         [] kind = "edit" -> Exists(e, n, s) /\ new \in {"touched", "foreign"} \ {disk[e][n][s]}
         [] kind = "delete" -> Exists(e, n, s) /\ new = "vacant"
    /\ disk' = [disk EXCEPT ![e][n][s] = new]
    /\ tampered' = tampered \cup {<<e, n>>}
    /\ UNCHANGED <<db, server, thread, asked, policy, scan, crashes>>

\* The parent directory of a free path is removed or made again.
UserDirectory(e, n, s) ==
  /\ Disturb("rmdir")
  /\ disk[e][n][s] \in {"vacant", "nodir"}
  /\ disk' = [disk EXCEPT ![e][n][s] = IF @ = "vacant" THEN "nodir" ELSE "vacant"]
  /\ UNCHANGED <<db, server, thread, asked, policy, scan, crashes, tampered>>

\* Any update raises policy_revision, which the snapshot contains.
UpdatePolicy ==
  /\ server = "up" /\ policy
  /\ Disturb("policy")
  /\ policy' = FALSE
  /\ UNCHANGED <<db, disk, server, thread, asked, scan, crashes, tampered>>

\* The operating system refuses the rename (a file in use, a full volume).
LockedMove(t) ==
  /\ Disturb("lock")
  /\ thread[t].pc = "rename"
  /\ RenamePossible(t)
  /\ MoveFails(t)
  /\ UNCHANGED <<policy, scan, crashes, tampered>>

\* A transaction fails with HISTORY_WRITE_FAILED, or another exception the
\* services do not handle ends the thread.
CommitFails(t) ==
  /\ thread[t].pc \in {"create", "mark", "pick", "check", "record"}
  /\ Disturb("commit")
  /\ Raise(t)
  /\ UNCHANGED <<db, disk, asked, policy, scan, crashes, tampered>>

\* A statement of the recovery fails (the database is locked).
RecoveryAbandoned ==
  /\ server = "starting"
  /\ Disturb("statement")
  /\ Abandon(Startup)
  /\ UNCHANGED <<db, disk, asked, policy, scan, crashes, tampered>>

\* scan_workspace walks the disk; the quarantine is outside the workspace.
ScanWalk ==
  /\ server # "down" /\ ~scan.walked
  /\ Disturb("scan")
  /\ scan' = [walked |-> TRUE,
              found |-> [e \in Execution |-> [n \in Item |->
                {s \in Side : /\ Exists(e, n, s)
                              /\ s = "target" => <<e, n>> \notin Quarantined}]]]
  /\ UNCHANGED <<db, disk, server, thread, asked, policy, crashes, tampered>>

\* sync_file_index deletes every FileEntry whose path the walk did not find; a
\* file found where no FileEntry is gets a new one, under another id.
ScanSync ==
  /\ scan.walked
  /\ entry' = [e \in Execution |-> [n \in Item |->
                IF entry[e][n] \in scan.found[e][n] THEN entry[e][n] ELSE "gone"]]
  /\ others' = [e \in Execution |-> [n \in Item |-> scan.found[e][n] \ {entry[e][n]}]]
  /\ scan' = [walked |-> FALSE, found |-> NothingFound]
  /\ UNCHANGED <<execution, attempt, item, error, after, operation, disk, server,
                 thread, asked, policy, disturbed, crashes, tampered>>

-----------------------------------------------------------------------------
(* The specification. *)

Call(t, e) ==
  \/ RequestExecute(t, e)
  \/ RequestRetry(t, e)
  \/ \E task \in {"undo", "compensate"} : RequestRestore(t, e, task)

Step(t) ==
  \/ CreateHistory(t)
  \/ MarkRetry(t)
  \/ MarkRestore(t)
  \/ \E n \in Item : StartItem(t, n)
  \/ \E n \in Item : StartRestoreItem(t, n)
  \/ CheckMove(t)
  \/ RefuseMove(t)
  \/ RestoreRefused(t)
  \/ Rename(t)
  \/ RenameFails(t)
  \/ CommitMove(t)
  \/ CommitRestore(t)
  \/ IndexRejected(t)
  \/ EvidenceRejected(t)
  \/ FinishExecution(t)
  \/ FinishRestore(t)
  \/ StateChanged(t)

Recover(e) ==
  \/ RecoverExecution(e)
  \/ RecoveryUnsafe(e)
  \/ RecoverUndo(e)
  \/ RecoveryRefused(e)

Environment ==
  \/ Crash
  \/ \E e \in Execution, n \in Item, s \in Side : UserFile(e, n, s)
  \/ \E e \in Execution, n \in Item, s \in Side : UserDirectory(e, n, s)
  \/ UpdatePolicy
  \/ \E t \in Thread : LockedMove(t)
  \/ \E t \in Thread : CommitFails(t)
  \/ RecoveryAbandoned
  \/ ScanWalk
  \/ ScanSync

\* A server without a request to serve may rest.
Rest ==
  /\ server = "up"
  /\ \A t \in Thread : thread[t] = Idle
  /\ UNCHANGED vars

Next ==
  \/ \E t \in Request, e \in Execution : Call(t, e)
  \/ \E t \in Thread : Step(t)
  \/ Boot
  \/ BootDone
  \/ \E e \in Execution : Recover(e)
  \/ Environment
  \/ Rest

Spec == Init /\ [][Next]_vars

\* Threads are scheduled by the operating system, the supervisor starts a
\* process that ended, and the lifespan hook runs to its end.  Nobody has to
\* send a request, and the environment has to do nothing.
Fairness ==
  /\ \A t \in Thread : WF_vars(Step(t))
  /\ WF_vars(Boot)
  /\ WF_vars(BootDone)
  /\ \A e \in Execution : WF_vars(Recover(e))

FairSpec == Spec /\ Fairness

-----------------------------------------------------------------------------
(* Properties. *)

Local ==
  [pc : {"idle", "create", "mark", "pick", "check", "rename", "record"},
   task : {"none", "execute", "retry", "undo", "compensate", "recover", "recover_undo"},
   exec : Execution \cup {0}, at : Item \cup {0},
   left : SUBSET Item, reconcile : SUBSET Item,
   view : [Item -> ItemStatus], seen : ExecutionStatus]

\* Every variable keeps its type.
TypeOK ==
  /\ execution \in [Execution -> ExecutionStatus]
  /\ attempt \in [Execution -> Nat \ {0}]
  /\ item \in [Execution -> [Item -> ItemStatus]]
  /\ error \in [Execution -> [Item -> {"none", "refused", "unsafe"}]]
  /\ after \in [Execution -> [Item -> Content \cup {"none"}]]
  /\ operation \in [Execution -> OperationStatus]
  /\ entry \in [Execution -> [Item -> Side \cup {"gone"}]]
  /\ others \in [Execution -> [Item -> SUBSET Side]]
  /\ disk \in [Execution -> [Item -> [Side -> Place]]]
  /\ policy \in BOOLEAN
  /\ server \in {"down", "starting", "up"}
  /\ thread \in [Thread -> Local]
  /\ scan \in [walked : BOOLEAN, found : [Execution -> [Item -> SUBSET Side]]]
  /\ disturbed \in Nat /\ crashes \in Nat
  /\ tampered \subseteq Execution \X Item
  /\ asked \in [Execution -> {"none", "undo", "compensate"}]

Drives(t) == thread[t].pc \in {"pick", "check", "rename", "record"}

\* However requests, crashes and recovery interleave, one execution is driven
\* by at most one thread, in the direction its committed status says: nothing
\* but the conditional updates keeps two requests from moving the same files.
OneDriver ==
  /\ \A t, u \in Thread :
       Drives(t) /\ Drives(u) /\ thread[t].exec = thread[u].exec => t = u
  /\ \A t \in Thread : Drives(t) =>
       execution[thread[t].exec] =
         IF Restoring(thread[t].task) THEN "UNDOING" ELSE "EXECUTING"

\* The FileEntry of an item names the side its item row implies, or a scan
\* has deleted it: no crash and no failed commit separates row and index.
IndexFollowsHistory ==
  \A e \in Execution, n \in Item :
    entry[e][n] \in
      {"gone", IF item[e][n] \in {"COMPLETED", "UNDOING"} THEN "target" ELSE "source"}

\* The planned file is at exactly one of its two paths, and is unchanged.
FileAt(e, n, s) ==
  /\ disk[e][n][s] = "original"
  /\ \A r \in Side \ {s} : ~Exists(e, n, r)
FileSafe(e, n) == \E s \in Side : FileAt(e, n, s)

Located(e, n) ==
  /\ FileSafe(e, n)
  /\ item[e][n] \in {"ABSENT", "UNDONE"} => FileAt(e, n, "source")
  /\ item[e][n] = "COMPLETED" => FileAt(e, n, "target")
  /\ item[e][n] \in {"PENDING", "FAILED"} /\ attempt[e] = 1 /\ error[e][n] # "unsafe"
       => FileAt(e, n, "source")

\* The history tells where a file is that the user left alone: at the target
\* once COMPLETED, at the source before the first move, after a refusal and
\* after an undo, and in doubt only while a row announces a move or recovery
\* has given the item up.  (A retry takes up such items again.)
HistoryLocatesFile ==
  \A e \in Execution, n \in Item : <<e, n>> \notin tampered => Located(e, n)

\* All the items of e have statuses in all, and each status in some is shown.
Shows(e, some, all) ==
  /\ \A n \in Item : item[e][n] \in all
  /\ \A status \in some : ItemsIn(e, status) # {}

\* A retry closed the execution with the statuses its session had read before.
Outdated(e) == attempt[e] > 1 /\ ~ExpireOnCommit
Failed(e) == IF Outdated(e) THEN {} ELSE {"FAILED"}

\* The items of an undo that has started: without those that a retry completed
\* between the reading of the items by the undo and its first transaction.
ShowsUndo(e, some, all) ==
  \/ Shows(e, some, all)
  \/ attempt[e] > 1 /\ Shows(e, some \cup Failed(e), all \cup {"COMPLETED"})

\* The Operation projection is the one of the execution, and the summary of
\* the execution is the one of its items.
Agrees(e) ==
  CASE execution[e] = "ABSENT" -> operation[e] = "APPROVED" /\ Shows(e, {}, {"ABSENT"})
    [] execution[e] = "EXECUTING" ->
         /\ operation[e] = "EXECUTING"
         /\ Shows(e, {}, {"PENDING", "EXECUTING", "COMPLETED", "FAILED"})
    [] execution[e] = "COMPLETED" -> operation[e] = "COMPLETED" /\ Shows(e, {}, {"COMPLETED"})
    [] execution[e] = "PARTIALLY_COMPLETED" ->
         /\ operation[e] = "PARTIAL_FAILED"
         /\ Shows(e, {"COMPLETED"} \cup Failed(e), {"COMPLETED", "FAILED"})
    [] execution[e] = "FAILED" ->
         operation[e] = "FAILED" /\ Shows(e, Failed(e), {"COMPLETED", "FAILED"})
    [] execution[e] = "UNDOING" ->
         operation[e] = "UNDOING" /\ ShowsUndo(e, {}, {"UNDOING", "UNDONE", "FAILED"})
    [] execution[e] = "UNDONE" ->
         /\ ShowsUndo(e, {"UNDONE"}, {"UNDONE", "FAILED"})
         /\ \/ operation[e] = "UNDONE" /\ (asked[e] = "undo" \/ Outdated(e))
            \/ operation[e] = "COMPENSATED" /\ Shows(e, Failed(e), ItemStatus)

\* The statuses a user sees agree: the Operation projection is the one of the
\* execution, and the execution's summary is the one of its items.  A
\* compensation ends COMPENSATED, even if recovery has to finish it; an undo
\* may end so if items had failed.
StatusesAgree == \A e \in Execution : Agrees(e)

\* Write-ahead: FileNest touches the paths of an item only while the item's
\* committed row announces it, and only in the announced direction.
MovesAreAnnounced ==
  [][\A e \in Execution, n \in Item :
       disturbed' = disturbed /\ disk'[e][n] # disk[e][n] =>
         \E s \in Side :
           /\ item[e][n] = IF s = "source" THEN "EXECUTING" ELSE "UNDOING"
           /\ disk'[e][n][s] \in {disk[e][n][s], "vacant"}]_vars

\* A request ends, whatever the environment does to it.
RequestsEnd == \A t \in Request : thread[t] # Idle ~> thread[t] = Idle

\* An undo is not finished, and the user has changed its files or it has left out an
\* item that a retry completed: recovery stops rather than guess.
InDoubt(e) ==
  /\ execution[e] = "UNDOING"
  /\ \E n \in Item : <<e, n>> \in tampered \/ (attempt[e] > 1 /\ item[e][n] = "COMPLETED")

\* A server that went down serves again, unless an undo is in doubt.
ServerReturns == server = "down" ~> server = "up" \/ \E e \in Execution : InDoubt(e)

\* An execution that a crash interrupted is recovered, unless an undo is in
\* doubt.  An interrupted execute or retry is recovered (if only as FAILED)
\* whatever happened to its files.
InterruptedIsRecovered ==
  \A e \in Execution :
    server = "down" /\ Unfinished(e) ~>
      ~Unfinished(e) \/ \E f \in Execution : InDoubt(f)
=============================================================================
