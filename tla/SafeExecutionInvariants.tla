----------------------- MODULE SafeExecutionInvariants -----------------------
(***************************************************************************)
(* What makes the safety properties of SafeExecution inductive: what a     *)
(* thread may rely on about the rows and the files between two of its      *)
(* steps.                                                                  *)
(***************************************************************************)
EXTENDS WorkflowEvents

\* An idle thread has forgotten everything; a busy one has an execution.
BusyThreads ==
  \A t \in Thread :
    /\ thread[t].pc = "idle" => thread[t] = Idle
    /\ thread[t].pc # "idle" => thread[t].exec \in Execution
    /\ thread[t].pc = "create" => thread[t].task = "execute"
    /\ thread[t].pc \in {"create", "mark"} => thread[t].reconcile = {}

\* Requests run on a server that is up, recovery in one that is starting.
ServerThreads ==
  /\ server # "up" => \A t \in Request : thread[t] = Idle
  /\ server # "starting" => thread[Startup] = Idle

\* A thread marks an execution only from a status that nobody drives.
MarksFromRest ==
  \A t \in Thread : thread[t].pc = "mark" =>
    \/ thread[t].task = "retry" /\ thread[t].seen \in {"PARTIALLY_COMPLETED", "FAILED"}
    \/ /\ thread[t].task \in {"undo", "compensate"}
       /\ thread[t].seen \in {"COMPLETED", "PARTIALLY_COMPLETED"}

DriverInv == BusyThreads /\ ServerThreads /\ MarksFromRest /\ OneDriver

\* No item without its execution.
ItemsHaveExecution ==
  \A e \in Execution, n \in Item : execution[e] = "ABSENT" => item[e][n] = "ABSENT"

IndexInv == ItemsHaveExecution /\ IndexFollowsHistory

\* Only an item that recovery gave up is marked as unsafe.
UnsafeIsFailed ==
  \A e \in Execution, n \in Item : error[e][n] = "unsafe" => item[e][n] = "FAILED"

\* The item in hand, and where its file is unless the user changed it.
HandHolds(t) ==
  LET e == thread[t].exec
      n == thread[t].at
      task == thread[t].task IN
  thread[t].pc \in {"check", "rename", "record"} =>
    /\ n \in Item \ thread[t].left
    /\ item[e][n] = IF Restoring(task) THEN "UNDOING" ELSE "EXECUTING"
    /\ <<e, n>> \notin tampered =>
         /\ thread[t].pc = "check" /\ ~Restoring(task) /\ attempt[e] = 1
              => FileAt(e, n, "source")
         /\ thread[t].pc = "rename" => FileAt(e, n, From(task))
         /\ thread[t].pc = "record" => FileAt(e, n, To(task))

\* An item the thread still has to take.
LeftHolds(t, n) ==
  LET e == thread[t].exec
      task == thread[t].task IN
  Drives(t) /\ n \in thread[t].left =>
    /\ Restoring(task) => item[e][n] = "UNDOING"
    /\ ~(task \in {"recover", "recover_undo"}) => n \notin thread[t].reconcile
    /\ <<e, n>> \notin tampered =>
         /\ n \in thread[t].reconcile => FileAt(e, n, To(task))
         /\ task = "recover" /\ n \notin thread[t].reconcile => FileAt(e, n, "source")

ThreadHolds(t) == HandHolds(t) /\ \A n \in Item : LeftHolds(t, n)

FileInv ==
  UnsafeIsFailed /\ HistoryLocatesFile /\ \A t \in Thread : ThreadHolds(t)

\* What a request has read of an execution it is about to mark, and what of it
\* still holds.  Only a retry lets others finish in between and come back to
\* the status that was read.
ReadHolds(t) ==
  LET e == thread[t].exec
      view == thread[t].view
      seen == thread[t].seen IN
  thread[t].pc = "mark" =>
    /\ \A n \in Item : view[n] \in {"COMPLETED", "FAILED"}
    /\ ~(execution[e] \in {"UNDOING", "UNDONE"}) =>
         \A n \in Item : view[n] = "COMPLETED" => item[e][n] = "COMPLETED"
    /\ attempt[e] = 1 =>
         /\ execution[e] \in {seen, "UNDOING", "UNDONE"}
         /\ execution[e] = seen => view = item[e]
    /\ thread[t].task = "retry" => \E n \in Item : view[n] = "FAILED"
    /\ thread[t].task # "retry" => \E n \in Item : view[n] = "COMPLETED"
    /\ thread[t].task = "compensate" => seen = "PARTIALLY_COMPLETED"
    /\ seen = "COMPLETED" => \A n \in Item : view[n] = "COMPLETED"

\* What a thread at work remembers of the rows: what is left to do is all
\* there is, execute counts what it did, and a retry what there was before.
WorkHolds(t) ==
  LET e == thread[t].exec
      task == thread[t].task
      view == thread[t].view
      inHand(n) == thread[t].pc # "pick" /\ n = thread[t].at IN
  Drives(t) =>
    /\ \A n \in Item : item[e][n] \in {"PENDING", "EXECUTING", "UNDOING"} =>
         n \in thread[t].left \/ inHand(n)
    /\ task = "execute" => \A n \in Item : inHand(n) \/ n \in thread[t].left \/ view[n] = item[e][n]
    /\ task = "retry" =>
         /\ attempt[e] > 1
         /\ \A n \in Item : view[n] = "COMPLETED" => item[e][n] = "COMPLETED"
         /\ \E n \in Item : view[n] = "FAILED"
    /\ task \in {"undo", "compensate"} => asked[e] = task

\* An undo has something to undo, and a compensation something that failed.
UndoHolds(e) ==
  execution[e] = "UNDOING" =>
    /\ \E n \in Item : item[e][n] \in {"UNDOING", "UNDONE"}
    /\ \/ asked[e] = "undo"
       \/ asked[e] = "compensate" /\ Shows(e, Failed(e), ItemStatus)

StatusInv ==
  /\ StatusesAgree
  /\ \A t \in Thread : ReadHolds(t) /\ WorkHolds(t)
  /\ \A e \in Execution : UndoHolds(e)

\* A thread takes the items in plan order: what it has in hand comes before all
\* that is left.
HandFirst(t) ==
  thread[t].pc \in {"check", "rename", "record"} /\ ~Restoring(thread[t].task) =>
    \A n \in thread[t].left : thread[t].at < n

\* What the first attempt has reported is a beginning of the plan.
ReportsBegin(e) ==
  attempt[e] = 1 /\ execution[e] = "EXECUTING" =>
    \A n \in Reported(e), m \in Item : m < n => m \in Reported(e)

OrderInv == (\A t \in Thread : HandFirst(t)) /\ (\A e \in Execution : ReportsBegin(e))

\* The conjunction the proofs carry from step to step.
Inductive == TypeOK /\ DriverInv /\ IndexInv /\ FileInv
=============================================================================
