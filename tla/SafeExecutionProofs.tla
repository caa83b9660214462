------------------------- MODULE SafeExecutionProofs -------------------------
(***************************************************************************)
(* Theorems about SafeExecution, for every number of plans, operations and *)
(* requests and every combination of services and disturbances.            *)
(***************************************************************************)
EXTENDS SafeExecutionInvariants, SafeExecutionContract, WorkflowEvents, WellFoundedInduction, TLAPS

USE DEF db, index, environment

-----------------------------------------------------------------------------
(* Type correctness. *)

LEMMA IdleIsLocal == Idle \in Local
BY DEF Idle, Local, NoItems, Item, ItemStatus, ExecutionStatus

LEMMA InitTypeOK == Init => TypeOK
<1> SUFFICES ASSUME Init PROVE TypeOK
  OBVIOUS
<1>1. thread \in [Thread -> Local]
  BY IdleIsLocal DEF Init
<1>2. item \in [Execution -> [Item -> ItemStatus]]
  BY DEF Init, NoItems, ItemStatus
<1>3. disk \in [Execution -> [Item -> [Side -> Place]]]
  BY DEF Init, Place, Content
<1>4. scan \in [walked : BOOLEAN, found : [Execution -> [Item -> SUBSET Side]]]
  BY DEF Init
<1> QED
  BY <1>1, <1>2, <1>3, <1>4
  DEF Init, TypeOK, ExecutionStatus, OperationStatus, Side, Content

\* The variables a step of the loop does not touch keep their type.
LEMMA CallTypeOK ==
  ASSUME TypeOK, NEW t \in Request, NEW e \in Execution, Call(t, e)
  PROVE  TypeOK'
<1>1. CASE RequestExecute(t, e)
  BY <1>1, IdleIsLocal DEF RequestExecute, TypeOK, Goto, Thread, Local, Idle
<1>2. CASE RequestRetry(t, e)
  BY <1>2, IdleIsLocal DEF RequestRetry, TypeOK, Goto, Thread, Local, Idle
<1>3. ASSUME NEW task \in {"undo", "compensate"}, RequestRestore(t, e, task)
      PROVE  TypeOK'
  BY <1>3, IdleIsLocal DEF RequestRestore, TypeOK, Goto, Thread, Local, Idle
<1> QED
  BY <1>1, <1>2, <1>3 DEF Call

LEMMA RaiseTypeOK ==
  ASSUME TypeOK, NEW t \in Thread, Raise(t) \/ Abandon(t)
  PROVE  /\ thread' \in [Thread -> Local]
         /\ server' \in {"down", "starting", "up"}
BY IdleIsLocal DEF TypeOK, Raise, Abandon, Goto

LEMMA SettledIsLocal ==
  ASSUME TypeOK, NEW t \in Thread, NEW status \in ItemStatus
  PROVE  Settled(t, status) \in Local
<1> DEFINE view == [thread[t].view EXCEPT ![thread[t].at] = status]
<1>1. thread[t] \in Local
  BY DEF TypeOK
<1>2. view \in [Item -> ItemStatus]
  BY <1>1 DEF Local
<1>3. Settled(t, status).view \in [Item -> ItemStatus]
  BY <1>1, <1>2 DEF Local, Settled
<1> QED
  BY <1>1, <1>3 DEF Local, Settled

LEMMA FailItemTypeOK ==
  ASSUME TypeOK, NEW t \in Thread, FailItem(t), UNCHANGED <<policy, scan, crashes, tampered>>,
         disturbed' \in Nat
  PROVE  TypeOK'
<1>1. item' \in [Execution -> [Item -> ItemStatus]]
  BY DEF TypeOK, FailItem, ItemStatus
<1>2. error' \in [Execution -> [Item -> {"none", "refused", "unsafe"}]]
  BY DEF TypeOK, FailItem
<1>3. thread' \in [Thread -> Local]
  BY SettledIsLocal DEF TypeOK, FailItem, Goto, ItemStatus
<1> QED
  BY <1>1, <1>2, <1>3 DEF TypeOK, FailItem

LEMMA MarkFailedTypeOK ==
  ASSUME TypeOK, NEW t \in Thread, NEW e \in Execution \cup {0}, MarkFailed(t, e),
         UNCHANGED <<policy, scan, crashes, tampered>>, disturbed' \in Nat
  PROVE  TypeOK'
<1>1. item' \in [Execution -> [Item -> ItemStatus]]
  BY DEF TypeOK, MarkFailed, ItemStatus
<1>2. error' \in [Execution -> [Item -> {"none", "refused", "unsafe"}]]
  BY DEF TypeOK, MarkFailed
<1>3. thread' \in [Thread -> Local]
  BY IdleIsLocal DEF TypeOK, MarkFailed, Goto
<1> QED
  BY <1>1, <1>2, <1>3 DEF TypeOK, MarkFailed, ExecutionStatus, OperationStatus

LEMMA MoveFailsTypeOK ==
  ASSUME TypeOK, NEW t \in Thread, MoveFails(t), UNCHANGED <<policy, scan, crashes, tampered>>,
         disturbed' \in Nat
  PROVE  TypeOK'
<1>1. thread[t].exec \in Execution \cup {0}
  BY DEF TypeOK, Local
<1>2. CASE FailItem(t)
  BY <1>2, FailItemTypeOK
<1>3. CASE MarkFailed(t, thread[t].exec)
  BY <1>1, <1>3, MarkFailedTypeOK
<1>4. CASE Raise(t) /\ UNCHANGED <<db, disk, asked>>
  BY <1>4, RaiseTypeOK DEF TypeOK
<1> QED
  BY <1>2, <1>3, <1>4 DEF MoveFails

LEMMA StepTypeOK ==
  ASSUME TypeOK, NEW t \in Thread, Step(t)
  PROVE  TypeOK'
<1> DEFINE e == thread[t].exec
           n == thread[t].at
<1>0. thread[t] \in Local /\ e \in Execution \cup {0} /\ n \in Item \cup {0}
  BY DEF TypeOK, Local
<1>1. CASE CreateHistory(t)
  <2>1. [m \in Item |-> "PENDING"] \in [Item -> ItemStatus]
    BY DEF ItemStatus
  <2> QED
    BY <1>0, <1>1, <2>1
    DEF CreateHistory, TypeOK, Goto, Local, ExecutionStatus, OperationStatus
<1>2. CASE MarkRetry(t)
  <2>1. item' \in [Execution -> [Item -> ItemStatus]]
    BY <1>2 DEF MarkRetry, TypeOK, ItemStatus
  <2>2. error' \in [Execution -> [Item -> {"none", "refused", "unsafe"}]]
    BY <1>2 DEF MarkRetry, TypeOK
  <2>3. thread' \in [Thread -> Local]
    BY <1>0, <1>2 DEF MarkRetry, TypeOK, Goto, Local, Marked
  <2>4. attempt' \in [Execution -> Nat \ {0}]
    <3>1. \A f \in Execution : attempt[f] \in Nat /\ attempt[f] + 1 \in Nat \ {0}
      BY DEF TypeOK
    <3>2. attempt' = [attempt EXCEPT ![e] = attempt[e] + 1]
      BY <1>2 DEF MarkRetry
    <3> QED
      BY <3>1, <3>2 DEF TypeOK
  <2> QED
    BY <1>2, <2>1, <2>2, <2>3, <2>4 DEF MarkRetry, TypeOK, ExecutionStatus, OperationStatus
<1>3. CASE MarkRestore(t)
  <2>1. item' \in [Execution -> [Item -> ItemStatus]]
    BY <1>3 DEF MarkRestore, TypeOK, ItemStatus
  <2>2. thread' \in [Thread -> Local]
    BY <1>0, <1>3 DEF MarkRestore, TypeOK, Goto, Local, Marked
  <2>3. asked' \in [Execution -> {"none", "undo", "compensate"}]
    BY <1>3 DEF MarkRestore, TypeOK, At
  <2> QED
    BY <1>3, <2>1, <2>2, <2>3 DEF MarkRestore, TypeOK, ExecutionStatus, OperationStatus
<1>4. ASSUME NEW m \in Item, StartItem(t, m)
      PROVE  TypeOK'
  <2>1. Taken(t, m, IF m \in thread[t].reconcile THEN "record" ELSE "check") \in Local
    BY <1>0 DEF Taken, Local
  <2> QED
    BY <1>4, <2>1 DEF StartItem, Announce, TypeOK, Goto, ItemStatus
<1>5. ASSUME NEW m \in Item, StartRestoreItem(t, m)
      PROVE  TypeOK'
  <2>1. Taken(t, m, IF m \in thread[t].reconcile THEN "record" ELSE "check") \in Local
    BY <1>0 DEF Taken, Local
  <2> QED
    BY <1>5, <2>1 DEF StartRestoreItem, TypeOK, Goto
<1>6. CASE CheckMove(t)
  <2>1. disk' \in [Execution -> [Item -> [Side -> Place]]]
    <3>1. PICK s \in Side : disk' = [disk EXCEPT ![e][n][s] = "vacant"]
      BY <1>6 DEF CheckMove, To, Side
    <3>2. disk \in [Execution -> [Item -> [Side -> Place]]] /\ "vacant" \in Place
      BY DEF TypeOK, Place
    <3> QED
      BY <3>1, <3>2
  <2> QED
    BY <1>0, <1>6, <2>1 DEF CheckMove, TypeOK, Goto, Local
<1>7. CASE RefuseMove(t)
  BY <1>7, FailItemTypeOK DEF RefuseMove, TypeOK
<1>8. CASE RestoreRefused(t)
  BY <1>8, RaiseTypeOK DEF RestoreRefused, TypeOK
<1>9. CASE Rename(t)
  <2>1. disk' \in [Execution -> [Item -> [Side -> Place]]]
    BY <1>9 DEF Rename, RenamePossible, Exists, From, TypeOK, Place, Side
  <2> QED
    BY <1>0, <1>9, <2>1 DEF Rename, TypeOK, Goto, Local
<1>10. CASE RenameFails(t)
  BY <1>10, MoveFailsTypeOK DEF RenameFails, TypeOK
<1>11. CASE CommitMove(t)
  <2>1. thread' \in [Thread -> Local]
    BY <1>11, SettledIsLocal DEF CommitMove, TypeOK, Goto, ItemStatus
  <2>2. after' \in [Execution -> [Item -> Content \cup {"none"}]]
    BY <1>11 DEF CommitMove, At, Forward, EvidenceHolds, To, Restoring, TypeOK, Content
  <2>3. item' \in [Execution -> [Item -> ItemStatus]]
    BY <1>11 DEF CommitMove, TypeOK, ItemStatus
  <2>4. entry' \in [Execution -> [Item -> Side \cup {"gone"}]]
    BY <1>11 DEF CommitMove, IndexAt, TypeOK, Side
  <2> QED
    BY <1>11, <2>1, <2>2, <2>3, <2>4 DEF CommitMove, TypeOK
<1>12. CASE CommitRestore(t)
  <2>1. item' \in [Execution -> [Item -> ItemStatus]]
    BY <1>12 DEF CommitRestore, TypeOK, ItemStatus
  <2>2. entry' \in [Execution -> [Item -> Side \cup {"gone"}]]
    BY <1>12 DEF CommitRestore, IndexAt, TypeOK, Side
  <2> QED
    BY <1>0, <1>12, <2>1, <2>2 DEF CommitRestore, TypeOK, Goto, Local
<1>13. CASE EvidenceRejected(t)
  BY <1>0, <1>13, MarkFailedTypeOK, RaiseTypeOK DEF EvidenceRejected, TypeOK
<1>14. CASE FinishExecution(t)
  <2>1. Summary(Summarised(t)) \in {"COMPLETED", "FAILED", "PARTIALLY_COMPLETED"}
    BY DEF Summary
  <2> QED
    BY <1>14, <2>1, IdleIsLocal
    DEF FinishExecution, TypeOK, Goto, Projected, ExecutionStatus, OperationStatus
<1>15. CASE FinishRestore(t)
  BY <1>15, IdleIsLocal
  DEF FinishRestore, TypeOK, Goto, RestoredStatus, ExecutionStatus, OperationStatus
<1>16. CASE StateChanged(t)
  BY <1>16, RaiseTypeOK DEF StateChanged, TypeOK
<1>17. CASE IndexRejected(t)
  BY <1>17, RaiseTypeOK DEF IndexRejected, TypeOK
<1> QED
  BY <1>1, <1>2, <1>3, <1>4, <1>5, <1>6, <1>7, <1>8, <1>9, <1>10, <1>11, <1>12,
     <1>13, <1>14, <1>15, <1>16, <1>17 DEF Step

LEMMA RecoverTypeOK ==
  ASSUME TypeOK, NEW e \in Execution, Recover(e)
  PROVE  TypeOK'
<1>0. Startup \in Thread
  BY DEF Thread
<1>1. CASE RecoverExecution(e)
  <2>1. Interrupted(e) \subseteq Item /\ AlreadyMoved(e, Interrupted(e), "target") \subseteq Item
    BY DEF Interrupted, AlreadyMoved, ItemsIn
  <2> QED
    BY <1>0, <1>1, <2>1, IdleIsLocal DEF RecoverExecution, TypeOK, Goto, Idle, Local
<1>2. CASE RecoveryUnsafe(e)
  BY <1>0, <1>2, MarkFailedTypeOK DEF RecoveryUnsafe, TypeOK
<1>3. CASE RecoverUndo(e)
  <2> DEFINE undoing == ItemsIn(e, "UNDOING")
  <2>1. undoing \subseteq Item /\ AlreadyMoved(e, undoing, "source") \subseteq Item
    BY DEF AlreadyMoved, ItemsIn
  <2> QED
    BY <1>0, <1>3, <2>1, IdleIsLocal DEF RecoverUndo, TypeOK, Goto, Idle, Local
<1>4. CASE RecoveryRefused(e)
  BY <1>0, <1>4, RaiseTypeOK DEF RecoveryRefused, TypeOK
<1> QED
  BY <1>1, <1>2, <1>3, <1>4 DEF Recover

LEMMA EnvironmentTypeOK ==
  ASSUME TypeOK, Environment
  PROVE  TypeOK'
<1>0. ASSUME NEW kind, Disturb(kind)
      PROVE  disturbed' \in Nat
  BY <1>0 DEF Disturb, TypeOK
<1>1. CASE Crash
  <2>1. scan' \in [walked : BOOLEAN, found : [Execution -> [Item -> SUBSET Side]]]
    BY <1>1 DEF Crash, TypeOK, NothingFound
  <2> QED
    BY <1>1, <2>1, IdleIsLocal DEF Crash, TypeOK
<1>2. ASSUME NEW e \in Execution, NEW n \in Item, NEW s \in Side, UserFile(e, n, s)
      PROVE  TypeOK'
  <2>1. PICK kind \in {"create", "edit", "delete"}, new \in Content \cup {"vacant"} :
          /\ Disturb(kind)
          /\ disk' = [disk EXCEPT ![e][n][s] = new]
          /\ tampered' = tampered \cup {<<e, n>>}
          /\ UNCHANGED <<db, server, thread, asked, policy, scan, crashes>>
    BY <1>2 DEF UserFile
  <2>2. disk' \in [Execution -> [Item -> [Side -> Place]]]
    BY <2>1 DEF TypeOK, Place
  <2>3. tampered' \subseteq Execution \X Item
    BY <2>1 DEF TypeOK
  <2> QED
    BY <1>0, <2>1, <2>2, <2>3 DEF TypeOK
<1>3. ASSUME NEW e \in Execution, NEW n \in Item, NEW s \in Side, UserDirectory(e, n, s)
      PROVE  TypeOK'
  <2>1. disk' \in [Execution -> [Item -> [Side -> Place]]]
    BY <1>3 DEF UserDirectory, TypeOK, Place
  <2> QED
    BY <1>0, <1>3, <2>1 DEF UserDirectory, TypeOK
<1>4. CASE UpdatePolicy
  BY <1>0, <1>4 DEF UpdatePolicy, TypeOK
<1>5. ASSUME NEW t \in Thread, LockedMove(t)
      PROVE  TypeOK'
  BY <1>0, <1>5, MoveFailsTypeOK DEF LockedMove
<1>6. ASSUME NEW t \in Thread, CommitFails(t)
      PROVE  TypeOK'
  BY <1>0, <1>6, RaiseTypeOK DEF CommitFails, TypeOK
<1>9. CASE RecoveryAbandoned
  BY <1>0, <1>9, RaiseTypeOK DEF RecoveryAbandoned, Thread, TypeOK
<1>7. CASE ScanWalk
  BY <1>0, <1>7 DEF ScanWalk, TypeOK
<1>8. CASE ScanSync
  <2>1. entry' \in [Execution -> [Item -> Side \cup {"gone"}]]
    BY <1>8 DEF ScanSync, TypeOK
  <2>2. scan' \in [walked : BOOLEAN, found : [Execution -> [Item -> SUBSET Side]]]
    BY <1>8 DEF ScanSync, NothingFound
  <2> QED
    BY <1>8, <2>1, <2>2 DEF ScanSync, TypeOK
<1> QED
  BY <1>1, <1>2, <1>3, <1>4, <1>5, <1>6, <1>7, <1>8, <1>9 DEF Environment

LEMMA NextTypeOK == TypeOK /\ [Next]_vars => TypeOK'
<1> SUFFICES ASSUME TypeOK, [Next]_vars PROVE TypeOK'
  OBVIOUS
<1>1. ASSUME NEW t \in Request, NEW e \in Execution, Call(t, e) PROVE TypeOK'
  BY <1>1, CallTypeOK
<1>2. ASSUME NEW t \in Thread, Step(t) PROVE TypeOK'
  BY <1>2, StepTypeOK
<1>3. CASE Boot
  BY <1>3 DEF Boot, TypeOK
<1>4. CASE BootDone
  BY <1>4 DEF BootDone, TypeOK
<1>5. ASSUME NEW e \in Execution, Recover(e) PROVE TypeOK'
  BY <1>5, RecoverTypeOK
<1>6. CASE Environment
  BY <1>6, EnvironmentTypeOK
<1>7. CASE UNCHANGED vars
  BY <1>7 DEF vars, TypeOK
<1> QED
  BY <1>1, <1>2, <1>3, <1>4, <1>5, <1>6, <1>7 DEF Next, Rest

\* Every reachable state is well typed.
THEOREM TypeCorrect == Spec => []TypeOK
BY InitTypeOK, NextTypeOK, PTL DEF Spec

-----------------------------------------------------------------------------
(* One driver per execution.  A step changes one thread, and that thread    *)
(* starts to drive an execution, goes on driving it, or stops.              *)

LEMMA GotoChangesOne ==
  ASSUME TypeOK, NEW t \in Thread, NEW local, Goto(t, local)
  PROVE  thread'[t] = local /\ \A u \in Thread \ {t} : thread'[u] = thread[u]
BY DEF TypeOK, Goto

LEMMA IdleFields ==
  Idle.pc = "idle" /\ Idle.task = "none" /\ Idle.exec = 0 /\ Idle.reconcile = {} /\ Idle.left = {}
BY DEF Idle

\* The thread goes on with its execution.
LEMMA Advances ==
  ASSUME TypeOK, DriverInv, NEW t \in Thread, Drives(t), NEW local, Goto(t, local),
         local.pc \in {"pick", "check", "rename", "record"},
         local.exec = thread[t].exec, local.task = thread[t].task,
         UNCHANGED <<execution, server>>
  PROVE  DriverInv'
<1>1. thread'[t] = local /\ \A u \in Thread \ {t} : thread'[u] = thread[u]
  BY GotoChangesOne
<1>2. thread[t] # Idle /\ thread[t].pc # "idle" /\ thread[t].exec \in Execution
  BY IdleFields DEF Drives, DriverInv, BusyThreads
<1>3. BusyThreads'
  BY <1>1, <1>2 DEF DriverInv, BusyThreads
<1>4. ServerThreads'
  BY <1>1, <1>2 DEF DriverInv, ServerThreads, Thread
<1>5. MarksFromRest'
  BY <1>1 DEF DriverInv, MarksFromRest
<1>6. \A u \in Thread : Drives(u)' => Drives(u) /\ thread'[u].exec = thread[u].exec
                                      /\ thread'[u].task = thread[u].task
  BY <1>1 DEF Drives
<1>7. OneDriver'
  BY <1>6 DEF DriverInv, OneDriver
<1> QED
  BY <1>3, <1>4, <1>5, <1>7 DEF DriverInv

\* The thread stops; an execution whose status changes is driven by nobody
\* else.
LEMMA Stops ==
  ASSUME TypeOK, DriverInv, NEW t \in Thread, Goto(t, Idle),
         \/ server' = server
         \/ server' \in {"down", "up"} /\ t = Startup /\ \A u \in Request : thread[u] = Idle,
         \A u \in Thread \ {t} : Drives(u) => execution'[thread[u].exec] = execution[thread[u].exec]
  PROVE  DriverInv'
<1>1. thread'[t] = Idle /\ \A u \in Thread \ {t} : thread'[u] = thread[u]
  BY GotoChangesOne
<1>2. BusyThreads'
  BY <1>1, IdleFields DEF DriverInv, BusyThreads
<1>3. ServerThreads'
  BY <1>1, ThreadAssumption DEF DriverInv, ServerThreads, Thread
<1>4. MarksFromRest'
  BY <1>1, IdleFields DEF DriverInv, MarksFromRest
<1>5. \A u \in Thread : Drives(u)' => u # t /\ Drives(u) /\ thread'[u] = thread[u]
  BY <1>1, IdleFields DEF Drives
<1>6. OneDriver'
  BY <1>5 DEF DriverInv, OneDriver
<1> QED
  BY <1>2, <1>3, <1>4, <1>6 DEF DriverInv

\* The thread starts to drive an execution that nobody drives, on a server in
\* the state its kind of thread needs.
LEMMA Starts ==
  ASSUME TypeOK, DriverInv, NEW t \in Thread, NEW e \in Execution, NEW local, Goto(t, local),
         local.pc = "pick", local.exec = e,
         \A u \in Thread \ {t} : Drives(u) => thread[u].exec # e,
         execution'[e] = IF Restoring(local.task) THEN "UNDOING" ELSE "EXECUTING",
         \A f \in Execution \ {e} : execution'[f] = execution[f],
         server' = server,
         thread[t] # Idle \/ (server = "starting" /\ t = Startup)
  PROVE  DriverInv'
<1>1. thread'[t] = local /\ \A u \in Thread \ {t} : thread'[u] = thread[u]
  BY GotoChangesOne
<1>2. BusyThreads'
  BY <1>1 DEF DriverInv, BusyThreads
<1>3. ServerThreads'
  BY <1>1, ThreadAssumption DEF DriverInv, ServerThreads, Thread
<1>4. MarksFromRest'
  BY <1>1 DEF DriverInv, MarksFromRest
<1>5. \A u \in Thread : Drives(u)' /\ u # t =>
        Drives(u) /\ thread'[u] = thread[u] /\ thread[u].exec \in Execution \ {e}
  BY <1>1 DEF Drives, DriverInv, BusyThreads
<1>6. OneDriver'
  BY <1>1, <1>5 DEF DriverInv, OneDriver
<1> QED
  BY <1>2, <1>3, <1>4, <1>6 DEF DriverInv
LEMMA CallKeepsDriver ==
  ASSUME TypeOK, DriverInv, NEW t \in Request, NEW e \in Execution, Call(t, e)
  PROVE  DriverInv'
<1> DEFINE local == thread'[t]
<1>0. t \in Thread /\ thread \in [Thread -> Local]
  BY DEF Thread, TypeOK
<1>1. /\ \A u \in Thread \ {t} : thread'[u] = thread[u]
      /\ server = "up" /\ server' = server /\ execution' = execution
      /\ local.exec = e /\ local.reconcile = {}
      /\ \/ local.pc = "create" /\ local.task = "execute"
         \/ /\ local.pc = "mark" /\ local.task = "retry"
            /\ local.seen \in {"PARTIALLY_COMPLETED", "FAILED"}
         \/ /\ local.pc = "mark" /\ local.task \in {"undo", "compensate"}
            /\ local.seen \in {"COMPLETED", "PARTIALLY_COMPLETED"}
  <2>1. CASE RequestExecute(t, e)
    BY <1>0, <2>1 DEF RequestExecute, Goto, Idle
  <2>2. CASE RequestRetry(t, e)
    BY <1>0, <2>2 DEF RequestRetry, Goto, Idle
  <2>3. ASSUME NEW task \in {"undo", "compensate"}, RequestRestore(t, e, task)
        PROVE  /\ \A u \in Thread \ {t} : thread'[u] = thread[u]
               /\ server = "up" /\ server' = server /\ execution' = execution
               /\ local.exec = e /\ local.reconcile = {}
               /\ local.pc = "mark" /\ local.task \in {"undo", "compensate"}
               /\ local.seen \in {"COMPLETED", "PARTIALLY_COMPLETED"}
    BY <1>0, <2>3 DEF RequestRestore, Goto, Idle, AllowedFrom
  <2> QED
    BY <2>1, <2>2, <2>3 DEF Call
<1>2. thread'[t] = local /\ \A u \in Thread \ {t} : thread'[u] = thread[u]
  BY <1>1
<1>3. BusyThreads'
  BY <1>1, <1>2 DEF DriverInv, BusyThreads
<1>4. ServerThreads'
  BY <1>1, <1>2, ThreadAssumption DEF DriverInv, ServerThreads, Thread
<1>5. MarksFromRest'
  BY <1>1, <1>2 DEF DriverInv, MarksFromRest
<1>6. \A u \in Thread : Drives(u)' => Drives(u) /\ thread'[u] = thread[u]
  BY <1>1, <1>2 DEF Drives
<1>7. OneDriver'
  BY <1>1, <1>6 DEF DriverInv, OneDriver
<1> QED
  BY <1>3, <1>4, <1>5, <1>7 DEF DriverInv

LEMMA RaiseKeepsDriver ==
  ASSUME TypeOK, DriverInv, NEW t \in Thread, Raise(t) \/ Abandon(t), UNCHANGED execution,
         thread[t] # Idle \/ server = "starting"
  PROVE  DriverInv'
<1>1. t = Startup => \A u \in Request : thread[u] = Idle
  BY DEF DriverInv, ServerThreads
<1> QED
  BY <1>1, Stops DEF Raise, Abandon

LEMMA FailItemKeepsDriver ==
  ASSUME TypeOK, DriverInv, NEW t \in Thread, Drives(t), FailItem(t)
  PROVE  DriverInv'
<1>1. Settled(t, "FAILED").pc = "pick" /\ Settled(t, "FAILED").exec = thread[t].exec
      /\ Settled(t, "FAILED").task = thread[t].task
  BY DEF Settled, TypeOK, Local
<1> QED
  BY <1>1, Advances DEF FailItem

LEMMA MarkFailedKeepsDriver ==
  ASSUME TypeOK, DriverInv, NEW t \in Thread, NEW e \in Execution, MarkFailed(t, e),
         \A u \in Thread \ {t} : Drives(u) => thread[u].exec # e
  PROVE  DriverInv'
<1>1. \A f \in Execution \ {e} : execution'[f] = execution[f]
  BY DEF MarkFailed, TypeOK
<1>2. \A u \in Thread : Drives(u) => thread[u].exec \in Execution
  BY DEF Drives, DriverInv, BusyThreads
<1> QED
  BY <1>1, <1>2, Stops DEF MarkFailed

LEMMA MoveFailsKeepsDriver ==
  ASSUME TypeOK, DriverInv, NEW t \in Thread, Drives(t), MoveFails(t)
  PROVE  DriverInv'
<1>1. thread[t] # Idle /\ thread[t].exec \in Execution
  BY IdleFields DEF Drives, DriverInv, BusyThreads
<1>2. CASE FailItem(t)
  BY <1>2, FailItemKeepsDriver
<1>3. CASE MarkFailed(t, thread[t].exec)
  BY <1>1, <1>3, MarkFailedKeepsDriver DEF DriverInv, OneDriver
<1>4. CASE Raise(t) /\ UNCHANGED <<db, disk, asked>>
  BY <1>1, <1>4, RaiseKeepsDriver
<1> QED
  BY <1>2, <1>3, <1>4 DEF MoveFails
LEMMA StepKeepsDriver ==
  ASSUME TypeOK, DriverInv, NEW t \in Thread, Step(t)
  PROVE  DriverInv'
<1> DEFINE e == thread[t].exec
<1>0. /\ thread[t] \in Local
      /\ execution \in [Execution -> ExecutionStatus]
      /\ thread[t].pc # "idle" => thread[t] # Idle /\ e \in Execution
  BY IdleFields DEF TypeOK, DriverInv, BusyThreads
\* Nobody drives an execution whose status is neither EXECUTING nor UNDOING.
<1>a. execution[e] \notin {"EXECUTING", "UNDOING"} =>
        \A u \in Thread \ {t} : Drives(u) => thread[u].exec # e
  BY DEF DriverInv, OneDriver
<1>1. CASE CreateHistory(t)
  <2> DEFINE local == [thread[t] EXCEPT !.pc = "pick", !.left = Item,
                                        !.view = [n \in Item |-> "PENDING"]]
  <2>1. Goto(t, local) /\ local.pc = "pick" /\ local.exec = e /\ local.task = "execute"
    BY <1>0, <1>1 DEF CreateHistory, Local, DriverInv, BusyThreads
  <2>2. /\ execution[e] = "ABSENT" /\ thread[t] # Idle /\ e \in Execution
        /\ execution' = [execution EXCEPT ![e] = "EXECUTING"] /\ server' = server
    BY <1>0, <1>1 DEF CreateHistory, CreateHolds
  <2>3. execution'[e] = IF Restoring(local.task) THEN "UNDOING" ELSE "EXECUTING"
    BY <1>0, <2>1, <2>2 DEF Restoring
  <2> QED
    BY <1>0, <1>a, <2>1, <2>2, <2>3, Starts
<1>2. CASE MarkRetry(t)
  <2> DEFINE local == [thread[t] EXCEPT !.pc = "pick", !.left = Marked(t, "FAILED")]
  <2>1. Goto(t, local) /\ local.pc = "pick" /\ local.exec = e /\ local.task = "retry"
    BY <1>0, <1>2 DEF MarkRetry, Local, At
  <2>2. /\ execution[e] \in {"PARTIALLY_COMPLETED", "FAILED"}
        /\ thread[t] # Idle /\ e \in Execution
        /\ execution' = [execution EXCEPT ![e] = "EXECUTING"] /\ server' = server
    BY <1>0, <1>2 DEF MarkRetry, MarkHolds, At, DriverInv, MarksFromRest
  <2>3. execution'[e] = IF Restoring(local.task) THEN "UNDOING" ELSE "EXECUTING"
    BY <1>0, <2>1, <2>2 DEF Restoring
  <2> QED
    BY <1>0, <1>a, <2>1, <2>2, <2>3, Starts
<1>3. CASE MarkRestore(t)
  <2> DEFINE local == [thread[t] EXCEPT !.pc = "pick", !.left = Marked(t, "COMPLETED")]
  <2>1. /\ Goto(t, local) /\ local.pc = "pick" /\ local.exec = e
        /\ local.task \in {"undo", "compensate"}
    BY <1>0, <1>3 DEF MarkRestore, Local, At
  <2>2. /\ execution[e] \in {"COMPLETED", "PARTIALLY_COMPLETED"}
        /\ thread[t] # Idle /\ e \in Execution
        /\ execution' = [execution EXCEPT ![e] = "UNDOING"] /\ server' = server
    BY <1>0, <1>3 DEF MarkRestore, MarkHolds, At, DriverInv, MarksFromRest
  <2>3. execution'[e] = IF Restoring(local.task) THEN "UNDOING" ELSE "EXECUTING"
    BY <1>0, <2>1, <2>2 DEF Restoring
  <2> QED
    BY <1>0, <1>a, <2>1, <2>2, <2>3, Starts
<1>4. ASSUME NEW n \in Item, StartItem(t, n) \/ StartRestoreItem(t, n)
      PROVE  DriverInv'
  <2> DEFINE local == Taken(t, n, IF n \in thread[t].reconcile THEN "record" ELSE "check")
  <2>1. /\ local.pc \in {"record", "check"}
        /\ local.exec = e /\ local.task = thread[t].task
    BY <1>0 DEF Taken, Local
  <2>2. Drives(t) /\ Goto(t, local) /\ UNCHANGED <<execution, server>>
    BY <1>4 DEF StartItem, StartRestoreItem, At, Drives
  <2> QED
    BY <2>1, <2>2, Advances
<1>5. CASE CheckMove(t)
  <2> DEFINE local == [thread[t] EXCEPT !.pc = "rename"]
  <2>1. local.pc = "rename" /\ local.exec = e /\ local.task = thread[t].task
    BY <1>0 DEF Local
  <2>2. Drives(t) /\ Goto(t, local) /\ UNCHANGED <<execution, server>>
    BY <1>5 DEF CheckMove, Drives
  <2> QED
    BY <2>1, <2>2, Advances
<1>6. CASE RefuseMove(t)
  BY <1>6, FailItemKeepsDriver DEF RefuseMove, At, Drives
<1>7. CASE RestoreRefused(t)
  BY <1>0, <1>7, RaiseKeepsDriver DEF RestoreRefused, At
<1>8. CASE Rename(t)
  <2> DEFINE local == [thread[t] EXCEPT !.pc = "record"]
  <2>1. local.pc = "record" /\ local.exec = e /\ local.task = thread[t].task
    BY <1>0 DEF Local
  <2>2. Drives(t) /\ Goto(t, local) /\ UNCHANGED <<execution, server>>
    BY <1>8 DEF Rename, Drives
  <2> QED
    BY <2>1, <2>2, Advances
<1>9. CASE RenameFails(t)
  BY <1>9, MoveFailsKeepsDriver DEF RenameFails, Drives
<1>10. CASE CommitMove(t)
  <2>1. /\ Settled(t, "COMPLETED").pc = "pick" /\ Settled(t, "COMPLETED").exec = e
        /\ Settled(t, "COMPLETED").task = thread[t].task
    BY <1>0 DEF Settled, Local
  <2>2. Drives(t) /\ Goto(t, Settled(t, "COMPLETED")) /\ UNCHANGED <<execution, server>>
    BY <1>10 DEF CommitMove, At, Drives
  <2> QED
    BY <2>1, <2>2, Advances
<1>11. CASE CommitRestore(t)
  <2> DEFINE local == [thread[t] EXCEPT !.pc = "pick", !.at = 0]
  <2>1. local.pc = "pick" /\ local.exec = e /\ local.task = thread[t].task
    BY <1>0 DEF Local
  <2>2. Drives(t) /\ Goto(t, local) /\ UNCHANGED <<execution, server>>
    BY <1>11 DEF CommitRestore, At, Drives
  <2> QED
    BY <2>1, <2>2, Advances
<1>12. CASE EvidenceRejected(t)
  <2>1. thread[t] # Idle /\ e \in Execution /\ Drives(t)
    BY <1>0, <1>12 DEF EvidenceRejected, Drives
  <2>2. CASE MarkFailed(t, e)
    BY <2>1, <2>2, MarkFailedKeepsDriver DEF DriverInv, OneDriver
  <2>3. CASE Raise(t) /\ UNCHANGED <<db, disk, asked>>
    BY <2>1, <2>3, RaiseKeepsDriver
  <2> QED
    BY <1>12, <2>2, <2>3 DEF EvidenceRejected
<1>13. ASSUME FinishExecution(t) \/ FinishRestore(t)
       PROVE  DriverInv'
  <2>1. e \in Execution /\ Drives(t) /\ Goto(t, Idle) /\ server' = server
    BY <1>0, <1>13 DEF FinishExecution, FinishRestore, At, Drives
  <2>2. \A f \in Execution \ {e} : execution'[f] = execution[f]
    BY <1>0, <1>13 DEF FinishExecution, FinishRestore
  <2>3. \A u \in Thread \ {t} : Drives(u) => thread[u].exec \in Execution \ {e}
    BY <2>1 DEF Drives, DriverInv, BusyThreads, OneDriver
  <2> QED
    BY <2>1, <2>2, <2>3, Stops
<1>14. CASE StateChanged(t)
  BY <1>14, RaiseKeepsDriver DEF StateChanged
<1>15. CASE IndexRejected(t)
  BY <1>15, IdleFields, RaiseKeepsDriver DEF IndexRejected
<1> QED
  BY <1>1, <1>2, <1>3, <1>4, <1>5, <1>6, <1>7, <1>8, <1>9, <1>10, <1>11, <1>12,
     <1>13, <1>14, <1>15 DEF Step

LEMMA RecoverKeepsDriver ==
  ASSUME TypeOK, DriverInv, NEW e \in Execution, Recover(e)
  PROVE  DriverInv'
<1>0. /\ Startup \in Thread /\ server = "starting"
      /\ \A u \in Thread : thread[u] = Idle /\ ~Drives(u)
      /\ thread \in [Thread -> Local]
  BY IdleFields DEF Recover, RecoverExecution, RecoveryUnsafe, RecoverUndo, RecoveryRefused,
     Recoverable, DriverInv, ServerThreads, Thread, Drives, TypeOK
<1>1. CASE RecoverExecution(e)
  <2> DEFINE local == [Idle EXCEPT !.pc = "pick", !.task = "recover", !.exec = e,
                        !.left = Interrupted(e), !.view = item[e],
                        !.reconcile = AlreadyMoved(e, Interrupted(e), "target")]
  <2>1. Goto(Startup, local) /\ UNCHANGED <<execution, server>> /\ execution[e] = "EXECUTING"
    BY <1>1 DEF RecoverExecution
  <2>2. local.pc = "pick" /\ local.exec = e /\ ~Restoring(local.task)
    BY DEF Idle, Restoring
  <2> QED
    BY <1>0, <2>1, <2>2, Starts
<1>2. CASE RecoveryUnsafe(e)
  BY <1>0, <1>2, MarkFailedKeepsDriver DEF RecoveryUnsafe
<1>3. CASE RecoverUndo(e)
  <2> DEFINE local == [Idle EXCEPT !.pc = "pick", !.task = "recover_undo", !.exec = e,
                        !.left = ItemsIn(e, "UNDOING"), !.view = item[e],
                        !.reconcile = AlreadyMoved(e, ItemsIn(e, "UNDOING"), "source")]
  <2>1. Goto(Startup, local) /\ UNCHANGED <<execution, server>> /\ execution[e] = "UNDOING"
    BY <1>3 DEF RecoverUndo
  <2>2. local.pc = "pick" /\ local.exec = e /\ Restoring(local.task)
    BY DEF Idle, Restoring
  <2> QED
    BY <1>0, <2>1, <2>2, Starts
<1>4. CASE RecoveryRefused(e)
  BY <1>0, <1>4, RaiseKeepsDriver DEF RecoveryRefused
<1> QED
  BY <1>1, <1>2, <1>3, <1>4 DEF Recover

LEMMA EnvironmentKeepsDriver ==
  ASSUME TypeOK, DriverInv, Environment
  PROVE  DriverInv'
<1>1. CASE Crash
  BY <1>1, IdleFields
  DEF Crash, DriverInv, BusyThreads, ServerThreads, MarksFromRest, OneDriver, Drives, Thread
<1>2. CASE UNCHANGED <<execution, server, thread>>
  BY <1>2 DEF DriverInv, BusyThreads, ServerThreads, MarksFromRest, OneDriver, Drives
<1>3. ASSUME NEW t \in Thread, LockedMove(t)
      PROVE  DriverInv'
  BY <1>3, MoveFailsKeepsDriver DEF LockedMove, Drives
<1>4. ASSUME NEW t \in Thread, CommitFails(t)
      PROVE  DriverInv'
  BY <1>4, IdleFields, RaiseKeepsDriver DEF CommitFails
<1>5. CASE RecoveryAbandoned
  BY <1>5, RaiseKeepsDriver DEF RecoveryAbandoned, Thread
<1> QED
  BY <1>1, <1>2, <1>3, <1>4, <1>5 DEF Environment, UserFile, UserDirectory, UpdatePolicy, ScanWalk,
     ScanSync

LEMMA NextKeepsDriver == TypeOK /\ DriverInv /\ [Next]_vars => DriverInv'
<1> SUFFICES ASSUME TypeOK, DriverInv, [Next]_vars PROVE DriverInv'
  OBVIOUS
<1>1. ASSUME NEW t \in Request, NEW e \in Execution, Call(t, e) PROVE DriverInv'
  BY <1>1, CallKeepsDriver
<1>2. ASSUME NEW t \in Thread, Step(t) PROVE DriverInv'
  BY <1>2, StepKeepsDriver
<1>3. CASE Boot \/ BootDone
  BY <1>3
  DEF Boot, BootDone, DriverInv, BusyThreads, ServerThreads, MarksFromRest, OneDriver, Drives
<1>4. ASSUME NEW e \in Execution, Recover(e) PROVE DriverInv'
  BY <1>4, RecoverKeepsDriver
<1>5. CASE Environment
  BY <1>5, EnvironmentKeepsDriver
<1>6. CASE UNCHANGED vars
  BY <1>6
  DEF vars, DriverInv, BusyThreads, ServerThreads, MarksFromRest, OneDriver, Drives
<1> QED
  BY <1>1, <1>2, <1>3, <1>4, <1>5, <1>6 DEF Next, Rest

\* At most one thread drives an execution, in the direction of its status:
\* the conditional updates and the server's phases are enough.
THEOREM DriversExclusive == Spec => []OneDriver
<1>1. Init => DriverInv
  BY IdleFields
  DEF Init, DriverInv, BusyThreads, ServerThreads, MarksFromRest, OneDriver, Drives, Thread
<1>2. DriverInv => OneDriver
  BY DEF DriverInv
<1> QED
  BY <1>1, <1>2, InitTypeOK, NextTypeOK, NextKeepsDriver, PTL DEF Spec

-----------------------------------------------------------------------------
(* The index. *)

LEMMA FailItemKeepsIndex ==
  ASSUME TypeOK, IndexInv, NEW t \in Thread, FailItem(t)
  PROVE  IndexInv'
<1> DEFINE e == thread[t].exec
           n == thread[t].at
<1>1. /\ item \in [Execution -> [Item -> ItemStatus]]
      /\ item[e][n] = "EXECUTING" /\ UNCHANGED <<execution, entry>>
      /\ item' = [item EXCEPT ![e][n] = "FAILED"]
  BY DEF FailItem, TypeOK
<1> QED
  BY <1>1 DEF IndexInv, ItemsHaveExecution, IndexFollowsHistory

LEMMA MarkFailedKeepsIndex ==
  ASSUME TypeOK, IndexInv, NEW t \in Thread, NEW e \in Execution, MarkFailed(t, e)
  PROVE  IndexInv'
<1>1. /\ item \in [Execution -> [Item -> ItemStatus]]
      /\ execution \in [Execution -> ExecutionStatus]
  BY DEF TypeOK
<1> QED
  BY <1>1 DEF MarkFailed, ItemsIn, IndexInv, ItemsHaveExecution, IndexFollowsHistory

LEMMA MoveFailsKeepsIndex ==
  ASSUME TypeOK, DriverInv, IndexInv, NEW t \in Thread, thread[t].pc = "rename", MoveFails(t)
  PROVE  IndexInv'
<1>1. CASE FailItem(t)
  BY <1>1, FailItemKeepsIndex
<1>2. CASE MarkFailed(t, thread[t].exec)
  BY <1>2, MarkFailedKeepsIndex DEF DriverInv, BusyThreads
<1>3. CASE UNCHANGED <<db, disk, asked>>
  BY <1>3 DEF IndexInv, ItemsHaveExecution, IndexFollowsHistory
<1> QED
  BY <1>1, <1>2, <1>3 DEF MoveFails

LEMMA NextKeepsIndex == TypeOK /\ DriverInv /\ IndexInv /\ [Next]_vars => IndexInv'
<1> SUFFICES ASSUME TypeOK, DriverInv, IndexInv, [Next]_vars PROVE IndexInv'
  OBVIOUS
<1>0. /\ item \in [Execution -> [Item -> ItemStatus]]
      /\ entry \in [Execution -> [Item -> Side \cup {"gone"}]]
      /\ execution \in [Execution -> ExecutionStatus]
  BY DEF TypeOK
<1>1. CASE UNCHANGED <<execution, item, entry>>
  BY <1>1 DEF IndexInv, ItemsHaveExecution, IndexFollowsHistory
<1>2. ASSUME NEW t \in Request, NEW e \in Execution, Call(t, e)
      PROVE  UNCHANGED <<execution, item, entry>>
  BY <1>2 DEF Call, RequestExecute, RequestRetry, RequestRestore
<1>3. ASSUME NEW t \in Thread, Step(t)
      PROVE  IndexInv'
  <2> DEFINE e == thread[t].exec
             n == thread[t].at
  <2>0. thread[t].pc # "idle" => e \in Execution
    BY DEF DriverInv, BusyThreads
  <2>1. CASE CreateHistory(t)
    BY <1>0, <2>0, <2>1
    DEF CreateHistory, CreateHolds, IndexInv, ItemsHaveExecution, IndexFollowsHistory
  <2>2. CASE MarkRetry(t)
    BY <1>0, <2>0, <2>2
    DEF MarkRetry, MarkHolds, Marked, At, IndexInv, ItemsHaveExecution, IndexFollowsHistory
  <2>3. CASE MarkRestore(t)
    BY <1>0, <2>0, <2>3
    DEF MarkRestore, MarkHolds, Marked, At, IndexInv, ItemsHaveExecution, IndexFollowsHistory
  <2>4. ASSUME NEW m \in Item, StartItem(t, m) PROVE IndexInv'
    BY <1>0, <2>4
    DEF StartItem, StartHolds, Announce, IndexInv, ItemsHaveExecution, IndexFollowsHistory
  <2>5. ASSUME NEW m \in Item, StartRestoreItem(t, m) PROVE UNCHANGED <<execution, item, entry>>
    BY <2>5 DEF StartRestoreItem
  <2>6. CASE \/ CheckMove(t) \/ RestoreRefused(t) \/ Rename(t)
             \/ StateChanged(t) \/ IndexRejected(t)
    BY <1>1, <2>6 DEF CheckMove, RestoreRefused, Rename, StateChanged, IndexRejected
  <2>7. CASE RefuseMove(t)
    BY <2>7, FailItemKeepsIndex DEF RefuseMove
  <2>8. CASE RenameFails(t)
    BY <2>8, MoveFailsKeepsIndex DEF RenameFails
  <2>9. CASE CommitMove(t)
    BY <1>0, <2>9
    DEF CommitMove, RecordHolds, At, Forward, Restoring, IndexAt, IndexInv,
        ItemsHaveExecution, IndexFollowsHistory
  <2>10. CASE CommitRestore(t)
    BY <1>0, <2>10
    DEF CommitRestore, RecordHolds, At, Backward, Restoring, IndexAt, IndexInv,
        ItemsHaveExecution, IndexFollowsHistory
  <2>11. CASE EvidenceRejected(t)
    BY <1>1, <2>0, <2>11, MarkFailedKeepsIndex DEF EvidenceRejected
  <2>12. CASE FinishExecution(t) \/ FinishRestore(t)
    <3>1. e \in Execution /\ execution[e] # "ABSENT" /\ UNCHANGED <<item, entry>>
      BY <2>0, <2>12 DEF FinishExecution, FinishRestore, FinishHolds, At
    <3>2. \A f \in Execution : execution'[f] = "ABSENT" => execution[f] = "ABSENT"
      BY <1>0, <2>12, <3>1 DEF FinishExecution, FinishRestore, Summary
    <3> QED
      BY <3>1, <3>2 DEF IndexInv, ItemsHaveExecution, IndexFollowsHistory
  <2> QED
    BY <1>1, <1>3, <2>1, <2>2, <2>3, <2>4, <2>5, <2>6, <2>7, <2>8, <2>9, <2>10, <2>11, <2>12
    DEF Step
<1>4. ASSUME NEW e \in Execution, Recover(e)
      PROVE  IndexInv'
  BY <1>1, <1>4, MarkFailedKeepsIndex
  DEF Recover, RecoverExecution, RecoveryUnsafe, RecoverUndo, RecoveryRefused, Thread
<1>5. CASE Environment
  <2>1. ASSUME NEW t \in Thread, LockedMove(t) PROVE IndexInv'
    BY <2>1, MoveFailsKeepsIndex DEF LockedMove
  <2>2. CASE ScanSync
    BY <1>0, <2>2 DEF ScanSync, IndexInv, ItemsHaveExecution, IndexFollowsHistory
  <2> QED
    BY <1>1, <1>5, <2>1, <2>2
    DEF Environment, Crash, UserFile, UserDirectory, UpdatePolicy, CommitFails,
        RecoveryAbandoned, ScanWalk
<1> QED
  BY <1>1, <1>2, <1>3, <1>4, <1>5 DEF Next, Boot, BootDone, Rest, vars

\* The FileEntry and the item row never disagree about the side of a file.
THEOREM IndexCorrect == Spec => []IndexFollowsHistory
<1>1. Init => IndexInv /\ DriverInv
  BY IdleFields
  DEF Init, NoItems, IndexInv, ItemsHaveExecution, IndexFollowsHistory, DriverInv,
      BusyThreads, ServerThreads, MarksFromRest, OneDriver, Drives, Thread
<1>2. IndexInv => IndexFollowsHistory
  BY DEF IndexInv
<1> QED
  BY <1>1, <1>2, InitTypeOK, NextTypeOK, NextKeepsDriver, NextKeepsIndex, PTL DEF Spec
-----------------------------------------------------------------------------
(* The files. *)

\* A location depends on the two paths of the item only.
LEMMA FileAtFrame ==
  ASSUME NEW e \in Execution, NEW n \in Item,
         \A s \in Side : disk[e][n][s] \in Content \/ disk'[e][n][s] \in Content
                           => disk'[e][n][s] = disk[e][n][s]
  PROVE  /\ \A s \in Side : FileAt(e, n, s)' <=> FileAt(e, n, s)
         /\ FileSafe(e, n)' <=> FileSafe(e, n)
<1>1. \A s \in Side : Exists(e, n, s)' <=> Exists(e, n, s)
  BY DEF Exists
<1>2. "original" \in Content
  BY DEF Content
<1>3. \A s \in Side : FileAt(e, n, s)' <=> FileAt(e, n, s)
  BY <1>1, <1>2 DEF FileAt
<1> QED
  BY <1>3 DEF FileSafe

\* A file is in one place.
LEMMA OnePlace ==
  ASSUME NEW e \in Execution, NEW n \in Item
  PROVE  FileAt(e, n, "source") => ~FileAt(e, n, "target") /\ ~Exists(e, n, "target")
BY DEF FileAt, Exists, Side, Content

\* Threads that drive other executions, and threads that do not move files,
\* are not concerned by a step on the rows and files of e.
LEMMA OthersHold ==
  ASSUME TypeOK, DriverInv, FileInv, NEW t \in Thread, NEW e \in Execution,
         \A u \in Thread \ {t} : thread'[u] = thread[u] /\ (Drives(u) => thread[u].exec # e),
         \A f \in Execution \ {e} :
           item'[f] = item[f] /\ attempt'[f] = attempt[f] /\ disk'[f] = disk[f],
         tampered' = tampered
  PROVE  \A u \in Thread \ {t} : ThreadHolds(u)'
<1> SUFFICES ASSUME NEW u \in Thread \ {t} PROVE ThreadHolds(u)'
  OBVIOUS
<1> DEFINE f == thread[u].exec
<1>1. Drives(u)' = Drives(u) /\ thread'[u] = thread[u] /\ ThreadHolds(u)
  BY DEF Drives, FileInv
<1>2. CASE ~Drives(u)
  BY <1>1, <1>2 DEF ThreadHolds, HandHolds, LeftHolds, Drives
<1>3. CASE Drives(u)
  <2>1. f \in Execution \ {e}
    BY <1>3 DEF Drives, DriverInv, BusyThreads
  <2>2. item'[f] = item[f] /\ attempt'[f] = attempt[f] /\ disk'[f] = disk[f]
    BY <2>1
  <2>3. \A n \in Item, s \in Side : FileAt(f, n, s)' <=> FileAt(f, n, s)
    BY <2>1, <2>2, FileAtFrame
  <2>4. \A task : From(task) \in Side /\ To(task) \in Side /\ "source" \in Side
    BY DEF From, To, Side
  <2>5. HandHolds(u)'
    BY <1>1, <2>2, <2>3, <2>4 DEF ThreadHolds, HandHolds
  <2>6. ASSUME NEW n \in Item PROVE LeftHolds(u, n)'
    BY <1>1, <2>2, <2>3, <2>4 DEF ThreadHolds, LeftHolds
  <2> QED
    BY <2>5, <2>6 DEF ThreadHolds
<1> QED
  BY <1>2, <1>3

\* A step that leaves the rows and the untouched files alone, and whose
\* threads stay or leave the loop, keeps the invariant.
LEMMA FilesKept ==
  ASSUME TypeOK, FileInv, UNCHANGED <<item, error, attempt>>, tampered \subseteq tampered',
         \A t \in Thread : thread'[t] = thread[t] \/ thread'[t].pc \in {"idle", "create", "mark"},
         \A e \in Execution, n \in Item : <<e, n>> \notin tampered' =>
           \A s \in Side : disk[e][n][s] \in Content \/ disk'[e][n][s] \in Content
                             => disk'[e][n][s] = disk[e][n][s],
         \A t \in Thread : Drives(t) => thread[t].exec \in Execution
  PROVE  FileInv'
<1>1. \A e \in Execution, n \in Item : <<e, n>> \notin tampered' =>
        /\ <<e, n>> \notin tampered
        /\ \A s \in Side : FileAt(e, n, s)' <=> FileAt(e, n, s)
        /\ FileSafe(e, n)' <=> FileSafe(e, n)
  BY FileAtFrame
<1>2. \A task : From(task) \in Side /\ To(task) \in Side /\ {"source", "target"} \subseteq Side
  BY DEF From, To, Side
<1>3. HistoryLocatesFile'
  BY <1>1, <1>2 DEF FileInv, HistoryLocatesFile, Located
<1>4. UnsafeIsFailed'
  BY DEF FileInv, UnsafeIsFailed
<1>5. ASSUME NEW t \in Thread PROVE ThreadHolds(t)'
  <2>1. CASE thread'[t].pc \in {"idle", "create", "mark"}
    BY <2>1 DEF ThreadHolds, HandHolds, LeftHolds, Drives
  <2>2. CASE thread'[t] = thread[t] /\ ~Drives(t)
    BY <2>2 DEF ThreadHolds, HandHolds, LeftHolds, Drives
  <2>3. CASE thread'[t] = thread[t] /\ Drives(t)
    <3>1. ThreadHolds(t) /\ thread[t].exec \in Execution
      BY <2>3 DEF FileInv
    <3>2. HandHolds(t)'
      BY <1>1, <1>2, <2>3, <3>1 DEF ThreadHolds, HandHolds
    <3>3. ASSUME NEW n \in Item PROVE LeftHolds(t, n)'
      BY <1>1, <1>2, <2>3, <3>1 DEF ThreadHolds, LeftHolds, Drives
    <3> QED
      BY <3>2, <3>3 DEF ThreadHolds
  <2> QED
    BY <2>1, <2>2, <2>3
<1> QED
  BY <1>3, <1>4, <1>5 DEF FileInv
LEMMA DriversHaveExecution ==
  ASSUME DriverInv
  PROVE  \A t \in Thread : Drives(t) => thread[t].exec \in Execution /\ thread[t] # Idle
BY IdleFields DEF DriverInv, BusyThreads, Drives

\* One step of the loop on item m.
LEMMA ItemStep ==
  ASSUME TypeOK, DriverInv, FileInv, NEW t \in Thread, Drives(t), NEW m \in Item,
         NEW e, e = thread[t].exec,
         \A u \in Thread \ {t} : thread'[u] = thread[u],
         \A f \in Execution, n \in Item : <<f, n>> # <<e, m>> =>
           /\ item'[f][n] = item[f][n] /\ error'[f][n] = error[f][n]
           /\ disk'[f][n] = disk[f][n],
         \A f \in Execution \ {e} : item'[f] = item[f] /\ disk'[f] = disk[f],
         attempt' = attempt, tampered' = tampered,
         error'[e][m] = "unsafe" => item'[e][m] = "FAILED",
         <<e, m>> \notin tampered => Located(e, m)',
         Drives(t)', HandHolds(t)',
         thread'[t].exec = e, thread'[t].task = thread[t].task,
         thread'[t].reconcile = thread[t].reconcile, thread'[t].left \subseteq thread[t].left \ {m}
  PROVE  FileInv'
<1>1. e \in Execution
  BY DriversHaveExecution
<1>2. UnsafeIsFailed'
  BY DEF FileInv, UnsafeIsFailed
<1>3. HistoryLocatesFile'
  <2> SUFFICES ASSUME NEW f \in Execution, NEW n \in Item, <<f, n>> \notin tampered
               PROVE  Located(f, n)'
    BY DEF HistoryLocatesFile
  <2>1. CASE <<f, n>> = <<e, m>>
    BY <2>1
  <2>2. CASE <<f, n>> # <<e, m>>
    BY <2>2, FileAtFrame DEF FileInv, HistoryLocatesFile, Located, Side
  <2> QED
    BY <2>1, <2>2
<1>4. ASSUME NEW n \in Item PROVE LeftHolds(t, n)'
  <2> SUFFICES ASSUME n \in thread'[t].left PROVE LeftHolds(t, n)'
    BY DEF LeftHolds
  <2>1. n # m /\ n \in thread[t].left /\ LeftHolds(t, n)
    BY DEF FileInv, ThreadHolds
  <2>2. item'[e][n] = item[e][n] /\ \A s \in Side : FileAt(e, n, s)' <=> FileAt(e, n, s)
    BY <1>1, <2>1, FileAtFrame
  <2> QED
    BY <2>1, <2>2 DEF LeftHolds, To, Side
<1>5. ThreadHolds(t)'
  BY <1>4 DEF ThreadHolds
<1>6. \A u \in Thread \ {t} : Drives(u) => thread[u].exec # e
  BY DEF DriverInv, OneDriver
<1>7. \A u \in Thread \ {t} : ThreadHolds(u)'
  BY <1>1, <1>6, OthersHold
<1> QED
  BY <1>2, <1>3, <1>5, <1>7 DEF FileInv

LEMMA FailItemKeepsFiles ==
  ASSUME TypeOK, DriverInv, FileInv, NEW t \in Thread, FailItem(t), tampered' = tampered,
         thread[t].pc \in {"check", "rename"}, ~Restoring(thread[t].task)
  PROVE  FileInv'
<1>0. PICK e, n : e = thread[t].exec /\ n = thread[t].at
  OBVIOUS
<1>1. /\ item \in [Execution -> [Item -> ItemStatus]]
      /\ error \in [Execution -> [Item -> {"none", "refused", "unsafe"}]]
      /\ thread[t] \in Local
  BY DEF TypeOK
<1>2. Drives(t) /\ e \in Execution /\ HandHolds(t) /\ n \in Item \ thread[t].left
  BY <1>0, DriversHaveExecution DEF Drives, FileInv, ThreadHolds, HandHolds
<1>3. thread'[t] = Settled(t, "FAILED") /\ \A u \in Thread \ {t} : thread'[u] = thread[u]
  BY GotoChangesOne DEF FailItem
<1>4. /\ thread'[t].pc = "pick" /\ thread'[t].exec = e /\ thread'[t].task = thread[t].task
      /\ thread'[t].reconcile = thread[t].reconcile /\ thread'[t].left = thread[t].left
  BY <1>0, <1>1, <1>3 DEF Settled, Local
<1>5. /\ item' = [item EXCEPT ![e][n] = "FAILED"] /\ error' = [error EXCEPT ![e][n] = "refused"]
      /\ UNCHANGED <<attempt, disk>>
  BY <1>0 DEF FailItem
<1>6. <<e, n>> \notin tampered => Located(e, n)'
  <2> SUFFICES ASSUME <<e, n>> \notin tampered PROVE Located(e, n)'
    OBVIOUS
  <2>1. FileSafe(e, n) /\ (attempt[e] = 1 => FileAt(e, n, "source"))
    BY <1>0, <1>2 DEF HandHolds, From, FileInv, HistoryLocatesFile, Located
  <2>2. FileSafe(e, n)' /\ (attempt[e] = 1 => FileAt(e, n, "source")')
    BY <1>2, <1>5, <2>1, FileAtFrame DEF Side
  <2>3. item'[e][n] = "FAILED"
    BY <1>1, <1>2, <1>5
  <2> QED
    BY <1>5, <2>2, <2>3 DEF Located
<1>7. Drives(t)' /\ HandHolds(t)'
  BY <1>4 DEF Drives, HandHolds
<1>8. /\ \A f \in Execution, i \in Item : <<f, i>> # <<e, n>> =>
           item'[f][i] = item[f][i] /\ error'[f][i] = error[f][i] /\ disk'[f][i] = disk[f][i]
      /\ \A f \in Execution \ {e} : item'[f] = item[f] /\ disk'[f] = disk[f]
      /\ item'[e][n] = "FAILED"
  BY <1>1, <1>2, <1>5
<1> QED
  BY <1>0, <1>2, <1>3, <1>4, <1>5, <1>6, <1>7, <1>8, ItemStep
LEMMA MarkFailedKeepsFiles ==
  ASSUME TypeOK, DriverInv, FileInv, NEW t \in Thread, NEW e \in Execution, MarkFailed(t, e),
         tampered' = tampered, \A u \in Thread \ {t} : Drives(u) => thread[u].exec # e
  PROVE  FileInv'
<1>1. /\ item \in [Execution -> [Item -> ItemStatus]]
      /\ error \in [Execution -> [Item -> {"none", "refused", "unsafe"}]]
  BY DEF TypeOK
<1>2. /\ UNCHANGED <<attempt, disk>>
      /\ \A f \in Execution \ {e} : item'[f] = item[f] /\ error'[f] = error[f]
      /\ \A n \in Item : \/ item'[e][n] = item[e][n] /\ error'[e][n] = error[e][n]
                         \/ item'[e][n] = "FAILED" /\ error'[e][n] = "unsafe"
  BY <1>1 DEF MarkFailed
<1>3. thread'[t] = Idle /\ \A u \in Thread \ {t} : thread'[u] = thread[u]
  BY GotoChangesOne DEF MarkFailed
<1>4. UnsafeIsFailed'
  BY <1>2 DEF FileInv, UnsafeIsFailed
<1>5. HistoryLocatesFile'
  <2> SUFFICES ASSUME NEW f \in Execution, NEW n \in Item, <<f, n>> \notin tampered
               PROVE  Located(f, n)'
    BY DEF HistoryLocatesFile
  <2>1. Located(f, n) /\ (FileSafe(f, n)' <=> FileSafe(f, n))
        /\ \A s \in Side : FileAt(f, n, s)' <=> FileAt(f, n, s)
    BY <1>2, FileAtFrame DEF FileInv, HistoryLocatesFile
  <2>2. CASE item'[f][n] = item[f][n] /\ error'[f][n] = error[f][n]
    BY <1>2, <2>1, <2>2 DEF Located, Side
  <2>3. CASE item'[f][n] = "FAILED" /\ error'[f][n] = "unsafe"
    BY <2>1, <2>3 DEF Located
  <2> QED
    BY <1>2, <2>2, <2>3
<1>6. ThreadHolds(t)'
  BY <1>3, IdleFields DEF ThreadHolds, HandHolds, LeftHolds, Drives
<1>7. \A u \in Thread \ {t} : ThreadHolds(u)'
  BY <1>2, <1>3, OthersHold
<1> QED
  BY <1>4, <1>5, <1>6, <1>7 DEF FileInv

LEMMA RaiseKeepsFiles ==
  ASSUME TypeOK, DriverInv, FileInv, NEW t \in Thread, Raise(t) \/ Abandon(t),
         UNCHANGED <<item, error, attempt, disk, tampered>>
  PROVE  FileInv'
<1>1. \A u \in Thread : thread'[u] = thread[u] \/ thread'[u].pc = "idle"
  BY GotoChangesOne, IdleFields DEF Raise, Abandon
<1> QED
  BY <1>1, DriversHaveExecution, FilesKept

LEMMA MoveFailsKeepsFiles ==
  ASSUME TypeOK, DriverInv, FileInv, NEW t \in Thread, thread[t].pc = "rename", MoveFails(t),
         tampered' = tampered
  PROVE  FileInv'
<1>1. Drives(t) /\ thread[t].exec \in Execution
  BY DriversHaveExecution DEF Drives
<1>2. CASE thread[t].task \in Forward /\ FailItem(t)
  BY <1>2, FailItemKeepsFiles DEF Forward, Restoring
<1>3. CASE MarkFailed(t, thread[t].exec)
  BY <1>1, <1>3, MarkFailedKeepsFiles DEF DriverInv, OneDriver
<1>4. CASE Raise(t) /\ UNCHANGED <<db, disk, asked>>
  BY <1>4, RaiseKeepsFiles
<1> QED
  BY <1>2, <1>3, <1>4 DEF MoveFails

LEMMA CreateHistoryKeepsFiles ==
  ASSUME TypeOK, DriverInv, ItemsHaveExecution, FileInv, NEW t \in Thread, CreateHistory(t)
  PROVE  FileInv'
<1>0. PICK e : e = thread[t].exec
  OBVIOUS
<1>1. /\ item \in [Execution -> [Item -> ItemStatus]]
      /\ execution \in [Execution -> ExecutionStatus]
      /\ thread \in [Thread -> Local]
  BY DEF TypeOK
<1>2. /\ e \in Execution /\ execution[e] = "ABSENT"
      /\ thread[t].task = "execute" /\ thread[t].reconcile = {}
  BY <1>0 DEF CreateHistory, CreateHolds, DriverInv, BusyThreads
<1>3. /\ item' = [item EXCEPT ![e] = [n \in Item |-> "PENDING"]]
      /\ UNCHANGED <<attempt, error, disk, tampered>>
  BY <1>0 DEF CreateHistory
<1>4. /\ \A u \in Thread \ {t} : thread'[u] = thread[u]
      /\ thread'[t].pc = "pick" /\ thread'[t].task = "execute" /\ thread'[t].reconcile = {}
  BY <1>1, <1>2 DEF CreateHistory, Goto, Local
<1>5. \A n \in Item : item[e][n] = "ABSENT" /\ item'[e][n] = "PENDING"
  BY <1>1, <1>2, <1>3 DEF ItemsHaveExecution
<1>6. \A f \in Execution \ {e} : item'[f] = item[f] /\ error'[f] = error[f]
  BY <1>1, <1>3
<1>7. UnsafeIsFailed'
  BY <1>3, <1>5, <1>6 DEF FileInv, UnsafeIsFailed
<1>8. HistoryLocatesFile'
  <2> SUFFICES ASSUME NEW f \in Execution, NEW n \in Item, <<f, n>> \notin tampered
               PROVE  Located(f, n)'
    BY <1>3 DEF HistoryLocatesFile
  <2>1. Located(f, n) /\ (FileSafe(f, n)' <=> FileSafe(f, n))
        /\ \A s \in Side : FileAt(f, n, s)' <=> FileAt(f, n, s)
    BY <1>3, FileAtFrame DEF FileInv, HistoryLocatesFile
  <2> QED
    BY <1>3, <1>5, <1>6, <2>1 DEF Located, Side
<1>9. ThreadHolds(t)'
  BY <1>4 DEF ThreadHolds, HandHolds, LeftHolds, Restoring
<1>10. \A u \in Thread \ {t} : ThreadHolds(u)'
  <2>1. \A u \in Thread \ {t} : Drives(u) => thread[u].exec # e
    BY <1>2 DEF DriverInv, OneDriver
  <2> QED
    BY <1>2, <1>3, <1>4, <1>6, <2>1, OthersHold
<1> QED
  BY <1>7, <1>8, <1>9, <1>10 DEF FileInv

LEMMA MarkRetryKeepsFiles ==
  ASSUME TypeOK, DriverInv, FileInv, NEW t \in Thread, MarkRetry(t)
  PROVE  FileInv'
<1>0. PICK e : e = thread[t].exec
  OBVIOUS
<1> DEFINE failed == Marked(t, "FAILED")
<1>1. /\ item \in [Execution -> [Item -> ItemStatus]]
      /\ error \in [Execution -> [Item -> {"none", "refused", "unsafe"}]]
      /\ attempt \in [Execution -> Nat \ {0}]
      /\ thread \in [Thread -> Local]
  BY DEF TypeOK
<1>2. /\ e \in Execution /\ execution[e] \in {"PARTIALLY_COMPLETED", "FAILED"}
      /\ thread[t].task = "retry" /\ thread[t].reconcile = {}
      /\ \A n \in failed : item[e][n] = "FAILED"
  BY <1>0 DEF MarkRetry, MarkHolds, Marked, At, DriverInv, BusyThreads, MarksFromRest
<1>3. /\ UNCHANGED <<disk, tampered>>
      /\ \A f \in Execution \ {e} :
           item'[f] = item[f] /\ error'[f] = error[f] /\ attempt'[f] = attempt[f]
      /\ \A n \in Item : IF n \in failed
                         THEN item'[e][n] = "PENDING" /\ error'[e][n] = "none"
                         ELSE item'[e][n] = item[e][n] /\ error'[e][n] = error[e][n]
  BY <1>0, <1>1, <1>2 DEF MarkRetry
<1>4. attempt'[e] # 1
  <2>1. attempt'[e] = attempt[e] + 1 /\ attempt[e] \in Nat \ {0}
    BY <1>0, <1>1, <1>2 DEF MarkRetry
  <2> QED
    BY <2>1
<1>5. /\ \A u \in Thread \ {t} : thread'[u] = thread[u]
      /\ thread'[t].pc = "pick" /\ thread'[t].task = "retry" /\ thread'[t].reconcile = {}
  BY <1>1, <1>2 DEF MarkRetry, Goto, Local
<1>6. UnsafeIsFailed'
  BY <1>3 DEF FileInv, UnsafeIsFailed
<1>7. HistoryLocatesFile'
  <2> SUFFICES ASSUME NEW f \in Execution, NEW n \in Item, <<f, n>> \notin tampered
               PROVE  Located(f, n)'
    BY <1>3 DEF HistoryLocatesFile
  <2>1. Located(f, n) /\ (FileSafe(f, n)' <=> FileSafe(f, n))
        /\ \A s \in Side : FileAt(f, n, s)' <=> FileAt(f, n, s)
    BY <1>3, FileAtFrame DEF FileInv, HistoryLocatesFile
  <2>2. CASE f = e
    BY <1>3, <1>4, <2>1, <2>2 DEF Located, Side
  <2>3. CASE f # e
    BY <1>3, <2>1, <2>3 DEF Located, Side
  <2> QED
    BY <2>2, <2>3
<1>8. ThreadHolds(t)'
  BY <1>5 DEF ThreadHolds, HandHolds, LeftHolds, Restoring
<1>9. \A u \in Thread \ {t} : ThreadHolds(u)'
  <2>1. \A u \in Thread \ {t} : Drives(u) => thread[u].exec # e
    BY <1>2 DEF DriverInv, OneDriver
  <2> QED
    BY <1>2, <1>3, <1>5, <2>1, OthersHold
<1> QED
  BY <1>6, <1>7, <1>8, <1>9 DEF FileInv

LEMMA MarkRestoreKeepsFiles ==
  ASSUME TypeOK, DriverInv, FileInv, NEW t \in Thread, MarkRestore(t)
  PROVE  FileInv'
<1>0. PICK e : e = thread[t].exec
  OBVIOUS
<1>1. PICK completed : completed = Marked(t, "COMPLETED")
  OBVIOUS
<1>2. /\ item \in [Execution -> [Item -> ItemStatus]]
      /\ thread \in [Thread -> Local]
  BY DEF TypeOK
<1>3. /\ e \in Execution /\ execution[e] \in {"COMPLETED", "PARTIALLY_COMPLETED"}
      /\ thread[t].task \in {"undo", "compensate"} /\ thread[t].reconcile = {}
      /\ \A n \in completed : item[e][n] = "COMPLETED"
  BY <1>0, <1>1 DEF MarkRestore, MarkHolds, Marked, At, DriverInv, BusyThreads, MarksFromRest
<1>4. /\ UNCHANGED <<disk, tampered, attempt, error>>
      /\ \A f \in Execution \ {e} : item'[f] = item[f]
      /\ \A n \in Item : item'[e][n] = IF n \in completed THEN "UNDOING" ELSE item[e][n]
  BY <1>0, <1>1, <1>2, <1>3 DEF MarkRestore
<1>5. /\ \A u \in Thread \ {t} : thread'[u] = thread[u]
      /\ thread'[t].pc = "pick" /\ thread'[t].exec = e /\ thread'[t].left = completed
      /\ thread'[t].task = thread[t].task /\ thread'[t].reconcile = {}
  BY <1>0, <1>1, <1>2, <1>3 DEF MarkRestore, Goto, Local
<1>6. UnsafeIsFailed'
  BY <1>3, <1>4 DEF FileInv, UnsafeIsFailed
<1>7. HistoryLocatesFile'
  <2> SUFFICES ASSUME NEW f \in Execution, NEW n \in Item, <<f, n>> \notin tampered
               PROVE  Located(f, n)'
    BY <1>4 DEF HistoryLocatesFile
  <2>1. Located(f, n) /\ (FileSafe(f, n)' <=> FileSafe(f, n))
        /\ \A s \in Side : FileAt(f, n, s)' <=> FileAt(f, n, s)
    BY <1>4, FileAtFrame DEF FileInv, HistoryLocatesFile
  <2> QED
    BY <1>4, <2>1 DEF Located, Side
<1>8. ThreadHolds(t)'
  BY <1>3, <1>4, <1>5 DEF ThreadHolds, HandHolds, LeftHolds
<1>9. \A u \in Thread \ {t} : ThreadHolds(u)'
  <2>1. \A u \in Thread \ {t} : Drives(u) => thread[u].exec # e
    BY <1>3 DEF DriverInv, OneDriver
  <2> QED
    BY <1>3, <1>4, <1>5, <2>1, OthersHold
<1> QED
  BY <1>6, <1>7, <1>8, <1>9 DEF FileInv
LEMMA StartItemKeepsFiles ==
  ASSUME TypeOK, DriverInv, FileInv, NEW t \in Thread, NEW m \in Item, StartItem(t, m)
  PROVE  FileInv'
<1>0. PICK e : e = thread[t].exec
  OBVIOUS
<1>1. /\ item \in [Execution -> [Item -> ItemStatus]]
      /\ thread \in [Thread -> Local]
  BY DEF TypeOK
<1>2. Drives(t) /\ e \in Execution /\ thread[t].pc = "pick" /\ ~Restoring(thread[t].task)
  BY <1>0, DriversHaveExecution DEF StartItem, At, Drives, Forward, Restoring
<1>3. /\ \A u \in Thread \ {t} : thread'[u] = thread[u]
      /\ thread'[t].pc = IF m \in thread[t].reconcile THEN "record" ELSE "check"
      /\ thread'[t].exec = e /\ thread'[t].at = m /\ thread'[t].left = thread[t].left \ {m}
      /\ thread'[t].task = thread[t].task /\ thread'[t].reconcile = thread[t].reconcile
  BY <1>0, <1>1 DEF StartItem, Goto, Taken, Local
<1>4. /\ item' = [item EXCEPT ![e][m] = "EXECUTING"]
      /\ UNCHANGED <<error, attempt, disk, tampered>>
  BY <1>0 DEF StartItem, Announce
<1>5. item'[e][m] = "EXECUTING"
  BY <1>1, <1>2, <1>4
<1>6. m \in thread[t].left /\ LeftHolds(t, m)
  BY DEF StartItem, IsNext, FileInv, ThreadHolds
<1>7. item[e][m] = "PENDING" \/ (thread[t].task = "recover" /\ item[e][m] = "EXECUTING")
  BY <1>0 DEF StartItem, StartHolds
<1>8. error[e][m] # "unsafe"
  BY <1>2, <1>7 DEF FileInv, UnsafeIsFailed
<1>9. \A s \in Side : FileAt(e, m, s)' <=> FileAt(e, m, s)
  BY <1>2, <1>4, FileAtFrame
<1>10. <<e, m>> \notin tampered => Located(e, m)'
  <2>1. FileSafe(e, m)' <=> FileSafe(e, m)
    BY <1>2, <1>4, FileAtFrame
  <2> QED
    BY <1>2, <1>5, <2>1 DEF FileInv, HistoryLocatesFile, Located
<1>11. HandHolds(t)'
  <2> SUFFICES ASSUME <<e, m>> \notin tampered
               PROVE  /\ thread'[t].pc = "check" /\ attempt[e] = 1 => FileAt(e, m, "source")'
                      /\ thread'[t].pc = "record" => FileAt(e, m, "target")'
    BY <1>2, <1>3, <1>4, <1>5 DEF HandHolds, To
  <2>1. thread'[t].pc = "record" => FileAt(e, m, "target")'
    BY <1>0, <1>2, <1>3, <1>6, <1>9 DEF LeftHolds, To, Side
  <2>2. ASSUME thread'[t].pc = "check", attempt[e] = 1
        PROVE  FileAt(e, m, "source")'
    <3>1. CASE thread[t].task = "recover"
      BY <1>0, <1>2, <1>3, <1>6, <1>9, <2>2, <3>1 DEF LeftHolds, Side
    <3>2. CASE item[e][m] = "PENDING"
      BY <1>2, <1>8, <1>9, <2>2, <3>2 DEF FileInv, HistoryLocatesFile, Located, Side
    <3> QED
      BY <1>7, <3>1, <3>2
  <2> QED
    BY <2>1, <2>2
<1>12. Drives(t)'
  BY <1>3 DEF Drives
<1>13. /\ \A f \in Execution, n \in Item : <<f, n>> # <<e, m>> =>
            item'[f][n] = item[f][n] /\ error'[f][n] = error[f][n] /\ disk'[f][n] = disk[f][n]
       /\ \A f \in Execution \ {e} : item'[f] = item[f] /\ disk'[f] = disk[f]
  BY <1>1, <1>4
<1>14. error'[e][m] = "unsafe" => item'[e][m] = "FAILED"
  BY <1>4, <1>8
<1> QED
  BY <1>0, <1>2, <1>3, <1>4, <1>10, <1>11, <1>12, <1>13, <1>14, ItemStep

LEMMA StartRestoreItemKeepsFiles ==
  ASSUME TypeOK, DriverInv, FileInv, NEW t \in Thread, NEW m \in Item, StartRestoreItem(t, m)
  PROVE  FileInv'
<1>0. PICK e : e = thread[t].exec
  OBVIOUS
<1>1. thread \in [Thread -> Local]
  BY DEF TypeOK
<1>2. Drives(t) /\ e \in Execution /\ thread[t].pc = "pick" /\ Restoring(thread[t].task)
  BY <1>0, DriversHaveExecution DEF StartRestoreItem, At, Drives, Backward, Restoring
<1>3. /\ \A u \in Thread \ {t} : thread'[u] = thread[u]
      /\ thread'[t].pc = IF m \in thread[t].reconcile THEN "record" ELSE "check"
      /\ thread'[t].exec = e /\ thread'[t].at = m /\ thread'[t].left = thread[t].left \ {m}
      /\ thread'[t].task = thread[t].task /\ thread'[t].reconcile = thread[t].reconcile
  BY <1>0, <1>1 DEF StartRestoreItem, Goto, Taken, Local
<1>4. UNCHANGED <<item, error, attempt, disk, tampered>>
  BY DEF StartRestoreItem
<1>5. m \in thread[t].left /\ LeftHolds(t, m)
  BY DEF StartRestoreItem, IsNext, FileInv, ThreadHolds
<1>6. \A s \in Side : FileAt(e, m, s)' <=> FileAt(e, m, s)
  BY <1>2, <1>4, FileAtFrame
<1>7. <<e, m>> \notin tampered => Located(e, m)'
  <2>1. FileSafe(e, m)' <=> FileSafe(e, m)
    BY <1>2, <1>4, FileAtFrame
  <2> QED
    BY <1>2, <1>4, <1>6, <2>1 DEF FileInv, HistoryLocatesFile, Located, Side
<1>8. HandHolds(t)'
  BY <1>0, <1>2, <1>3, <1>4, <1>5, <1>6 DEF HandHolds, LeftHolds, To, Side
<1>9. Drives(t)'
  BY <1>3 DEF Drives
<1>10. error'[e][m] = "unsafe" => item'[e][m] = "FAILED"
  BY <1>2, <1>4 DEF FileInv, UnsafeIsFailed
<1> QED
  BY <1>0, <1>2, <1>3, <1>4, <1>7, <1>8, <1>9, <1>10, ItemStep
LEMMA CheckMoveKeepsFiles ==
  ASSUME TypeOK, DriverInv, FileInv, NEW t \in Thread, CheckMove(t)
  PROVE  FileInv'
<1>0. PICK e, m : e = thread[t].exec /\ m = thread[t].at
  OBVIOUS
<1>1. /\ thread \in [Thread -> Local]
      /\ disk \in [Execution -> [Item -> [Side -> Place]]]
  BY DEF TypeOK
<1>2. PICK from \in Side, to \in Side : /\ from = From(thread[t].task) /\ to = To(thread[t].task)
                                        /\ Side = {from, to} /\ from # to
  BY DEF From, To, Side
<1>3. Drives(t) /\ e \in Execution /\ HandHolds(t) /\ m \in Item \ thread[t].left
  BY <1>0, DriversHaveExecution DEF CheckMove, Drives, FileInv, ThreadHolds, HandHolds
<1>4. /\ \A u \in Thread \ {t} : thread'[u] = thread[u]
      /\ thread'[t].pc = "rename" /\ thread'[t].exec = e /\ thread'[t].at = m
      /\ thread'[t].left = thread[t].left /\ thread'[t].task = thread[t].task
      /\ thread'[t].reconcile = thread[t].reconcile
  BY <1>0, <1>1 DEF CheckMove, Goto, Local
<1>5. /\ UNCHANGED <<item, error, attempt, tampered>>
      /\ disk' = [disk EXCEPT ![e][m][to] = "vacant"]
  BY <1>0, <1>2 DEF CheckMove
<1>6. /\ disk[e][m][from] \in Content
      /\ disk[e][m][to] \notin Content
  <2>1. disk[e][m][to] \in {"vacant", "nodir"}
    BY <1>0, <1>2 DEF CheckMove, MovePossible
  <2>2. Exists(e, m, from)
    BY <1>0, <1>2 DEF CheckMove, MovePossible, Exists, From, Restoring, Content
  <2> QED
    BY <2>1, <2>2 DEF Exists, Content
<1>7. /\ disk'[e][m][to] = "vacant" /\ disk'[e][m][from] = disk[e][m][from]
      /\ \A f \in Execution, n \in Item : <<f, n>> # <<e, m>> => disk'[f][n] = disk[f][n]
      /\ \A f \in Execution \ {e} : disk'[f] = disk[f]
  BY <1>1, <1>2, <1>3, <1>5
<1>8. \A s \in Side : disk[e][m][s] \in Content \/ disk'[e][m][s] \in Content
                        => disk'[e][m][s] = disk[e][m][s]
  BY <1>2, <1>6, <1>7 DEF Content
<1>9. (\A s \in Side : FileAt(e, m, s)' <=> FileAt(e, m, s)) /\ (FileSafe(e, m)' <=> FileSafe(e, m))
  BY <1>3, <1>8, FileAtFrame
<1>10. <<e, m>> \notin tampered => Located(e, m) /\ Located(e, m)'
  BY <1>3, <1>5, <1>9 DEF FileInv, HistoryLocatesFile, Located, Side
<1>11. <<e, m>> \notin tampered => FileAt(e, m, from)'
  BY <1>2, <1>6, <1>9, <1>10 DEF Located, FileSafe, FileAt, Exists
<1>12. HandHolds(t)' /\ Drives(t)'
  BY <1>0, <1>2, <1>3, <1>4, <1>5, <1>11 DEF HandHolds, Drives, CheckMove
<1>13. error'[e][m] = "unsafe" => item'[e][m] = "FAILED"
  BY <1>3, <1>5 DEF FileInv, UnsafeIsFailed
<1>14. /\ <<e, m>> \notin tampered => Located(e, m)'
       /\ UNCHANGED <<item, error, attempt, tampered>>
  BY <1>5, <1>10
<1> QED
  BY <1>0, <1>3, <1>4, <1>7, <1>12, <1>13, <1>14, ItemStep

LEMMA RenameKeepsFiles ==
  ASSUME TypeOK, DriverInv, FileInv, NEW t \in Thread, Rename(t)
  PROVE  FileInv'
<1>0. PICK e, m : e = thread[t].exec /\ m = thread[t].at
  OBVIOUS
<1>1. /\ thread \in [Thread -> Local]
      /\ disk \in [Execution -> [Item -> [Side -> Place]]]
  BY DEF TypeOK
<1>2. PICK from \in Side, to \in Side : /\ from = From(thread[t].task) /\ to = To(thread[t].task)
                                        /\ Side = {from, to} /\ from # to
  BY DEF From, To, Side
<1>3. Drives(t) /\ e \in Execution /\ HandHolds(t) /\ m \in Item \ thread[t].left
  BY <1>0, DriversHaveExecution DEF Rename, Drives, FileInv, ThreadHolds, HandHolds
<1>4. /\ \A u \in Thread \ {t} : thread'[u] = thread[u]
      /\ thread'[t].pc = "record" /\ thread'[t].exec = e /\ thread'[t].at = m
      /\ thread'[t].left = thread[t].left /\ thread'[t].task = thread[t].task
      /\ thread'[t].reconcile = thread[t].reconcile
  BY <1>0, <1>1 DEF Rename, Goto, Local
<1>5. UNCHANGED <<item, error, attempt, tampered>>
  BY DEF Rename
<1>6. /\ disk'[e][m][from] = "vacant" /\ disk'[e][m][to] = disk[e][m][from]
      /\ \A f \in Execution, n \in Item : <<f, n>> # <<e, m>> => disk'[f][n] = disk[f][n]
      /\ \A f \in Execution \ {e} : disk'[f] = disk[f]
  BY <1>0, <1>1, <1>2, <1>3 DEF Rename
<1>7. item[e][m] \in {"EXECUTING", "UNDOING"}
  BY <1>0, <1>3 DEF Rename, HandHolds
<1>8. <<e, m>> \notin tampered => FileAt(e, m, to)'
  <2>1. <<e, m>> \notin tampered => disk[e][m][from] = "original"
    BY <1>0, <1>2, <1>3 DEF Rename, HandHolds, FileAt
  <2> QED
    BY <1>2, <1>6, <2>1 DEF FileAt, Exists, Content
<1>9. <<e, m>> \notin tampered => Located(e, m)'
  BY <1>5, <1>7, <1>8 DEF Located, FileSafe
<1>10. HandHolds(t)' /\ Drives(t)'
  BY <1>0, <1>2, <1>3, <1>4, <1>5, <1>8 DEF HandHolds, Drives, Rename
<1>11. error'[e][m] = "unsafe" => item'[e][m] = "FAILED"
  BY <1>3, <1>5 DEF FileInv, UnsafeIsFailed
<1> QED
  BY <1>0, <1>3, <1>4, <1>5, <1>6, <1>9, <1>10, <1>11, ItemStep

LEMMA CommitKeepsFiles ==
  ASSUME TypeOK, DriverInv, FileInv, NEW t \in Thread, CommitMove(t) \/ CommitRestore(t)
  PROVE  FileInv'
<1>0. PICK e, m : e = thread[t].exec /\ m = thread[t].at
  OBVIOUS
<1>1. /\ thread \in [Thread -> Local]
      /\ item \in [Execution -> [Item -> ItemStatus]]
  BY DEF TypeOK
<1>2. Drives(t) /\ e \in Execution /\ HandHolds(t) /\ m \in Item \ thread[t].left
      /\ thread[t].pc = "record"
  BY <1>0, DriversHaveExecution
  DEF CommitMove, CommitRestore, At, Drives, FileInv, ThreadHolds, HandHolds
<1>3. /\ \A u \in Thread \ {t} : thread'[u] = thread[u]
      /\ thread'[t].pc = "pick" /\ thread'[t].exec = e
      /\ thread'[t].left = thread[t].left /\ thread'[t].task = thread[t].task
      /\ thread'[t].reconcile = thread[t].reconcile
  <2>1. CASE CommitMove(t)
    <3>1. thread' = [thread EXCEPT ![t] = Settled(t, "COMPLETED")]
      BY <2>1 DEF CommitMove, Goto
    <3>2. /\ Settled(t, "COMPLETED").pc = "pick" /\ Settled(t, "COMPLETED").exec = e
          /\ Settled(t, "COMPLETED").left = thread[t].left
          /\ Settled(t, "COMPLETED").task = thread[t].task
          /\ Settled(t, "COMPLETED").reconcile = thread[t].reconcile
      BY <1>0, <1>1 DEF Settled, Local
    <3> QED
      BY <1>1, <3>1, <3>2
  <2>2. CASE CommitRestore(t)
    BY <1>0, <1>1, <2>2 DEF CommitRestore, Goto, Local
  <2> QED
    BY <2>1, <2>2
<1>4. /\ UNCHANGED <<error, attempt, tampered, disk>>
      /\ \/ item' = [item EXCEPT ![e][m] = "COMPLETED"] /\ ~Restoring(thread[t].task)
         \/ item' = [item EXCEPT ![e][m] = "UNDONE"] /\ Restoring(thread[t].task)
  BY <1>0 DEF CommitMove, CommitRestore, At, Forward, Backward, Restoring
<1>5. /\ \/ item'[e][m] = "COMPLETED" /\ ~Restoring(thread[t].task)
         \/ item'[e][m] = "UNDONE" /\ Restoring(thread[t].task)
      /\ \A f \in Execution, n \in Item : <<f, n>> # <<e, m>> => item'[f][n] = item[f][n]
      /\ \A f \in Execution \ {e} : item'[f] = item[f]
  BY <1>1, <1>2, <1>4
<1>6. (\A s \in Side : FileAt(e, m, s)' <=> FileAt(e, m, s)) /\ (FileSafe(e, m)' <=> FileSafe(e, m))
  BY <1>2, <1>4, FileAtFrame
<1>7. <<e, m>> \notin tampered => Located(e, m)'
  BY <1>0, <1>2, <1>5, <1>6
  DEF HandHolds, To, Side, FileInv, HistoryLocatesFile, Located
<1>8. HandHolds(t)' /\ Drives(t)'
  BY <1>3 DEF HandHolds, Drives
<1>9. error'[e][m] = "unsafe" => item'[e][m] = "FAILED"
  BY <1>0, <1>2, <1>4 DEF HandHolds, FileInv, UnsafeIsFailed
<1> QED
  BY <1>0, <1>2, <1>3, <1>4, <1>5, <1>7, <1>8, <1>9, ItemStep

LEMMA RecoverKeepsFiles ==
  ASSUME TypeOK, DriverInv, FileInv, NEW e \in Execution, Recover(e)
  PROVE  FileInv'
<1>0. /\ Startup \in Thread
      /\ \A u \in Thread : thread[u] = Idle /\ ~Drives(u)
      /\ thread \in [Thread -> Local]
  BY IdleFields DEF Recover, RecoverExecution, RecoveryUnsafe, RecoverUndo, RecoveryRefused,
     Recoverable, DriverInv, ServerThreads, Thread, Drives, TypeOK
<1>1. ASSUME UNCHANGED <<item, error, attempt, disk, tampered>>,
             \A u \in Thread \ {Startup} : thread'[u] = thread[u],
             ThreadHolds(Startup)'
      PROVE  FileInv'
  <2>1. \A f \in Execution, n \in Item :
          /\ \A s \in Side : FileAt(f, n, s)' <=> FileAt(f, n, s)
          /\ FileSafe(f, n)' <=> FileSafe(f, n)
    BY <1>1, FileAtFrame
  <2>2. HistoryLocatesFile'
    BY <1>1, <2>1 DEF FileInv, HistoryLocatesFile, Located, Side
  <2>3. UnsafeIsFailed'
    BY <1>1 DEF FileInv, UnsafeIsFailed
  <2>4. \A u \in Thread \ {Startup} : ThreadHolds(u)'
    BY <1>0, <1>1, IdleFields DEF ThreadHolds, HandHolds, LeftHolds, Drives
  <2> QED
    BY <1>1, <2>2, <2>3, <2>4 DEF FileInv
<1>2. CASE RecoverExecution(e)
  <2>1. /\ UNCHANGED <<item, error, attempt, disk, tampered>>
        /\ \A u \in Thread \ {Startup} : thread'[u] = thread[u]
        /\ thread'[Startup].pc = "pick" /\ thread'[Startup].exec = e
        /\ thread'[Startup].task = "recover" /\ thread'[Startup].left = Interrupted(e)
        /\ thread'[Startup].reconcile = AlreadyMoved(e, Interrupted(e), "target")
    BY <1>0, <1>2 DEF RecoverExecution, Goto, Idle
  <2>2. ASSUME NEW n \in Interrupted(e)
        PROVE  IF n \in AlreadyMoved(e, Interrupted(e), "target")
               THEN FileAt(e, n, "target")' ELSE FileAt(e, n, "source")'
    BY <1>2, <2>1
    DEF RecoverExecution, ExecutionIsClear, PathIsClear, AlreadyMoved, FileAt, Exists, Side
  <2>3. ThreadHolds(Startup)'
    BY <2>1, <2>2 DEF ThreadHolds, HandHolds, LeftHolds, Restoring, To
  <2> QED
    BY <1>1, <2>1, <2>3
<1>3. CASE RecoveryUnsafe(e)
  BY <1>0, <1>3, MarkFailedKeepsFiles DEF RecoveryUnsafe
<1>4. CASE RecoverUndo(e)
  <2>1. /\ UNCHANGED <<item, error, attempt, disk, tampered>>
        /\ \A u \in Thread \ {Startup} : thread'[u] = thread[u]
        /\ thread'[Startup].pc = "pick" /\ thread'[Startup].exec = e
        /\ thread'[Startup].task = "recover_undo"
        /\ thread'[Startup].left = ItemsIn(e, "UNDOING")
        /\ thread'[Startup].reconcile = AlreadyMoved(e, ItemsIn(e, "UNDOING"), "source")
    BY <1>0, <1>4 DEF RecoverUndo, Goto, Idle
  <2>2. ASSUME NEW n \in AlreadyMoved(e, ItemsIn(e, "UNDOING"), "source")
        PROVE  FileAt(e, n, "source")'
    <3>1. n \in ItemsIn(e, "UNDOING") /\ Exists(e, n, "source")
      BY DEF AlreadyMoved
    <3>2. PathIsClear(e, n, after[e][n], "original")
      BY <1>4, <3>1 DEF RecoverUndo, UndoIsClear
    <3> QED
      BY <2>1, <3>1, <3>2 DEF PathIsClear, FileAt, Exists, Side
  <2>3. \A n \in Item : n \in ItemsIn(e, "UNDOING") => item'[e][n] = "UNDOING"
    BY <2>1 DEF ItemsIn
  <2>4. ThreadHolds(Startup)'
    BY <2>1, <2>2, <2>3 DEF ThreadHolds, HandHolds, LeftHolds, Restoring, To
  <2> QED
    BY <1>1, <2>1, <2>4
<1>5. CASE RecoveryRefused(e)
  BY <1>0, <1>5, RaiseKeepsFiles DEF RecoveryRefused
<1> QED
  BY <1>2, <1>3, <1>4, <1>5 DEF Recover
LEMMA StepKeepsFiles ==
  ASSUME TypeOK, DriverInv, ItemsHaveExecution, FileInv, NEW t \in Thread, Step(t)
  PROVE  FileInv'
<1>1. CASE CreateHistory(t)
  BY <1>1, CreateHistoryKeepsFiles
<1>2. CASE MarkRetry(t)
  BY <1>2, MarkRetryKeepsFiles
<1>3. CASE MarkRestore(t)
  BY <1>3, MarkRestoreKeepsFiles
<1>4. ASSUME NEW n \in Item, StartItem(t, n) PROVE FileInv'
  BY <1>4, StartItemKeepsFiles
<1>5. ASSUME NEW n \in Item, StartRestoreItem(t, n) PROVE FileInv'
  BY <1>5, StartRestoreItemKeepsFiles
<1>6. CASE CheckMove(t)
  BY <1>6, CheckMoveKeepsFiles
<1>7. CASE RefuseMove(t)
  BY <1>7, FailItemKeepsFiles DEF RefuseMove, At, Forward, Restoring
<1>8. CASE RestoreRefused(t) \/ StateChanged(t) \/ IndexRejected(t)
  BY <1>8, RaiseKeepsFiles DEF RestoreRefused, StateChanged, IndexRejected
<1>9. CASE Rename(t)
  BY <1>9, RenameKeepsFiles
<1>10. CASE RenameFails(t)
  BY <1>10, MoveFailsKeepsFiles DEF RenameFails
<1>11. CASE CommitMove(t) \/ CommitRestore(t)
  BY <1>11, CommitKeepsFiles
<1>12. CASE EvidenceRejected(t)
  <2>1. Drives(t) /\ thread[t].exec \in Execution
    BY <1>12, DriversHaveExecution DEF EvidenceRejected, Drives
  <2>2. CASE MarkFailed(t, thread[t].exec)
    BY <1>12, <2>1, <2>2, MarkFailedKeepsFiles DEF EvidenceRejected, DriverInv, OneDriver
  <2>3. CASE Raise(t) /\ UNCHANGED <<db, disk, asked>>
    BY <1>12, <2>3, RaiseKeepsFiles DEF EvidenceRejected
  <2> QED
    BY <1>12, <2>2, <2>3 DEF EvidenceRejected
<1>13. CASE FinishExecution(t) \/ FinishRestore(t)
  <2>1. UNCHANGED <<item, error, attempt, disk, tampered>> /\ Goto(t, Idle)
    BY <1>13 DEF FinishExecution, FinishRestore
  <2>2. \A u \in Thread : thread'[u] = thread[u] \/ thread'[u].pc = "idle"
    BY <2>1, GotoChangesOne, IdleFields
  <2> QED
    BY <2>1, <2>2, DriversHaveExecution, FilesKept
<1> QED
  BY <1>1, <1>2, <1>3, <1>4, <1>5, <1>6, <1>7, <1>8, <1>9, <1>10, <1>11, <1>12, <1>13 DEF Step

LEMMA EnvironmentKeepsFiles ==
  ASSUME TypeOK, DriverInv, FileInv, Environment
  PROVE  FileInv'
<1>0. \A t \in Thread : Drives(t) => thread[t].exec \in Execution
  BY DriversHaveExecution
<1>1. CASE Crash
  <2>1. \A t \in Thread : thread'[t].pc = "idle"
    BY <1>1, IdleFields DEF Crash
  <2>2. UNCHANGED <<item, error, attempt, disk, tampered>>
    BY <1>1 DEF Crash
  <2> QED
    BY <1>0, <2>1, <2>2, FilesKept
<1>2. ASSUME NEW e \in Execution, NEW n \in Item, NEW s \in Side, UserFile(e, n, s)
      PROVE  FileInv'
  <2>1. PICK new : /\ disk' = [disk EXCEPT ![e][n][s] = new]
                   /\ tampered' = tampered \cup {<<e, n>>}
                   /\ UNCHANGED <<db, thread>>
    BY <1>2 DEF UserFile
  <2>2. \A f \in Execution, i \in Item : <<f, i>> \notin tampered' => disk'[f][i] = disk[f][i]
    BY <2>1 DEF TypeOK
  <2> QED
    BY <1>0, <2>1, <2>2, FilesKept
<1>3. ASSUME NEW e \in Execution, NEW n \in Item, NEW s \in Side, UserDirectory(e, n, s)
      PROVE  FileInv'
  <2>1. /\ disk[e][n][s] \in {"vacant", "nodir"}
        /\ disk' = [disk EXCEPT ![e][n][s] = IF @ = "vacant" THEN "nodir" ELSE "vacant"]
        /\ UNCHANGED <<item, error, attempt, thread, tampered>>
    BY <1>3 DEF UserDirectory
  <2>2. PICK new \in {"vacant", "nodir"} : disk' = [disk EXCEPT ![e][n][s] = new]
    BY <2>1
  <2>3. disk \in [Execution -> [Item -> [Side -> Place]]]
    BY DEF TypeOK
  <2>4. \A f \in Execution, i \in Item, r \in Side :
          disk[f][i][r] \in Content \/ disk'[f][i][r] \in Content => disk'[f][i][r] = disk[f][i][r]
    BY <2>1, <2>2, <2>3 DEF Content
  <2> QED
    BY <1>0, <2>1, <2>4, FilesKept
<1>4. CASE UNCHANGED <<db, disk, thread, tampered>>
  BY <1>0, <1>4, FilesKept
<1>5. ASSUME NEW t \in Thread, LockedMove(t) PROVE FileInv'
  BY <1>5, MoveFailsKeepsFiles DEF LockedMove
<1>6. ASSUME NEW t \in Thread, CommitFails(t) PROVE FileInv'
  BY <1>6, RaiseKeepsFiles DEF CommitFails
<1>7. CASE RecoveryAbandoned
  BY <1>7, RaiseKeepsFiles DEF RecoveryAbandoned, Thread
<1>8. CASE ScanSync
  <2>1. UNCHANGED <<item, error, attempt, disk, thread, tampered>>
    BY <1>8 DEF ScanSync
  <2> QED
    BY <1>0, <2>1, FilesKept
<1> QED
  BY <1>1, <1>2, <1>3, <1>4, <1>5, <1>6, <1>7, <1>8 DEF Environment, UpdatePolicy, ScanWalk

LEMMA NextKeepsFiles ==
  TypeOK /\ DriverInv /\ ItemsHaveExecution /\ FileInv /\ [Next]_vars => FileInv'
<1> SUFFICES ASSUME TypeOK, DriverInv, ItemsHaveExecution, FileInv, [Next]_vars PROVE FileInv'
  OBVIOUS
<1>0. \A t \in Thread : Drives(t) => thread[t].exec \in Execution
  BY DriversHaveExecution
<1>1. ASSUME NEW t \in Request, NEW e \in Execution, Call(t, e) PROVE FileInv'
  <2>1. UNCHANGED <<item, error, attempt, disk, tampered>>
    BY <1>1 DEF Call, RequestExecute, RequestRetry, RequestRestore
  <2>2. thread \in [Thread -> Local] /\ t \in Thread
    BY DEF TypeOK, Thread
  <2>3. /\ \A u \in Thread \ {t} : thread'[u] = thread[u]
        /\ thread'[t].pc \in {"create", "mark"}
    <3>1. CASE RequestExecute(t, e)
      BY <2>2, <3>1 DEF RequestExecute, Goto, Idle
    <3>2. CASE RequestRetry(t, e)
      BY <2>2, <3>2 DEF RequestRetry, Goto, Idle
    <3>3. ASSUME NEW task \in {"undo", "compensate"}, RequestRestore(t, e, task)
          PROVE  /\ \A u \in Thread \ {t} : thread'[u] = thread[u]
                 /\ thread'[t].pc \in {"create", "mark"}
      BY <2>2, <3>3 DEF RequestRestore, Goto, Idle
    <3> QED
      BY <1>1, <3>1, <3>2, <3>3 DEF Call
  <2>4. \A u \in Thread : thread'[u] = thread[u] \/ thread'[u].pc \in {"create", "mark"}
    BY <2>3
  <2> QED
    BY <1>0, <2>1, <2>4, FilesKept
<1>2. ASSUME NEW t \in Thread, Step(t) PROVE FileInv'
  BY <1>2, StepKeepsFiles
<1>3. CASE UNCHANGED <<db, disk, thread, tampered>>
  BY <1>0, <1>3, FilesKept
<1>4. ASSUME NEW e \in Execution, Recover(e) PROVE FileInv'
  BY <1>4, RecoverKeepsFiles
<1>5. CASE Environment
  BY <1>5, EnvironmentKeepsFiles
<1> QED
  BY <1>1, <1>2, <1>3, <1>4, <1>5 DEF Next, Boot, BootDone, Rest, vars

LEMMA InitInductive == Init => Inductive
<1> SUFFICES ASSUME Init PROVE Inductive
  OBVIOUS
<1>1. TypeOK
  BY InitTypeOK
<1>2. DriverInv
  BY IdleFields
  DEF Init, DriverInv, BusyThreads, ServerThreads, MarksFromRest, OneDriver, Drives, Thread
<1>3. IndexInv
  BY DEF Init, NoItems, IndexInv, ItemsHaveExecution, IndexFollowsHistory
<1>4. \A e \in Execution, n \in Item : FileAt(e, n, "source") /\ FileSafe(e, n)
  BY DEF Init, FileAt, FileSafe, Exists, Side, Content
<1>5. HistoryLocatesFile /\ UnsafeIsFailed
  BY <1>4 DEF Init, NoItems, HistoryLocatesFile, Located, UnsafeIsFailed
<1>6. \A t \in Thread : ThreadHolds(t)
  BY IdleFields DEF Init, ThreadHolds, HandHolds, LeftHolds, Drives
<1> QED
  BY <1>1, <1>2, <1>3, <1>5, <1>6 DEF Inductive, FileInv

\* The conjunction of all invariants is inductive.
THEOREM InductiveInvariant == Spec => []Inductive
<1>1. Inductive /\ [Next]_vars => Inductive'
  BY NextTypeOK, NextKeepsDriver, NextKeepsIndex, NextKeepsFiles DEF Inductive, IndexInv
<1> QED
  BY <1>1, InitInductive, PTL DEF Spec

\* Whatever requests, crashes, failed commits and recovery do, a file the user
\* left alone is in one of its two places, and the history says in which one
\* except while a row announces a move.
THEOREM HistoryCorrect == Spec => []HistoryLocatesFile
<1>1. Inductive => HistoryLocatesFile
  BY DEF Inductive, FileInv
<1> QED
  BY <1>1, InductiveInvariant, PTL

-----------------------------------------------------------------------------
(* Write-ahead.  Only CheckMove and Rename touch the disk, and the item in   *)
(* their hand is announced (HandHolds).                                      *)

Announced(e, n) ==
  \E s \in Side :
    /\ item[e][n] = IF s = "source" THEN "EXECUTING" ELSE "UNDOING"
    /\ disk'[e][n][s] \in {disk[e][n][s], "vacant"}

LEMMA MoveIsAnnounced ==
  ASSUME TypeOK, DriverInv, FileInv, NEW t \in Thread, CheckMove(t) \/ Rename(t),
         NEW f \in Execution, NEW n \in Item, disk'[f][n] # disk[f][n]
  PROVE  Announced(f, n)
<1>0. PICK e, m : e = thread[t].exec /\ m = thread[t].at
  OBVIOUS
<1>1. disk \in [Execution -> [Item -> [Side -> Place]]]
  BY DEF TypeOK
<1>2. PICK from \in Side, to \in Side : /\ from = From(thread[t].task) /\ to = To(thread[t].task)
                                        /\ from # to
                                        /\ from = "source" <=> ~Restoring(thread[t].task)
  BY DEF From, To, Side
<1>3. /\ e \in Execution /\ m \in Item
      /\ item[e][m] = IF from = "source" THEN "EXECUTING" ELSE "UNDOING"
  BY <1>0, <1>2, DriversHaveExecution
  DEF CheckMove, Rename, Drives, FileInv, ThreadHolds, HandHolds
<1>4. CASE CheckMove(t)
  <2>1. disk' = [disk EXCEPT ![e][m][to] = "vacant"]
    BY <1>0, <1>2, <1>4 DEF CheckMove
  <2>2. f = e /\ n = m /\ disk'[e][m][from] = disk[e][m][from]
    BY <1>1, <1>2, <1>3, <2>1
  <2> QED
    BY <1>2, <1>3, <2>2 DEF Announced
<1>5. CASE Rename(t)
  <2>1. disk' = [disk EXCEPT ![e][m] =
                   [s \in Side |-> IF s = from THEN "vacant" ELSE disk[e][m][from]]]
    BY <1>0, <1>2, <1>5 DEF Rename
  <2>2. f = e /\ n = m /\ disk'[e][m][from] = "vacant"
    BY <1>1, <1>2, <1>3, <2>1
  <2> QED
    BY <1>2, <1>3, <2>2 DEF Announced
<1> QED
  BY <1>4, <1>5

LEMMA NextIsAnnounced ==
  ASSUME Inductive, [Next]_vars, disturbed' = disturbed,
         NEW e \in Execution, NEW n \in Item, disk'[e][n] # disk[e][n]
  PROVE  Announced(e, n)
<1>0. disturbed \in Nat
  BY DEF Inductive, TypeOK
<1>1. ASSUME NEW t \in Thread, Step(t), ~CheckMove(t), ~Rename(t)
      PROVE  UNCHANGED disk
  BY <1>1
  DEF Step, CreateHistory, MarkRetry, MarkRestore, StartItem, StartRestoreItem, RefuseMove,
      FailItem, RestoreRefused, RenameFails, MoveFails, MarkFailed, CommitMove, CommitRestore,
      IndexRejected, EvidenceRejected, FinishExecution, FinishRestore, StateChanged
<1>2. ~Environment \/ UNCHANGED disk
  BY <1>0
  DEF Environment, Crash, UserFile, UserDirectory, UpdatePolicy, LockedMove, CommitFails,
      RecoveryAbandoned, ScanWalk, ScanSync, Disturb
<1>3. ASSUME NEW t \in Request, NEW f \in Execution, Call(t, f)
      PROVE  UNCHANGED disk
  BY <1>3 DEF Call, RequestExecute, RequestRetry, RequestRestore
<1>4. ASSUME NEW f \in Execution, Recover(f)
      PROVE  UNCHANGED disk
  BY <1>4 DEF Recover, RecoverExecution, RecoveryUnsafe, MarkFailed, RecoverUndo, RecoveryRefused
<1>5. PICK t \in Thread : CheckMove(t) \/ Rename(t)
  BY <1>1, <1>2, <1>3, <1>4 DEF Next, Boot, BootDone, Rest, vars
<1> QED
  BY <1>5, MoveIsAnnounced DEF Inductive

\* The rows are a write-ahead log: no step of the program touches the paths of
\* an item that its committed row does not announce.
THEOREM MovesAnnounced == Spec => MovesAreAnnounced
<1>1. Inductive /\ [Next]_vars =>
        [\A e \in Execution, n \in Item :
           disturbed' = disturbed /\ disk'[e][n] # disk[e][n] =>
             \E s \in Side :
               /\ item[e][n] = IF s = "source" THEN "EXECUTING" ELSE "UNDOING"
               /\ disk'[e][n][s] \in {disk[e][n][s], "vacant"}]_vars
  BY NextIsAnnounced DEF Announced
<1> QED
  BY <1>1, InductiveInvariant, PTL DEF Spec, MovesAreAnnounced

rows == <<execution, attempt, item, operation, asked>>

-----------------------------------------------------------------------------
(* Frames. *)

\* A thread that is idle or creates an execution remembers no rows.
LEMMA NothingHeld ==
  ASSUME NEW t \in Thread, thread[t].pc \in {"idle", "create"}
  PROVE  ReadHolds(t) /\ WorkHolds(t)
BY DEF ReadHolds, WorkHolds, Drives

\* What is said of an execution, and of its threads, depends on its rows only.
LEMMA AgreesFrame ==
  ASSUME NEW e \in Execution,
         execution'[e] = execution[e], attempt'[e] = attempt[e], item'[e] = item[e],
         operation'[e] = operation[e], asked'[e] = asked[e], Agrees(e), UndoHolds(e)
  PROVE  Agrees(e)' /\ UndoHolds(e)'
<1>1. \A some, all : Shows(e, some, all)' <=> Shows(e, some, all)
  BY DEF Shows, ItemsIn
<1>2. Failed(e)' = Failed(e) /\ (Outdated(e)' <=> Outdated(e))
  BY DEF Failed, Outdated
<1>3. \A some, all : ShowsUndo(e, some, all)' <=> ShowsUndo(e, some, all)
  BY <1>1, <1>2 DEF ShowsUndo
<1>4. Agrees(e)'
  BY <1>1, <1>2, <1>3 DEF Agrees
<1>5. UndoHolds(e)'
  BY <1>1, <1>2 DEF UndoHolds
<1> QED
  BY <1>4, <1>5

LEMMA HoldsFrame ==
  ASSUME NEW t \in Thread, NEW e, e = thread[t].exec, thread'[t] = thread[t],
         execution'[e] = execution[e], attempt'[e] = attempt[e], item'[e] = item[e],
         asked'[e] = asked[e], ReadHolds(t), WorkHolds(t)
  PROVE  ReadHolds(t)' /\ WorkHolds(t)'
<1>1. ReadHolds(t)'
  BY DEF ReadHolds
<1>2. WorkHolds(t)'
  BY DEF WorkHolds, Drives
<1> QED
  BY <1>1, <1>2

\* A step that leaves the rows alone.
LEMMA StatusKept ==
  ASSUME StatusInv, UNCHANGED rows,
         \A t \in Thread : \/ thread'[t] = thread[t]
                           \/ thread'[t].pc \in {"idle", "create"}
                           \/ ReadHolds(t)' /\ WorkHolds(t)'
  PROVE  StatusInv'
<1>1. \A e \in Execution : Agrees(e)' /\ UndoHolds(e)'
  BY AgreesFrame DEF rows, StatusInv, StatusesAgree
<1>2. ASSUME NEW t \in Thread PROVE ReadHolds(t)' /\ WorkHolds(t)'
  <2>1. CASE thread'[t] = thread[t]
    BY <2>1, HoldsFrame DEF rows, StatusInv
  <2>2. CASE thread'[t].pc \in {"idle", "create"}
    BY <2>2 DEF ReadHolds, WorkHolds, Drives
  <2> QED
    BY <2>1, <2>2
<1> QED
  BY <1>1, <1>2 DEF StatusInv, StatusesAgree

\* How the rows of an execution may move on under a request that has read them.
MovesOn(e) ==
  /\ execution[e] \in {"UNDOING", "UNDONE"} => execution'[e] \in {"UNDOING", "UNDONE"}
  /\ \/ execution'[e] \in {"UNDOING", "UNDONE"}
     \/ \A n \in Item : item[e][n] = "COMPLETED" => item'[e][n] = "COMPLETED"
  /\ attempt'[e] = 1 =>
       /\ attempt[e] = 1
       /\ \/ execution'[e] \in {"UNDOING", "UNDONE"}
          \/ execution[e] \in {"ABSENT", "EXECUTING"}

LEMMA ReadersKeep ==
  ASSUME MarksFromRest, NEW t \in Thread, ReadHolds(t), thread'[t] = thread[t],
         MovesOn(thread[t].exec)
  PROVE  ReadHolds(t)'
<1> DEFINE e == thread[t].exec
<1> SUFFICES ASSUME thread[t].pc = "mark" PROVE ReadHolds(t)'
  BY DEF ReadHolds
<1>1. thread[t].seen \in {"COMPLETED", "PARTIALLY_COMPLETED", "FAILED"}
  BY DEF MarksFromRest
<1>2. ~(execution'[e] \in {"UNDOING", "UNDONE"}) => ~(execution[e] \in {"UNDOING", "UNDONE"})
  BY DEF MovesOn
<1>3. attempt'[e] = 1 => attempt[e] = 1 /\ execution'[e] \in {"UNDOING", "UNDONE"}
  BY <1>1 DEF MovesOn, ReadHolds
<1> QED
  BY <1>1, <1>2, <1>3 DEF MovesOn, ReadHolds

\* A step of thread t on the rows of execution e.
LEMMA StatusMoves ==
  ASSUME DriverInv, StatusInv, NEW t \in Thread, NEW e \in Execution,
         \A f \in Execution \ {e} :
           /\ execution'[f] = execution[f] /\ attempt'[f] = attempt[f] /\ item'[f] = item[f]
           /\ operation'[f] = operation[f] /\ asked'[f] = asked[f],
         \A u \in Thread \ {t} :
           thread'[u] = thread[u] /\ (Drives(u) => thread[u].exec # e),
         MovesOn(e), Agrees(e)', UndoHolds(e)',
         \/ thread'[t].pc = "idle"
         \/ ReadHolds(t)' /\ WorkHolds(t)'
  PROVE  StatusInv'
<1>1. \A f \in Execution : Agrees(f)' /\ UndoHolds(f)'
  BY AgreesFrame DEF StatusInv, StatusesAgree
<1>2. ReadHolds(t)' /\ WorkHolds(t)'
  BY DEF ReadHolds, WorkHolds, Drives
<1>3. ASSUME NEW u \in Thread \ {t} PROVE ReadHolds(u)' /\ WorkHolds(u)'
  <2>1. CASE thread[u].exec = e
    <3>1. ReadHolds(u)'
      BY <2>1, ReadersKeep DEF StatusInv, DriverInv
    <3>2. WorkHolds(u)'
      BY <2>1 DEF WorkHolds, Drives
    <3> QED
      BY <3>1, <3>2
  <2>2. CASE thread[u].pc = "idle"
    BY <2>2 DEF ReadHolds, WorkHolds, Drives
  <2>3. CASE thread[u].pc # "idle" /\ thread[u].exec # e
    <3>1. thread[u].exec \in Execution \ {e}
      BY <2>3 DEF DriverInv, BusyThreads
    <3> QED
      BY <3>1, HoldsFrame DEF StatusInv
  <2> QED
    BY <2>1, <2>2, <2>3
<1> QED
  BY <1>1, <1>2, <1>3 DEF StatusInv, StatusesAgree
-----------------------------------------------------------------------------
(* The loop over the items. *)

\* A driver has its execution to itself, in the direction of its task.
LEMMA DriverAlone ==
  ASSUME DriverInv, NEW t \in Thread, Drives(t)
  PROVE  /\ thread[t].exec \in Execution
         /\ \A u \in Thread \ {t} : Drives(u) => thread[u].exec # thread[t].exec
         /\ execution[thread[t].exec] = IF Restoring(thread[t].task) THEN "UNDOING" ELSE "EXECUTING"
BY DEF DriverInv, BusyThreads, OneDriver, Drives

\* So has a thread that takes up an execution nobody drives.
LEMMA RestAlone ==
  ASSUME DriverInv, NEW t \in Thread, NEW e, execution[e] \notin {"EXECUTING", "UNDOING"}
  PROVE  \A u \in Thread : Drives(u) => thread[u].exec # e
BY DEF DriverInv, OneDriver

\* A driver settles or announces item m.
LEMMA ItemMoves ==
  ASSUME TypeOK, DriverInv, StatusInv, NEW t \in Thread, Drives(t), NEW m \in Item,
         NEW e, e = thread[t].exec, NEW status,
         item' = [item EXCEPT ![e][m] = status],
         UNCHANGED <<execution, attempt, operation, asked>>,
         \/ /\ ~Restoring(thread[t].task) /\ item[e][m] \in {"PENDING", "EXECUTING"}
            /\ status \in {"EXECUTING", "FAILED", "COMPLETED"}
         \/ Restoring(thread[t].task) /\ item[e][m] = "UNDOING" /\ status = "UNDONE",
         \A u \in Thread \ {t} : thread'[u] = thread[u],
         thread'[t].pc # "mark", WorkHolds(t)'
  PROVE  StatusInv'
<1>1. /\ e \in Execution
      /\ \A u \in Thread \ {t} : Drives(u) => thread[u].exec # e
      /\ execution[e] = IF Restoring(thread[t].task) THEN "UNDOING" ELSE "EXECUTING"
  BY DriverAlone
<1>2. /\ item'[e][m] = status
      /\ \A n \in Item \ {m} : item'[e][n] = item[e][n]
      /\ \A f \in Execution \ {e} : item'[f] = item[f]
  BY <1>1 DEF TypeOK
<1>3. Agrees(e) /\ UndoHolds(e)
  BY <1>1 DEF StatusInv, StatusesAgree
<1>4. Failed(e)' = Failed(e) /\ Failed(e) \subseteq {"FAILED"}
  BY DEF Failed, Outdated
<1>5. \A n \in Item : item[e][n] = "FAILED" => item'[e][n] = "FAILED"
  BY <1>2
<1>6. MovesOn(e)
  BY <1>1, <1>2 DEF MovesOn, TypeOK
<1>7. CASE ~Restoring(thread[t].task)
  <2>1. Agrees(e)'
    BY <1>1, <1>2, <1>3, <1>7 DEF Agrees, Shows
  <2>2. UndoHolds(e)'
    BY <1>1, <1>7 DEF UndoHolds
  <2> QED
    BY <1>1, <1>2, <1>6, <2>1, <2>2, StatusMoves DEF ReadHolds
<1>8. CASE Restoring(thread[t].task)
  <2>1. \A all : /\ Shows(e, {}, all) /\ "UNDONE" \in all => Shows(e, {}, all)'
                 /\ Shows(e, Failed(e), all) /\ "UNDONE" \in all => Shows(e, Failed(e), all)'
    BY <1>2, <1>4, <1>5, <1>8 DEF Shows, ItemsIn
  <2>2. ShowsUndo(e, {}, {"UNDOING", "UNDONE", "FAILED"})
    BY <1>1, <1>3, <1>8 DEF Agrees
  <2>3. ShowsUndo(e, {}, {"UNDOING", "UNDONE", "FAILED"})'
    BY <1>4, <2>1, <2>2 DEF ShowsUndo
  <2>4. Agrees(e)'
    BY <1>1, <1>3, <1>8, <2>3 DEF Agrees
  <2>5. UndoHolds(e)'
    BY <1>1, <1>2, <1>3, <1>4, <1>8, <2>1 DEF UndoHolds, ItemStatus
  <2> QED
    BY <1>1, <1>2, <1>6, <2>4, <2>5, StatusMoves DEF ReadHolds
<1> QED
  BY <1>7, <1>8

LEMMA StartItemKeepsStatus ==
  ASSUME TypeOK, DriverInv, FileInv, StatusInv, NEW t \in Thread, NEW m \in Item,
         StartItem(t, m) \/ StartRestoreItem(t, m)
  PROVE  StatusInv'
<1>0. PICK e : e = thread[t].exec
  OBVIOUS
<1>1. /\ Drives(t) /\ thread[t] \in Local /\ item \in [Execution -> [Item -> ItemStatus]]
      /\ thread[t].pc = "pick" /\ m \in thread[t].left /\ WorkHolds(t)
  BY DEF StartItem, StartRestoreItem, At, IsNext, Drives, TypeOK, StatusInv
<1>2. /\ e \in Execution
      /\ execution[e] = IF Restoring(thread[t].task) THEN "UNDOING" ELSE "EXECUTING"
  BY <1>0, <1>1, DriverAlone
<1>3. PICK pc \in {"check", "record"} :
        thread'[t] = Taken(t, m, pc) /\ \A u \in Thread \ {t} : thread'[u] = thread[u]
  BY GotoChangesOne DEF StartItem, StartRestoreItem
<1>4. /\ thread'[t].pc = pc /\ thread'[t].at = m /\ thread'[t].left = thread[t].left \ {m}
      /\ thread'[t].exec = e /\ thread'[t].task = thread[t].task
      /\ thread'[t].view = thread[t].view
  BY <1>0, <1>1, <1>3 DEF Taken, Local
<1>5. UNCHANGED <<execution, attempt, operation, asked>>
  BY DEF StartItem, StartRestoreItem
<1>6. CASE StartItem(t, m)
  <2>1. /\ item' = [item EXCEPT ![e][m] = "EXECUTING"] /\ ~Restoring(thread[t].task)
        /\ item[e][m] \in {"PENDING", "EXECUTING"}
    BY <1>0, <1>6 DEF StartItem, StartHolds, Announce, At, Forward, Restoring
  <2>2. \A n \in Item \ {m} : item'[e][n] = item[e][n]
    BY <1>1, <1>2, <2>1
  <2>3. WorkHolds(t)'
    BY <1>0, <1>1, <1>4, <1>5, <2>1, <2>2 DEF WorkHolds
  <2> QED
    BY <1>0, <1>1, <1>3, <1>4, <1>5, <2>1, <2>3, ItemMoves
<1>7. CASE StartRestoreItem(t, m)
  <2>1. UNCHANGED rows /\ item' = item
    BY <1>7 DEF StartRestoreItem, rows
  <2>2. WorkHolds(t)' /\ ReadHolds(t)'
    BY <1>0, <1>1, <1>4, <1>5, <2>1 DEF WorkHolds, ReadHolds
  <2> QED
    BY <1>3, <2>1, <2>2, StatusKept
<1> QED
  BY <1>6, <1>7

\* The thread goes on with the item in hand.
LEMMA HandGoesOn ==
  ASSUME StatusInv, NEW t \in Thread, thread \in [Thread -> Local], UNCHANGED rows,
         thread[t].pc \in {"check", "rename"}, NEW pc \in {"rename", "record"},
         Goto(t, [thread[t] EXCEPT !.pc = pc])
  PROVE  StatusInv'
<1>1. /\ thread'[t].pc = pc /\ thread'[t].at = thread[t].at /\ thread'[t].left = thread[t].left
      /\ thread'[t].exec = thread[t].exec /\ thread'[t].task = thread[t].task
      /\ thread'[t].view = thread[t].view
      /\ \A u \in Thread \ {t} : thread'[u] = thread[u]
  BY DEF Goto, Local
<1>2. WorkHolds(t) /\ Drives(t)
  BY DEF StatusInv, Drives
<1>3. WorkHolds(t)' /\ ReadHolds(t)'
  BY <1>1, <1>2 DEF WorkHolds, ReadHolds, rows
<1> QED
  BY <1>1, <1>3, StatusKept

\* The item in hand is settled and the thread picks the next one.
LEMMA HandSettles ==
  ASSUME TypeOK, DriverInv, FileInv, StatusInv, NEW t \in Thread,
         thread[t].pc \in {"check", "rename", "record"}, NEW e, e = thread[t].exec,
         NEW m, m = thread[t].at, NEW status, item' = [item EXCEPT ![e][m] = status],
         UNCHANGED <<execution, attempt, operation, asked>>,
         \/ ~Restoring(thread[t].task) /\ status \in {"FAILED", "COMPLETED"}
         \/ Restoring(thread[t].task) /\ status = "UNDONE",
         \A u \in Thread \ {t} : thread'[u] = thread[u],
         thread'[t].pc = "pick", thread'[t].exec = e, thread'[t].task = thread[t].task,
         thread'[t].left = thread[t].left,
         thread'[t].view = IF thread[t].task = "execute" THEN [thread[t].view EXCEPT ![m] = status]
                           ELSE thread[t].view
  PROVE  StatusInv'
<1>1. /\ m \in Item \ thread[t].left
      /\ item[e][m] = IF Restoring(thread[t].task) THEN "UNDOING" ELSE "EXECUTING"
  BY DEF FileInv, ThreadHolds, HandHolds
<1>2. /\ Drives(t) /\ WorkHolds(t) /\ thread[t] \in Local
      /\ item \in [Execution -> [Item -> ItemStatus]]
  BY DEF Drives, StatusInv, TypeOK
<1>3. e \in Execution
  BY <1>2, DriverAlone
<1>4. item'[e][m] = status /\ \A n \in Item \ {m} : item'[e][n] = item[e][n]
  BY <1>1, <1>2, <1>3
<1>5. thread[t].task = "execute" =>
        thread'[t].view[m] = status /\ \A n \in Item \ {m} : thread'[t].view[n] = thread[t].view[n]
  BY <1>1, <1>2 DEF Local
<1>6. WorkHolds(t)'
  <2>1. \A n \in Item : item'[e][n] \in {"PENDING", "EXECUTING", "UNDOING"} => n \in thread[t].left
    BY <1>2, <1>4 DEF WorkHolds
  <2>2. thread[t].task = "execute" =>
          \A n \in Item : n \in thread[t].left \/ thread'[t].view[n] = item'[e][n]
    BY <1>2, <1>4, <1>5 DEF WorkHolds
  <2>3. thread[t].task = "retry" =>
          /\ attempt'[e] > 1
          /\ \A n \in Item : thread[t].view[n] = "COMPLETED" => item'[e][n] = "COMPLETED"
          /\ \E n \in Item : thread[t].view[n] = "FAILED"
    BY <1>1, <1>2, <1>4 DEF WorkHolds, Restoring
  <2>4. thread[t].task \in {"undo", "compensate"} => asked'[e] = thread[t].task
    BY <1>2 DEF WorkHolds
  <2> QED
    BY <2>1, <2>2, <2>3, <2>4 DEF WorkHolds
<1> QED
  BY <1>1, <1>2, <1>6, ItemMoves

LEMMA FailItemKeepsStatus ==
  ASSUME TypeOK, DriverInv, FileInv, StatusInv, NEW t \in Thread, FailItem(t),
         thread[t].pc \in {"check", "rename"}, ~Restoring(thread[t].task)
  PROVE  StatusInv'
<1>1. thread'[t] = Settled(t, "FAILED") /\ \A u \in Thread \ {t} : thread'[u] = thread[u]
  BY GotoChangesOne DEF FailItem
<1>2. thread[t] \in Local
  BY DEF TypeOK
<1>3. /\ thread'[t].pc = "pick" /\ thread'[t].exec = thread[t].exec
      /\ thread'[t].task = thread[t].task /\ thread'[t].left = thread[t].left
      /\ thread'[t].view = IF thread[t].task = "execute"
                           THEN [thread[t].view EXCEPT ![thread[t].at] = "FAILED"]
                           ELSE thread[t].view
  BY <1>1, <1>2 DEF Settled, Local
<1> QED
  BY <1>1, <1>3, HandSettles DEF FailItem

LEMMA CommitKeepsStatus ==
  ASSUME TypeOK, DriverInv, FileInv, StatusInv, NEW t \in Thread, CommitMove(t) \/ CommitRestore(t)
  PROVE  StatusInv'
<1>1. thread[t] \in Local /\ thread[t].pc = "record"
  BY DEF TypeOK, CommitMove, CommitRestore, At
<1>2. CASE CommitMove(t)
  <2>1. thread'[t] = Settled(t, "COMPLETED") /\ \A u \in Thread \ {t} : thread'[u] = thread[u]
    BY <1>2, GotoChangesOne DEF CommitMove
  <2>2. /\ thread'[t].pc = "pick" /\ thread'[t].exec = thread[t].exec
        /\ thread'[t].task = thread[t].task /\ thread'[t].left = thread[t].left
        /\ thread'[t].view = IF thread[t].task = "execute"
                             THEN [thread[t].view EXCEPT ![thread[t].at] = "COMPLETED"]
                             ELSE thread[t].view
    BY <1>1, <2>1 DEF Settled, Local
  <2>3. ~Restoring(thread[t].task)
    BY <1>2 DEF CommitMove, At, Forward, Restoring
  <2> QED
    BY <1>1, <1>2, <2>1, <2>2, <2>3, HandSettles DEF CommitMove
<1>3. CASE CommitRestore(t)
  <2>1. /\ thread'[t] = [thread[t] EXCEPT !.pc = "pick", !.at = 0]
        /\ \A u \in Thread \ {t} : thread'[u] = thread[u]
    BY <1>3, GotoChangesOne DEF CommitRestore
  <2>2. /\ thread'[t].pc = "pick" /\ thread'[t].exec = thread[t].exec
        /\ thread'[t].task = thread[t].task /\ thread'[t].left = thread[t].left
        /\ thread'[t].view = thread[t].view
    BY <1>1, <2>1 DEF Local
  <2>3. Restoring(thread[t].task) /\ thread[t].task # "execute"
    BY <1>3 DEF CommitRestore, At, Backward, Restoring
  <2> QED
    BY <1>1, <1>3, <2>1, <2>2, <2>3, HandSettles DEF CommitRestore
<1> QED
  BY <1>2, <1>3

LEMMA RaiseKeepsStatus ==
  ASSUME TypeOK, StatusInv, NEW t \in Thread, Raise(t) \/ Abandon(t), UNCHANGED rows
  PROVE  StatusInv'
<1>1. \A u \in Thread : thread'[u] = thread[u] \/ thread'[u].pc \in {"idle", "create"}
  BY GotoChangesOne, IdleFields DEF Raise, Abandon
<1> QED
  BY <1>1, StatusKept

\* Recovery gives an execution up that has unfinished items.
LEMMA MarkFailedKeepsStatus ==
  ASSUME TypeOK, DriverInv, StatusInv, NEW t \in Thread, NEW e \in Execution, MarkFailed(t, e),
         execution[e] = "EXECUTING", \E n \in Item : item[e][n] \in {"PENDING", "EXECUTING"},
         \A u \in Thread \ {t} : Drives(u) => thread[u].exec # e
  PROVE  StatusInv'
<1>1. /\ thread'[t].pc = "idle" /\ \A u \in Thread \ {t} : thread'[u] = thread[u]
  BY GotoChangesOne, IdleFields DEF MarkFailed
<1>2. /\ item \in [Execution -> [Item -> ItemStatus]]
      /\ execution \in [Execution -> ExecutionStatus]
      /\ operation \in [Execution -> OperationStatus]
  BY DEF TypeOK
<1>3. /\ execution'[e] = "FAILED" /\ operation'[e] = "FAILED" /\ UNCHANGED <<attempt, asked>>
      /\ \A f \in Execution \ {e} :
           execution'[f] = execution[f] /\ operation'[f] = operation[f] /\ item'[f] = item[f]
      /\ \A n \in Item : item'[e][n] =
           IF item[e][n] \in {"PENDING", "EXECUTING"} THEN "FAILED" ELSE item[e][n]
  BY <1>2 DEF MarkFailed, ItemsIn
<1>4. \A n \in Item : item[e][n] \in {"PENDING", "EXECUTING", "COMPLETED", "FAILED"}
  BY DEF StatusInv, StatusesAgree, Agrees, Shows
<1>5. Agrees(e)'
  <2>1. \A n \in Item : item'[e][n] \in {"COMPLETED", "FAILED"}
    BY <1>3, <1>4
  <2>2. \E n \in Item : item'[e][n] = "FAILED"
    BY <1>3
  <2>3. Shows(e, Failed(e), {"COMPLETED", "FAILED"})'
    BY <2>1, <2>2 DEF Shows, ItemsIn, Failed
  <2> QED
    BY <1>3, <2>3 DEF Agrees
<1>6. UndoHolds(e)'
  BY <1>3 DEF UndoHolds
<1>7. MovesOn(e)
  BY <1>3 DEF MovesOn
<1> QED
  BY <1>1, <1>3, <1>5, <1>6, <1>7, StatusMoves

LEMMA MoveFailsKeepsStatus ==
  ASSUME TypeOK, DriverInv, FileInv, StatusInv, NEW t \in Thread, thread[t].pc = "rename",
         MoveFails(t)
  PROVE  StatusInv'
<1>1. Drives(t)
  BY DEF Drives
<1>2. CASE thread[t].task \in Forward /\ FailItem(t)
  BY <1>2, FailItemKeepsStatus DEF Forward, Restoring
<1>3. CASE thread[t].task = "recover" /\ MarkFailed(t, thread[t].exec)
  <2>1. /\ thread[t].at \in Item /\ item[thread[t].exec][thread[t].at] = "EXECUTING"
        /\ execution[thread[t].exec] = "EXECUTING"
    BY <1>1, <1>3, DriverAlone DEF FileInv, ThreadHolds, HandHolds, Restoring
  <2> QED
    BY <1>1, <1>3, <2>1, DriverAlone, MarkFailedKeepsStatus
<1>4. CASE Raise(t) /\ UNCHANGED <<db, disk, asked>>
  BY <1>4, RaiseKeepsStatus DEF rows
<1> QED
  BY <1>2, <1>3, <1>4 DEF MoveFails

-----------------------------------------------------------------------------
(* Starting and closing an execution. *)

LEMMA CreateKeepsStatus ==
  ASSUME TypeOK, DriverInv, StatusInv, NEW t \in Thread, CreateHistory(t)
  PROVE  StatusInv'
<1>0. PICK e : e = thread[t].exec
  OBVIOUS
<1>1. /\ e \in Execution /\ execution[e] = "ABSENT" /\ thread[t].task = "execute"
      /\ thread[t] \in Local /\ Agrees(e)
  BY <1>0 DEF CreateHistory, CreateHolds, DriverInv, BusyThreads, TypeOK, StatusInv, StatusesAgree
<1>2. \A u \in Thread : Drives(u) => thread[u].exec # e
  BY <1>1, RestAlone
<1>3. /\ \A u \in Thread \ {t} : thread'[u] = thread[u]
      /\ thread'[t].pc = "pick" /\ thread'[t].task = "execute" /\ thread'[t].exec = e
      /\ thread'[t].left = Item
  BY <1>0, <1>1 DEF CreateHistory, Goto, Local, TypeOK
<1>4. /\ execution'[e] = "EXECUTING" /\ operation'[e] = "EXECUTING"
      /\ \A n \in Item : item'[e][n] = "PENDING" /\ item[e][n] = "ABSENT"
      /\ \A f \in Execution \ {e} :
           execution'[f] = execution[f] /\ operation'[f] = operation[f] /\ item'[f] = item[f]
      /\ UNCHANGED <<attempt, asked>>
  BY <1>0, <1>1 DEF CreateHistory, TypeOK, Agrees, Shows
<1>5. Agrees(e)' /\ UndoHolds(e)' /\ MovesOn(e)
  BY <1>1, <1>4 DEF Agrees, Shows, UndoHolds, MovesOn
<1>6. ReadHolds(t)' /\ WorkHolds(t)'
  BY <1>3 DEF ReadHolds, WorkHolds
<1> QED
  BY <1>1, <1>2, <1>3, <1>4, <1>5, <1>6, StatusMoves

LEMMA MarkRetryKeepsStatus ==
  ASSUME TypeOK, DriverInv, StatusInv, NEW t \in Thread, MarkRetry(t)
  PROVE  StatusInv'
<1>0. PICK e : e = thread[t].exec
  OBVIOUS
<1>1. /\ thread[t].pc = "mark" /\ thread[t].task = "retry" /\ thread[t] \in Local
      /\ execution[e] = thread[t].seen /\ thread[t].seen \in {"PARTIALLY_COMPLETED", "FAILED"}
      /\ e \in Execution
  BY <1>0 DEF MarkRetry, MarkHolds, At, DriverInv, BusyThreads, MarksFromRest, TypeOK
<1>2. \A u \in Thread : Drives(u) => thread[u].exec # e
  BY <1>1, RestAlone
<1>3. /\ \A u \in Thread \ {t} : thread'[u] = thread[u]
      /\ thread'[t].pc = "pick" /\ thread'[t].task = "retry" /\ thread'[t].exec = e
      /\ thread'[t].left = Marked(t, "FAILED") /\ thread'[t].view = thread[t].view
  BY <1>0, <1>1 DEF MarkRetry, Goto, Local, TypeOK
<1>4. /\ execution'[e] = "EXECUTING" /\ operation'[e] = "EXECUTING" /\ attempt'[e] > 1
      /\ \A n \in Item : item'[e][n] =
           IF thread[t].view[n] = "FAILED" THEN "PENDING" ELSE item[e][n]
      /\ \A f \in Execution \ {e} :
           /\ execution'[f] = execution[f] /\ operation'[f] = operation[f] /\ item'[f] = item[f]
           /\ attempt'[f] = attempt[f]
      /\ UNCHANGED asked
  BY <1>0, <1>1 DEF MarkRetry, Marked, TypeOK
<1>5. Agrees(e) /\ ReadHolds(t)
  BY <1>1 DEF StatusInv, StatusesAgree
<1>6. \A n \in Item : item[e][n] \in {"COMPLETED", "FAILED"}
  BY <1>1, <1>5 DEF Agrees, Shows
<1>7. /\ \A n \in Item : thread[t].view[n] = "COMPLETED" => item[e][n] = "COMPLETED"
      /\ \E n \in Item : thread[t].view[n] = "FAILED"
      /\ \A n \in Item : thread[t].view[n] = "FAILED" => item[e][n] = "FAILED"
  BY <1>0, <1>1, <1>5 DEF ReadHolds, MarkRetry, MarkHolds
<1>8. Agrees(e)' /\ UndoHolds(e)' /\ MovesOn(e)
  BY <1>1, <1>4, <1>6, <1>7 DEF Agrees, Shows, UndoHolds, MovesOn
<1>9. ReadHolds(t)' /\ WorkHolds(t)'
  BY <1>3, <1>4, <1>6, <1>7 DEF ReadHolds, WorkHolds, Marked
<1> QED
  BY <1>1, <1>2, <1>3, <1>4, <1>8, <1>9, StatusMoves

LEMMA MarkRestoreKeepsStatus ==
  ASSUME TypeOK, DriverInv, StatusInv, NEW t \in Thread, MarkRestore(t)
  PROVE  StatusInv'
<1>0. PICK e : e = thread[t].exec
  OBVIOUS
<1>1. /\ thread[t].pc = "mark" /\ thread[t].task \in {"undo", "compensate"} /\ thread[t] \in Local
      /\ execution[e] = thread[t].seen /\ thread[t].seen \in {"COMPLETED", "PARTIALLY_COMPLETED"}
      /\ e \in Execution
  BY <1>0 DEF MarkRestore, MarkHolds, At, DriverInv, BusyThreads, MarksFromRest, TypeOK
<1>2. \A u \in Thread : Drives(u) => thread[u].exec # e
  BY <1>1, RestAlone
<1>3. /\ \A u \in Thread \ {t} : thread'[u] = thread[u]
      /\ thread'[t].pc = "pick" /\ thread'[t].task = thread[t].task /\ thread'[t].exec = e
      /\ thread'[t].left = Marked(t, "COMPLETED")
  BY <1>0, <1>1 DEF MarkRestore, Goto, Local, TypeOK
<1>a. attempt'[e] = attempt[e] /\ attempt[e] \in Nat \ {0}
  BY <1>1 DEF MarkRestore, TypeOK
<1>4. /\ execution'[e] = "UNDOING" /\ operation'[e] = "UNDOING" /\ asked'[e] = thread[t].task
      /\ \A n \in Item : item'[e][n] =
           IF thread[t].view[n] = "COMPLETED" THEN "UNDOING" ELSE item[e][n]
      /\ \A f \in Execution \ {e} :
           /\ execution'[f] = execution[f] /\ operation'[f] = operation[f] /\ item'[f] = item[f]
           /\ asked'[f] = asked[f]
      /\ UNCHANGED attempt
  BY <1>0, <1>1 DEF MarkRestore, Marked, TypeOK
<1>5. Agrees(e) /\ ReadHolds(t)
  BY <1>1 DEF StatusInv, StatusesAgree
<1>6. /\ \A n \in Item : item[e][n] \in {"COMPLETED", "FAILED"}
      /\ thread[t].seen = "PARTIALLY_COMPLETED" => Shows(e, Failed(e), {"COMPLETED", "FAILED"})
  BY <1>1, <1>5 DEF Agrees, Shows
<1>7. /\ \A n \in Item : thread[t].view[n] \in {"COMPLETED", "FAILED"}
      /\ \A n \in Item : thread[t].view[n] = "COMPLETED" => item[e][n] = "COMPLETED"
      /\ \E n \in Item : thread[t].view[n] = "COMPLETED"
      /\ attempt[e] = 1 => thread[t].view = item[e]
      /\ thread[t].seen = "COMPLETED" => \A n \in Item : thread[t].view[n] = "COMPLETED"
      /\ thread[t].task = "compensate" => thread[t].seen = "PARTIALLY_COMPLETED"
  BY <1>0, <1>1, <1>5 DEF ReadHolds
<1>8. Failed(e)' = Failed(e) /\ Failed(e) \subseteq {"FAILED"}
  BY <1>4 DEF Failed, Outdated
\* What has failed is not marked.
<1>9. thread[t].seen = "PARTIALLY_COMPLETED" =>
        \A status \in Failed(e) : ItemsIn(e, status)' # {}
  BY <1>4, <1>6, <1>7, <1>8 DEF Shows, ItemsIn
<1>10. ShowsUndo(e, {}, {"UNDOING", "UNDONE", "FAILED"})'
  <2>1. CASE attempt[e] = 1 \/ thread[t].seen = "COMPLETED"
    BY <1>4, <1>6, <1>7, <2>1 DEF ShowsUndo, Shows
  <2>2. CASE attempt[e] # 1 /\ thread[t].seen = "PARTIALLY_COMPLETED"
    <3>1. attempt'[e] > 1
      BY <1>a, <2>2
    <3>2. \A n \in Item : item'[e][n] \in {"UNDOING", "UNDONE", "FAILED", "COMPLETED"}
      BY <1>4, <1>6
    <3>3. Shows(e, {} \cup Failed(e), {"UNDOING", "UNDONE", "FAILED"} \cup {"COMPLETED"})'
      BY <1>8, <1>9, <2>2, <3>2 DEF Shows
    <3> QED
      BY <3>1, <3>3 DEF ShowsUndo
  <2> QED
    BY <1>1, <2>1, <2>2
<1>11. Agrees(e)'
  BY <1>4, <1>10 DEF Agrees
<1>12. UndoHolds(e)'
  <2>1. \A n \in Item : item'[e][n] \in ItemStatus
    BY <1>4, <1>6 DEF ItemStatus
  <2>2. thread[t].task = "compensate" => Shows(e, Failed(e), ItemStatus)'
    BY <1>7, <1>8, <1>9, <2>1 DEF Shows
  <2> QED
    BY <1>1, <1>4, <1>7, <2>2 DEF UndoHolds
<1>13. MovesOn(e)
  BY <1>4 DEF MovesOn
<1>14. ReadHolds(t)' /\ WorkHolds(t)'
  BY <1>1, <1>3, <1>4, <1>6 DEF ReadHolds, WorkHolds, Marked
<1> QED
  BY <1>1, <1>2, <1>3, <1>4, <1>11, <1>12, <1>13, <1>14, StatusMoves

\* What the summary of the statuses view says about them.
LEMMA SummaryMeans ==
  ASSUME NEW view, NEW statuses, statuses = {view[n] : n \in Item},
         statuses \subseteq {"COMPLETED", "FAILED"}
  PROVE  /\ \A n \in Item : view[n] \in {"COMPLETED", "FAILED"}
         /\ Summary(statuses) \in {"COMPLETED", "FAILED", "PARTIALLY_COMPLETED"}
         /\ Summary(statuses) = "COMPLETED" => \A n \in Item : view[n] = "COMPLETED"
         /\ Summary(statuses) = "FAILED" => \A n \in Item : view[n] = "FAILED"
         /\ Summary(statuses) = "PARTIALLY_COMPLETED" =>
              /\ \E n \in Item : view[n] = "COMPLETED"
              /\ \E n \in Item : view[n] = "FAILED"
<1>1. 1 \in Item
  BY NAssumption DEF Item
<1>2. \A n \in Item : view[n] \in statuses
  OBVIOUS
<1>3. CASE statuses = {"COMPLETED"}
  BY <1>2, <1>3 DEF Summary
<1>4. CASE statuses = {"FAILED"}
  BY <1>2, <1>4 DEF Summary
<1>5. CASE statuses # {"COMPLETED"} /\ statuses # {"FAILED"}
  <2>1. Summary(statuses) = "PARTIALLY_COMPLETED"
    BY <1>5 DEF Summary
  <2>2. "COMPLETED" \in statuses /\ "FAILED" \in statuses
    BY <1>1, <1>2, <1>5
  <2> QED
    BY <1>2, <2>1, <2>2
<1> QED
  BY <1>3, <1>4, <1>5

LEMMA FinishExecutionKeepsStatus ==
  ASSUME TypeOK, DriverInv, StatusInv, NEW t \in Thread, FinishExecution(t)
  PROVE  StatusInv'
<1>0. PICK e : e = thread[t].exec
  OBVIOUS
<1> DEFINE final == Summary(Summarised(t))
<1>1. /\ Drives(t) /\ WorkHolds(t) /\ thread[t].left = {} /\ thread[t].pc = "pick"
      /\ ~Restoring(thread[t].task)
      /\ thread[t].task \in {"execute", "retry", "recover"}
  BY DEF FinishExecution, At, Forward, Drives, StatusInv, Restoring
<1>2. /\ e \in Execution /\ execution[e] = "EXECUTING"
      /\ \A u \in Thread \ {t} : Drives(u) => thread[u].exec # e
  BY <1>0, <1>1, DriverAlone
<1>3. /\ execution'[e] = final /\ operation'[e] = Projected(final)
      /\ \A f \in Execution \ {e} : execution'[f] = execution[f] /\ operation'[f] = operation[f]
      /\ UNCHANGED <<attempt, item, asked>>
      /\ thread'[t].pc = "idle" /\ \A u \in Thread \ {t} : thread'[u] = thread[u]
  BY <1>0, <1>2, GotoChangesOne, IdleFields DEF FinishExecution, TypeOK
<1>4. \A n \in Item : item[e][n] \in {"COMPLETED", "FAILED"}
  BY <1>0, <1>1, <1>2 DEF WorkHolds, StatusInv, StatusesAgree, Agrees, Shows
<1>5. /\ final \in {"COMPLETED", "FAILED", "PARTIALLY_COMPLETED"}
      /\ final = "COMPLETED" => \A n \in Item : item[e][n] = "COMPLETED"
      /\ final = "FAILED" => Outdated(e) \/ \E n \in Item : item[e][n] = "FAILED"
      /\ final = "PARTIALLY_COMPLETED" =>
           /\ \E n \in Item : item[e][n] = "COMPLETED"
           /\ Outdated(e) \/ \E n \in Item : item[e][n] = "FAILED"
  <2> DEFINE view == thread[t].view
  <2>0. Summarised(t) \subseteq {"COMPLETED", "FAILED"} /\ 1 \in Item
    BY NAssumption DEF FinishExecution, Item
  <2>1. CASE thread[t].task = "execute"
    <3>1. Summarised(t) = {view[n] : n \in Item} /\ \A n \in Item : view[n] = item[e][n]
      BY <1>0, <1>1, <2>1 DEF Summarised, WorkHolds
    <3> HIDE DEF view
    <3> QED
      BY <2>0, <3>1, SummaryMeans
  <2>2. CASE thread[t].task = "retry" /\ ~ExpireOnCommit
    <3>1. /\ Summarised(t) = {view[n] : n \in Item} /\ Outdated(e)
          /\ \A n \in Item : view[n] = "COMPLETED" => item[e][n] = "COMPLETED"
          /\ \E n \in Item : view[n] = "FAILED"
      BY <1>0, <1>1, <2>2 DEF Summarised, WorkHolds, Outdated
    <3> HIDE DEF view
    <3> QED
      BY <2>0, <3>1, SummaryMeans
  <2>3. CASE thread[t].task # "execute" /\ ~(thread[t].task = "retry" /\ ~ExpireOnCommit)
    <3>1. Summarised(t) = {item[e][n] : n \in Item}
      BY <1>0, <2>3 DEF Summarised
    <3> QED
      BY <2>0, <3>1, SummaryMeans
  <2> QED
    BY <2>1, <2>2, <2>3
<1> HIDE DEF final
<1>6. Agrees(e)'
  <2>1. CASE final = "COMPLETED"
    BY <1>3, <1>5, <2>1 DEF Agrees, Shows, Projected
  <2>2. CASE final = "FAILED"
    <3>1. Shows(e, Failed(e), {"COMPLETED", "FAILED"})'
      BY <1>3, <1>4, <1>5, <2>2 DEF Shows, ItemsIn, Failed, Outdated
    <3> QED
      BY <1>3, <2>2, <3>1 DEF Agrees, Projected
  <2>3. CASE final = "PARTIALLY_COMPLETED"
    <3>1. Shows(e, {"COMPLETED"} \cup Failed(e), {"COMPLETED", "FAILED"})'
      BY <1>3, <1>4, <1>5, <2>3 DEF Shows, ItemsIn, Failed, Outdated
    <3> QED
      BY <1>3, <2>3, <3>1 DEF Agrees, Projected
  <2> QED
    BY <1>5, <2>1, <2>2, <2>3
<1>7. UndoHolds(e)' /\ MovesOn(e)
  BY <1>2, <1>3, <1>5 DEF UndoHolds, MovesOn
<1> QED
  BY <1>2, <1>3, <1>6, <1>7, StatusMoves

LEMMA FinishRestoreKeepsStatus ==
  ASSUME TypeOK, DriverInv, StatusInv, NEW t \in Thread, FinishRestore(t)
  PROVE  StatusInv'
<1>0. PICK e : e = thread[t].exec
  OBVIOUS
<1>1. /\ Drives(t) /\ WorkHolds(t) /\ thread[t].left = {} /\ thread[t].pc = "pick"
      /\ Restoring(thread[t].task)
  BY DEF FinishRestore, At, Backward, Drives, StatusInv, Restoring
<1>2. /\ e \in Execution /\ execution[e] = "UNDOING"
      /\ \A u \in Thread \ {t} : Drives(u) => thread[u].exec # e
  BY <1>0, <1>1, DriverAlone
<1>3. /\ execution'[e] = "UNDONE" /\ operation'[e] = RestoredStatus(t)
      /\ \A f \in Execution \ {e} : execution'[f] = execution[f] /\ operation'[f] = operation[f]
      /\ UNCHANGED <<attempt, item, asked>>
      /\ thread'[t].pc = "idle" /\ \A u \in Thread \ {t} : thread'[u] = thread[u]
  BY <1>0, <1>2, GotoChangesOne, IdleFields DEF FinishRestore, TypeOK
<1>4. Agrees(e) /\ UndoHolds(e)
  BY <1>2 DEF StatusInv, StatusesAgree
<1>5. \A n \in Item : item[e][n] # "UNDOING"
  BY <1>0, <1>1 DEF WorkHolds
<1>6. /\ Failed(e)' = Failed(e) /\ (Outdated(e)' <=> Outdated(e))
      /\ \A some, all : Shows(e, some, all)' <=> Shows(e, some, all)
  BY <1>3 DEF Failed, Outdated, Shows, ItemsIn
<1>7. ShowsUndo(e, {"UNDONE"}, {"UNDONE", "FAILED"})'
  <2>1. ItemsIn(e, "UNDONE") # {}
    BY <1>2, <1>4, <1>5 DEF UndoHolds, ItemsIn
  <2>2. ShowsUndo(e, {}, {"UNDOING", "UNDONE", "FAILED"})
    BY <1>2, <1>4 DEF Agrees
  <2>3. CASE Shows(e, {}, {"UNDOING", "UNDONE", "FAILED"})
    <3>1. Shows(e, {"UNDONE"}, {"UNDONE", "FAILED"})
      BY <1>5, <2>1, <2>3 DEF Shows
    <3> QED
      BY <1>6, <3>1 DEF ShowsUndo
  <2>4. CASE /\ attempt[e] > 1
             /\ Shows(e, {} \cup Failed(e), {"UNDOING", "UNDONE", "FAILED"} \cup {"COMPLETED"})
    <3>1. Shows(e, {"UNDONE"} \cup Failed(e), {"UNDONE", "FAILED"} \cup {"COMPLETED"})
      BY <1>5, <2>1, <2>4 DEF Shows
    <3> QED
      BY <1>3, <1>6, <2>4, <3>1 DEF ShowsUndo
  <2> QED
    BY <2>2, <2>3, <2>4 DEF ShowsUndo
<1>8. \/ operation'[e] = "UNDONE" /\ (asked[e] = "undo" \/ Outdated(e))
      \/ operation'[e] = "COMPENSATED" /\ Shows(e, Failed(e), ItemStatus)
  <2>1. CASE thread[t].task = "undo"
    BY <1>0, <1>1, <1>3, <2>1 DEF RestoredStatus, WorkHolds
  <2>2. CASE thread[t].task = "compensate"
    BY <1>0, <1>1, <1>2, <1>3, <1>4, <2>2 DEF RestoredStatus, WorkHolds, UndoHolds
  <2>3. CASE thread[t].task = "recover_undo"
    <3>1. CASE ItemsIn(e, "FAILED") # {}
      <4>1. \A n \in Item : item[e][n] \in ItemStatus
        BY <1>2 DEF TypeOK
      <4>2. Shows(e, Failed(e), ItemStatus)
        BY <3>1, <4>1 DEF Shows, Failed
      <4> QED
        BY <1>0, <1>3, <2>3, <3>1, <4>2 DEF RestoredStatus
    <3>2. CASE ItemsIn(e, "FAILED") = {}
      <4>1. asked[e] = "undo" \/ Outdated(e)
        BY <1>2, <1>4, <3>2 DEF UndoHolds, Shows, Failed
      <4> QED
        BY <1>0, <1>3, <2>3, <3>2, <4>1 DEF RestoredStatus
    <3> QED
      BY <3>1, <3>2
  <2> QED
    BY <1>1, <2>1, <2>2, <2>3 DEF Restoring
<1>9. Agrees(e)'
  BY <1>3, <1>6, <1>7, <1>8 DEF Agrees
<1>10. UndoHolds(e)' /\ MovesOn(e)
  BY <1>3 DEF UndoHolds, MovesOn
<1> QED
  BY <1>2, <1>3, <1>9, <1>10, StatusMoves

-----------------------------------------------------------------------------
(* The steps. *)

LEMMA CallKeepsStatus ==
  ASSUME TypeOK, DriverInv, StatusInv, NEW t \in Request, NEW e \in Execution, Call(t, e)
  PROVE  StatusInv'
<1>0. t \in Thread
  BY DEF Thread
<1>1. CASE RequestExecute(t, e)
  <2>1. \A u \in Thread : thread'[u] = thread[u] \/ thread'[u].pc \in {"idle", "create"}
    BY <1>0, <1>1 DEF RequestExecute, Goto, TypeOK, Idle
  <2> QED
    BY <1>1, <2>1, StatusKept DEF RequestExecute, rows
<1>2. ASSUME NEW task \in {"retry", "undo", "compensate"},
             Goto(t, [Idle EXCEPT !.pc = "mark", !.task = task, !.exec = e,
                                  !.view = item[e], !.seen = execution[e]]),
             UNCHANGED rows,
             \A n \in Item : item[e][n] \in {"COMPLETED", "FAILED"},
             task = "retry" => ItemsIn(e, "FAILED") # {},
             task # "retry" => ItemsIn(e, "COMPLETED") # {},
             task = "compensate" => execution[e] = "PARTIALLY_COMPLETED",
             execution[e] = "COMPLETED" => ItemsIn(e, "FAILED") = {}
      PROVE  StatusInv'
  <2>1. /\ thread'[t].pc = "mark" /\ thread'[t].task = task /\ thread'[t].exec = e
        /\ thread'[t].view = item[e] /\ thread'[t].seen = execution[e]
        /\ \A u \in Thread \ {t} : thread'[u] = thread[u]
    BY <1>0, <1>2 DEF Goto, TypeOK, Idle
  <2>2. ReadHolds(t)' /\ WorkHolds(t)'
    BY <1>2, <2>1 DEF ReadHolds, WorkHolds, Drives, rows, ItemsIn
  <2> QED
    BY <1>2, <2>1, <2>2, StatusKept
<1>3. CASE RequestRetry(t, e)
  <2>1. execution[e] # "COMPLETED"
    BY <1>3 DEF RequestRetry
  <2> QED
    BY <1>2, <1>3, <2>1 DEF RequestRetry, rows
<1>4. ASSUME NEW task \in {"undo", "compensate"}, RequestRestore(t, e, task) PROVE StatusInv'
  BY <1>2, <1>4 DEF RequestRestore, AllowedFrom, rows
<1> QED
  BY <1>1, <1>3, <1>4 DEF Call

LEMMA StepKeepsStatus ==
  ASSUME TypeOK, DriverInv, FileInv, StatusInv, NEW t \in Thread, Step(t)
  PROVE  StatusInv'
<1>0. thread \in [Thread -> Local]
  BY DEF TypeOK
<1>1. CASE CreateHistory(t) \/ MarkRetry(t) \/ MarkRestore(t)
  BY <1>1, CreateKeepsStatus, MarkRetryKeepsStatus, MarkRestoreKeepsStatus
<1>2. CASE \E m \in Item : StartItem(t, m) \/ StartRestoreItem(t, m)
  BY <1>2, StartItemKeepsStatus
<1>3. CASE CheckMove(t)
  BY <1>0, <1>3, HandGoesOn DEF CheckMove, rows
<1>4. CASE RefuseMove(t)
  BY <1>4, FailItemKeepsStatus DEF RefuseMove, At, Forward, Restoring
<1>5. CASE RestoreRefused(t) \/ IndexRejected(t) \/ StateChanged(t)
  BY <1>5, RaiseKeepsStatus DEF RestoreRefused, IndexRejected, StateChanged, rows
<1>6. CASE Rename(t)
  BY <1>0, <1>6, HandGoesOn DEF Rename, rows
<1>7. CASE RenameFails(t)
  BY <1>7, MoveFailsKeepsStatus DEF RenameFails
<1>8. CASE CommitMove(t) \/ CommitRestore(t)
  BY <1>8, CommitKeepsStatus
<1>9. CASE EvidenceRejected(t)
  <2>1. CASE thread[t].task = "recover" /\ MarkFailed(t, thread[t].exec)
    <3>1. Drives(t) /\ thread[t].pc = "record"
      BY <1>9 DEF EvidenceRejected, Drives
    <3>2. /\ thread[t].at \in Item /\ item[thread[t].exec][thread[t].at] = "EXECUTING"
          /\ execution[thread[t].exec] = "EXECUTING"
      BY <2>1, <3>1, DriverAlone DEF FileInv, ThreadHolds, HandHolds, Restoring
    <3> QED
      BY <2>1, <3>1, <3>2, DriverAlone, MarkFailedKeepsStatus
  <2>2. CASE Raise(t) /\ UNCHANGED <<db, disk, asked>>
    BY <2>2, RaiseKeepsStatus DEF rows
  <2> QED
    BY <1>9, <2>1, <2>2 DEF EvidenceRejected
<1>10. CASE FinishExecution(t) \/ FinishRestore(t)
  BY <1>10, FinishExecutionKeepsStatus, FinishRestoreKeepsStatus
<1> QED
  BY <1>1, <1>2, <1>3, <1>4, <1>5, <1>6, <1>7, <1>8, <1>9, <1>10 DEF Step

LEMMA RecoverKeepsStatus ==
  ASSUME TypeOK, DriverInv, StatusInv, NEW e \in Execution, Recover(e)
  PROVE  StatusInv'
<1>0. /\ Startup \in Thread /\ thread[Startup] = Idle /\ server = "starting"
      /\ thread \in [Thread -> Local]
  BY DEF Recover, RecoverExecution, RecoveryUnsafe, RecoverUndo, RecoveryRefused, Recoverable,
         Thread, TypeOK
<1>1. ASSUME NEW frame, Goto(Startup, frame), UNCHANGED rows, frame.pc = "pick", frame.exec = e,
             frame.task \in {"recover", "recover_undo"},
             \A n \in Item : item[e][n] \in {"PENDING", "EXECUTING", "UNDOING"} => n \in frame.left
      PROVE  StatusInv'
  <2>1. thread'[Startup] = frame /\ \A u \in Thread \ {Startup} : thread'[u] = thread[u]
    BY <1>0, <1>1 DEF Goto
  <2>2. ReadHolds(Startup)' /\ WorkHolds(Startup)'
    BY <1>1, <2>1 DEF ReadHolds, WorkHolds, rows
  <2> QED
    BY <1>1, <2>1, <2>2, StatusKept
<1>2. CASE RecoverExecution(e)
  <2> DEFINE frame == [Idle EXCEPT !.pc = "pick", !.task = "recover", !.exec = e,
                         !.left = Interrupted(e), !.view = item[e],
                         !.reconcile = AlreadyMoved(e, Interrupted(e), "target")]
  <2>1. /\ frame.pc = "pick" /\ frame.exec = e /\ frame.task = "recover"
        /\ frame.left = Interrupted(e)
    BY DEF Idle
  <2>2. Goto(Startup, frame) /\ UNCHANGED rows /\ execution[e] = "EXECUTING"
    BY <1>2 DEF RecoverExecution, rows
  <2>3. \A n \in Item : item[e][n] \in {"PENDING", "EXECUTING", "UNDOING"} => n \in frame.left
    BY <2>1, <2>2 DEF StatusInv, StatusesAgree, Agrees, Shows, Interrupted, ItemsIn
  <2> HIDE DEF frame
  <2> QED
    BY <1>1, <2>1, <2>2, <2>3
<1>3. CASE RecoveryUnsafe(e)
  <2>1. \E n \in Item : item[e][n] \in {"PENDING", "EXECUTING"}
    BY <1>3 DEF RecoveryUnsafe, ExecutionIsClear, Interrupted, ItemsIn
  <2>2. \A u \in Thread \ {Startup} : ~Drives(u)
    BY <1>0, IdleFields DEF DriverInv, ServerThreads, Thread, Drives
  <2> QED
    BY <1>0, <1>3, <2>1, <2>2, MarkFailedKeepsStatus DEF RecoveryUnsafe
<1>4. CASE RecoverUndo(e)
  <2> DEFINE frame == [Idle EXCEPT !.pc = "pick", !.task = "recover_undo", !.exec = e,
                         !.left = ItemsIn(e, "UNDOING"), !.view = item[e],
                         !.reconcile = AlreadyMoved(e, ItemsIn(e, "UNDOING"), "source")]
  <2>1. /\ frame.pc = "pick" /\ frame.exec = e /\ frame.task = "recover_undo"
        /\ frame.left = ItemsIn(e, "UNDOING")
    BY DEF Idle
  <2>2. Goto(Startup, frame) /\ UNCHANGED rows /\ execution[e] = "UNDOING"
    BY <1>4 DEF RecoverUndo, rows
  <2>3. \A n \in Item : item[e][n] \in {"PENDING", "EXECUTING", "UNDOING"} => n \in frame.left
    BY <2>1, <2>2 DEF StatusInv, StatusesAgree, Agrees, Shows, ShowsUndo, ItemsIn
  <2> HIDE DEF frame
  <2> QED
    BY <1>1, <2>1, <2>2, <2>3
<1>5. CASE RecoveryRefused(e)
  BY <1>0, <1>5, RaiseKeepsStatus DEF RecoveryRefused, rows
<1> QED
  BY <1>2, <1>3, <1>4, <1>5 DEF Recover

LEMMA EnvironmentKeepsStatus ==
  ASSUME TypeOK, DriverInv, FileInv, StatusInv, Environment
  PROVE  StatusInv'
<1>1. CASE Crash
  <2>1. \A u \in Thread : thread'[u].pc = "idle"
    BY <1>1, IdleFields DEF Crash
  <2> QED
    BY <1>1, <2>1, StatusKept DEF Crash, rows
<1>2. CASE UNCHANGED <<rows, thread>>
  BY <1>2, StatusKept
<1>3. ASSUME NEW t \in Thread, LockedMove(t) PROVE StatusInv'
  BY <1>3, MoveFailsKeepsStatus DEF LockedMove
<1>4. ASSUME NEW t \in Thread, CommitFails(t) PROVE StatusInv'
  BY <1>4, RaiseKeepsStatus DEF CommitFails, rows
<1>5. CASE RecoveryAbandoned
  BY <1>5, RaiseKeepsStatus DEF RecoveryAbandoned, rows, Thread
<1> QED
  BY <1>1, <1>2, <1>3, <1>4, <1>5
  DEF Environment, UserFile, UserDirectory, UpdatePolicy, ScanWalk, ScanSync, rows

LEMMA NextKeepsStatus ==
  TypeOK /\ DriverInv /\ FileInv /\ StatusInv /\ [Next]_vars => StatusInv'
<1> SUFFICES ASSUME TypeOK, DriverInv, FileInv, StatusInv, [Next]_vars PROVE StatusInv'
  OBVIOUS
<1>1. CASE UNCHANGED <<rows, thread>>
  BY <1>1, StatusKept
<1> QED
  BY <1>1, CallKeepsStatus, StepKeepsStatus, RecoverKeepsStatus, EnvironmentKeepsStatus
  DEF Next, Boot, BootDone, Rest, vars, rows

LEMMA InitStatus == Init => StatusInv
<1> SUFFICES ASSUME Init PROVE StatusInv
  OBVIOUS
<1>1. \A e \in Execution : Agrees(e) /\ UndoHolds(e)
  BY DEF Init, Agrees, UndoHolds, Shows, NoItems
<1>2. \A t \in Thread : ReadHolds(t) /\ WorkHolds(t)
  BY IdleFields DEF Init, ReadHolds, WorkHolds, Drives
<1> QED
  BY <1>1, <1>2 DEF StatusInv, StatusesAgree

\* The rows, the summary and the operation the user sees tell the same story,
\* for any number of operations and requests, with retries and in both session
\* modes: safe_execution.py:1003 to :1180 with the conditional updates.
THEOREM StatusesCorrect == Spec => []StatusesAgree
<1>1. Inductive /\ StatusInv /\ [Next]_vars => StatusInv'
  BY NextKeepsStatus DEF Inductive
<1>2. StatusInv => StatusesAgree
  BY DEF StatusInv
<1> QED
  BY <1>1, <1>2, InitStatus, InductiveInvariant, PTL DEF Spec

-----------------------------------------------------------------------------
(* Without retries: the refinement of PlanContract. *)

NoRetry == "retry" \notin Operations

\* Every attempt is the first one, and what recovery has given up stays FAILED.
FirstAttempts ==
  /\ \A e \in Execution : attempt[e] = 1
  /\ \A t \in Thread : thread[t].task # "retry"
UnsafeIsFinal ==
  \A e \in Execution, n \in Item : error[e][n] = "unsafe" => execution[e] = "FAILED"

LEMMA NextKeepsFirst ==
  ASSUME NoRetry, TypeOK, FirstAttempts, [Next]_vars
  PROVE  FirstAttempts'
<1>0. thread \in [Thread -> Local]
  BY DEF TypeOK
<1>1. \A t \in Thread : \A frame : Goto(t, frame) /\ frame.task # "retry" =>
        \A u \in Thread : thread'[u].task # "retry"
  BY <1>0 DEF Goto, FirstAttempts
<1>2. \A t \in Thread : thread[t].task # "retry" /\ Idle.task # "retry"
  BY DEF Idle, FirstAttempts
<1>3. ASSUME NEW t \in Thread, Raise(t) \/ Abandon(t)
      PROVE  \A u \in Thread : thread'[u].task # "retry"
  BY <1>1, <1>2, <1>3 DEF Raise, Abandon
<1>4. ASSUME NEW t \in Thread, NEW status PROVE Settled(t, status).task # "retry"
  BY <1>0, <1>2 DEF Settled, Local
<1>5. ASSUME NEW t \in Thread, FailItem(t) PROVE FirstAttempts'
  BY <1>1, <1>4, <1>5 DEF FailItem, FirstAttempts
<1>6. ASSUME NEW t \in Thread, NEW e, MarkFailed(t, e) PROVE FirstAttempts'
  BY <1>1, <1>2, <1>6 DEF MarkFailed, FirstAttempts
<1>7. ASSUME NEW t \in Thread, MoveFails(t) PROVE FirstAttempts'
  BY <1>3, <1>5, <1>6, <1>7 DEF MoveFails, FirstAttempts
<1>8. ASSUME NEW t \in Request, NEW e \in Execution, Call(t, e) PROVE FirstAttempts'
  <2>1. PICK frame : Goto(t, frame) /\ frame.task # "retry" /\ attempt' = attempt
    <3>1. CASE RequestExecute(t, e)
      BY <3>1 DEF RequestExecute, Idle
    <3>2. CASE \E task \in {"undo", "compensate"} : RequestRestore(t, e, task)
      BY <3>2 DEF RequestRestore, Idle
    <3> QED
      BY <1>8, <3>1, <3>2 DEF Call, RequestRetry, NoRetry
  <2> QED
    BY <1>1, <2>1 DEF FirstAttempts, Thread
<1>9. ASSUME NEW t \in Thread, Step(t) PROVE FirstAttempts'
  <2>1. ~MarkRetry(t)
    BY <1>2 DEF MarkRetry, At
  <2>2. thread[t] \in Local /\ thread[t].task # "retry"
    BY <1>0, <1>2
  <2>3. CASE CreateHistory(t) \/ MarkRestore(t) \/ CheckMove(t) \/ Rename(t)
    <3>1. CASE CreateHistory(t)
      BY <1>1, <2>2, <3>1 DEF CreateHistory, Local, FirstAttempts
    <3>2. CASE MarkRestore(t)
      BY <1>1, <2>2, <3>2 DEF MarkRestore, Local, FirstAttempts
    <3>3. CASE CheckMove(t) \/ Rename(t)
      BY <1>1, <2>2, <3>3 DEF CheckMove, Rename, Local, FirstAttempts
    <3> QED
      BY <2>3, <3>1, <3>2, <3>3
  <2>4. ASSUME NEW n \in Item, StartItem(t, n) \/ StartRestoreItem(t, n)
        PROVE  FirstAttempts'
    <3>1. \A pc : Taken(t, n, pc).task # "retry"
      BY <2>2 DEF Taken, Local
    <3> QED
      BY <1>1, <2>4, <3>1 DEF StartItem, StartRestoreItem, FirstAttempts
  <2>5. CASE CommitMove(t) \/ CommitRestore(t)
    BY <1>1, <1>4, <2>2, <2>5 DEF CommitMove, CommitRestore, Local, FirstAttempts
  <2>6. CASE FinishExecution(t) \/ FinishRestore(t)
    BY <1>1, <1>2, <2>6 DEF FinishExecution, FinishRestore, FirstAttempts
  <2>7. CASE RefuseMove(t) \/ RenameFails(t)
    BY <1>5, <1>7, <2>7 DEF RefuseMove, RenameFails
  <2>8. CASE RestoreRefused(t) \/ IndexRejected(t) \/ StateChanged(t) \/ EvidenceRejected(t)
    BY <1>3, <1>6, <2>8
    DEF RestoreRefused, IndexRejected, StateChanged, EvidenceRejected, FirstAttempts
  <2> QED
    BY <1>9, <2>1, <2>3, <2>4, <2>5, <2>6, <2>7, <2>8 DEF Step
<1>10. ASSUME NEW e \in Execution, Recover(e) PROVE FirstAttempts'
  <2>0. Startup \in Thread
    BY DEF Thread
  <2>1. CASE RecoverExecution(e) \/ RecoverUndo(e)
    <3>1. PICK frame : Goto(Startup, frame) /\ frame.task # "retry" /\ attempt' = attempt
      BY <2>1 DEF RecoverExecution, RecoverUndo, Idle
    <3> QED
      BY <1>1, <2>0, <3>1 DEF FirstAttempts
  <2>2. CASE RecoveryUnsafe(e) \/ RecoveryRefused(e)
    BY <1>3, <1>6, <2>0, <2>2 DEF RecoveryUnsafe, RecoveryRefused, FirstAttempts
  <2> QED
    BY <1>10, <2>1, <2>2 DEF Recover
<1>11. CASE UNCHANGED <<attempt, thread>>
  BY <1>11 DEF FirstAttempts
<1>12. CASE Environment
  <2>1. CASE Crash
    BY <1>2, <2>1 DEF Crash, FirstAttempts
  <2>2. ASSUME NEW t \in Thread, LockedMove(t) \/ CommitFails(t) PROVE FirstAttempts'
    BY <1>3, <1>7, <2>2 DEF LockedMove, CommitFails, FirstAttempts
  <2>3. CASE RecoveryAbandoned
    BY <1>3, <2>3 DEF RecoveryAbandoned, FirstAttempts, Thread
  <2> QED
    BY <1>11, <1>12, <2>1, <2>2, <2>3
    DEF Environment, UserFile, UserDirectory, UpdatePolicy, ScanWalk, ScanSync
<1> QED
  BY <1>8, <1>9, <1>10, <1>11, <1>12 DEF Next, Boot, BootDone, Rest, vars

LEMMA NextKeepsUnsafe ==
  ASSUME TypeOK, DriverInv, FirstAttempts, UnsafeIsFinal, [Next]_vars
  PROVE  UnsafeIsFinal'
<1>0. /\ error \in [Execution -> [Item -> {"none", "refused", "unsafe"}]]
      /\ execution \in [Execution -> ExecutionStatus]
  BY DEF TypeOK
<1>1. CASE UNCHANGED <<execution, error>>
  BY <1>1 DEF UnsafeIsFinal
<1>2. ASSUME NEW t \in Thread, FailItem(t) PROVE UnsafeIsFinal'
  BY <1>0, <1>2 DEF FailItem, UnsafeIsFinal
<1>3. ASSUME NEW t \in Thread, NEW e \in Execution, MarkFailed(t, e) PROVE UnsafeIsFinal'
  BY <1>0, <1>3 DEF MarkFailed, UnsafeIsFinal
<1>4. ASSUME NEW t \in Thread, MoveFails(t), thread[t].pc = "rename" PROVE UnsafeIsFinal'
  BY <1>1, <1>2, <1>3, <1>4 DEF MoveFails, DriverInv, BusyThreads
<1>5. ASSUME NEW t \in Thread, NEW e \in Execution, UNCHANGED error,
             execution[e] # "FAILED", \A f \in Execution \ {e} : execution'[f] = execution[f]
      PROVE  UnsafeIsFinal'
  BY <1>5 DEF UnsafeIsFinal
<1>6. ASSUME NEW t \in Thread, Step(t) PROVE UnsafeIsFinal'
  <2> DEFINE e == thread[t].exec
  <2>0. thread[t].pc # "idle" => e \in Execution
    BY DEF DriverInv, BusyThreads
  <2>1. CASE CreateHistory(t)
    BY <1>0, <1>5, <2>0, <2>1 DEF CreateHistory, CreateHolds
  <2>2. CASE MarkRestore(t)
    <3>1. thread[t].pc = "mark" /\ execution[e] \in {"COMPLETED", "PARTIALLY_COMPLETED"}
      BY <2>2 DEF MarkRestore, MarkHolds, At, DriverInv, MarksFromRest
    <3> QED
      BY <1>0, <1>5, <2>0, <2>2, <3>1 DEF MarkRestore
  <2>3. CASE FinishExecution(t) \/ FinishRestore(t)
    BY <1>0, <1>5, <2>0, <2>3 DEF FinishExecution, FinishRestore, FinishHolds, At
  <2>4. CASE RefuseMove(t)
    BY <1>2, <2>4 DEF RefuseMove
  <2>5. CASE RenameFails(t)
    BY <1>4, <2>5 DEF RenameFails
  <2>6. CASE EvidenceRejected(t)
    BY <1>1, <1>3, <2>0, <2>6 DEF EvidenceRejected
  <2>7. ~MarkRetry(t)
    BY DEF MarkRetry, At, FirstAttempts
  <2> QED
    BY <1>1, <1>6, <2>1, <2>2, <2>3, <2>4, <2>5, <2>6, <2>7
    DEF Step, StartItem, StartRestoreItem, CheckMove, RestoreRefused, Rename, CommitMove,
        CommitRestore, IndexRejected, StateChanged
<1>7. ASSUME NEW t \in Request, NEW e \in Execution, Call(t, e) PROVE UNCHANGED <<execution, error>>
  BY <1>7 DEF Call, RequestExecute, RequestRetry, RequestRestore
<1>8. ASSUME NEW e \in Execution, Recover(e) PROVE UnsafeIsFinal'
  BY <1>1, <1>3, <1>8
  DEF Recover, RecoverExecution, RecoveryUnsafe, RecoverUndo, RecoveryRefused, Thread
<1>9. CASE Environment
  BY <1>1, <1>4, <1>9
  DEF Environment, Crash, UserFile, UserDirectory, UpdatePolicy, LockedMove, CommitFails,
      RecoveryAbandoned, ScanWalk, ScanSync
<1> QED
  BY <1>1, <1>6, <1>7, <1>8, <1>9 DEF Next, Boot, BootDone, Rest, vars

-----------------------------------------------------------------------------
(* The refinement mapping, one execution at a time. *)

mapped == <<phaseOf, movedOf, reportedOf, releasedOf>>

\* Whether the mapping of f depends on what the step changed.
Unmapped(f) ==
  /\ execution'[f] = execution[f] /\ item'[f] = item[f] /\ error'[f] = error[f]
  /\ \A n \in Item : /\ <<f, n>> \in tampered' <=> <<f, n>> \in tampered
                     /\ <<f, n>> \notin tampered =>
                          (Exists(f, n, "target")' <=> Exists(f, n, "target"))

LEMMA MappedFrame ==
  ASSUME NEW f \in Execution, Unmapped(f)
  PROVE  /\ phaseOf'[f] = phaseOf[f] /\ movedOf'[f] = movedOf[f]
         /\ reportedOf'[f] = reportedOf[f] /\ releasedOf'[f] = releasedOf[f]
<1>1. ItemsIn(f, "COMPLETED")' = ItemsIn(f, "COMPLETED")
      /\ ItemsIn(f, "UNDOING")' = ItemsIn(f, "UNDOING")
  BY DEF ItemsIn, Unmapped
<1>2. GivenUp(f)' <=> GivenUp(f)
  BY DEF GivenUp, Unmapped
<1>3. phaseOf'[f] = phaseOf[f]
  BY <1>2 DEF phaseOf, Unmapped
<1>4. reportedOf'[f] = reportedOf[f]
  BY <1>1 DEF reportedOf
<1>5. movedOf'[f] = movedOf[f] /\ releasedOf'[f] = releasedOf[f]
  BY DEF movedOf, releasedOf, Unmapped
<1> QED
  BY <1>3, <1>4, <1>5

\* A step that no mapped value sees.
LEMMA MappedStutter ==
  ASSUME \A f \in Execution : Unmapped(f)
  PROVE  UNCHANGED mapped
<1>1. \A f \in Execution :
        /\ phaseOf'[f] = phaseOf[f] /\ movedOf'[f] = movedOf[f]
        /\ reportedOf'[f] = reportedOf[f] /\ releasedOf'[f] = releasedOf[f]
  BY MappedFrame
<1>2. phaseOf' = phaseOf
  BY <1>1 DEF phaseOf
<1>3. movedOf' = movedOf
  BY <1>1 DEF movedOf
<1>4. reportedOf' = reportedOf
  BY <1>1 DEF reportedOf
<1>5. releasedOf' = releasedOf
  BY <1>1 DEF releasedOf
<1> QED
  BY <1>2, <1>3, <1>4, <1>5 DEF mapped

\* A step that only the mapped values of e see.
LEMMA MappedOne ==
  ASSUME NEW e \in Execution, \A f \in Execution \ {e} : Unmapped(f)
  PROVE  /\ phaseOf' = [phaseOf EXCEPT ![e] = phaseOf'[e]]
         /\ movedOf' = [movedOf EXCEPT ![e] = movedOf'[e]]
         /\ reportedOf' = [reportedOf EXCEPT ![e] = reportedOf'[e]]
         /\ releasedOf' = [releasedOf EXCEPT ![e] = releasedOf'[e]]
<1>1. \A f \in Execution \ {e} :
        /\ phaseOf'[f] = phaseOf[f] /\ movedOf'[f] = movedOf[f]
        /\ reportedOf'[f] = reportedOf[f] /\ releasedOf'[f] = releasedOf[f]
  BY MappedFrame
<1>2. phaseOf' = [phaseOf EXCEPT ![e] = phaseOf'[e]]
  <2>1. /\ phaseOf = [f \in Execution |-> phaseOf[f]]
        /\ phaseOf' = [f \in Execution |-> phaseOf'[f]]
    BY DEF phaseOf
  <2> QED
    BY <1>1, <2>1
<1>3. movedOf' = [movedOf EXCEPT ![e] = movedOf'[e]]
  BY <1>1 DEF movedOf
<1>4. reportedOf' = [reportedOf EXCEPT ![e] = reportedOf'[e]]
  BY <1>1 DEF reportedOf
<1>5. releasedOf' = [releasedOf EXCEPT ![e] = releasedOf'[e]]
  BY <1>1 DEF releasedOf
<1> QED
  BY <1>2, <1>3, <1>4, <1>5

\* The phases.
LEMMA PhaseIs ==
  ASSUME NEW e \in Execution
  PROVE  /\ execution[e] = "ABSENT" => phaseOf[e] = "approved"
         /\ execution[e] = "EXECUTING" => phaseOf[e] = "executing"
         /\ execution[e] = "UNDOING" => phaseOf[e] = "undoing"
         /\ execution[e] \in {"COMPLETED", "PARTIALLY_COMPLETED"} => phaseOf[e] = "closed"
BY DEF phaseOf, GivenUp

LEMMA PhaseBecomes ==
  ASSUME NEW e \in Execution
  PROVE  /\ execution'[e] = "EXECUTING" => phaseOf'[e] = "executing"
         /\ execution'[e] = "UNDOING" => phaseOf'[e] = "undoing"
         /\ execution'[e] = "UNDONE" => phaseOf'[e] = "undone"
         /\ execution'[e] \in {"COMPLETED", "PARTIALLY_COMPLETED", "FAILED"}
            /\ (\A n \in Item : error'[e][n] # "unsafe") => phaseOf'[e] = "closed"
         /\ execution'[e] = "FAILED" /\ (\E n \in Item : error'[e][n] = "unsafe")
              => phaseOf'[e] = "abandoned"
BY DEF phaseOf, GivenUp

\* What the mapped sets say of e, before and after a step.
LEMMA Mapped ==
  ASSUME NEW e \in Execution
  PROVE  /\ reportedOf[e] = {n \in Item : item[e][n] \in {"COMPLETED", "UNDOING"}}
         /\ movedOf[e] = {n \in Item : <<e, n>> \notin tampered /\ Exists(e, n, "target")}
         /\ releasedOf[e] = {n \in Item : <<e, n>> \in tampered}
BY DEF reportedOf, movedOf, releasedOf, ItemsIn

LEMMA MappedNext ==
  ASSUME NEW e \in Execution
  PROVE  /\ reportedOf'[e] = {n \in Item : item'[e][n] \in {"COMPLETED", "UNDOING"}}
         /\ movedOf'[e] = {n \in Item : <<e, n>> \notin tampered' /\ Exists(e, n, "target")'}
         /\ releasedOf'[e] = {n \in Item : <<e, n>> \in tampered'}
BY DEF reportedOf, movedOf, releasedOf, ItemsIn

\* The same, for one item.
LEMMA Members ==
  ASSUME NEW e \in Execution, NEW n \in Item
  PROVE  /\ n \in reportedOf[e] <=> item[e][n] \in {"COMPLETED", "UNDOING"}
         /\ n \in movedOf[e] <=> <<e, n>> \notin tampered /\ Exists(e, n, "target")
         /\ n \in releasedOf[e] <=> <<e, n>> \in tampered
BY Mapped

LEMMA MembersNext ==
  ASSUME NEW e \in Execution, NEW n \in Item
  PROVE  /\ n \in reportedOf'[e] <=> item'[e][n] \in {"COMPLETED", "UNDOING"}
         /\ n \in movedOf'[e] <=> <<e, n>> \notin tampered' /\ disk'[e][n]["target"] \in Content
         /\ n \in releasedOf'[e] <=> <<e, n>> \in tampered'
BY MappedNext DEF Exists

LEMMA ReportSame ==
  ASSUME NEW e \in Execution,
         \A n \in Item : item'[e][n] \in {"COMPLETED", "UNDOING"}
                          <=> item[e][n] \in {"COMPLETED", "UNDOING"}
  PROVE  reportedOf'[e] = reportedOf[e]
<1>1. ASSUME NEW n \in Item PROVE n \in reportedOf'[e] <=> n \in reportedOf[e]
  BY <1>1, Mapped, MappedNext
<1>2. reportedOf'[e] \subseteq Item /\ reportedOf[e] \subseteq Item
  BY Mapped, MappedNext
<1> QED
  BY <1>1, <1>2

\* A transaction on the rows of e.
RowsOf(e) ==
  /\ UNCHANGED <<disk, tampered>>
  /\ \A f \in Execution \ {e} :
       execution'[f] = execution[f] /\ item'[f] = item[f] /\ error'[f] = error[f]

LEMMA RowsMapped ==
  ASSUME NEW e \in Execution, RowsOf(e)
  PROVE  /\ UNCHANGED <<movedOf, releasedOf>>
         /\ phaseOf' = [phaseOf EXCEPT ![e] = phaseOf'[e]]
         /\ reportedOf' = [reportedOf EXCEPT ![e] = reportedOf'[e]]
<1>1. \A f \in Execution \ {e} : Unmapped(f)
  BY DEF RowsOf, Unmapped, Exists
<1>2. UNCHANGED <<movedOf, releasedOf>>
  BY DEF RowsOf, movedOf, releasedOf, Exists
<1> QED
  BY <1>1, <1>2, MappedOne

\* Its three outcomes: a new phase, a new report, or neither.
LEMMA PhaseStep ==
  ASSUME NEW e \in Execution, RowsOf(e), reportedOf'[e] = reportedOf[e],
         NEW phase, phaseOf'[e] = phase
  PROVE  /\ phaseOf' = [phaseOf EXCEPT ![e] = phase]
         /\ UNCHANGED <<movedOf, reportedOf, releasedOf>>
<1>1. reportedOf' = [reportedOf EXCEPT ![e] = reportedOf[e]]
  BY RowsMapped
<1>2. reportedOf' = reportedOf
  BY <1>1 DEF reportedOf
<1> QED
  BY <1>2, RowsMapped

LEMMA ReportStep ==
  ASSUME NEW e \in Execution, RowsOf(e), phaseOf'[e] = phaseOf[e]
  PROVE  /\ reportedOf' = [reportedOf EXCEPT ![e] = reportedOf'[e]]
         /\ UNCHANGED <<phaseOf, movedOf, releasedOf>>
<1>1. phaseOf' = [phaseOf EXCEPT ![e] = phaseOf[e]]
  BY RowsMapped
<1>2. phaseOf' = phaseOf
  BY <1>1 DEF phaseOf
<1> QED
  BY <1>2, RowsMapped

LEMMA RowsStutter ==
  ASSUME NEW e \in Execution, RowsOf(e), phaseOf'[e] = phaseOf[e],
         reportedOf'[e] = reportedOf[e]
  PROVE  UNCHANGED mapped
<1>1. phaseOf' = [phaseOf EXCEPT ![e] = phaseOf[e]]
  BY RowsMapped
<1>2. phaseOf' = phaseOf
  BY <1>1 DEF phaseOf
<1> QED
  BY <1>2, PhaseStep DEF mapped

-----------------------------------------------------------------------------
(* The steps. *)

ContractInv == Inductive /\ StatusInv /\ FirstAttempts /\ UnsafeIsFinal
Kept == [Contract!Next]_mapped

LEMMA CreateKeeps ==
  ASSUME ContractInv, NEW t \in Thread, CreateHistory(t)
  PROVE  Kept
<1> DEFINE e == thread[t].exec
<1>1. e \in Execution
  BY DEF CreateHistory, ContractInv, Inductive, DriverInv, BusyThreads
<1>2. /\ execution[e] = "ABSENT" /\ execution'[e] = "EXECUTING" /\ RowsOf(e)
      /\ \A n \in Item : item'[e][n] = "PENDING"
  BY <1>1 DEF CreateHistory, CreateHolds, ContractInv, Inductive, TypeOK, RowsOf
<1>3. reportedOf'[e] = reportedOf[e]
  <2>1. \A n \in Item : item[e][n] = "ABSENT"
    BY <1>1, <1>2 DEF ContractInv, Inductive, IndexInv, ItemsHaveExecution
  <2> QED
    BY <1>1, <1>2, <2>1, ReportSame
<1>4. Contract!Begin(e)
  BY <1>1, <1>2, <1>3, PhaseIs, PhaseBecomes, PhaseStep DEF Contract!Begin
<1> QED
  BY <1>1, <1>4 DEF Kept, Contract!Next

\* A thread at work has an execution in the phase of its direction.
LEMMA DriverPhase ==
  ASSUME ContractInv, NEW t \in Thread, Drives(t)
  PROVE  /\ thread[t].exec \in Execution
         /\ thread[t].task \in Forward => ~Restoring(thread[t].task)
         /\ thread[t].task \in Backward => Restoring(thread[t].task)
         /\ ~Restoring(thread[t].task) =>
              execution[thread[t].exec] = "EXECUTING" /\ phaseOf[thread[t].exec] = "executing"
         /\ Restoring(thread[t].task) =>
              execution[thread[t].exec] = "UNDOING" /\ phaseOf[thread[t].exec] = "undoing"
<1>1. thread[t].exec \in Execution
  BY DEF Drives, ContractInv, Inductive, DriverInv, BusyThreads
<1>2. execution[thread[t].exec] = IF Restoring(thread[t].task) THEN "UNDOING" ELSE "EXECUTING"
  BY DEF ContractInv, Inductive, DriverInv, OneDriver
<1>3. /\ thread[t].task \in Forward => ~Restoring(thread[t].task)
      /\ thread[t].task \in Backward => Restoring(thread[t].task)
  BY DEF Forward, Backward, Restoring
<1> QED
  BY <1>1, <1>2, <1>3, PhaseIs

LEMMA MarkRestoreKeeps ==
  ASSUME ContractInv, NEW t \in Thread, MarkRestore(t)
  PROVE  Kept
<1> DEFINE e == thread[t].exec
           view == thread[t].view
<1>1. e \in Execution /\ thread[t].pc = "mark" /\ execution[e] = thread[t].seen
  BY DEF MarkRestore, At, MarkHolds, ContractInv, Inductive, DriverInv, BusyThreads
<1>2. /\ execution[e] \in {"COMPLETED", "PARTIALLY_COMPLETED"}
      /\ view = item[e]
      /\ \A n \in Item : view[n] \in {"COMPLETED", "FAILED"}
      /\ \E n \in Item : view[n] = "COMPLETED"
  <2>1. thread[t].task # "retry" /\ thread[t].seen \in {"COMPLETED", "PARTIALLY_COMPLETED"}
    BY <1>1 DEF ContractInv, Inductive, DriverInv, MarksFromRest, FirstAttempts
  <2>2. ReadHolds(t) /\ attempt[e] = 1
    BY <1>1 DEF ContractInv, StatusInv, FirstAttempts
  <2> QED
    BY <1>1, <2>1, <2>2 DEF ReadHolds
<1>3. /\ execution'[e] = "UNDOING" /\ RowsOf(e)
      /\ \A n \in Item : item'[e][n] = IF view[n] = "COMPLETED" THEN "UNDOING" ELSE item[e][n]
  BY <1>1 DEF MarkRestore, Marked, ContractInv, Inductive, TypeOK, RowsOf
<1>4. reportedOf'[e] = reportedOf[e] /\ reportedOf[e] # {}
  <2>1. \A n \in Item : item'[e][n] \in {"COMPLETED", "UNDOING"} <=> item[e][n] \in {"COMPLETED", "UNDOING"}
    BY <1>2, <1>3
  <2>2. reportedOf'[e] = reportedOf[e]
    BY <1>1, <2>1, ReportSame
  <2>3. PICK n \in Item : item[e][n] = "COMPLETED"
    BY <1>2
  <2>4. n \in reportedOf[e]
    BY <1>1, <2>3, Mapped
  <2> QED
    BY <2>2, <2>4
<1>5. Contract!Undo(e)
  BY <1>1, <1>2, <1>3, <1>4, PhaseIs, PhaseBecomes, PhaseStep DEF Contract!Undo
<1> QED
  BY <1>1, <1>5 DEF Kept, Contract!Next

LEMMA StartKeeps ==
  ASSUME ContractInv, NEW t \in Thread, NEW n \in Item, StartItem(t, n)
  PROVE  Kept
<1> DEFINE e == thread[t].exec
<1>1. e \in Execution /\ Drives(t)
  BY DEF StartItem, At, Drives, ContractInv, Inductive, DriverInv, BusyThreads
<1>2. /\ item[e][n] \in {"PENDING", "EXECUTING"}
      /\ execution' = execution /\ error' = error /\ RowsOf(e)
      /\ item' = [item EXCEPT ![e][n] = "EXECUTING"]
  BY <1>1 DEF StartItem, StartHolds, Announce, ContractInv, Inductive, TypeOK, RowsOf
<1>3. reportedOf'[e] = reportedOf[e]
  <2>1. \A m \in Item : item'[e][m] \in {"COMPLETED", "UNDOING"} <=> item[e][m] \in {"COMPLETED", "UNDOING"}
    BY <1>1, <1>2 DEF ContractInv, Inductive, TypeOK
  <2> QED
    BY <1>1, <2>1, ReportSame
<1>4. phaseOf'[e] = phaseOf[e]
  <2>1. phaseOf[e] = "executing" /\ execution[e] = "EXECUTING"
    BY <1>1, DriverPhase DEF StartItem, At
  <2> QED
    BY <1>1, <1>2, <2>1, PhaseBecomes
<1> QED
  BY <1>1, <1>2, <1>3, <1>4, RowsStutter DEF Kept

LEMMA FailItemKeeps ==
  ASSUME ContractInv, NEW t \in Thread, Drives(t), thread[t].task \in Forward,
         UNCHANGED tampered, FailItem(t)
  PROVE  Kept
<1> DEFINE e == thread[t].exec
           n == thread[t].at
<1>1. /\ e \in Execution /\ phaseOf[e] = "executing" /\ execution[e] = "EXECUTING"
  BY DriverPhase
<1>2. /\ item[e][n] = "EXECUTING"
      /\ execution' = execution /\ RowsOf(e)
      /\ item' = [item EXCEPT ![e][n] = "FAILED"]
  BY <1>1 DEF FailItem, ContractInv, Inductive, TypeOK, RowsOf
<1>3. reportedOf'[e] = reportedOf[e]
  <2>1. \A m \in Item : item'[e][m] \in {"COMPLETED", "UNDOING"} <=> item[e][m] \in {"COMPLETED", "UNDOING"}
    BY <1>1, <1>2 DEF ContractInv, Inductive, TypeOK
  <2> QED
    BY <1>1, <2>1, ReportSame
<1>4. phaseOf'[e] = phaseOf[e]
  BY <1>1, <1>2, PhaseBecomes
<1> QED
  BY <1>1, <1>2, <1>3, <1>4, RowsStutter DEF Kept

LEMMA CommitKeeps ==
  ASSUME ContractInv, NEW t \in Thread, CommitMove(t) \/ CommitRestore(t)
  PROVE  Kept
<1> DEFINE e == thread[t].exec
           n == thread[t].at
<1>1. e \in Execution /\ Drives(t) /\ thread[t].pc = "record"
  BY DEF CommitMove, CommitRestore, At, Drives, ContractInv, Inductive, DriverInv, BusyThreads
<1>2. HandHolds(t)
  BY DEF ContractInv, Inductive, FileInv, ThreadHolds
<1>3. RowsOf(e) /\ execution' = execution /\ error' = error
  BY <1>1 DEF CommitMove, CommitRestore, ContractInv, Inductive, TypeOK, RowsOf
<1>4. phaseOf'[e] = phaseOf[e]
  BY <1>1, <1>3 DEF phaseOf, GivenUp
<1>5. CASE CommitMove(t)
  <2>1. thread[t].task \in Forward /\ ~Restoring(thread[t].task)
    BY <1>5 DEF CommitMove, At, Forward, Restoring
  <2>2. /\ n \in Item /\ item[e][n] = "EXECUTING"
        /\ <<e, n>> \in tampered \/ Exists(e, n, "target")
    BY <1>1, <1>2, <2>1 DEF HandHolds, FileAt, To, Exists, Content
  <2>3. item' = [item EXCEPT ![e][n] = "COMPLETED"]
    BY <1>5 DEF CommitMove
  <2>4. reportedOf'[e] = reportedOf[e] \cup {n}
    <3>1. \A m \in Item : item'[e][m] = IF m = n THEN "COMPLETED" ELSE item[e][m]
      BY <1>1, <2>2, <2>3 DEF ContractInv, Inductive, TypeOK
    <3> QED
      BY <1>1, <2>2, <3>1, Mapped, MappedNext
  <2>5. n \in (movedOf[e] \cup releasedOf[e]) \ reportedOf[e]
    BY <1>1, <2>2, Mapped
  <2>6. Contract!Report(e, n)
    BY <1>1, <1>3, <1>4, <2>1, <2>4, <2>5, DriverPhase, ReportStep DEF Contract!Report
  <2> QED
    BY <1>1, <2>2, <2>6 DEF Kept, Contract!Next
<1>6. CASE CommitRestore(t)
  <2>1. thread[t].task \in Backward /\ Restoring(thread[t].task)
    BY <1>6 DEF CommitRestore, At, Backward, Restoring
  <2>2. /\ n \in Item /\ item[e][n] = "UNDOING"
        /\ <<e, n>> \in tampered \/ ~Exists(e, n, "target")
    BY <1>1, <1>2, <2>1 DEF HandHolds, FileAt, To, Side
  <2>3. item' = [item EXCEPT ![e][n] = "UNDONE"]
    BY <1>6 DEF CommitRestore
  <2>4. reportedOf'[e] = reportedOf[e] \ {n}
    <3>1. \A m \in Item : item'[e][m] = IF m = n THEN "UNDONE" ELSE item[e][m]
      BY <1>1, <2>2, <2>3 DEF ContractInv, Inductive, TypeOK
    <3> QED
      BY <1>1, <2>2, <3>1, Mapped, MappedNext
  <2>5. n \in reportedOf[e] \ movedOf[e]
    BY <1>1, <2>2, Mapped
  <2>6. Contract!Withdraw(e, n)
    BY <1>1, <1>3, <1>4, <2>1, <2>4, <2>5, DriverPhase, ReportStep DEF Contract!Withdraw
  <2> QED
    BY <1>1, <2>2, <2>6 DEF Kept, Contract!Next
<1> QED
  BY <1>5, <1>6

LEMMA MarkFailedKeeps ==
  ASSUME ContractInv, NEW t \in Thread, NEW e \in Execution, MarkFailed(t, e),
         UNCHANGED tampered, execution[e] = "EXECUTING",
         \E n \in Item : item[e][n] \in {"PENDING", "EXECUTING"}
  PROVE  Kept
<1>1. /\ execution'[e] = "FAILED" /\ RowsOf(e)
      /\ \A n \in Item :
           item'[e][n] = IF item[e][n] \in {"PENDING", "EXECUTING"} THEN "FAILED" ELSE item[e][n]
      /\ \A n \in Item : item[e][n] \in {"PENDING", "EXECUTING"} => error'[e][n] = "unsafe"
  BY DEF MarkFailed, ItemsIn, ContractInv, Inductive, TypeOK, RowsOf
<1>2. reportedOf'[e] = reportedOf[e]
  <2>1. \A n \in Item : item'[e][n] \in {"COMPLETED", "UNDOING"} <=> item[e][n] \in {"COMPLETED", "UNDOING"}
    BY <1>1
  <2> QED
    BY <2>1, ReportSame
<1>3. phaseOf'[e] = "abandoned"
  BY <1>1, PhaseBecomes
<1>4. Contract!GiveUp(e)
  BY <1>1, <1>2, <1>3, PhaseIs, PhaseStep DEF Contract!GiveUp
<1> QED
  BY <1>4 DEF Kept, Contract!Next

\* What an execution has reported is what the disk shows.
LEMMA FinishKeeps ==
  ASSUME ContractInv, NEW t \in Thread, FinishExecution(t) \/ FinishRestore(t)
  PROVE  Kept
<1> DEFINE e == thread[t].exec
<1>1. /\ e \in Execution /\ Drives(t) /\ thread[t].pc = "pick" /\ thread[t].left = {}
      /\ execution[e] \in {"EXECUTING", "UNDOING"}
  BY DEF FinishExecution, FinishRestore, FinishHolds, At, Drives, ContractInv, Inductive,
         DriverInv, BusyThreads
<1>2. \A n \in Item : ~(item[e][n] \in {"PENDING", "EXECUTING", "UNDOING"})
  BY <1>1 DEF ContractInv, StatusInv, WorkHolds
<1>3. RowsOf(e) /\ item' = item /\ error' = error
  BY <1>1 DEF FinishExecution, FinishRestore, ContractInv, Inductive, TypeOK, RowsOf
<1>4. reportedOf'[e] = reportedOf[e]
  BY <1>1, <1>3, ReportSame
<1>5. \A n \in Item : error[e][n] # "unsafe"
  BY <1>1 DEF ContractInv, UnsafeIsFinal
<1>6. \A n \in Item : <<e, n>> \notin tampered =>
        /\ item[e][n] = "COMPLETED" => Exists(e, n, "target")
        /\ item[e][n] \in {"FAILED", "UNDONE"} => ~Exists(e, n, "target")
  <2>1. ASSUME NEW n \in Item, <<e, n>> \notin tampered PROVE Located(e, n)
    BY <1>1, <2>1 DEF ContractInv, Inductive, FileInv, HistoryLocatesFile
  <2>2. attempt[e] = 1
    BY <1>1 DEF ContractInv, FirstAttempts
  <2> QED
    BY <1>5, <2>1, <2>2 DEF Located, FileAt, Exists, Content, Side
<1>7. CASE FinishExecution(t)
  <2>1. thread[t].task \in Forward
    BY <1>7 DEF FinishExecution, At
  <2>2. phaseOf[e] = "executing" /\ execution[e] = "EXECUTING"
    BY <1>1, <2>1, DriverPhase
  <2>3. \A n \in Item : item[e][n] \in {"COMPLETED", "FAILED"}
    BY <1>1, <1>2, <2>2 DEF ContractInv, StatusInv, StatusesAgree, Agrees, Shows
  <2>4. phaseOf'[e] = "closed"
    <3>1. execution'[e] \in {"COMPLETED", "PARTIALLY_COMPLETED", "FAILED"}
      BY <1>1, <1>7 DEF FinishExecution, Summary, ContractInv, Inductive, TypeOK
    <3>2. \A n \in Item : error'[e][n] # "unsafe"
      BY <1>3, <1>5
    <3> QED
      BY <1>1, <3>1, <3>2, PhaseBecomes
  <2>5. reportedOf[e] \ releasedOf[e] = movedOf[e]
    <3>1. ASSUME NEW n \in Item
          PROVE  n \in reportedOf[e] \ releasedOf[e] <=> n \in movedOf[e]
      BY <1>1, <1>6, <2>3, <3>1, Members
    <3>2. reportedOf[e] \subseteq Item /\ movedOf[e] \subseteq Item
      BY <1>1, Mapped
    <3> QED
      BY <3>1, <3>2
  <2>6. Contract!Close(e)
    BY <1>1, <1>3, <1>4, <2>2, <2>4, <2>5, PhaseStep DEF Contract!Close
  <2> QED
    BY <1>1, <2>6 DEF Kept, Contract!Next
<1>8. CASE FinishRestore(t)
  <2>1. thread[t].task \in Backward
    BY <1>8 DEF FinishRestore, At
  <2>2. phaseOf[e] = "undoing" /\ execution[e] = "UNDOING"
    BY <1>1, <2>1, DriverPhase
  <2>3. \A n \in Item : item[e][n] \in {"FAILED", "UNDONE"}
    <3>1. ShowsUndo(e, {}, {"UNDOING", "UNDONE", "FAILED"}) /\ attempt[e] = 1
      BY <1>1, <2>2 DEF ContractInv, StatusInv, StatusesAgree, Agrees, FirstAttempts
    <3> QED
      BY <1>2, <3>1 DEF ShowsUndo, Shows
  <2>4. phaseOf'[e] = "undone"
    BY <1>1, <1>8, PhaseBecomes DEF FinishRestore, ContractInv, Inductive, TypeOK
  <2>5. reportedOf[e] = {} /\ movedOf[e] = {}
    <3>1. ASSUME NEW n \in Item PROVE n \notin reportedOf[e] /\ n \notin movedOf[e]
      BY <1>1, <1>6, <2>3, <3>1, Members
    <3>2. reportedOf[e] \subseteq Item /\ movedOf[e] \subseteq Item
      BY <1>1, Mapped
    <3> QED
      BY <3>1, <3>2
  <2>6. Contract!Restored(e)
    BY <1>1, <1>3, <1>4, <2>2, <2>4, <2>5, PhaseStep DEF Contract!Restored
  <2> QED
    BY <1>1, <2>6 DEF Kept, Contract!Next
<1> QED
  BY <1>7, <1>8

\* A step on the paths of item n of e.
LEMMA PathStep ==
  ASSUME NEW e \in Execution, NEW n \in Item, UNCHANGED <<execution, item, error>>,
         \A f \in Execution, m \in Item : <<f, m>> # <<e, n>> =>
           /\ <<f, m>> \in tampered' <=> <<f, m>> \in tampered
           /\ Exists(f, m, "target")' <=> Exists(f, m, "target")
  PROVE  /\ UNCHANGED <<phaseOf, reportedOf>>
         /\ movedOf' = [movedOf EXCEPT ![e] = movedOf'[e]]
         /\ releasedOf' = [releasedOf EXCEPT ![e] = releasedOf'[e]]
         /\ \A m \in Item \ {n} :
              /\ m \in movedOf'[e] <=> m \in movedOf[e]
              /\ m \in releasedOf'[e] <=> m \in releasedOf[e]
         /\ movedOf'[e] \subseteq Item /\ movedOf[e] \subseteq Item
         /\ releasedOf'[e] \subseteq Item /\ releasedOf[e] \subseteq Item
<1>1. \A f \in Execution \ {e} : Unmapped(f)
  BY DEF Unmapped
<1>2. UNCHANGED <<phaseOf, reportedOf>>
  BY DEF phaseOf, reportedOf, GivenUp, ItemsIn
<1>3. \A m \in Item \ {n} :
        /\ m \in movedOf'[e] <=> m \in movedOf[e]
        /\ m \in releasedOf'[e] <=> m \in releasedOf[e]
  BY Mapped, MappedNext
<1> QED
  BY <1>1, <1>2, <1>3, MappedOne, Mapped, MappedNext

LEMMA RenameKeeps ==
  ASSUME ContractInv, NEW t \in Thread, Rename(t)
  PROVE  Kept
<1> DEFINE e == thread[t].exec
           n == thread[t].at
           task == thread[t].task
<1>1. e \in Execution /\ Drives(t) /\ thread[t].pc = "rename"
  BY DEF Rename, Drives, ContractInv, Inductive, DriverInv, BusyThreads
<1>2. /\ UNCHANGED <<execution, item, error, tampered>>
      /\ \A f \in Execution, m \in Item : <<f, m>> # <<e, n>> => disk'[f][m] = disk[f][m]
  BY <1>1 DEF Rename, ContractInv, Inductive, TypeOK
<1>3. /\ n \in Item
      /\ item[e][n] = IF Restoring(task) THEN "UNDOING" ELSE "EXECUTING"
      /\ <<e, n>> \in tampered \/ FileAt(e, n, From(task))
  BY <1>1 DEF ContractInv, Inductive, FileInv, ThreadHolds, HandHolds
<1>4. /\ UNCHANGED <<phaseOf, reportedOf, releasedOf>>
      /\ movedOf' = [movedOf EXCEPT ![e] = movedOf'[e]]
      /\ \A m \in Item \ {n} : m \in movedOf'[e] <=> m \in movedOf[e]
      /\ movedOf'[e] \subseteq Item /\ movedOf[e] \subseteq Item
  <2>1. \A f \in Execution, m \in Item : <<f, m>> # <<e, n>> =>
          /\ <<f, m>> \in tampered' <=> <<f, m>> \in tampered
          /\ Exists(f, m, "target")' <=> Exists(f, m, "target")
    BY <1>2 DEF Exists
  <2>2. releasedOf' = releasedOf
    BY <1>2 DEF releasedOf
  <2> QED
    BY <1>1, <1>2, <1>3, <2>1, <2>2, PathStep
<1>5. CASE <<e, n>> \in tampered
  <2>1. n \notin movedOf'[e] /\ n \notin movedOf[e]
    BY <1>1, <1>2, <1>5, Mapped, MappedNext
  <2>2. movedOf'[e] = movedOf[e]
    BY <1>4, <2>1
  <2>3. movedOf' = movedOf
    BY <1>4, <2>2 DEF movedOf
  <2> QED
    BY <1>4, <2>3 DEF Kept, mapped
<1>6. CASE <<e, n>> \notin tampered /\ ~Restoring(task)
  <2>1. From(task) = "source" /\ FileAt(e, n, "source")
    BY <1>3, <1>6 DEF From
  <2>2. ~Exists(e, n, "target") /\ disk'[e][n]["target"] \in Content
    <3>1. disk'[e][n]["target"] = disk[e][n]["source"]
      BY <1>1, <1>3, <2>1 DEF Rename, Side, ContractInv, Inductive, TypeOK
    <3> QED
      BY <2>1, <3>1 DEF FileAt, Exists, Content, Side
  <2>3. /\ n \notin movedOf[e] \cup reportedOf[e] \cup releasedOf[e]
        /\ n \in movedOf'[e]
    BY <1>1, <1>2, <1>3, <1>6, <2>2, Members, MembersNext
  <2>4. movedOf'[e] = movedOf[e] \cup {n}
    BY <1>3, <1>4, <2>3
  <2>5. Contract!Move(e, n)
    BY <1>1, <1>4, <1>6, <2>3, <2>4, DriverPhase DEF Contract!Move
  <2> QED
    BY <1>1, <1>3, <2>5 DEF Kept, Contract!Next
<1>7. CASE <<e, n>> \notin tampered /\ Restoring(task)
  <2>1. From(task) = "target" /\ FileAt(e, n, "target")
    BY <1>3, <1>7 DEF From
  <2>2. Exists(e, n, "target") /\ ~(disk'[e][n]["target"] \in Content)
    <3>1. disk'[e][n]["target"] = "vacant"
      BY <1>1, <1>3, <2>1 DEF Rename, Side, ContractInv, Inductive, TypeOK
    <3> QED
      BY <2>1, <3>1 DEF FileAt, Exists, Content, Side
  <2>3. n \in movedOf[e] /\ n \notin movedOf'[e]
    BY <1>1, <1>2, <1>3, <1>7, <2>2, Members, MembersNext
  <2>4. movedOf'[e] = movedOf[e] \ {n}
    BY <1>3, <1>4, <2>3
  <2>5. Contract!MoveBack(e, n)
    BY <1>1, <1>4, <1>7, <2>3, <2>4, DriverPhase DEF Contract!MoveBack
  <2> QED
    BY <1>1, <1>3, <2>5 DEF Kept, Contract!Next
<1> QED
  BY <1>5, <1>6, <1>7

LEMMA UserFileKeeps ==
  ASSUME ContractInv, NEW e \in Execution, NEW n \in Item, NEW s \in Side, UserFile(e, n, s)
  PROVE  Kept
<1>1. /\ UNCHANGED <<execution, item, error>>
      /\ tampered' = tampered \cup {<<e, n>>}
      /\ \A f \in Execution, m \in Item : <<f, m>> # <<e, n>> => disk'[f][m] = disk[f][m]
  BY DEF UserFile, ContractInv, Inductive, TypeOK
<1>2. /\ UNCHANGED <<phaseOf, reportedOf>>
      /\ movedOf' = [movedOf EXCEPT ![e] = movedOf'[e]]
      /\ releasedOf' = [releasedOf EXCEPT ![e] = releasedOf'[e]]
      /\ \A m \in Item \ {n} :
           /\ m \in movedOf'[e] <=> m \in movedOf[e]
           /\ m \in releasedOf'[e] <=> m \in releasedOf[e]
      /\ movedOf'[e] \subseteq Item /\ movedOf[e] \subseteq Item
      /\ releasedOf'[e] \subseteq Item /\ releasedOf[e] \subseteq Item
  <2>1. \A f \in Execution, m \in Item : <<f, m>> # <<e, n>> =>
          /\ <<f, m>> \in tampered' <=> <<f, m>> \in tampered
          /\ Exists(f, m, "target")' <=> Exists(f, m, "target")
    BY <1>1 DEF Exists
  <2> QED
    BY <1>1, <2>1, PathStep
<1>3. n \in releasedOf'[e] /\ n \notin movedOf'[e]
  BY <1>1, MappedNext
<1>4. releasedOf'[e] = releasedOf[e] \cup {n} /\ movedOf'[e] = movedOf[e] \ {n}
  BY <1>2, <1>3
<1>5. Contract!Release(e, n)
  BY <1>2, <1>4 DEF Contract!Release
<1> QED
  BY <1>5 DEF Kept, Contract!Next

\* A path that is free before and after a step holds no file.
LEMMA FreePathStutters ==
  ASSUME ContractInv, NEW e \in Execution, NEW n \in Item, NEW s \in Side, NEW place,
         disk[e][n][s] \in {"vacant", "nodir"}, place \in {"vacant", "nodir"},
         disk' = [disk EXCEPT ![e][n][s] = place], UNCHANGED <<execution, item, error, tampered>>
  PROVE  Kept
<1>1. \A f \in Execution, m \in Item : Exists(f, m, "target")' <=> Exists(f, m, "target")
  BY DEF Exists, Content, Side, ContractInv, Inductive, TypeOK
<1> QED
  BY <1>1, MappedStutter DEF Unmapped, Kept

\* A step that leaves the rows and the files alone.
LEMMA RestStutters ==
  ASSUME UNCHANGED <<execution, item, error, disk, tampered>>
  PROVE  Kept
<1>1. \A f \in Execution : Unmapped(f)
  BY DEF Unmapped, Exists
<1> QED
  BY <1>1, MappedStutter DEF Kept

LEMMA CheckKeeps ==
  ASSUME ContractInv, NEW t \in Thread, CheckMove(t)
  PROVE  Kept
<1> DEFINE e == thread[t].exec
           n == thread[t].at
           s == To(thread[t].task)
<1>1. e \in Execution /\ Drives(t) /\ thread[t].pc = "check"
  BY DEF CheckMove, Drives, ContractInv, Inductive, DriverInv, BusyThreads
<1>2. n \in Item
  BY <1>1 DEF ContractInv, Inductive, FileInv, ThreadHolds, HandHolds
<1>3. s \in Side
  BY DEF To, Side
<1>4. disk[e][n][s] \in {"vacant", "nodir"}
  BY DEF CheckMove, MovePossible
<1>5. disk' = [disk EXCEPT ![e][n][s] = "vacant"] /\ UNCHANGED <<execution, item, error, tampered>>
  BY DEF CheckMove
<1> QED
  BY <1>1, <1>2, <1>3, <1>4, <1>5, FreePathStutters

LEMMA MoveFailsKeeps ==
  ASSUME ContractInv, NEW t \in Thread, thread[t].pc = "rename", MoveFails(t), UNCHANGED tampered
  PROVE  Kept
<1> DEFINE e == thread[t].exec
<1>1. Drives(t) /\ e \in Execution
  BY DEF Drives, ContractInv, Inductive, DriverInv, BusyThreads
<1>2. CASE thread[t].task \in Forward /\ FailItem(t)
  BY <1>1, <1>2, FailItemKeeps
<1>3. CASE thread[t].task = "recover" /\ MarkFailed(t, e)
  <2>1. ~Restoring(thread[t].task)
    BY <1>3 DEF Restoring
  <2>2. thread[t].at \in Item /\ item[e][thread[t].at] = "EXECUTING"
    BY <2>1 DEF ContractInv, Inductive, FileInv, ThreadHolds, HandHolds
  <2>3. execution[e] = "EXECUTING"
    BY <1>1, <2>1, DriverPhase
  <2> QED
    BY <1>1, <1>3, <2>2, <2>3, MarkFailedKeeps
<1>4. CASE UNCHANGED <<db, disk>>
  BY <1>4, RestStutters
<1> QED
  BY <1>2, <1>3, <1>4 DEF MoveFails

LEMMA StepKeeps ==
  ASSUME ContractInv, NEW t \in Thread, Step(t)
  PROVE  Kept
<1>1. CASE CreateHistory(t)
  BY <1>1, CreateKeeps
<1>2. ~MarkRetry(t)
  BY DEF MarkRetry, At, ContractInv, FirstAttempts
<1>3. CASE MarkRestore(t)
  BY <1>3, MarkRestoreKeeps
<1>4. ASSUME NEW n \in Item, StartItem(t, n) PROVE Kept
  BY <1>4, StartKeeps
<1>5. CASE CheckMove(t)
  BY <1>5, CheckKeeps
<1>6. CASE Rename(t)
  BY <1>6, RenameKeeps
<1>7. CASE CommitMove(t) \/ CommitRestore(t)
  BY <1>7, CommitKeeps
<1>8. CASE FinishExecution(t) \/ FinishRestore(t)
  BY <1>8, FinishKeeps
<1>9. CASE RefuseMove(t)
  BY <1>9, FailItemKeeps DEF RefuseMove, At, Drives
<1>10. CASE RenameFails(t)
  BY <1>10, MoveFailsKeeps DEF RenameFails
<1>11. CASE EvidenceRejected(t)
  <2> DEFINE e == thread[t].exec
  <2>1. CASE thread[t].task = "recover"
    <3>1. MarkFailed(t, e) /\ thread[t].pc = "record" /\ UNCHANGED tampered
      BY <1>11, <2>1 DEF EvidenceRejected
    <3>2. Drives(t) /\ ~Restoring(thread[t].task)
      BY <2>1, <3>1 DEF Drives, Restoring
    <3>3. thread[t].at \in Item /\ item[e][thread[t].at] = "EXECUTING"
      BY <3>1, <3>2 DEF ContractInv, Inductive, FileInv, ThreadHolds, HandHolds
    <3>4. e \in Execution /\ execution[e] = "EXECUTING"
      BY <3>2, DriverPhase
    <3> QED
      BY <3>1, <3>3, <3>4, MarkFailedKeeps
  <2>2. CASE thread[t].task # "recover"
    BY <1>11, <2>2, RestStutters DEF EvidenceRejected
  <2> QED
    BY <2>1, <2>2
<1>12. CASE \/ \E n \in Item : StartRestoreItem(t, n)
            \/ RestoreRefused(t) \/ IndexRejected(t) \/ StateChanged(t)
  BY <1>12, RestStutters DEF StartRestoreItem, RestoreRefused, IndexRejected, StateChanged
<1> QED
  BY <1>1, <1>2, <1>3, <1>4, <1>5, <1>6, <1>7, <1>8, <1>9, <1>10, <1>11, <1>12 DEF Step

LEMMA RecoverKeeps ==
  ASSUME ContractInv, NEW e \in Execution, Recover(e)
  PROVE  Kept
<1>1. CASE RecoverExecution(e) \/ RecoverUndo(e) \/ RecoveryRefused(e)
  BY <1>1, RestStutters DEF RecoverExecution, RecoverUndo, RecoveryRefused
<1>2. CASE RecoveryUnsafe(e)
  <2>1. PICK n \in Interrupted(e) : TRUE
    BY <1>2 DEF RecoveryUnsafe, ExecutionIsClear, Interrupted, ItemsIn
  <2>2. n \in Item /\ item[e][n] \in {"PENDING", "EXECUTING"}
    BY <2>1 DEF Interrupted, ItemsIn
  <2> QED
    BY <1>2, <2>2, MarkFailedKeeps DEF RecoveryUnsafe, Thread
<1> QED
  BY <1>1, <1>2 DEF Recover

LEMMA NextKeeps ==
  ASSUME ContractInv, [Next]_vars
  PROVE  Kept
<1>1. CASE UNCHANGED <<execution, item, error, disk, tampered>>
  BY <1>1, RestStutters
<1>2. CASE Environment
  <2>1. ASSUME NEW e \in Execution, NEW n \in Item, NEW s \in Side, UserDirectory(e, n, s)
        PROVE  Kept
    BY <2>1, FreePathStutters DEF UserDirectory
  <2>2. ASSUME NEW t \in Thread, LockedMove(t) PROVE Kept
    BY <2>2, MoveFailsKeeps DEF LockedMove
  <2>3. ASSUME NEW t \in Thread, CommitFails(t) PROVE Kept
    BY <1>1, <2>3 DEF CommitFails
  <2> QED
    BY <1>1, <1>2, <2>1, <2>2, <2>3, UserFileKeeps
    DEF Environment, Crash, UpdatePolicy, RecoveryAbandoned, ScanWalk, ScanSync
<1>3. ASSUME NEW t \in Request, NEW e \in Execution, Call(t, e) PROVE Kept
  BY <1>1, <1>3 DEF Call, RequestExecute, RequestRetry, RequestRestore
<1> QED
  BY <1>1, <1>2, <1>3, StepKeeps, RecoverKeeps DEF Next, Boot, BootDone, Rest, vars

LEMMA InitKeeps ==
  ASSUME Init
  PROVE  Contract!Init /\ FirstAttempts /\ UnsafeIsFinal
<1>1. phaseOf = [e \in Execution |-> "approved"]
  <2>1. \A e \in Execution : phaseOf[e] = "approved"
    BY PhaseIs DEF Init
  <2> QED
    BY <2>1 DEF phaseOf
<1>2. reportedOf = [e \in Execution |-> {}]
  BY DEF Init, reportedOf, ItemsIn, NoItems
<1>3. releasedOf = [e \in Execution |-> {}]
  BY DEF Init, releasedOf
<1>4. \A e \in Execution, n \in Item : ~Exists(e, n, "target")
  BY DEF Init, Exists, Content, Side
<1>5. movedOf = [e \in Execution |-> {}]
  BY <1>4 DEF movedOf
<1>6. FirstAttempts /\ UnsafeIsFinal
  BY IdleFields DEF Init, FirstAttempts, UnsafeIsFinal
<1> QED
  BY <1>1, <1>2, <1>3, <1>5, <1>6 DEF Contract!Init

\* Without retries the service implements the contract: whatever crashes,
\* concurrent requests, failed commits and the user do, an execution closes
\* and an undo ends only with a report that the disk confirms, for every file
\* the user left alone, and files move only in the direction of the phase.
THEOREM ContractKept ==
  ASSUME NoRetry
  PROVE  Spec => KeepsContract
<1>1. Init => Contract!Init /\ FirstAttempts /\ UnsafeIsFinal
  BY InitKeeps
<1>2. Inductive /\ FirstAttempts /\ [Next]_vars => FirstAttempts'
  BY NextKeepsFirst DEF Inductive
<1>3. Inductive /\ FirstAttempts /\ UnsafeIsFinal /\ [Next]_vars => UnsafeIsFinal'
  BY NextKeepsUnsafe DEF Inductive
<1>4. Inductive /\ StatusInv /\ [Next]_vars => StatusInv'
  BY NextKeepsStatus DEF Inductive
<1>5. Inductive /\ StatusInv /\ FirstAttempts /\ UnsafeIsFinal /\ [Next]_vars
        => [Contract!Next]_(Contract!promise)
  BY NextKeeps DEF ContractInv, Kept, mapped, Contract!promise
<1> QED
  BY <1>1, <1>2, <1>3, <1>4, <1>5, InitStatus, InductiveInvariant, PTL
  DEF Spec, KeepsContract, Contract!Spec

-----------------------------------------------------------------------------
(* The stream of events: plan order. *)

LEMMA LeastNumber ==
  ASSUME NEW S \in SUBSET Nat, S # {}
  PROVE  \E n \in S : \A k \in S : n <= k
<1>1. PICK n \in S : \A k \in S : ~(<<k, n>> \in OpToRel(<, Nat))
  BY NatLessThanWellFounded, WFMin
<1>2. \A k \in S : ~(k < n)
  BY <1>1 DEF OpToRel
<1> QED
  BY <1>2

\* f lists the numbers in A, up to each number.
Lists(f, A, n) ==
  f = [i \in 0..n |-> IF i = 0 THEN <<>> ELSE IF i \in A THEN Append(f[i - 1], i) ELSE f[i - 1]]

ListsUpTo(f, A, n) ==
  \A i \in 0..n : f[i] = IF i = 0 THEN <<>> ELSE IF i \in A THEN Append(f[i - 1], i) ELSE f[i - 1]

LEMMA ListsExist ==
  ASSUME NEW A, NEW n \in Nat
  PROVE  \E f : Lists(f, A, n)
<1> DEFINE bad == {i \in Nat : ~\E f : Lists(f, A, i)}
<1>1. SUFFICES ASSUME n \in bad PROVE FALSE
  OBVIOUS
<1>2. PICK k \in bad : \A i \in bad : k <= i
  BY <1>1, LeastNumber
<1>3. k # 0
  <2>1. Lists([i \in 0..0 |-> <<>>], A, 0)
    BY DEF Lists
  <2> QED
    BY <1>2, <2>1
<1>4. k - 1 \in Nat /\ k - 1 \notin bad
  BY <1>2, <1>3
<1>5. PICK f : Lists(f, A, k - 1)
  BY <1>4
<1>6. \A i \in 0..(k - 1) : f[i] = IF i = 0 THEN <<>> ELSE IF i \in A THEN Append(f[i - 1], i) ELSE f[i - 1]
  BY <1>5 DEF Lists
<1> DEFINE g == [i \in 0..k |-> IF i < k THEN f[i] ELSE IF k \in A THEN Append(f[k - 1], k) ELSE f[k - 1]]
<1>7. ASSUME NEW i \in 0..k
      PROVE  g[i] = IF i = 0 THEN <<>> ELSE IF i \in A THEN Append(g[i - 1], i) ELSE g[i - 1]
  <2>1. CASE i = k
    BY <1>3, <1>4, <2>1
  <2>2. CASE i # k
    <3>1. i \in 0..(k - 1) /\ i < k /\ (i = 0 \/ (i - 1 \in 0..k /\ i - 1 < k))
      BY <1>4, <2>2
    <3> QED
      BY <1>6, <3>1
  <2> QED
    BY <2>1, <2>2
<1>8. Lists(g, A, k)
  BY <1>7 DEF Lists
<1> QED
  BY <1>8, <1>2

LEMMA InPlanOrderLists ==
  ASSUME NEW A
  PROVE  \E f : ListsUpTo(f, A, N) /\ InPlanOrder(A) = f[N]
<1> DEFINE upTo == CHOOSE f : f = [n \in 0..N |-> IF n = 0 THEN <<>> ELSE IF n \in A THEN Append(f[n - 1], n) ELSE f[n - 1]]
<1>1. \E f : f = [n \in 0..N |-> IF n = 0 THEN <<>> ELSE IF n \in A THEN Append(f[n - 1], n) ELSE f[n - 1]]
  <2>1. PICK g : Lists(g, A, N)
    BY NAssumption, ListsExist
  <2> QED
    BY <2>1 DEF Lists
<1>2. upTo = [n \in 0..N |-> IF n = 0 THEN <<>> ELSE IF n \in A THEN Append(upTo[n - 1], n) ELSE upTo[n - 1]]
  BY <1>1
<1>3. InPlanOrder(A) = upTo[N]
  BY DEF InPlanOrder
<1>4. ListsUpTo(upTo, A, N)
  BY <1>2 DEF ListsUpTo
<1> QED
  BY <1>3, <1>4

\* The list has the numbers that are listed, and no others.
ListHas(s, A, n) ==
  /\ s \in Seq(Nat)
  /\ \A k \in A : k \in 1..n => \E i \in 1..Len(s) : s[i] = k
  /\ \A i \in 1..Len(s) : s[i] \in A /\ s[i] \in 1..n

LEMMA ListsHave ==
  ASSUME NEW A \in SUBSET Nat, NEW f, NEW n \in Nat, ListsUpTo(f, A, n)
  PROVE  ListHas(f[n], A, n)
<1> DEFINE bad == {i \in 0..n : ~ListHas(f[i], A, i)}
<1>1. SUFFICES ASSUME n \in bad PROVE FALSE
  OBVIOUS
<1>2. bad \in SUBSET Nat /\ bad # {}
  BY <1>1
<1>3. PICK k \in bad : \A i \in bad : k <= i
  BY <1>2, LeastNumber
<1>4. f[k] = IF k = 0 THEN <<>> ELSE IF k \in A THEN Append(f[k - 1], k) ELSE f[k - 1]
  BY DEF ListsUpTo
<1>5. k # 0
  <2>1. ASSUME k = 0 PROVE ListHas(f[k], A, k)
    <3>1. f[k] = <<>>
      BY <1>4, <2>1
    <3> QED
      BY <2>1, <3>1 DEF ListHas
  <2> QED
    BY <1>3, <2>1
<1>6. k - 1 \in 0..n /\ k - 1 \notin bad
  BY <1>3, <1>5
<1>7. PICK s : s = f[k - 1]
  OBVIOUS
<1>8. ListHas(s, A, k - 1)
  BY <1>6, <1>7
<1>9. CASE k \in A
  <2>1. PICK r : r = Append(s, k)
    OBVIOUS
  <2>2. r \in Seq(Nat) /\ Len(r) = Len(s) + 1 /\ r[Len(s) + 1] = k /\ \A i \in 1..Len(s) : r[i] = s[i]
    BY <1>8, <2>1 DEF ListHas
  <2>a. Len(s) \in Nat
    BY <1>8 DEF ListHas
  <2>3. \A j \in A : j \in 1..k => \E i \in 1..Len(r) : r[i] = j
    <3>1. ASSUME NEW j \in A, j \in 1..k PROVE \E i \in 1..Len(r) : r[i] = j
      <4>1. CASE j = k
        <5>1. Len(s) + 1 \in 1..Len(r) /\ r[Len(s) + 1] = j
          BY <2>2, <2>a, <4>1
        <5> QED
          BY <5>1
      <4>2. CASE j # k
        <5>1. j \in 1..(k - 1)
          BY <3>1, <4>2
        <5>2. PICK i \in 1..Len(s) : s[i] = j
          BY <1>8, <5>1 DEF ListHas
        <5> QED
          BY <1>8, <2>2, <5>2 DEF ListHas
      <4> QED
        BY <4>1, <4>2
    <3> QED
      BY <3>1
  <2>4. \A i \in 1..Len(r) : r[i] \in A /\ r[i] \in 1..k
    <3>1. ASSUME NEW i \in 1..Len(r) PROVE r[i] \in A /\ r[i] \in 1..k
      <4>1. i \in 1..Len(s) \/ i = Len(s) + 1
        BY <2>2, <2>a
      <4>2. CASE i \in 1..Len(s)
        <5>1. r[i] \in A /\ r[i] \in 1..(k - 1)
          BY <1>8, <2>2, <4>2 DEF ListHas
        <5> QED
          BY <1>6, <5>1
      <4>3. CASE i = Len(s) + 1
        BY <1>5, <1>9, <2>2, <4>3
      <4> QED
        BY <4>1, <4>2, <4>3
    <3> QED
      BY <3>1
  <2>5. f[k] = r
    BY <1>4, <1>5, <1>7, <1>9, <2>1
  <2>6. ListHas(r, A, k)
    BY <2>2, <2>3, <2>4 DEF ListHas
  <2> QED
    BY <2>5, <2>6
<1>10. CASE k \notin A
  <2>1. f[k] = s
    BY <1>4, <1>5, <1>7, <1>10
  <2>2. \A j \in A : j \in 1..k => j \in 1..(k - 1)
    BY <1>10
  <2>3. ListHas(s, A, k)
    <3>1. \A i \in 1..Len(s) : s[i] \in A /\ s[i] \in 1..k
      BY <1>8, <1>6 DEF ListHas
    <3> QED
      BY <1>8, <2>2, <3>1 DEF ListHas
  <2> QED
    BY <2>1, <2>3
<1> QED
  BY <1>9, <1>10

LEMMA PlanOrderHas ==
  ASSUME NEW A \in SUBSET Item
  PROVE  /\ InPlanOrder(A) \in Seq(Nat)
         /\ \A n \in A : \E i \in DOMAIN InPlanOrder(A) : InPlanOrder(A)[i] = n
         /\ \A i \in DOMAIN InPlanOrder(A) : InPlanOrder(A)[i] \in A
<1>1. PICK f : ListsUpTo(f, A, N) /\ InPlanOrder(A) = f[N]
  BY InPlanOrderLists
<1>2. A \in SUBSET Nat /\ N \in Nat
  BY NAssumption DEF Item
<1>3. PICK s : s = InPlanOrder(A)
  OBVIOUS
<1>4. ListHas(s, A, N)
  BY <1>1, <1>2, <1>3, ListsHave
<1>5. s \in Seq(Nat) /\ DOMAIN s = 1..Len(s)
  BY <1>4 DEF ListHas
<1>6. \A n \in A : \E i \in DOMAIN s : s[i] = n
  BY <1>4, <1>5 DEF ListHas, Item
<1>7. \A i \in DOMAIN s : s[i] \in A
  BY <1>4, <1>5 DEF ListHas
<1> QED
  BY <1>3, <1>5, <1>6, <1>7

\* The plan up to its k-th item is listed by counting.
LEMMA PlanOrderCounts ==
  ASSUME NEW k \in 0..N
  PROVE  InPlanOrder(1..k) = [i \in 1..k |-> i]
<1>0. N \in Nat
  BY NAssumption
<1>1. PICK f : ListsUpTo(f, 1..k, N) /\ InPlanOrder(1..k) = f[N]
  BY InPlanOrderLists
<1> DEFINE upTo(n) == IF n <= k THEN n ELSE k
<1> DEFINE bad == {n \in 0..N : f[n] # [i \in 1..upTo(n) |-> i]}
<1>2. SUFFICES ASSUME N \in bad PROVE FALSE
  <2>1. upTo(N) = k /\ N \in 0..N
    BY <1>0
  <2> QED
    BY <1>1, <2>1
<1>3. bad \in SUBSET Nat /\ bad # {}
  BY <1>2
<1>4. PICK n \in bad : \A i \in bad : n <= i
  BY <1>3, LeastNumber
<1>5. f[n] = IF n = 0 THEN <<>> ELSE IF n \in 1..k THEN Append(f[n - 1], n) ELSE f[n - 1]
  BY <1>1 DEF ListsUpTo
<1>6. n # 0
  <2>1. ASSUME n = 0 PROVE FALSE
    <3>1. f[n] = <<>> /\ upTo(n) = 0
      BY <1>5, <2>1
    <3>2. [i \in 1..0 |-> i] = <<>>
      OBVIOUS
    <3> QED
      BY <3>1, <3>2
  <2> QED
    BY <2>1
<1>7. n - 1 \in 0..N /\ n - 1 \notin bad
  <2>1. n \in 0..N
    OBVIOUS
  <2> HIDE DEF bad
  <2>2. n - 1 \in 0..N /\ ~(n <= n - 1)
    BY <1>0, <1>6, <2>1
  <2> QED
    BY <1>4, <2>2
<1>8. f[n - 1] = [i \in 1..upTo(n - 1) |-> i]
  BY <1>7
<1>9. CASE n <= k
  <2>1. f[n] = Append([i \in 1..(n - 1) |-> i], n) /\ upTo(n) = n
    BY <1>5, <1>6, <1>8, <1>9
  <2>2. Append([i \in 1..(n - 1) |-> i], n) = [i \in 1..n |-> i]
    BY <1>6
  <2> QED
    BY <2>1, <2>2
<1>10. CASE n > k
  <2>1. f[n] = f[n - 1] /\ upTo(n) = k /\ upTo(n - 1) = k
    BY <1>5, <1>6, <1>10
  <2> QED
    BY <1>8, <2>1
<1> QED
  BY <1>9, <1>10

LEMMA Beginnings ==
  ASSUME NEW A \in SUBSET Item, \A n \in A, m \in Item : m < n => m \in A
  PROVE  \E k \in 0..N : A = 1..k
<1>0. N \in Nat \ {0}
  BY NAssumption
<1> DEFINE out == {n \in Nat : n \notin A}
<1>1. 0 \in out
  BY DEF Item
<1> DEFINE after1 == {n \in Nat : n + 1 \notin A}
<1>2. N \in after1
  BY <1>0 DEF Item
<1>3. PICK k \in after1 : \A n \in after1 : k <= n
  BY <1>2, LeastNumber
<1>4. k \in 0..N
  BY <1>0, <1>2, <1>3
<1>5. \A n \in 1..k : n \in A
  <2>1. ASSUME NEW n \in 1..k PROVE n \in A
    <3>1. n - 1 \in Nat /\ n - 1 \notin after1
      BY <1>3, <1>4
    <3>2. (n - 1) + 1 = n
      BY <1>4
    <3> QED
      BY <3>1, <3>2
  <2> QED
    BY <2>1
<1>6. \A n \in A : n \in 1..k
  <2>1. ASSUME NEW n \in A, n > k PROVE FALSE
    <3>1. n \in Item /\ n # k + 1
      BY <1>3
    <3>2. k + 1 \in Item /\ k + 1 < n
      <4>1. n \in Nat /\ n <= N /\ k \in Nat
        BY <1>0, <1>4 DEF Item
      <4> HIDE DEF after1
      <4> QED
        BY <1>0, <2>1, <3>1, <4>1 DEF Item
    <3> QED
      BY <1>3, <3>2
  <2> QED
    BY <1>4, <2>1 DEF Item
<1> QED
  BY <1>4, <1>5, <1>6

-----------------------------------------------------------------------------
(* The stream of events: how the rows of an execution change. *)

Keeps(e) ==
  /\ execution'[e] = execution[e] /\ attempt'[e] = attempt[e]
  /\ \A n \in Item : item'[e][n] = item[e][n]
OneItem(e, m) ==
  /\ execution'[e] = execution[e] /\ attempt'[e] = attempt[e]
  /\ \A n \in Item \ {m} : item'[e][n] = item[e][n]

Created(e) ==
  /\ execution[e] = "ABSENT" /\ execution'[e] = "EXECUTING" /\ attempt'[e] = attempt[e]
  /\ \A n \in Item : item'[e][n] = "PENDING"
Announced1(e, m) ==
  /\ execution[e] = "EXECUTING" /\ OneItem(e, m)
  /\ item[e][m] \in {"PENDING", "EXECUTING"} /\ item'[e][m] = "EXECUTING"
\* All that comes before the item has been reported.
Decided(e, m) ==
  /\ execution[e] = "EXECUTING" /\ OneItem(e, m)
  /\ item[e][m] = "EXECUTING" /\ item'[e][m] \in {"FAILED", "COMPLETED"}
  /\ \A k \in Item : k < m => k \in Reported(e)
Restored(e, m) ==
  /\ execution[e] = "UNDOING" /\ OneItem(e, m)
  /\ item[e][m] = "UNDOING" /\ item'[e][m] = "UNDONE"
Closed(e) ==
  /\ execution[e] = "EXECUTING" /\ execution'[e] \in {"COMPLETED", "PARTIALLY_COMPLETED", "FAILED"}
  /\ attempt'[e] = attempt[e] /\ \A n \in Item : item'[e][n] = item[e][n]
Abandoned(e) ==
  /\ execution[e] = "EXECUTING" /\ execution'[e] = "FAILED" /\ attempt'[e] = attempt[e]
  /\ \A n \in Item :
       item'[e][n] = IF item[e][n] \in {"PENDING", "EXECUTING"} THEN "FAILED" ELSE item[e][n]
Retried(e) ==
  /\ execution[e] \in {"PARTIALLY_COMPLETED", "FAILED"} /\ execution'[e] = "EXECUTING"
  /\ attempt'[e] = attempt[e] + 1
  /\ \A n \in Item : item'[e][n] = item[e][n] \/ (item[e][n] = "FAILED" /\ item'[e][n] = "PENDING")
UndoBegun(e) ==
  /\ execution[e] \in {"COMPLETED", "PARTIALLY_COMPLETED"} /\ execution'[e] = "UNDOING"
  /\ attempt'[e] = attempt[e]
  /\ \A n \in Item : item'[e][n] = item[e][n] \/ (item[e][n] = "COMPLETED" /\ item'[e][n] = "UNDOING")
UndoEnded(e) ==
  /\ execution[e] = "UNDOING" /\ execution'[e] = "UNDONE" /\ attempt'[e] = attempt[e]
  /\ \A n \in Item : item'[e][n] = item[e][n]

RowMoves(e) ==
  \/ Keeps(e) \/ Created(e) \/ Closed(e) \/ Abandoned(e) \/ Retried(e) \/ UndoBegun(e) \/ UndoEnded(e)
  \/ \E m \in Item : Announced1(e, m) \/ Decided(e, m) \/ Restored(e, m)

LEMMA OthersKeep ==
  ASSUME NEW f, NEW e \in Execution \ {f},
         execution'[e] = execution[e], attempt'[e] = attempt[e], item'[e] = item[e]
  PROVE  RowMoves(e)
BY DEF RowMoves, Keeps

\* The item in hand is settled, forwards or backwards.
LEMMA HandMoves ==
  ASSUME TypeOK, DriverInv, FileInv, StatusInv, OrderInv, NEW t \in Thread,
         thread[t].pc \in {"check", "rename", "record"}, NEW f, f = thread[t].exec,
         NEW m, m = thread[t].at, NEW status, item' = [item EXCEPT ![f][m] = status],
         UNCHANGED <<execution, attempt>>,
         \/ ~Restoring(thread[t].task) /\ status \in {"FAILED", "COMPLETED"}
         \/ Restoring(thread[t].task) /\ status = "UNDONE",
         NEW e \in Execution
  PROVE  RowMoves(e)
<1>1. /\ m \in Item \ thread[t].left
      /\ item[f][m] = IF Restoring(thread[t].task) THEN "UNDOING" ELSE "EXECUTING"
  BY DEF FileInv, ThreadHolds, HandHolds
<1>2. Drives(t) /\ WorkHolds(t) /\ item \in [Execution -> [Item -> ItemStatus]]
  BY DEF Drives, StatusInv, TypeOK
<1>3. f \in Execution /\ execution[f] = IF Restoring(thread[t].task) THEN "UNDOING" ELSE "EXECUTING"
  BY <1>2, DriverAlone
<1>4. /\ item'[f][m] = status
      /\ \A n \in Item \ {m} : item'[f][n] = item[f][n]
      /\ \A d \in Execution \ {f} : item'[d] = item[d]
  BY <1>1, <1>2, <1>3
<1>5. CASE e # f
  BY <1>4, <1>5, OthersKeep
<1>6. CASE e = f /\ Restoring(thread[t].task)
  <2>1. Restored(e, m)
    BY <1>1, <1>3, <1>4, <1>6 DEF Restored, OneItem
  <2> QED
    BY <1>1, <2>1 DEF RowMoves
<1>7. CASE e = f /\ ~Restoring(thread[t].task)
  <2>1. ASSUME NEW k \in Item, k < m PROVE k \in Reported(e)
    <3>1. k \notin thread[t].left
      <4>1. ASSUME k \in thread[t].left PROVE FALSE
        <5>1. m < k
          BY <1>7, <4>1 DEF OrderInv, HandFirst
        <5> QED
          BY <1>1, <2>1, <5>1 DEF Item
      <4> QED
        BY <4>1
    <3>2. k # m
      BY <1>1, <2>1 DEF Item
    <3>3. item[e][k] \notin {"PENDING", "EXECUTING"}
      BY <1>2, <1>7, <3>1, <3>2 DEF WorkHolds
    <3> QED
      BY <3>3 DEF Reported, ItemsIn
  <2>2. Decided(e, m)
    BY <1>1, <1>3, <1>4, <1>7, <2>1 DEF Decided, OneItem
  <2> QED
    BY <1>1, <2>2 DEF RowMoves
<1> QED
  BY <1>5, <1>6, <1>7

LEMMA MarkFailedMoves ==
  ASSUME TypeOK, NEW t \in Thread, NEW f \in Execution, MarkFailed(t, f), execution[f] = "EXECUTING",
         NEW e \in Execution
  PROVE  RowMoves(e)
<1>1. /\ item \in [Execution -> [Item -> ItemStatus]]
      /\ execution \in [Execution -> ExecutionStatus]
  BY DEF TypeOK
<1>2. /\ execution'[f] = "FAILED" /\ UNCHANGED attempt
      /\ \A d \in Execution \ {f} : execution'[d] = execution[d] /\ item'[d] = item[d]
      /\ \A n \in Item : item'[f][n] =
           IF item[f][n] \in {"PENDING", "EXECUTING"} THEN "FAILED" ELSE item[f][n]
  BY <1>1 DEF MarkFailed, ItemsIn
<1>3. CASE e # f
  BY <1>2, <1>3, OthersKeep
<1>4. CASE e = f
  <2>1. Abandoned(e)
    BY <1>2, <1>4 DEF Abandoned
  <2> QED
    BY <2>1 DEF RowMoves
<1> QED
  BY <1>3, <1>4

LEMMA NothingMoves ==
  ASSUME UNCHANGED <<execution, attempt, item>>, NEW e \in Execution
  PROVE  RowMoves(e)
BY DEF RowMoves, Keeps

LEMMA MoveFailsMoves ==
  ASSUME TypeOK, DriverInv, FileInv, StatusInv, OrderInv, NEW t \in Thread,
         thread[t].pc = "rename", MoveFails(t), NEW e \in Execution
  PROVE  RowMoves(e)
<1>1. CASE thread[t].task \in Forward /\ FailItem(t)
  BY <1>1, HandMoves DEF FailItem, Forward, Restoring
<1>2. CASE thread[t].task = "recover" /\ MarkFailed(t, thread[t].exec)
  <2>1. Drives(t) /\ ~Restoring(thread[t].task)
    BY <1>2 DEF Drives, Restoring
  <2>2. thread[t].exec \in Execution /\ execution[thread[t].exec] = "EXECUTING"
    BY <2>1, DriverAlone
  <2> QED
    BY <1>2, <2>2, MarkFailedMoves
<1>3. CASE UNCHANGED <<db, disk, asked>>
  BY <1>3, NothingMoves
<1> QED
  BY <1>1, <1>2, <1>3 DEF MoveFails

LEMMA StartMoves ==
  ASSUME TypeOK, DriverInv, NEW t \in Thread, NEW m \in Item, StartItem(t, m), NEW e \in Execution
  PROVE  RowMoves(e)
<1>0. PICK f : f = thread[t].exec
  OBVIOUS
<1>1. Drives(t) /\ ~Restoring(thread[t].task) /\ item[f][m] \in {"PENDING", "EXECUTING"}
  BY <1>0 DEF StartItem, StartHolds, At, Drives, Forward, Restoring
<1>2. f \in Execution /\ execution[f] = "EXECUTING"
  BY <1>0, <1>1, DriverAlone
<1>3. /\ item'[f][m] = "EXECUTING" /\ UNCHANGED <<execution, attempt>>
      /\ \A n \in Item \ {m} : item'[f][n] = item[f][n]
      /\ \A d \in Execution \ {f} : item'[d] = item[d]
  BY <1>0, <1>2 DEF StartItem, Announce, TypeOK
<1>4. CASE e # f
  BY <1>3, <1>4, OthersKeep
<1>5. CASE e = f
  <2>1. Announced1(e, m)
    BY <1>1, <1>2, <1>3, <1>5 DEF Announced1, OneItem
  <2> QED
    BY <2>1 DEF RowMoves
<1> QED
  BY <1>4, <1>5

LEMMA MarksMove ==
  ASSUME TypeOK, DriverInv, StatusInv, NEW t \in Thread,
         CreateHistory(t) \/ MarkRetry(t) \/ MarkRestore(t), NEW e \in Execution
  PROVE  RowMoves(e)
<1>0. PICK f : f = thread[t].exec
  OBVIOUS
<1>1. f \in Execution
  BY <1>0 DEF CreateHistory, MarkRetry, MarkRestore, At, DriverInv, BusyThreads
<1>2. /\ execution \in [Execution -> ExecutionStatus] /\ attempt \in [Execution -> Nat \ {0}]
      /\ item \in [Execution -> [Item -> ItemStatus]]
  BY DEF TypeOK
<1>3. CASE CreateHistory(t)
  <2>1. /\ execution[f] = "ABSENT" /\ execution'[f] = "EXECUTING" /\ attempt' = attempt
        /\ \A n \in Item : item'[f][n] = "PENDING"
        /\ \A d \in Execution \ {f} : execution'[d] = execution[d] /\ item'[d] = item[d]
    BY <1>0, <1>1, <1>2, <1>3 DEF CreateHistory, CreateHolds
  <2>2. e = f => Created(e)
    BY <2>1 DEF Created
  <2> QED
    BY <2>1, <2>2, OthersKeep DEF RowMoves
<1>4. CASE MarkRetry(t)
  <2>1. /\ execution[f] = thread[t].seen /\ thread[t].seen \in {"PARTIALLY_COMPLETED", "FAILED"}
        /\ \A n \in Item : thread[t].view[n] = "FAILED" => item[f][n] = "FAILED"
    BY <1>0, <1>4 DEF MarkRetry, MarkHolds, At, DriverInv, MarksFromRest
  <2>2. /\ execution'[f] = "EXECUTING" /\ attempt'[f] = attempt[f] + 1
        /\ \A n \in Item : item'[f][n] = IF thread[t].view[n] = "FAILED" THEN "PENDING" ELSE item[f][n]
        /\ \A d \in Execution \ {f} :
             execution'[d] = execution[d] /\ attempt'[d] = attempt[d] /\ item'[d] = item[d]
    BY <1>0, <1>1, <1>2, <1>4 DEF MarkRetry, Marked
  <2>3. e = f => Retried(e)
    BY <2>1, <2>2 DEF Retried
  <2> QED
    BY <2>2, <2>3, OthersKeep DEF RowMoves
<1>5. CASE MarkRestore(t)
  <2>1. /\ execution[f] = thread[t].seen /\ thread[t].seen \in {"COMPLETED", "PARTIALLY_COMPLETED"}
        /\ \A n \in Item : thread[t].view[n] = "COMPLETED" => item[f][n] = "COMPLETED"
    BY <1>0, <1>5 DEF MarkRestore, MarkHolds, At, DriverInv, MarksFromRest
  <2>2. /\ execution'[f] = "UNDOING" /\ attempt' = attempt
        /\ \A n \in Item : item'[f][n] = IF thread[t].view[n] = "COMPLETED" THEN "UNDOING" ELSE item[f][n]
        /\ \A d \in Execution \ {f} : execution'[d] = execution[d] /\ item'[d] = item[d]
    BY <1>0, <1>1, <1>2, <1>5 DEF MarkRestore, Marked
  <2>3. e = f => UndoBegun(e)
    BY <2>1, <2>2 DEF UndoBegun
  <2> QED
    BY <2>2, <2>3, OthersKeep DEF RowMoves
<1> QED
  BY <1>3, <1>4, <1>5

LEMMA FinishMoves ==
  ASSUME TypeOK, DriverInv, StatusInv, NEW t \in Thread,
         FinishExecution(t) \/ FinishRestore(t), NEW e \in Execution
  PROVE  RowMoves(e)
<1>0. PICK f : f = thread[t].exec
  OBVIOUS
<1>1. f \in Execution
  BY <1>0 DEF FinishExecution, FinishRestore, At, DriverInv, BusyThreads
<1>2. UNCHANGED <<attempt, item>> /\ execution \in [Execution -> ExecutionStatus]
  BY DEF TypeOK, FinishExecution, FinishRestore
<1>3. CASE FinishExecution(t)
  <2>1. /\ execution[f] = "EXECUTING" /\ execution'[f] \in {"COMPLETED", "PARTIALLY_COMPLETED", "FAILED"}
        /\ \A d \in Execution \ {f} : execution'[d] = execution[d]
    BY <1>0, <1>1, <1>2, <1>3 DEF FinishExecution, FinishHolds, Summary
  <2>2. e = f => Closed(e)
    BY <1>2, <2>1 DEF Closed
  <2> QED
    BY <1>2, <2>1, <2>2, OthersKeep DEF RowMoves
<1>4. CASE FinishRestore(t)
  <2>1. /\ execution[f] = "UNDOING" /\ execution'[f] = "UNDONE"
        /\ \A d \in Execution \ {f} : execution'[d] = execution[d]
    BY <1>0, <1>1, <1>2, <1>4 DEF FinishRestore, FinishHolds
  <2>2. e = f => UndoEnded(e)
    BY <1>2, <2>1 DEF UndoEnded
  <2> QED
    BY <1>2, <2>1, <2>2, OthersKeep DEF RowMoves
<1> QED
  BY <1>3, <1>4

LEMMA StepMoves ==
  ASSUME TypeOK, DriverInv, FileInv, StatusInv, OrderInv, NEW t \in Thread, Step(t), NEW e \in Execution
  PROVE  RowMoves(e)
<1>1. CASE CreateHistory(t) \/ MarkRetry(t) \/ MarkRestore(t)
  BY <1>1, MarksMove
<1>2. CASE \E m \in Item : StartItem(t, m)
  BY <1>2, StartMoves
<1>3. CASE \E m \in Item : StartRestoreItem(t, m)
  BY <1>3, NothingMoves DEF StartRestoreItem
<1>4. CASE CheckMove(t) \/ Rename(t) \/ RestoreRefused(t) \/ IndexRejected(t) \/ StateChanged(t)
  BY <1>4, NothingMoves DEF CheckMove, Rename, RestoreRefused, IndexRejected, StateChanged
<1>5. CASE RefuseMove(t)
  BY <1>5, HandMoves DEF RefuseMove, FailItem, At, Forward, Restoring
<1>6. CASE RenameFails(t)
  BY <1>6, MoveFailsMoves DEF RenameFails
<1>7. CASE CommitMove(t)
  BY <1>7, HandMoves DEF CommitMove, At, Forward, Restoring
<1>8. CASE CommitRestore(t)
  BY <1>8, HandMoves DEF CommitRestore, At, Backward, Restoring
<1>9. CASE EvidenceRejected(t)
  <2>1. CASE thread[t].task = "recover" /\ MarkFailed(t, thread[t].exec)
    <3>1. Drives(t) /\ ~Restoring(thread[t].task)
      BY <1>9, <2>1 DEF EvidenceRejected, Drives, Restoring
    <3>2. thread[t].exec \in Execution /\ execution[thread[t].exec] = "EXECUTING"
      BY <3>1, DriverAlone
    <3> QED
      BY <2>1, <3>2, MarkFailedMoves
  <2>2. CASE UNCHANGED <<db, disk, asked>>
    BY <2>2, NothingMoves
  <2> QED
    BY <1>9, <2>1, <2>2 DEF EvidenceRejected
<1>10. CASE FinishExecution(t) \/ FinishRestore(t)
  BY <1>10, FinishMoves
<1> QED
  BY <1>1, <1>2, <1>3, <1>4, <1>5, <1>6, <1>7, <1>8, <1>9, <1>10 DEF Step

LEMMA NextMoves ==
  ASSUME TypeOK, DriverInv, FileInv, StatusInv, OrderInv, [Next]_vars, NEW e \in Execution
  PROVE  RowMoves(e)
<1>1. CASE UNCHANGED <<execution, attempt, item>>
  BY <1>1, NothingMoves
<1>2. ASSUME NEW t \in Request, NEW f \in Execution, Call(t, f) PROVE UNCHANGED <<execution, attempt, item>>
  BY <1>2 DEF Call, RequestExecute, RequestRetry, RequestRestore
<1>3. ASSUME NEW t \in Thread, Step(t) PROVE RowMoves(e)
  BY <1>3, StepMoves
<1>4. ASSUME NEW f \in Execution, Recover(f) PROVE RowMoves(e)
  <2>1. CASE RecoveryUnsafe(f)
    BY <2>1, MarkFailedMoves DEF RecoveryUnsafe, Thread
  <2>2. CASE RecoverExecution(f) \/ RecoverUndo(f) \/ RecoveryRefused(f)
    BY <1>1, <2>2 DEF RecoverExecution, RecoverUndo, RecoveryRefused
  <2> QED
    BY <1>4, <2>1, <2>2 DEF Recover
<1>5. CASE Environment
  <2>1. ASSUME NEW t \in Thread, LockedMove(t) PROVE RowMoves(e)
    BY <2>1, MoveFailsMoves DEF LockedMove
  <2> QED
    BY <1>1, <1>5, <2>1
    DEF Environment, Crash, UserFile, UserDirectory, UpdatePolicy, CommitFails, RecoveryAbandoned, ScanWalk, ScanSync
<1> QED
  BY <1>1, <1>2, <1>3, <1>4, <1>5 DEF Next, Boot, BootDone, Rest, vars

-----------------------------------------------------------------------------
(* The stream of events: items are settled in plan order. *)

LEMMA GotoKeepsFirst ==
  ASSUME TypeOK, \A u \in Thread : HandFirst(u), NEW t \in Thread, NEW local, Goto(t, local),
         local.pc \in {"check", "rename", "record"} /\ ~Restoring(local.task) =>
           \A n \in local.left : local.at < n
  PROVE  \A u \in Thread : HandFirst(u)'
<1>1. thread'[t] = local /\ \A u \in Thread \ {t} : thread'[u] = thread[u]
  BY GotoChangesOne
<1> QED
  BY <1>1 DEF HandFirst

LEMMA StopKeepsFirst ==
  ASSUME TypeOK, \A u \in Thread : HandFirst(u), NEW t \in Thread, NEW local, Goto(t, local),
         local.pc \in {"idle", "create", "mark", "pick"}
  PROVE  \A u \in Thread : HandFirst(u)'
BY GotoKeepsFirst

LEMMA FailItemKeepsFirst ==
  ASSUME TypeOK, \A u \in Thread : HandFirst(u), NEW t \in Thread, FailItem(t) \/ CommitMove(t)
  PROVE  \A u \in Thread : HandFirst(u)'
<1>1. \A status : Settled(t, status).pc = "pick"
  BY DEF Settled, TypeOK, Local
<1> QED
  BY <1>1, StopKeepsFirst DEF FailItem, CommitMove

LEMMA MoveFailsKeepsFirst ==
  ASSUME TypeOK, \A u \in Thread : HandFirst(u), NEW t \in Thread, MoveFails(t)
  PROVE  \A u \in Thread : HandFirst(u)'
BY FailItemKeepsFirst, StopKeepsFirst, IdleFields DEF MoveFails, MarkFailed, Raise

LEMMA StepKeepsFirst ==
  ASSUME TypeOK, \A u \in Thread : HandFirst(u), NEW t \in Thread, Step(t)
  PROVE  \A u \in Thread : HandFirst(u)'
<1>0. thread[t] \in Local
  BY DEF TypeOK
<1>1. CASE CreateHistory(t) \/ MarkRetry(t) \/ MarkRestore(t)
  <2>1. CASE CreateHistory(t)
    <3>1. PICK local : local = [thread[t] EXCEPT !.pc = "pick", !.left = Item,
                                            !.view = [n \in Item |-> "PENDING"]]
      OBVIOUS
    <3>2. local.pc = "pick"
      BY <1>0, <3>1 DEF Local
    <3>3. Goto(t, local)
      BY <2>1, <3>1 DEF CreateHistory
    <3> QED
      BY <3>2, <3>3, StopKeepsFirst
  <2>2. CASE MarkRetry(t)
    <3>1. PICK local : local = [thread[t] EXCEPT !.pc = "pick", !.left = Marked(t, "FAILED")]
      OBVIOUS
    <3>2. local.pc = "pick"
      BY <1>0, <3>1 DEF Local
    <3>3. Goto(t, local)
      BY <2>2, <3>1 DEF MarkRetry
    <3> QED
      BY <3>2, <3>3, StopKeepsFirst
  <2>3. CASE MarkRestore(t)
    <3>1. PICK local : local = [thread[t] EXCEPT !.pc = "pick", !.left = Marked(t, "COMPLETED")]
      OBVIOUS
    <3>2. local.pc = "pick"
      BY <1>0, <3>1 DEF Local
    <3>3. Goto(t, local)
      BY <2>3, <3>1 DEF MarkRestore
    <3> QED
      BY <3>2, <3>3, StopKeepsFirst
  <2> QED
    BY <1>1, <2>1, <2>2, <2>3
<1>2. ASSUME NEW m \in Item, StartItem(t, m) PROVE \A u \in Thread : HandFirst(u)'
  <2>1. PICK pc : Goto(t, Taken(t, m, pc))
    BY <1>2 DEF StartItem
  <2>2. Taken(t, m, pc).at = m /\ Taken(t, m, pc).left = thread[t].left \ {m}
    BY <1>0 DEF Taken, Local
  <2>3. \A n \in thread[t].left \ {m} : m < n
    <3>1. /\ \A n \in thread[t].left : m <= n
          /\ thread[t].left \subseteq Item
      BY <1>0, <1>2 DEF StartItem, IsNext, At, Forward, Restoring, Local
    <3> QED
      BY <3>1 DEF Item
  <2> QED
    BY <2>1, <2>2, <2>3, GotoKeepsFirst
<1>3. ASSUME NEW m \in Item, StartRestoreItem(t, m) PROVE \A u \in Thread : HandFirst(u)'
  <2>1. PICK pc : Goto(t, Taken(t, m, pc))
    BY <1>3 DEF StartRestoreItem
  <2>2. Taken(t, m, pc).task = thread[t].task /\ Restoring(thread[t].task)
    BY <1>0, <1>3 DEF Taken, Local, StartRestoreItem, At, Backward, Restoring
  <2> QED
    BY <2>1, <2>2, GotoKeepsFirst
<1>4. CASE CheckMove(t) \/ Rename(t)
  <2>1. PICK pc : Goto(t, [thread[t] EXCEPT !.pc = pc]) /\ thread[t].pc \in {"check", "rename"}
    BY <1>4 DEF CheckMove, Rename
  <2>2. PICK local : local = [thread[t] EXCEPT !.pc = pc]
    OBVIOUS
  <2>3. local.task = thread[t].task /\ local.at = thread[t].at /\ local.left = thread[t].left
    BY <1>0, <2>2 DEF Local
  <2> QED
    BY <2>1, <2>2, <2>3, GotoKeepsFirst DEF HandFirst
<1>5. CASE RestoreRefused(t) \/ IndexRejected(t) \/ StateChanged(t) \/ EvidenceRejected(t)
  BY <1>5, StopKeepsFirst, IdleFields
  DEF RestoreRefused, IndexRejected, StateChanged, EvidenceRejected, MarkFailed, Raise, Abandon
<1>6. CASE RefuseMove(t) \/ RenameFails(t) \/ CommitMove(t)
  BY <1>6, FailItemKeepsFirst, MoveFailsKeepsFirst DEF RefuseMove, RenameFails
<1>7. CASE CommitRestore(t)
  <2>1. [thread[t] EXCEPT !.pc = "pick", !.at = 0].pc = "pick"
    BY <1>0 DEF Local
  <2> QED
    BY <1>7, <2>1, StopKeepsFirst DEF CommitRestore
<1>8. CASE FinishExecution(t) \/ FinishRestore(t)
  BY <1>8, StopKeepsFirst, IdleFields DEF FinishExecution, FinishRestore
<1> QED
  BY <1>1, <1>2, <1>3, <1>4, <1>5, <1>6, <1>7, <1>8 DEF Step

LEMMA NextKeepsFirstInHand ==
  ASSUME TypeOK, \A u \in Thread : HandFirst(u), [Next]_vars
  PROVE  \A u \in Thread : HandFirst(u)'
<1>1. CASE UNCHANGED thread
  BY <1>1 DEF HandFirst
<1>2. ASSUME NEW t \in Request, NEW e \in Execution, Call(t, e) PROVE \A u \in Thread : HandFirst(u)'
  <2>1. CASE RequestExecute(t, e)
    <3>1. PICK local : local = [Idle EXCEPT !.pc = "create", !.task = "execute", !.exec = e]
      OBVIOUS
    <3>2. local.pc = "create"
      BY <3>1 DEF Idle
    <3>3. Goto(t, local)
      BY <2>1, <3>1 DEF RequestExecute
    <3> QED
      BY <3>2, <3>3, StopKeepsFirst DEF Thread
  <2>2. CASE RequestRetry(t, e)
    <3>1. PICK local : local = [Idle EXCEPT !.pc = "mark", !.task = "retry", !.exec = e,
                                       !.view = item[e], !.seen = execution[e]]
      OBVIOUS
    <3>2. local.pc = "mark"
      BY <3>1 DEF Idle
    <3>3. Goto(t, local)
      BY <2>2, <3>1 DEF RequestRetry
    <3> QED
      BY <3>2, <3>3, StopKeepsFirst DEF Thread
  <2>3. ASSUME NEW task, RequestRestore(t, e, task) PROVE \A u \in Thread : HandFirst(u)'
    <3>1. PICK local : local = [Idle EXCEPT !.pc = "mark", !.task = task, !.exec = e,
                                       !.view = item[e], !.seen = execution[e]]
      OBVIOUS
    <3>2. local.pc = "mark"
      BY <3>1 DEF Idle
    <3>3. Goto(t, local)
      BY <2>3, <3>1 DEF RequestRestore
    <3> QED
      BY <3>2, <3>3, StopKeepsFirst DEF Thread
  <2> QED
    BY <1>2, <2>1, <2>2, <2>3 DEF Call
<1>3. ASSUME NEW t \in Thread, Step(t) PROVE \A u \in Thread : HandFirst(u)'
  BY <1>3, StepKeepsFirst
<1>4. ASSUME NEW e \in Execution, Recover(e) PROVE \A u \in Thread : HandFirst(u)'
  <2>1. CASE RecoverExecution(e)
    <3>1. PICK local : local = [Idle EXCEPT !.pc = "pick", !.task = "recover", !.exec = e,
                                       !.left = Interrupted(e), !.view = item[e],
                                       !.reconcile = AlreadyMoved(e, Interrupted(e), "target")]
      OBVIOUS
    <3>2. local.pc = "pick"
      BY <3>1 DEF Idle
    <3>3. Goto(Startup, local)
      BY <2>1, <3>1 DEF RecoverExecution
    <3> QED
      BY <3>2, <3>3, StopKeepsFirst DEF Thread
  <2>3. CASE RecoverUndo(e)
    <3>1. PICK local : local = [Idle EXCEPT !.pc = "pick", !.task = "recover_undo", !.exec = e,
                                       !.left = ItemsIn(e, "UNDOING"), !.view = item[e],
                                       !.reconcile = AlreadyMoved(e, ItemsIn(e, "UNDOING"), "source")]
      OBVIOUS
    <3>2. local.pc = "pick"
      BY <3>1 DEF Idle
    <3>3. Goto(Startup, local)
      BY <2>3, <3>1 DEF RecoverUndo
    <3> QED
      BY <3>2, <3>3, StopKeepsFirst DEF Thread
  <2>2. CASE RecoveryUnsafe(e) \/ RecoveryRefused(e)
    BY <2>2, StopKeepsFirst, IdleFields DEF RecoveryUnsafe, RecoveryRefused, MarkFailed, Raise, Thread
  <2> QED
    BY <1>4, <2>1, <2>2, <2>3 DEF Recover
<1>5. CASE Environment
  <2>1. CASE Crash
    BY <2>1, IdleFields DEF Crash, HandFirst
  <2>2. ASSUME NEW t \in Thread, LockedMove(t) \/ CommitFails(t) PROVE \A u \in Thread : HandFirst(u)'
    BY <2>2, MoveFailsKeepsFirst, StopKeepsFirst, IdleFields DEF LockedMove, CommitFails, Raise
  <2>3. CASE RecoveryAbandoned
    BY <2>3, StopKeepsFirst, IdleFields DEF RecoveryAbandoned, Abandon, Thread
  <2> QED
    BY <1>1, <1>5, <2>1, <2>2, <2>3
    DEF Environment, UserFile, UserDirectory, UpdatePolicy, ScanWalk, ScanSync
<1> QED
  BY <1>1, <1>2, <1>3, <1>4, <1>5 DEF Next, Boot, BootDone, Rest, vars

LEMMA NextKeepsOrder ==
  ASSUME TypeOK, DriverInv, FileInv, StatusInv, OrderInv, [Next]_vars
  PROVE  OrderInv'
<1>1. \A t \in Thread : HandFirst(t)'
  BY NextKeepsFirstInHand DEF OrderInv
<1>2. ASSUME NEW e \in Execution, attempt'[e] = 1, execution'[e] = "EXECUTING",
             NEW n \in Item, NEW m \in Item, m < n, n \in Reported(e)'
      PROVE  m \in Reported(e)'
  <2>1. RowMoves(e) /\ ReportsBegin(e) /\ attempt[e] \in Nat \ {0}
    BY NextMoves DEF OrderInv, TypeOK
  <2>2. \A k \in Item : (k \in Reported(e) <=> item[e][k] \notin {"PENDING", "EXECUTING"})
                     /\ (k \in Reported(e)' <=> item'[e][k] \notin {"PENDING", "EXECUTING"})
    BY DEF Reported, ItemsIn
  <2>3. CASE Keeps(e)
    BY <1>2, <2>1, <2>2, <2>3 DEF Keeps, ReportsBegin
  <2>4. CASE Created(e)
    BY <1>2, <2>2, <2>4 DEF Created
  <2>5. ASSUME NEW k \in Item, Announced1(e, k) PROVE m \in Reported(e)'
    <3>1. \A j \in Item : j \in Reported(e) <=> j \in Reported(e)'
      BY <2>2, <2>5 DEF Announced1, OneItem
    <3> QED
      BY <1>2, <2>1, <2>5, <3>1 DEF Announced1, OneItem, ReportsBegin
  <2>6. ASSUME NEW k \in Item, Decided(e, k) PROVE m \in Reported(e)'
    <3>1. \A j \in Item : j \in Reported(e) => j \in Reported(e)'
      BY <2>2, <2>6 DEF Decided, OneItem
    <3>2. \A j \in Item : j \in Reported(e)' => j \in Reported(e) \/ j = k
      BY <2>2, <2>6 DEF Decided, OneItem
    <3> QED
      BY <1>2, <2>1, <2>6, <3>1, <3>2 DEF Decided, OneItem, ReportsBegin
  <2>7. CASE Retried(e)
    BY <1>2, <2>1, <2>7 DEF Retried
  <2>8. CASE Closed(e) \/ Abandoned(e) \/ UndoBegun(e) \/ UndoEnded(e) \/ \E k \in Item : Restored(e, k)
    BY <1>2, <2>8 DEF Closed, Abandoned, UndoBegun, UndoEnded, Restored, OneItem
  <2> QED
    BY <2>1, <2>3, <2>4, <2>5, <2>6, <2>7, <2>8 DEF RowMoves
<1>3. \A e \in Execution : ReportsBegin(e)'
  <2>1. \A e \in Execution : Reported(e)' \subseteq Item
    BY DEF Reported
  <2> QED
    BY <1>2, <2>1 DEF ReportsBegin
<1> QED
  BY <1>1, <1>3 DEF OrderInv

\* At every place of the loop the items are settled in plan order, and what the
\* first attempt has reported is a beginning of the plan.
THEOREM OrderInvariant == Spec => [](Inductive /\ StatusInv /\ OrderInv)
<1>1. Init => OrderInv
  BY IdleFields DEF Init, OrderInv, HandFirst, ReportsBegin
<1>2. Inductive /\ StatusInv /\ [Next]_vars => StatusInv'
  BY NextKeepsStatus DEF Inductive
<1>3. Inductive /\ StatusInv /\ OrderInv /\ [Next]_vars => OrderInv'
  BY NextKeepsOrder DEF Inductive
<1> QED
  BY <1>1, <1>2, <1>3, InitStatus, InductiveInvariant, PTL DEF Spec

-----------------------------------------------------------------------------
(* The stream of events: what is sent stays sent. *)

RowEvent ==
  [kind : {"started", "item_failed", "item_completed", "completed", "undo_started",
           "undo_item_completed", "undo_completed"},
   item : 0..N, status : ExecutionStatus \cup {"none"}]

\* The stream as a function of the row of the execution and of its items.
ReportedIn(f) == Item \ ({n \in Item : f[n] = "PENDING"} \cup {n \in Item : f[n] = "EXECUTING"})
ItemEvent(f, n) == Event(IF f[n] = "FAILED" THEN "item_failed" ELSE "item_completed", n, "none")
ItemPart(f) ==
  LET order == InPlanOrder(ReportedIn(f)) IN [i \in DOMAIN order |-> ItemEvent(f, order[i])]
Closing(x) == Event("completed", 0, IF x \in {"UNDOING", "UNDONE"} THEN "COMPLETED" ELSE x)
ClosingPart(x) == IF x = "EXECUTING" THEN <<>> ELSE <<Closing(x)>>
UndoneIn(f) == {n \in Item : f[n] = "UNDONE"}
UndoneEvent(n) == Event("undo_item_completed", n, "none")
UndonePart(f) ==
  LET order == InPlanOrder(UndoneIn(f)) IN [i \in DOMAIN order |-> UndoneEvent(order[i])]
EndPart(x) == IF x = "UNDONE" THEN <<Event("undo_completed", 0, "none")>> ELSE <<>>
UndoPart(x, f) ==
  IF x \notin {"UNDOING", "UNDONE"} THEN <<>>
  ELSE <<Event("undo_started", 0, "none")>> \o UndonePart(f) \o EndPart(x)
StreamOf(x, f) ==
  IF x = "ABSENT" THEN <<>>
  ELSE <<Event("started", 0, "none")>> \o ItemPart(f) \o ClosingPart(x) \o UndoPart(x, f)

LEMMA StreamIs ==
  ASSUME NEW e \in Execution
  PROVE  /\ Stream(e) = StreamOf(execution[e], item[e])
         /\ Stream(e)' = StreamOf(execution'[e], item'[e])
         /\ Reported(e) = ReportedIn(item[e]) /\ Reported(e)' = ReportedIn(item'[e])
<1>1. /\ Reported(e) = ReportedIn(item[e]) /\ Reported(e)' = ReportedIn(item'[e])
      /\ ItemsIn(e, "UNDONE") = UndoneIn(item[e]) /\ ItemsIn(e, "UNDONE")' = UndoneIn(item'[e])
  BY DEF Reported, ItemsIn, ReportedIn, UndoneIn
<1>2. ItemEvents(e) = ItemPart(item[e]) /\ ItemEvents(e)' = ItemPart(item'[e])
  BY <1>1 DEF ItemEvents, ItemPart, ItemEvent
<1>3. /\ CompletionEvents(e) = ClosingPart(execution[e])
      /\ CompletionEvents(e)' = ClosingPart(execution'[e])
  BY DEF CompletionEvents, ClosingPart, Closing
<1>4. /\ UndoEvents(e) = UndoPart(execution[e], item[e])
      /\ UndoEvents(e)' = UndoPart(execution'[e], item'[e])
  BY <1>1 DEF UndoEvents, UndoPart, UndonePart, UndoneEvent, EndPart
<1> QED
  BY <1>1, <1>2, <1>3, <1>4 DEF Stream, StreamOf

LEMMA EventIsTyped ==
  ASSUME NEW f, NEW x \in ExecutionStatus
  PROVE  /\ Event("started", 0, "none") \in RowEvent
         /\ \A n \in Item : ItemEvent(f, n) \in RowEvent /\ UndoneEvent(n) \in RowEvent
         /\ Closing(x) \in RowEvent
         /\ Event("undo_started", 0, "none") \in RowEvent
         /\ Event("undo_completed", 0, "none") \in RowEvent
<1>1. 0 \in 0..N /\ Item \subseteq 0..N
  BY NAssumption DEF Item
<1> QED
  BY <1>1 DEF Event, ItemEvent, UndoneEvent, Closing, RowEvent, ExecutionStatus

LEMMA SetOfJoined ==
  ASSUME NEW S, NEW p \in Seq(S), NEW q \in Seq(S)
  PROVE  p \o q \in Seq(S) /\ ToSet(p \o q) = ToSet(p) \cup ToSet(q)
<1>1. PICK r : r = p \o q
  OBVIOUS
<1>2. /\ r \in Seq(S) /\ Len(r) = Len(p) + Len(q) /\ Len(p) \in Nat /\ Len(q) \in Nat
      /\ \A i \in 1..Len(p) : r[i] = p[i]
      /\ \A i \in 1..Len(q) : r[Len(p) + i] = q[i]
  BY <1>1
<1>3. DOMAIN r = 1..Len(r) /\ DOMAIN p = 1..Len(p) /\ DOMAIN q = 1..Len(q)
  BY <1>2
<1>4. ASSUME NEW i \in 1..Len(r) PROVE r[i] \in ToSet(p) \cup ToSet(q)
  <2>1. CASE i \in 1..Len(p)
    BY <1>2, <1>3, <2>1 DEF ToSet
  <2>2. CASE i \notin 1..Len(p)
    <3>1. PICK j : j = i - Len(p)
      OBVIOUS
    <3>2. j \in 1..Len(q) /\ i = Len(p) + j
      BY <1>2, <2>2, <3>1
    <3>3. r[i] = q[j]
      BY <1>2, <3>2
    <3> QED
      BY <1>3, <3>2, <3>3 DEF ToSet
  <2> QED
    BY <2>1, <2>2
<1>5. ASSUME NEW i \in 1..Len(p) PROVE p[i] \in ToSet(r)
  <2>1. i \in 1..Len(r)
    BY <1>2
  <2> QED
    BY <1>2, <1>3, <2>1 DEF ToSet
<1>6. ASSUME NEW i \in 1..Len(q) PROVE q[i] \in ToSet(r)
  <2>1. Len(p) + i \in 1..Len(r)
    BY <1>2
  <2> QED
    BY <1>2, <1>3, <2>1 DEF ToSet
<1>7. ToSet(r) = ToSet(p) \cup ToSet(q)
  BY <1>3, <1>4, <1>5, <1>6 DEF ToSet
<1> QED
  BY <1>1, <1>2, <1>7

LEMMA ItemPartHas ==
  ASSUME NEW f
  PROVE  /\ ItemPart(f) \in Seq(RowEvent)
         /\ ToSet(ItemPart(f)) = {ItemEvent(f, n) : n \in ReportedIn(f)}
<1>1. PICK order : order = InPlanOrder(ReportedIn(f))
  OBVIOUS
<1>2. ReportedIn(f) \subseteq Item
  BY DEF ReportedIn
<1>3. /\ order \in Seq(Nat)
      /\ \A n \in ReportedIn(f) : \E i \in DOMAIN order : order[i] = n
      /\ \A i \in DOMAIN order : order[i] \in ReportedIn(f)
  BY <1>1, <1>2, PlanOrderHas
<1>4. DOMAIN order = 1..Len(order) /\ Len(order) \in Nat
  BY <1>3
<1>5. PICK part : part = [i \in 1..Len(order) |-> ItemEvent(f, order[i])]
  OBVIOUS
<1>6. part = ItemPart(f)
  BY <1>1, <1>4, <1>5 DEF ItemPart
<1>7. \A i \in 1..Len(order) : ItemEvent(f, order[i]) \in RowEvent
  <2>1. "EXECUTING" \in ExecutionStatus
    BY DEF ExecutionStatus
  <2> QED
    BY <1>2, <1>3, <1>4, <2>1, EventIsTyped
<1>8. part \in Seq(RowEvent)
  BY <1>4, <1>5, <1>7
<1>9. ToSet(part) = {ItemEvent(f, n) : n \in ReportedIn(f)}
  <2>1. ToSet(part) = {part[i] : i \in 1..Len(order)}
    BY <1>5 DEF ToSet
  <2>2. \A i \in 1..Len(order) : part[i] = ItemEvent(f, order[i]) /\ order[i] \in ReportedIn(f)
    BY <1>3, <1>4, <1>5
  <2>3. \A n \in ReportedIn(f) : \E i \in 1..Len(order) : part[i] = ItemEvent(f, n)
    BY <1>3, <1>4, <1>5
  <2> QED
    BY <2>1, <2>2, <2>3
<1> QED
  BY <1>6, <1>8, <1>9

LEMMA UndonePartHas ==
  ASSUME NEW f
  PROVE  /\ UndonePart(f) \in Seq(RowEvent)
         /\ ToSet(UndonePart(f)) = {UndoneEvent(n) : n \in UndoneIn(f)}
<1>1. PICK order : order = InPlanOrder(UndoneIn(f))
  OBVIOUS
<1>2. UndoneIn(f) \subseteq Item
  BY DEF UndoneIn
<1>3. /\ order \in Seq(Nat)
      /\ \A n \in UndoneIn(f) : \E i \in DOMAIN order : order[i] = n
      /\ \A i \in DOMAIN order : order[i] \in UndoneIn(f)
  BY <1>1, <1>2, PlanOrderHas
<1>4. DOMAIN order = 1..Len(order) /\ Len(order) \in Nat
  BY <1>3
<1>5. PICK part : part = [i \in 1..Len(order) |-> UndoneEvent(order[i])]
  OBVIOUS
<1>6. part = UndonePart(f)
  BY <1>1, <1>4, <1>5 DEF UndonePart
<1>7. \A i \in 1..Len(order) : UndoneEvent(order[i]) \in RowEvent
  <2>1. "EXECUTING" \in ExecutionStatus
    BY DEF ExecutionStatus
  <2> QED
    BY <1>2, <1>3, <1>4, <2>1, EventIsTyped
<1>8. part \in Seq(RowEvent)
  BY <1>4, <1>5, <1>7
<1>9. ToSet(part) = {UndoneEvent(n) : n \in UndoneIn(f)}
  <2>1. ToSet(part) = {part[i] : i \in 1..Len(order)}
    BY <1>5 DEF ToSet
  <2>2. \A i \in 1..Len(order) : part[i] = UndoneEvent(order[i]) /\ order[i] \in UndoneIn(f)
    BY <1>3, <1>4, <1>5
  <2>3. \A n \in UndoneIn(f) : \E i \in 1..Len(order) : part[i] = UndoneEvent(n)
    BY <1>3, <1>4, <1>5
  <2> QED
    BY <2>1, <2>2, <2>3
<1> QED
  BY <1>6, <1>8, <1>9

LEMMA SetOfOne ==
  ASSUME NEW S, NEW a \in S
  PROVE  <<a>> \in Seq(S) /\ ToSet(<<a>>) = {a} /\ <<>> \in Seq(S) /\ ToSet(<<>>) = {}
BY DEF ToSet

LEMMA SetOfOneMore ==
  ASSUME NEW S, NEW a \in S, NEW q \in Seq(S)
  PROVE  <<a>> \o q \in Seq(S) /\ ToSet(<<a>> \o q) = {a} \cup ToSet(q)
<1>1. PICK p : p = <<a>>
  OBVIOUS
<1>2. p \in Seq(S) /\ ToSet(p) = {a}
  BY <1>1, SetOfOne
<1>3. p \o q \in Seq(S) /\ ToSet(p \o q) = ToSet(p) \cup ToSet(q)
  BY <1>2, SetOfJoined
<1>4. p \o q \in Seq(S) /\ ToSet(p \o q) = {a} \cup ToSet(q)
  BY <1>2, <1>3
<1> QED
  BY <1>1, <1>4, Zenon

\* What is in the stream, whatever its order.
LEMMA StreamHas ==
  ASSUME NEW x \in ExecutionStatus \ {"ABSENT"}, NEW f
  PROVE  /\ <<Event("started", 0, "none")>> \in Seq(RowEvent) /\ ItemPart(f) \in Seq(RowEvent)
         /\ ClosingPart(x) \in Seq(RowEvent) /\ UndoPart(x, f) \in Seq(RowEvent)
         /\ ToSet(StreamOf(x, f)) =
              {Event("started", 0, "none")} \cup {ItemEvent(f, n) : n \in ReportedIn(f)}
              \cup (IF x = "EXECUTING" THEN {} ELSE {Closing(x)})
              \cup (IF x \in {"UNDOING", "UNDONE"}
                    THEN {Event("undo_started", 0, "none")} \cup {UndoneEvent(n) : n \in UndoneIn(f)}
                    ELSE {})
              \cup (IF x = "UNDONE" THEN {Event("undo_completed", 0, "none")} ELSE {})
<1>1. \A p, q \in Seq(RowEvent) : p \o q \in Seq(RowEvent) /\ ToSet(p \o q) = ToSet(p) \cup ToSet(q)
  BY SetOfJoined
<1>2. \A u \in RowEvent, q \in Seq(RowEvent) :
         <<u>> \o q \in Seq(RowEvent) /\ ToSet(<<u>> \o q) = {u} \cup ToSet(q)
  BY SetOfOneMore
<1>3. PICK a : a = Event("started", 0, "none")
  OBVIOUS
<1>4. PICK b : b = Event("undo_started", 0, "none")
  OBVIOUS
<1>5. PICK c : c = Event("undo_completed", 0, "none")
  OBVIOUS
<1>6. PICK d : d = Closing(x)
  OBVIOUS
<1>7. a \in RowEvent /\ b \in RowEvent /\ c \in RowEvent /\ d \in RowEvent
  BY <1>3, <1>4, <1>5, <1>6, EventIsTyped
<1>8. /\ <<a>> \in Seq(RowEvent) /\ ToSet(<<a>>) = {a} /\ <<b>> \in Seq(RowEvent) /\ ToSet(<<b>>) = {b}
      /\ <<c>> \in Seq(RowEvent) /\ ToSet(<<c>>) = {c} /\ <<d>> \in Seq(RowEvent) /\ ToSet(<<d>>) = {d}
      /\ <<>> \in Seq(RowEvent) /\ ToSet(<<>>) = {}
  BY <1>7, SetOfOne
<1>9. PICK I : I = ItemPart(f)
  OBVIOUS
<1>10. I \in Seq(RowEvent) /\ ToSet(I) = {ItemEvent(f, n) : n \in ReportedIn(f)}
  BY <1>9, ItemPartHas
<1>11. PICK C : C = ClosingPart(x)
  OBVIOUS
<1>12. C \in Seq(RowEvent) /\ ToSet(C) = IF x = "EXECUTING" THEN {} ELSE {d}
  BY <1>6, <1>8, <1>11 DEF ClosingPart
<1>13. PICK E : E = EndPart(x)
  OBVIOUS
<1>14. E \in Seq(RowEvent) /\ ToSet(E) = IF x = "UNDONE" THEN {c} ELSE {}
  BY <1>5, <1>8, <1>13 DEF EndPart
<1>15. PICK D : D = UndonePart(f)
  OBVIOUS
<1>16. D \in Seq(RowEvent) /\ ToSet(D) = {UndoneEvent(n) : n \in UndoneIn(f)}
  BY <1>15, UndonePartHas
<1>17. PICK U : U = UndoPart(x, f)
  OBVIOUS
<1>18. U = IF x \notin {"UNDOING", "UNDONE"} THEN <<>> ELSE <<b>> \o D \o E
  BY <1>4, <1>13, <1>15, <1>17 DEF UndoPart
<1>19. /\ <<b>> \o D \in Seq(RowEvent) /\ ToSet(<<b>> \o D) = {b} \cup ToSet(D)
       /\ <<b>> \o D \o E \in Seq(RowEvent) /\ ToSet(<<b>> \o D \o E) = {b} \cup ToSet(D) \cup ToSet(E)
  <2>1. <<b>> \o D \in Seq(RowEvent) /\ ToSet(<<b>> \o D) = {b} \cup ToSet(D)
    BY <1>2, <1>7, <1>16, Zenon
  <2> QED
    BY <1>1, <1>14, <2>1, Zenon
<1>20. /\ U \in Seq(RowEvent)
       /\ ToSet(U) = (IF x \in {"UNDOING", "UNDONE"} THEN {b} \cup ToSet(D) ELSE {})
                     \cup (IF x = "UNDONE" THEN {c} ELSE {})
  <2>1. CASE x \notin {"UNDOING", "UNDONE"}
    BY <1>8, <1>18, <2>1
  <2>2. CASE x \in {"UNDOING", "UNDONE"}
    BY <1>14, <1>18, <1>19, <2>2
  <2> QED
    BY <2>1, <2>2
<1>21. StreamOf(x, f) = <<a>> \o I \o C \o U
  BY <1>3, <1>9, <1>11, <1>17 DEF StreamOf
<1>22. /\ <<a>> \o I \in Seq(RowEvent) /\ ToSet(<<a>> \o I) = {a} \cup ToSet(I)
       /\ <<a>> \o I \o C \in Seq(RowEvent) /\ ToSet(<<a>> \o I \o C) = {a} \cup ToSet(I) \cup ToSet(C)
  <2>1. <<a>> \o I \in Seq(RowEvent) /\ ToSet(<<a>> \o I) = {a} \cup ToSet(I)
    BY <1>2, <1>7, <1>10, Zenon
  <2> QED
    BY <1>1, <1>12, <2>1, Zenon
<1>23. ToSet(StreamOf(x, f)) = {a} \cup ToSet(I) \cup ToSet(C) \cup ToSet(U)
  BY <1>1, <1>20, <1>21, <1>22, Zenon
<1>24. ToSet(StreamOf(x, f)) =
         {a} \cup ToSet(I) \cup (IF x = "EXECUTING" THEN {} ELSE {d})
         \cup (IF x \in {"UNDOING", "UNDONE"} THEN {b} \cup ToSet(D) ELSE {})
         \cup (IF x = "UNDONE" THEN {c} ELSE {})
  BY <1>12, <1>20, <1>23
<1> QED
  BY <1>3, <1>4, <1>5, <1>6, <1>8, <1>9, <1>10, <1>11, <1>12, <1>16, <1>17, <1>20, <1>24

\* How a step may change what the stream is made of.
RowGoes(x, f, a, y, g, b) ==
  /\ x # "ABSENT" => y # "ABSENT"
  /\ x # "ABSENT" => \A n \in ReportedIn(f) :
       \/ n \in ReportedIn(g) /\ (f[n] = "FAILED" <=> g[n] = "FAILED")
       \/ b # a /\ f[n] = "FAILED"
  /\ x \notin {"ABSENT", "EXECUTING"} =>
       \/ y = x \/ y = "UNDOING"
       \/ b # a
       \/ x = "UNDOING" /\ y = "UNDONE"
  /\ x \in {"UNDOING", "UNDONE"} =>
       /\ y \in {"UNDOING", "UNDONE"} /\ (x = "UNDONE" => y = "UNDONE")
       /\ \A n \in UndoneIn(f) : n \in UndoneIn(g)

LEMMA RowGoesOn ==
  ASSUME TypeOK, NEW e \in Execution, RowMoves(e)
  PROVE  RowGoes(execution[e], item[e], attempt[e], execution'[e], item'[e], attempt'[e])
<1>1. attempt[e] \in Nat
  BY DEF TypeOK
<1>2. CASE Keeps(e)
  BY <1>2 DEF Keeps, RowGoes, ReportedIn, UndoneIn
<1>3. CASE Created(e)
  BY <1>3 DEF Created, RowGoes
<1>4. CASE Closed(e)
  BY <1>4 DEF Closed, RowGoes, ReportedIn
<1>5. CASE Abandoned(e)
  BY <1>5 DEF Abandoned, RowGoes, ReportedIn
<1>6. CASE Retried(e)
  BY <1>1, <1>6 DEF Retried, RowGoes, ReportedIn
<1>7. CASE UndoBegun(e)
  BY <1>7 DEF UndoBegun, RowGoes, ReportedIn
<1>8. CASE UndoEnded(e)
  BY <1>8 DEF UndoEnded, RowGoes, ReportedIn, UndoneIn
<1>9. ASSUME NEW m \in Item, Announced1(e, m) \/ Decided(e, m)
      PROVE  RowGoes(execution[e], item[e], attempt[e], execution'[e], item'[e], attempt'[e])
  BY <1>9 DEF Announced1, Decided, OneItem, RowGoes, ReportedIn
<1>10. ASSUME NEW m \in Item, Restored(e, m)
       PROVE  RowGoes(execution[e], item[e], attempt[e], execution'[e], item'[e], attempt'[e])
  BY <1>10 DEF Restored, OneItem, RowGoes, ReportedIn, UndoneIn
<1> QED
  BY <1>2, <1>3, <1>4, <1>5, <1>6, <1>7, <1>8, <1>9, <1>10 DEF RowMoves

\* What goes is what a retry takes up again, or the summary of what is undone.
LEMMA EventsGone ==
  ASSUME NEW x \in ExecutionStatus, NEW y \in ExecutionStatus, NEW f, NEW g, NEW a, NEW b,
         RowGoes(x, f, a, y, g, b),
         NEW event \in ToSet(StreamOf(x, f)), event \notin ToSet(StreamOf(y, g))
  PROVE  \/ b # a /\ event.kind \in {"item_failed", "completed"}
         \/ event.kind = "completed" /\ y = "UNDOING"
<1>1. x # "ABSENT"
  <2>1. ASSUME x = "ABSENT" PROVE FALSE
    <3>1. StreamOf(x, f) = <<>>
      BY <2>1 DEF StreamOf
    <3> QED
      BY <3>1 DEF ToSet
  <2> QED
    BY <2>1
<1>2. y # "ABSENT"
  BY <1>1 DEF RowGoes
<1>3. event \in {Event("started", 0, "none")} \cup {ItemEvent(f, n) : n \in ReportedIn(f)}
              \cup (IF x = "EXECUTING" THEN {} ELSE {Closing(x)})
              \cup (IF x \in {"UNDOING", "UNDONE"}
                    THEN {Event("undo_started", 0, "none")} \cup {UndoneEvent(n) : n \in UndoneIn(f)}
                    ELSE {})
              \cup (IF x = "UNDONE" THEN {Event("undo_completed", 0, "none")} ELSE {})
  BY <1>1, StreamHas
<1>4. event \notin {Event("started", 0, "none")} \cup {ItemEvent(g, n) : n \in ReportedIn(g)}
              \cup (IF y = "EXECUTING" THEN {} ELSE {Closing(y)})
              \cup (IF y \in {"UNDOING", "UNDONE"}
                    THEN {Event("undo_started", 0, "none")} \cup {UndoneEvent(n) : n \in UndoneIn(g)}
                    ELSE {})
              \cup (IF y = "UNDONE" THEN {Event("undo_completed", 0, "none")} ELSE {})
  BY <1>2, StreamHas
<1>5. CASE event \in {ItemEvent(f, n) : n \in ReportedIn(f)}
  <2>1. PICK n \in ReportedIn(f) : event = ItemEvent(f, n)
    BY <1>5
  <2>2. CASE n \in ReportedIn(g) /\ (f[n] = "FAILED" <=> g[n] = "FAILED")
    <3>1. ItemEvent(g, n) = ItemEvent(f, n)
      BY <2>2 DEF ItemEvent
    <3> QED
      BY <1>4, <2>1, <2>2, <3>1
  <2>3. CASE b # a /\ f[n] = "FAILED"
    BY <2>1, <2>3 DEF ItemEvent, Event
  <2> QED
    BY <1>1, <2>2, <2>3 DEF RowGoes
<1>6. CASE x # "EXECUTING" /\ event = Closing(x)
  <2>1. event.kind = "completed"
    BY <1>6 DEF Closing, Event
  <2>2. y = x => event \in (IF y = "EXECUTING" THEN {} ELSE {Closing(y)})
    BY <1>6
  <2>3. x = "UNDOING" /\ y = "UNDONE" => Closing(y) = Closing(x)
    BY DEF Closing
  <2>4. y = x \/ y = "UNDOING" \/ b # a \/ (x = "UNDOING" /\ y = "UNDONE")
    BY <1>1, <1>6 DEF RowGoes
  <2> QED
    BY <1>4, <1>6, <2>1, <2>2, <2>3, <2>4
<1>7. CASE /\ x \in {"UNDOING", "UNDONE"}
           /\ event \in {Event("undo_started", 0, "none")} \cup {UndoneEvent(n) : n \in UndoneIn(f)}
  <2>1. y \in {"UNDOING", "UNDONE"} /\ UndoneIn(f) \subseteq UndoneIn(g)
    BY <1>7 DEF RowGoes
  <2> QED
    BY <1>4, <1>7, <2>1
<1>8. CASE x = "UNDONE" /\ event = Event("undo_completed", 0, "none")
  BY <1>4, <1>8 DEF RowGoes
<1> QED
  BY <1>3, <1>4, <1>5, <1>6, <1>7, <1>8

-----------------------------------------------------------------------------
(* The stream of events: the ids of an execution's first run. *)

LEMMA JoinedExtends ==
  ASSUME NEW S, NEW p \in Seq(S), NEW q \in Seq(S)
  PROVE  IsPrefix(p, p \o q)
<1>1. PICK r : r = p \o q
  OBVIOUS
<1>2. /\ r \in Seq(S) /\ Len(r) = Len(p) + Len(q) /\ Len(p) \in Nat /\ Len(q) \in Nat
      /\ \A i \in 1..Len(p) : r[i] = p[i]
  BY <1>1
<1>3. SubSeq(p, 1, Len(p)) = SubSeq(r, 1, Len(p))
  BY <1>2
<1> QED
  BY <1>1, <1>2, <1>3 DEF IsPrefix

LEMMA JoinedIs ==
  ASSUME NEW p \in Seq(RowEvent), NEW q \in Seq(RowEvent)
  PROVE  /\ p \o q \in Seq(RowEvent) /\ Len(p \o q) = Len(p) + Len(q)
         /\ \A i \in 1..Len(p) : (p \o q)[i] = p[i]
         /\ \A i \in 1..Len(q) : (p \o q)[Len(p) + i] = q[i]
OBVIOUS

\* A list that is continued.
Continues(p, q) == \E r \in Seq(RowEvent) : q = p \o r

LEMMA Continued ==
  ASSUME NEW k \in Nat, NEW j \in Nat, k <= j, NEW p \in Seq(RowEvent), NEW q \in Seq(RowEvent),
         Len(p) = k, Len(q) = j, \A i \in 1..k : p[i] = q[i]
  PROVE  Continues(p, q)
<1>1. PICK r : r = SubSeq(q, k + 1, j)
  OBVIOUS
<1>2. r \in Seq(RowEvent) /\ Len(r) = j - k /\ \A i \in 1..(j - k) : r[i] = q[k + i]
  BY <1>1
<1>3. PICK s : s = p \o r
  OBVIOUS
<1>4. /\ s \in Seq(RowEvent) /\ Len(s) = j
      /\ \A i \in 1..k : s[i] = p[i]
      /\ \A i \in 1..(j - k) : s[k + i] = r[i]
  <2> HIDE DEF RowEvent
  <2>1. /\ s \in Seq(RowEvent) /\ Len(s) = Len(p) + Len(r)
        /\ \A i \in 1..Len(p) : s[i] = p[i]
        /\ \A i \in 1..Len(r) : s[Len(p) + i] = r[i]
    <3>1. r \in Seq(RowEvent)
      BY <1>2
    <3> QED
      BY <1>3, <3>1, JoinedIs, Zenon
  <2> QED
    BY <1>2, <2>1
<1>5. ASSUME NEW i \in 1..j PROVE s[i] = q[i]
  <2>1. CASE i <= k
    BY <1>4, <2>1
  <2>2. CASE i > k
    <3>1. PICK d : d = i - k
      OBVIOUS
    <3>2. d \in 1..(j - k) /\ i = k + d
      BY <2>2, <3>1
    <3> QED
      BY <1>2, <1>4, <3>2
  <2> QED
    BY <2>1, <2>2
<1>6. s = q
  BY <1>4, <1>5
<1> QED
  BY <1>2, <1>3, <1>6 DEF Continues

LEMMA JoinAssociates ==
  ASSUME NEW p \in Seq(RowEvent), NEW q \in Seq(RowEvent), NEW r \in Seq(RowEvent)
  PROVE  p \o (q \o r) = (p \o q) \o r
OBVIOUS

LEMMA PrefixOfPrefix ==
  ASSUME NEW p \in Seq(RowEvent), NEW q \in Seq(RowEvent), NEW r \in Seq(RowEvent),
         IsPrefix(p, q), IsPrefix(q, r)
  PROVE  IsPrefix(p, r)
<1>1. /\ Len(p) \in Nat /\ Len(q) \in Nat /\ Len(r) \in Nat
      /\ Len(p) <= Len(q) /\ Len(q) <= Len(r)
  BY DEF IsPrefix
<1>2. \A i \in 1..Len(p) : p[i] = q[i]
  <2>1. ASSUME NEW i \in 1..Len(p) PROVE p[i] = q[i]
    <3>1. SubSeq(p, 1, Len(p))[i] = p[i] /\ SubSeq(q, 1, Len(p))[i] = q[i]
      BY <1>1
    <3> QED
      BY <3>1 DEF IsPrefix
  <2> QED
    BY <2>1
<1>3. \A i \in 1..Len(q) : q[i] = r[i]
  <2>1. ASSUME NEW i \in 1..Len(q) PROVE q[i] = r[i]
    <3>1. SubSeq(q, 1, Len(q))[i] = q[i] /\ SubSeq(r, 1, Len(q))[i] = r[i]
      BY <1>1
    <3> QED
      BY <3>1 DEF IsPrefix
  <2> QED
    BY <2>1
<1>4. \A i \in 1..Len(p) : p[i] = r[i]
  BY <1>1, <1>2, <1>3
<1>5. SubSeq(p, 1, Len(p)) = SubSeq(r, 1, Len(p))
  BY <1>1, <1>4
<1> QED
  BY <1>1, <1>5 DEF IsPrefix

\* The items come in plan order: more of them continue the list.
LEMMA ItemsContinue ==
  ASSUME NEW f, NEW g, NEW k \in 0..N, NEW j \in 0..N, k <= j,
         ReportedIn(f) = 1..k, ReportedIn(g) = 1..j,
         \A n \in 1..k : f[n] = "FAILED" <=> g[n] = "FAILED"
  PROVE  Continues(ItemPart(f), ItemPart(g))
<1>0. N \in Nat
  BY NAssumption
<1>1. /\ InPlanOrder(ReportedIn(f)) = [i \in 1..k |-> i]
      /\ InPlanOrder(ReportedIn(g)) = [i \in 1..j |-> i]
  BY PlanOrderCounts
<1>2. /\ ItemPart(f) = [i \in 1..k |-> ItemEvent(f, i)]
      /\ ItemPart(g) = [i \in 1..j |-> ItemEvent(g, i)]
  BY <1>1 DEF ItemPart
<1>3. ItemPart(f) \in Seq(RowEvent) /\ ItemPart(g) \in Seq(RowEvent)
  BY ItemPartHas
<1>4. \A i \in 1..k : ItemEvent(f, i) = ItemEvent(g, i)
  BY DEF ItemEvent
<1>5. PICK p : p = ItemPart(f)
  OBVIOUS
<1>6. PICK q : q = ItemPart(g)
  OBVIOUS
<1>7. /\ p \in Seq(RowEvent) /\ q \in Seq(RowEvent) /\ Len(p) = k /\ Len(q) = j
      /\ \A i \in 1..k : p[i] = q[i]
  BY <1>0, <1>2, <1>3, <1>4, <1>5, <1>6
<1>8. k \in Nat /\ j \in Nat
  BY <1>0
<1>9. Continues(p, q)
  BY <1>7, <1>8, Continued
<1> QED
  BY <1>5, <1>6, <1>9

LEMMA StreamContinues ==
  ASSUME NEW x \in ExecutionStatus, NEW y \in ExecutionStatus, NEW f, NEW g,
         x \in {"ABSENT", "EXECUTING", "COMPLETED"},
         x # "ABSENT" => y # "ABSENT",
         x = "EXECUTING" => Continues(ItemPart(f), ItemPart(g)),
         x = "COMPLETED" => y \in {"COMPLETED", "UNDOING"} /\ ItemPart(g) = ItemPart(f)
  PROVE  IsPrefix(StreamOf(x, f), StreamOf(y, g))
<1>1. CASE x = "ABSENT"
  <2>1. StreamOf(x, f) = <<>>
    BY <1>1 DEF StreamOf
  <2>2. StreamOf(y, g) \in Seq(RowEvent)
    <3>1. CASE y = "ABSENT"
      BY <3>1 DEF StreamOf
    <3>2. CASE y # "ABSENT"
      BY <3>2, StreamHas DEF StreamOf
    <3> QED
      BY <3>1, <3>2
  <2> QED
    BY <2>1, <2>2 DEF IsPrefix
<1>2. CASE x \in {"EXECUTING", "COMPLETED"}
  <2>0. PICK a : a = <<Event("started", 0, "none")>>
    OBVIOUS
  <2>1. PICK I : I = ItemPart(f)
    OBVIOUS
  <2>2. PICK C : C = ClosingPart(y)
    OBVIOUS
  <2>3. PICK U : U = UndoPart(y, g)
    OBVIOUS
  <2>4. a \in Seq(RowEvent) /\ I \in Seq(RowEvent) /\ C \in Seq(RowEvent) /\ U \in Seq(RowEvent)
    BY <1>2, <2>0, <2>1, <2>2, <2>3, StreamHas
  <2>5. CASE x = "EXECUTING"
    <3>1. PICK r \in Seq(RowEvent) : ItemPart(g) = I \o r
      BY <2>1, <2>5 DEF Continues
    <3>2. StreamOf(x, f) = a \o I
      <4>1. StreamOf(x, f) = ((a \o I) \o <<>>) \o <<>>
        BY <2>0, <2>1, <2>5 DEF StreamOf, ClosingPart, UndoPart
      <4> QED
        BY <2>4, <4>1
    <3>3. StreamOf(y, g) = ((a \o (I \o r)) \o C) \o U
      BY <1>2, <2>0, <2>2, <2>3, <3>1 DEF StreamOf
    <3>4. PICK l : l = a \o I
      OBVIOUS
    <3>5. a \o (I \o r) = l \o r
      <4>1. a \in Seq(RowEvent) /\ I \in Seq(RowEvent) /\ r \in Seq(RowEvent)
        BY <2>4, <3>1
      <4>2. a \o (I \o r) = (a \o I) \o r
        BY <4>1, JoinAssociates, Zenon
      <4> QED
        BY <3>4, <4>2, Zenon
    <3>6. PICK m : m = l \o r
      OBVIOUS
    <3>7. PICK n : n = m \o C
      OBVIOUS
    <3>8. l \in Seq(RowEvent) /\ m \in Seq(RowEvent) /\ n \in Seq(RowEvent) /\ n \o U \in Seq(RowEvent)
      BY <2>4, <3>1, <3>4, <3>6, <3>7
    <3>9. IsPrefix(l, m)
      BY <3>1, <3>6, <3>8, JoinedExtends
    <3>10. IsPrefix(m, n)
      BY <2>4, <3>7, <3>8, JoinedExtends
    <3>11. IsPrefix(n, n \o U)
      BY <2>4, <3>8, JoinedExtends
    <3>12. IsPrefix(l, n \o U)
      BY <3>8, <3>9, <3>10, <3>11, PrefixOfPrefix
    <3> QED
      BY <3>2, <3>3, <3>4, <3>5, <3>6, <3>7, <3>12, Zenon
  <2>6. CASE x = "COMPLETED"
    <3>1. ClosingPart(x) = C
      BY <2>2, <2>6 DEF ClosingPart, Closing
    <3>2. UndoPart(x, f) = <<>>
      BY <2>6 DEF UndoPart
    <3>3. PICK p : p = (a \o I) \o C
      OBVIOUS
    <3>4. p \in Seq(RowEvent)
      BY <2>4, <3>3
    <3>5. StreamOf(x, f) = p
      <4>1. StreamOf(x, f) = p \o <<>>
        BY <2>0, <2>1, <2>6, <3>1, <3>2, <3>3 DEF StreamOf
      <4> QED
        BY <3>4, <4>1
    <3>6. StreamOf(y, g) = p \o U
      BY <1>2, <2>0, <2>1, <2>2, <2>3, <2>6, <3>3 DEF StreamOf
    <3>7. IsPrefix(p, p \o U)
      BY <2>4, <3>4, JoinedExtends
    <3> QED
      BY <3>5, <3>6, <3>7, Zenon
  <2> QED
    BY <1>2, <2>5, <2>6
<1> QED
  BY <1>1, <1>2

-----------------------------------------------------------------------------
(* The stream of events is extended. *)

\* While an execution runs for the first time the list of its items grows at the end.
LEMMA ItemsGrow ==
  ASSUME TypeOK, OrderInv, StatusesAgree', OrderInv', NEW e \in Execution, RowMoves(e),
         execution[e] = "EXECUTING", attempt'[e] = 1
  PROVE  Continues(ItemPart(item[e]), ItemPart(item'[e])) /\ execution'[e] # "ABSENT"
<1>0. attempt[e] \in Nat \ {0}
  BY DEF TypeOK
<1>1. attempt[e] = 1 /\ execution'[e] \in {"EXECUTING", "COMPLETED", "PARTIALLY_COMPLETED", "FAILED"}
  BY <1>0 DEF RowMoves, Keeps, Created, Closed, Abandoned, Retried, UndoBegun, UndoEnded, Announced1,
              Decided, Restored, OneItem
<1>2. PICK f : f = item[e]
  OBVIOUS
<1>3. PICK g : g = item'[e]
  OBVIOUS
<1>4. /\ Reported(e) = ReportedIn(f) /\ Reported(e)' = ReportedIn(g)
      /\ ReportedIn(f) \subseteq Item /\ ReportedIn(g) \subseteq Item
  BY <1>2, <1>3, StreamIs DEF ReportedIn
<1>5. \A n \in ReportedIn(f) : n \in ReportedIn(g) /\ (f[n] = "FAILED" <=> g[n] = "FAILED")
  <2>1. RowGoes(execution[e], f, attempt[e], execution'[e], g, attempt'[e])
    BY <1>2, <1>3, RowGoesOn
  <2> QED
    BY <1>1, <2>1 DEF RowGoes
<1>6. \A n \in ReportedIn(f), m \in Item : m < n => m \in ReportedIn(f)
  BY <1>1, <1>4 DEF OrderInv, ReportsBegin
<1>7. \A n \in ReportedIn(g), m \in Item : m < n => m \in ReportedIn(g)
  <2>1. CASE execution'[e] = "EXECUTING"
    <3>1. ReportsBegin(e)'
      BY DEF OrderInv
    <3> QED
      BY <1>4, <2>1, <3>1 DEF ReportsBegin
  <2>2. CASE execution'[e] # "EXECUTING"
    <3>1. Agrees(e)'
      BY DEF StatusesAgree
    <3>2. \A n \in Item : item'[e][n] \in {"COMPLETED", "FAILED"}
      BY <1>1, <2>2, <3>1 DEF Agrees, Shows
    <3> QED
      BY <1>3, <3>2 DEF ReportedIn
  <2> QED
    BY <2>1, <2>2
<1>8. PICK k \in 0..N, j \in 0..N : k <= j /\ ReportedIn(f) = 1..k /\ ReportedIn(g) = 1..j
  <2>1. PICK A : A = ReportedIn(f)
    OBVIOUS
  <2>2. PICK B : B = ReportedIn(g)
    OBVIOUS
  <2>3. A \in SUBSET Item /\ B \in SUBSET Item /\ A \subseteq B
    BY <1>4, <1>5, <2>1, <2>2
  <2>4. \A n \in A, m \in Item : m < n => m \in A
    BY <1>6, <2>1
  <2>5. \A n \in B, m \in Item : m < n => m \in B
    BY <1>7, <2>2
  <2>6. PICK k \in 0..N : A = 1..k
    BY <2>3, <2>4, Beginnings
  <2>7. PICK j \in 0..N : B = 1..j
    BY <2>3, <2>5, Beginnings
  <2>8. k <= j
    BY NAssumption, <2>3, <2>6, <2>7
  <2> QED
    BY <2>1, <2>2, <2>6, <2>7, <2>8
<1>9. Continues(ItemPart(f), ItemPart(g))
  BY <1>5, <1>8, ItemsContinue
<1> QED
  BY <1>1, <1>2, <1>3, <1>9

LEMMA ItemsStay ==
  ASSUME NEW e \in Execution, RowMoves(e), execution[e] = "COMPLETED"
  PROVE  execution'[e] \in {"COMPLETED", "UNDOING"} /\ ItemPart(item'[e]) = ItemPart(item[e])
<1>1. /\ execution'[e] \in {"COMPLETED", "UNDOING"}
      /\ \A n \in Item : item'[e][n] = item[e][n] \/ (item[e][n] = "COMPLETED" /\ item'[e][n] = "UNDOING")
  BY DEF RowMoves, Keeps, Created, Closed, Abandoned, Retried, UndoBegun, UndoEnded, Announced1,
         Decided, Restored, OneItem
<1>2. PICK f : f = item[e]
  OBVIOUS
<1>3. PICK g : g = item'[e]
  OBVIOUS
<1>4. ReportedIn(g) = ReportedIn(f)
  BY <1>1, <1>2, <1>3 DEF ReportedIn
<1>5. PICK order : order = InPlanOrder(ReportedIn(f))
  OBVIOUS
<1>6. \A i \in DOMAIN order : order[i] \in ReportedIn(f)
  BY <1>5, PlanOrderHas DEF ReportedIn
<1>7. \A n \in ReportedIn(f) : ItemEvent(g, n) = ItemEvent(f, n)
  BY <1>1, <1>2, <1>3 DEF ItemEvent, ReportedIn
<1>8. \A i \in DOMAIN order : ItemEvent(g, order[i]) = ItemEvent(f, order[i])
  BY <1>6, <1>7
<1>9. [i \in DOMAIN order |-> ItemEvent(g, order[i])] = [i \in DOMAIN order |-> ItemEvent(f, order[i])]
  BY <1>8
<1>10. ItemPart(g) = ItemPart(f)
  BY <1>4, <1>5, <1>9 DEF ItemPart
<1> QED
  BY <1>1, <1>2, <1>3, <1>10

LEMMA StreamOfStep ==
  ASSUME TypeOK, OrderInv, TypeOK', StatusesAgree', OrderInv', NEW e \in Execution, RowMoves(e)
  PROVE  LET sent == Stream(e)
             gone == ToSet(sent) \ ToSet(Stream(e)') IN
         /\ ~StreamEnds(e) /\ execution[e] # "UNDOING" /\ attempt'[e] = 1 => IsPrefix(sent, Stream(e)')
         /\ \A event \in gone :
              \/ attempt'[e] # attempt[e] /\ event.kind \in {"item_failed", "completed"}
              \/ event.kind = "completed" /\ execution'[e] = "UNDOING"
<1>1. execution[e] \in ExecutionStatus /\ execution'[e] \in ExecutionStatus
  BY DEF TypeOK
<1>2. Stream(e) = StreamOf(execution[e], item[e]) /\ Stream(e)' = StreamOf(execution'[e], item'[e])
  BY StreamIs
<1>3. RowGoes(execution[e], item[e], attempt[e], execution'[e], item'[e], attempt'[e])
  BY RowGoesOn
<1>4. ASSUME NEW event \in ToSet(Stream(e)), event \notin ToSet(Stream(e)')
      PROVE  \/ attempt'[e] # attempt[e] /\ event.kind \in {"item_failed", "completed"}
             \/ event.kind = "completed" /\ execution'[e] = "UNDOING"
  <2>1. event \in ToSet(StreamOf(execution[e], item[e])) /\ event \notin ToSet(StreamOf(execution'[e], item'[e]))
    BY <1>2, <1>4
  <2> QED
    BY <1>1, <1>3, <2>1, EventsGone
<1>5. ASSUME ~StreamEnds(e), execution[e] # "UNDOING", attempt'[e] = 1
      PROVE  IsPrefix(Stream(e), Stream(e)')
  <2>1. execution[e] \in {"ABSENT", "EXECUTING", "COMPLETED"}
    BY <1>1, <1>5 DEF StreamEnds, ExecutionStatus
  <2>2. execution[e] # "ABSENT" => execution'[e] # "ABSENT"
    BY <1>3 DEF RowGoes
  <2>3. execution[e] = "EXECUTING" => Continues(ItemPart(item[e]), ItemPart(item'[e]))
    BY <1>5, ItemsGrow
  <2>4. execution[e] = "COMPLETED" =>
          execution'[e] \in {"COMPLETED", "UNDOING"} /\ ItemPart(item'[e]) = ItemPart(item[e])
    BY ItemsStay
  <2>5. IsPrefix(StreamOf(execution[e], item[e]), StreamOf(execution'[e], item'[e]))
    BY <1>1, <2>1, <2>2, <2>3, <2>4, StreamContinues
  <2> QED
    BY <1>2, <2>5
<1> QED
  BY <1>4, <1>5

\* What a client has been sent keeps its place while an execution runs for the
\* first time and until its undo starts, and is retracted only by a retry or by
\* the undo: events.py:413-580 over every step of the workflow's rows, with
\* crashes and recovery between them.
THEOREM WorkflowStreamIsExtended == Spec => WorkflowStreamExtends
<1> DEFINE inv == Inductive /\ StatusInv /\ OrderInv
<1>1. inv /\ inv' /\ [Next]_vars =>
        [\A e \in Execution :
           LET sent == Stream(e)
               gone == ToSet(sent) \ ToSet(Stream(e)') IN
           /\ ~StreamEnds(e) /\ execution[e] # "UNDOING" /\ attempt'[e] = 1 => IsPrefix(sent, Stream(e)')
           /\ \A event \in gone :
                \/ attempt'[e] # attempt[e] /\ event.kind \in {"item_failed", "completed"}
                \/ event.kind = "completed" /\ execution'[e] = "UNDOING"]_vars
  <2>1. ASSUME inv, inv', [Next]_vars, NEW e \in Execution
        PROVE  LET sent == Stream(e)
                   gone == ToSet(sent) \ ToSet(Stream(e)') IN
               /\ ~StreamEnds(e) /\ execution[e] # "UNDOING" /\ attempt'[e] = 1 => IsPrefix(sent, Stream(e)')
               /\ \A event \in gone :
                    \/ attempt'[e] # attempt[e] /\ event.kind \in {"item_failed", "completed"}
                    \/ event.kind = "completed" /\ execution'[e] = "UNDOING"
    <3>1. /\ TypeOK /\ DriverInv /\ FileInv /\ StatusInv /\ OrderInv
          /\ TypeOK' /\ StatusesAgree' /\ OrderInv'
      BY <2>1 DEF Inductive, StatusInv
    <3>2. RowMoves(e)
      BY <2>1, <3>1, NextMoves
    <3> QED
      BY <3>1, <3>2, StreamOfStep
  <2> QED
    BY <2>1
<1>2. Spec => []inv
  BY OrderInvariant
<1> QED
  BY <1>1, <1>2, PTL DEF Spec, WorkflowStreamExtends
=============================================================================
