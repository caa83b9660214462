---------------------------- MODULE ApprovalProofs ----------------------------
(***************************************************************************)
(* Proofs about ApprovalWorkflow, for any plans, clients and number of     *)
(* failures.                                                               *)
(***************************************************************************)
EXTENDS ApprovalInvariants, ApprovalQueries, SequenceTheorems, TLAPS

USE NoneAssumption, TargetsAssumption, FaultAssumption

-----------------------------------------------------------------------------
(* Types *)

\* Every kind of request enters with well-typed arguments and a plan that has
\* a row, if it names one (organization_api.py:1293-1330).
LEMMA RequestShape ==
  ASSUME NEW t \in Client,
         DecisionRequested(t) \/ EditRequested(t) \/ ExecuteRequested(t)
  PROVE  \E a \in Decision \cup {"edit", "execute"}, p \in Plan \cup {None},
            r \in {AnyRevision, operation.revision}, w \in Target \cup {None} :
           /\ Request(t, a, p, r, w)
           /\ a # "execute" => p \in Plan /\ row[p] # "ABSENT"
  BY DEF DecisionRequested, EditRequested, ExecuteRequested, Known, Decision

LEMMA IdleTyped == Idle \in Local /\ Role(Idle)
  BY DEF Idle, Local, Pc, Checkpoint, CheckpointStatus, NoCheckpoint, AnyRevision, Role

LEMMA TypeInit == Init => Typed
<1> SUFFICES ASSUME Init PROVE Typed
  OBVIOUS
<1>1. thread \in [Client -> Local] /\ \A t \in Client : Role(thread[t])
  BY IdleTyped DEF Init
<1> QED
  BY <1>1 DEF Init, Typed, TypeOK, NoCheckpoint, Checkpoint, CheckpointStatus, RowStatus, ApprovalStatus

Locals == thread \in [Client -> Local] /\ \A t \in Client : Role(thread[t])

\* A request that steps to a well-typed memory keeps all of them well typed.
LEMMA LocalsStep ==
  ASSUME Locals, NEW t \in Client, NEW l \in Local, Role(l), thread' = [thread EXCEPT ![t] = l]
  PROVE  Locals'
  BY DEF Locals

LEMMA FinishTyped ==
  ASSUME Locals, NEW t \in Client, Finish(t)
  PROVE  Locals'
  BY IdleTyped, LocalsStep DEF Finish

LEMMA GotoTyped ==
  ASSUME Locals, NEW t \in Client, NEW pc \in Pc, Goto(t, pc),
         Role([thread[t] EXCEPT !.pc = pc])
  PROVE  Locals'
<1>1. [thread[t] EXCEPT !.pc = pc] \in Local
  BY DEF Locals, Local
<1>2. thread' = [thread EXCEPT ![t] = [thread[t] EXCEPT !.pc = pc]]
  BY DEF Goto
<1> QED
  BY <1>1, <1>2, LocalsStep

LEMMA LeftoverTyped ==
  ASSUME Locals, NEW t \in Client, NEW c \in Leftover(t)
  PROVE  c \in Checkpoint
  BY DEF Locals, Leftover, Local, Initial, Checkpoint, CheckpointStatus

LEMMA TypeStep == Typed /\ [Next]_vars => Typed'
<1> SUFFICES ASSUME Typed, [Next]_vars PROVE Typed'
  OBVIOUS
<1> USE DEF rows
<1>l. Locals
  BY DEF Locals, Typed, TypeOK
<1>m. \A t \in Client : thread[t] \in Local /\ Role(thread[t])
  BY <1>l DEF Locals
<1>c. checkpoint \in Checkpoint
  BY DEF Typed, TypeOK
<1>o. operation \in [status : ApprovalStatus \cup {"ABSENT", "EXECUTING"},
                    plan : Plan \cup {None}, revision : Nat]
  BY DEF Typed, TypeOK
<1>t. ASSUME Locals', UNCHANGED <<rows, checkpoint, lock, faults>> PROVE Typed'
  BY <1>t DEF Typed, TypeOK, Locals
<1>0. CASE UNCHANGED vars
  BY <1>0 DEF vars, Typed, TypeOK
<1>1. ASSUME NEW t \in Client, CreateFlush(t) PROVE Typed'
  <2>1. PICK p \in Plan :
          thread' = [thread EXCEPT ![t] = [Idle EXCEPT !.pc = "pause", !.action = "create", !.new = p]]
    BY <1>1 DEF CreateFlush
  <2>2. [Idle EXCEPT !.pc = "pause", !.action = "create", !.new = p] \in Local
    BY IdleTyped DEF Local, Pc
  <2>r. Role([Idle EXCEPT !.pc = "pause", !.action = "create", !.new = p])
    BY DEF Role, Idle
  <2>3. Locals'
    BY <2>1, <2>2, <2>r, <1>l, LocalsStep
  <2> QED
    BY <2>3, <1>1 DEF CreateFlush, Typed, TypeOK, Locals
<1>2. ASSUME NEW t \in Client, CreatePause(t) PROVE Typed'
  <2>r. Role([thread[t] EXCEPT !.pc = "publish"])
    BY <1>2, <1>m DEF CreatePause, At, Role, Local
  <2>1. Locals'
    BY <1>2, <2>r, <1>l, GotoTyped DEF CreatePause, Pc
  <2>2. checkpoint' \in Checkpoint
    <3>1. checkpoint' = [plan |-> thread[t].new, status |-> "waiting", revision |-> 1]
      BY <1>2 DEF CreatePause, Paused, Initial
    <3> QED
      BY <3>1, <1>m DEF Checkpoint, CheckpointStatus, Local
  <2> QED
    BY <1>2, <2>1, <2>2 DEF CreatePause, Typed, TypeOK, Locals
<1>3. ASSUME NEW t \in Client, CreatePublish(t) PROVE Typed'
  <2>1. Locals'
    BY <1>3, <1>l, FinishTyped DEF CreatePublish
  <2>2. thread[t].new \in Plan \cup {None}
    BY <1>l DEF Locals, Local
  <2> QED
    BY <1>3, <2>1, <2>2 DEF CreatePublish, Release, Typed, TypeOK, Locals, ApprovalStatus, RowStatus
<1>4. ASSUME NEW t \in Client, DecisionRequested(t) \/ EditRequested(t) \/ ExecuteRequested(t)
     PROVE  Typed'
  <2>1. PICK a \in Decision \cup {"edit", "execute"}, p \in Plan \cup {None},
             r \in {AnyRevision, operation.revision}, w \in Target \cup {None} :
          Request(t, a, p, r, w)
    BY <1>4, RequestShape
  <2> DEFINE l == [Idle EXCEPT !.pc = "load", !.action = a, !.plan = p, !.revision = r, !.want = w]
  <2>2. r \in Nat \cup {AnyRevision}
    BY DEF Typed, TypeOK
  <2>3. l \in Local
    BY <2>2, IdleTyped DEF Local, Pc
  <2>r. Role(l)
    BY IdleTyped DEF Role, Local
  <2>4. thread' = [thread EXCEPT ![t] = l]
    BY <2>1 DEF Request
  <2>5. Locals'
    BY <2>3, <2>r, <2>4, <1>l, LocalsStep
  <2> QED
    BY <2>1, <2>5, <1>t DEF Request
<1>5. ASSUME NEW t \in Client, Load(t) PROVE Typed'
  <2> DEFINE l == [thread[t] EXCEPT !.pc = "read", !.seen = checkpoint]
  <2>1. l \in Local
    BY <1>m, <1>c DEF Local, Pc
  <2>r. Role(l)
    BY <1>5, <1>m DEF Load, At, Local, Role
  <2>2. thread' = [thread EXCEPT ![t] = l]
    BY <1>5 DEF Load
  <2> QED
    BY <1>5, <2>1, <2>r, <2>2, <1>l, <1>t, LocalsStep DEF Load
<1>6. ASSUME NEW t \in Client, LoadRefused(t) PROVE Typed'
  <2>1. Locals'
    BY <1>6, <1>l, FinishTyped DEF LoadRefused, Refuse
  <2> QED
    BY <1>6, <2>1 DEF LoadRefused, Refuse, Release, Typed, TypeOK, Locals
<1>7. ASSUME NEW t \in Client, ReadDecisionRefused(t) PROVE Typed'
  <2>1. Locals'
    BY <1>7, <1>l, FinishTyped DEF ReadDecisionRefused, Refuse
  <2> QED
    BY <1>7, <2>1 DEF ReadDecisionRefused, Refuse, Release, Typed, TypeOK, Locals
<1>8. ASSUME NEW t \in Client, ReadEditRefused(t) PROVE Typed'
  <2>1. Locals'
    BY <1>8, <1>l, FinishTyped DEF ReadEditRefused, Refuse
  <2> QED
    BY <1>8, <2>1 DEF ReadEditRefused, Refuse, Release, Typed, TypeOK, Locals
<1>9. ASSUME NEW t \in Client, InsertRefused(t) PROVE Typed'
  <2>1. Locals'
    BY <1>9, <1>l, FinishTyped DEF InsertRefused, Refuse
  <2> QED
    BY <1>9, <2>1 DEF InsertRefused, Refuse, Release, Typed, TypeOK, Locals
<1>10. ASSUME NEW t \in Client, LockTimeout(t) PROVE Typed'
  <2>1. Locals'
    BY <1>10, <1>l, FinishTyped DEF LockTimeout, Refuse
  <2> QED
    BY <1>10, <2>1 DEF LockTimeout, Refuse, Release, Typed, TypeOK, Locals
<1>11. ASSUME NEW t \in Client, ExecuteRefused(t) PROVE Typed'
  <2>1. Locals'
    BY <1>11, <1>l, FinishTyped DEF ExecuteRefused, Refuse
  <2> QED
    BY <1>11, <2>1 DEF ExecuteRefused, Refuse, Release, Typed, TypeOK, Locals
<1>12. ASSUME NEW t \in Client, ReadDecision(t) PROVE Typed'
  <2>1. CASE Finish(t)
    BY <1>12, <2>1, <1>l, <1>t, FinishTyped DEF ReadDecision
  <2>2. ASSUME NEW pc \in {"transact", "invoke"}, Goto(t, pc) PROVE Typed'
    <3>1. Role([thread[t] EXCEPT !.pc = pc])
      BY <1>12, <1>l DEF ReadDecision, Role, Locals, Local
    <3> QED
      BY <1>12, <2>2, <3>1, <1>l, <1>t, GotoTyped DEF ReadDecision, Pc
  <2> QED
    BY <1>12, <2>1, <2>2 DEF ReadDecision
<1>13. ASSUME NEW t \in Client, ReadEdit(t) PROVE Typed'
  <2>1. CASE Goto(t, "insert")
    <3>1. Role([thread[t] EXCEPT !.pc = "insert"])
      BY <1>13, <1>l DEF ReadEdit, Role, Locals, Local
    <3> QED
      BY <1>13, <2>1, <3>1, <1>l, <1>t, GotoTyped DEF ReadEdit, Pc
  <2>2. CASE thread' = [thread EXCEPT ![t].new = thread[t].seen.plan, ![t].pc = "insert"]
    <3> DEFINE l == [thread[t] EXCEPT !.new = thread[t].seen.plan, !.pc = "insert"]
    <3>1. l \in Local
      BY <1>m DEF Local, Pc, Checkpoint
    <3>r. Role(l)
      BY <1>13, <1>m DEF ReadEdit, Role, Local
    <3>2. thread' = [thread EXCEPT ![t] = l]
      BY <2>2
    <3> QED
      BY <1>13, <3>1, <3>r, <3>2, <1>l, <1>t, LocalsStep DEF ReadEdit
  <2> QED
    BY <1>13, <2>1, <2>2 DEF ReadEdit
<1>14. ASSUME NEW t \in Client, InsertNew(t) PROVE Typed'
  <2>1. PICK p \in Plan : thread' = [thread EXCEPT ![t].new = p, ![t].pc = "invoke"]
    BY <1>14 DEF InsertNew
  <2> DEFINE l == [thread[t] EXCEPT !.new = p, !.pc = "invoke"]
  <2>0. thread[t] \in Local /\ Role(thread[t]) /\ thread[t].pc = "insert"
    BY <1>14, <1>m DEF InsertNew, At
  <2>a. l \in Local
    BY <2>0 DEF Local, Pc
  <2>b. l.pc = "invoke" /\ l.action = "edit"
    BY <2>0 DEF Local, Role
  <2>2. l \in Local /\ Role(l)
    BY <2>a, <2>b DEF Role
  <2>3. Locals'
    BY <2>1, <2>2, <1>l, LocalsStep
  <2> QED
    BY <1>14, <2>3 DEF InsertNew, Typed, TypeOK, Locals
<1>15. ASSUME NEW t \in Client, InsertStaged(t) PROVE Typed'
  <2>1. Role([thread[t] EXCEPT !.pc = "transact"])
    BY <1>15, <1>l DEF InsertStaged, At, Role, Locals, Local
  <2>2. Locals'
    BY <1>15, <2>1, <1>l, GotoTyped DEF InsertStaged, Pc
  <2> QED
    BY <1>15, <2>2 DEF InsertStaged, Typed, TypeOK, Locals
<1>16. ASSUME NEW t \in Client, InsertFound(t) PROVE Typed'
  <2>1. Role([thread[t] EXCEPT !.pc = "transact"])
    BY <1>16, <1>l DEF InsertFound, At, Role, Locals, Local
  <2>2. Locals'
    BY <1>16, <2>1, <1>l, GotoTyped DEF InsertFound, Pc
  <2> QED
    BY <1>16, <2>2 DEF InsertFound, Typed, TypeOK, Locals
<1>17. ASSUME NEW t \in Client, Invoke(t) PROVE Typed'
  <2> DEFINE l == [thread[t] EXCEPT !.pc = "apply", !.loaded = checkpoint]
  <2>0. thread[t] \in Local /\ Role(thread[t]) /\ thread[t].pc = "invoke"
    BY <1>17, <1>m DEF Invoke, At
  <2>a. l \in Local
    BY <2>0, <1>c DEF Local, Pc
  <2>b. l.pc = "apply" /\ l.action = thread[t].action
    BY <2>0 DEF Local
  <2>c. thread[t].action \in Decision \cup {"edit"}
    BY <2>0 DEF Role
  <2>1. l \in Local /\ Role(l)
    BY <2>a, <2>b, <2>c DEF Role
  <2>2. thread' = [thread EXCEPT ![t] = l]
    BY <1>17 DEF Invoke
  <2> HIDE DEF l
  <2> QED
    BY <1>17, <2>1, <2>2, <1>l, <1>t, LocalsStep DEF Invoke
<1>18. ASSUME NEW t \in Client, Apply(t) PROVE Typed'
  <2>1. Role([thread[t] EXCEPT !.pc = "transact"])
    BY <1>18, <1>l DEF Apply, At, Role, Locals, Local
  <2>2. Locals'
    BY <1>18, <2>1, <1>l, GotoTyped, FinishTyped DEF Apply, Pc
  <2>3. thread[t].action \in Decision \cup {"edit"}
    BY <1>18, <1>l DEF Apply, At, Role, Locals
  <2>4. thread[t].loaded \in Checkpoint /\ thread[t].new \in Plan \cup {None}
    BY <1>l DEF Locals, Local
  <2>a. thread[t].loaded.revision + 1 \in Nat
    BY <2>4 DEF Checkpoint
  <2>b. ASSUME thread[t].action = "edit" PROVE Advanced(thread[t].loaded, t) \in Checkpoint
    BY <2>4, <2>a, <2>b DEF Advanced, Checkpoint, CheckpointStatus
  <2>c. ASSUME thread[t].action \in Decision PROVE Advanced(thread[t].loaded, t) \in Checkpoint
    <3>1. Settled[thread[t].action] \in CheckpointStatus /\ ~(thread[t].action = "edit")
      BY <2>c DEF Settled, Decision, CheckpointStatus
    <3> QED
      BY <2>4, <2>a, <3>1 DEF Advanced, Checkpoint
  <2>5. Advanced(thread[t].loaded, t) \in Checkpoint
    BY <2>3, <2>b, <2>c
  <2> QED
    BY <1>18, <2>2, <2>5 DEF Apply, Typed, TypeOK, Locals
<1>19. ASSUME NEW t \in Client, ApplyRefused(t) PROVE Typed'
  <2>1. Locals'
    BY <1>19, <1>l, FinishTyped DEF ApplyRefused
  <2>2. checkpoint' \in Checkpoint
    BY <1>19, <1>l, LeftoverTyped DEF ApplyRefused, Typed, TypeOK
  <2> QED
    BY <1>19, <2>1, <2>2 DEF ApplyRefused, Release, Typed, TypeOK, Locals
<1>20. ASSUME NEW t \in Client, TransactDecision(t) PROVE Typed'
  <2>1. Role([thread[t] EXCEPT !.pc = "invoke"])
    BY <1>20, <1>l DEF TransactDecision, Role, Locals, Local
  <2>2. Locals'
    BY <1>20, <2>1, <1>l, GotoTyped DEF TransactDecision, Pc
  <2>3. thread[t].plan \in Plan \cup {None}
    BY <1>l DEF Locals, Local
  <2>4. Outcome[thread[t].action] \in DecidedStatus
    BY <1>20 DEF TransactDecision, Outcome, Decision, DecidedStatus
  <2>5. /\ approval' \in [status : ApprovalStatus \cup {"ABSENT"}, plan : Plan \cup {None}]
        /\ approval'.status \in ApprovalStatus
    BY <1>20, <2>4 DEF TransactDecision, Typed, TypeOK, ApprovalStatus
  <2>6. audit' \in Seq([action : Decision \cup {"edit"}, status : ApprovalStatus,
                       from : Plan \cup {None}, to : Plan \cup {None}])
    BY <1>20, <2>3, <2>5 DEF TransactDecision, Record, Typed, TypeOK
  <2>7. row' \in [Plan -> RowStatus]
    BY <1>20, <2>4 DEF TransactDecision, Typed, TypeOK, RowStatus, ApprovalStatus
  <2>8. operation' \in [status : ApprovalStatus \cup {"ABSENT", "EXECUTING"},
                       plan : Plan \cup {None}, revision : Nat]
    BY <1>20, <2>3, <2>4 DEF TransactDecision, Typed, TypeOK, ApprovalStatus
  <2> QED
    BY <1>20, <2>2, <2>5, <2>6, <2>7, <2>8 DEF TransactDecision, Typed, TypeOK, Locals
<1>21. ASSUME NEW t \in Client, TransactEdit(t) PROVE Typed'
  <2>1. Locals'
    BY <1>21, <1>l, FinishTyped DEF TransactEdit
  <2>2. thread[t].plan \in Plan \cup {None} /\ thread[t].new \in Plan \cup {None}
    BY <1>l DEF Locals, Local
  <2>3. /\ approval' \in [status : ApprovalStatus \cup {"ABSENT"}, plan : Plan \cup {None}]
        /\ approval'.status \in ApprovalStatus
    BY <1>21, <2>2 DEF TransactEdit, Transactable, Typed, TypeOK, ApprovalStatus
  <2>4. audit' \in Seq([action : Decision \cup {"edit"}, status : ApprovalStatus,
                       from : Plan \cup {None}, to : Plan \cup {None}])
    BY <1>21, <2>2, <2>3 DEF TransactEdit, Record, Typed, TypeOK
  <2>5. row' \in [Plan -> RowStatus] /\ parent' \in [Plan -> Plan \cup {None}]
    BY <1>21, <2>2 DEF TransactEdit, Typed, TypeOK, RowStatus, ApprovalStatus
  <2>6. operation' \in [status : ApprovalStatus \cup {"ABSENT", "EXECUTING"},
                       plan : Plan \cup {None}, revision : Nat]
    BY <1>21, <2>2, <1>o DEF TransactEdit, ApprovalStatus
  <2> QED
    BY <1>21, <2>1, <2>3, <2>4, <2>5, <2>6 DEF TransactEdit, Release, Typed, TypeOK, Locals
<1>22. ASSUME NEW t \in Client, TransactLost(t) PROVE Typed'
  <2>1. Role([thread[t] EXCEPT !.pc = "invoke"])
    BY <1>22, <1>l DEF TransactLost, At, Role, Locals, Local
  <2>2. Locals'
    BY <1>22, <2>1, <1>l, GotoTyped, FinishTyped DEF TransactLost, Pc
  <2> QED
    BY <1>22, <2>2 DEF TransactLost, Release, Typed, TypeOK, Locals
<1>23. ASSUME NEW t \in Client, Execute(t) PROVE Typed'
  <2>1. Locals'
    BY <1>23, <1>l, FinishTyped DEF Execute
  <2>2. operation' \in [status : ApprovalStatus \cup {"ABSENT", "EXECUTING"},
                       plan : Plan \cup {None}, revision : Nat]
    BY <1>23, <1>o DEF Execute
  <2> QED
    BY <1>23, <2>1, <2>2 DEF Execute, Typed, TypeOK, Locals
<1>24. ASSUME NEW t \in Client, Fault(t) PROVE Typed'
  <2>1. Locals'
    BY <1>24, <1>l, FinishTyped DEF Fault
  <2>2. checkpoint' \in Checkpoint
    BY <1>24, <1>l, LeftoverTyped DEF Fault, Typed, TypeOK
  <2> QED
    BY <1>24, <2>1, <2>2 DEF Fault, Release, Typed, TypeOK, Locals
<1>25. CASE Crash
  <2>1. Locals'
    BY <1>25, IdleTyped DEF Crash, Locals
  <2>2. checkpoint' \in Checkpoint
    BY <1>25, <1>l, LeftoverTyped DEF Crash, Typed, TypeOK
  <2> QED
    BY <1>25, <2>1, <2>2 DEF Crash, Typed, TypeOK, Locals
<1> QED
  BY <1>0, <1>1, <1>2, <1>3, <1>4, <1>5, <1>6, <1>7, <1>8, <1>9, <1>10, <1>11, <1>12, <1>13, <1>14, <1>15, <1>16, <1>17, <1>18, <1>19, <1>20, <1>21, <1>22, <1>23, <1>24, <1>25 DEF Next, Step

\* Rows, checkpoint and requests have their types in every reachable state.
THEOREM ApprovalTypeCorrect == Spec => []TypeOK
<1>1. Typed => TypeOK
  BY DEF Typed
<1> QED
  BY <1>1, TypeInit, TypeStep, PTL DEF Spec
-----------------------------------------------------------------------------
(* The two stores *)

Stores == BeforePublication /\ AfterPublication /\ ThreadSound

LEMMA StoresInit == Init => Stores
  BY DEF Init, Stores, BeforePublication, AfterPublication, ThreadSound, SoundFor, Exists, Idle,
         RequestSound, SeenSound, DecisionSound, EditSound, LoadedSound, RevisionSound, Working, At

\* A request that ends relies on nothing.
LEMMA IdleSound ==
  ASSUME NEW t \in Client, thread'[t] = Idle
  PROVE  SoundFor(t)'
  BY DEF SoundFor, Idle, RequestSound, SeenSound, DecisionSound, EditSound, LoadedSound,
         RevisionSound, Working, At

\* While the approval waits, a step that keeps the rows moves the checkpoint
\* only from the approval's plan and under the lock: what the other requests
\* rely on stays true.
LEMMA CheckpointStep ==
  ASSUME Typed, Stores, Exists, NEW t \in Client,
         UNCHANGED rows, Sound(checkpoint)',
         approval.status = "WAITING_APPROVAL" =>
           checkpoint' = checkpoint \/ (Aligned(checkpoint) /\ lock = t),
         \A u \in Client \ {t} : thread'[u] = thread[u] /\ (lock = u => lock' = u),
         SoundFor(t)', thread'[t].pc \notin {"pause", "publish"}
  PROVE  Stores'
<1> USE DEF rows
<1>1. Exists' /\ Base' = Base
  BY DEF Exists, Base
<1>2. AfterPublication'
  BY <1>1 DEF AfterPublication, Stores, TablesAgree
<1>3. ASSUME NEW u \in Client \ {t} PROVE SoundFor(u)'
  <2>1. thread'[u] = thread[u] /\ SoundFor(u)
    BY DEF Stores, ThreadSound
  <2>r. RequestSound(u)'
    BY <2>1, <1>1 DEF SoundFor, RequestSound
  <2>s. SeenSound(u)'
    BY <2>1, <1>1 DEF SoundFor, SeenSound, Working
  <2>d. DecisionSound(u)'
    BY <2>1, <1>1 DEF SoundFor, DecisionSound, Working, At
  <2>v. RevisionSound(u)'
    BY <2>1, <1>1 DEF SoundFor, RevisionSound, Pending
  <2>3. LoadedSound(u)'
    <3>1. PICK c : c = thread[u].loaded
      OBVIOUS
    <3>2. Sound(c) => Sound(c)'
      BY <1>1 DEF Sound, Aligned, Answered, StagedAhead
    <3> QED
      BY <2>1, <3>1, <3>2 DEF SoundFor, LoadedSound, At, Sound, Aligned, Answered, StagedAhead
  <2>4. EditSound(u)'
    <3>1. CASE checkpoint' = checkpoint
      BY <2>1, <1>1, <3>1 DEF SoundFor, EditSound, Staged, Pending, StagedAhead, Working, At
    <3>2. CASE approval.status # "WAITING_APPROVAL"
      BY <2>1, <1>1, <3>2 DEF SoundFor, EditSound, Staged, Pending, Working, At
    <3>3. CASE approval.status = "WAITING_APPROVAL" /\ Aligned(checkpoint) /\ lock = t
      BY <2>1, <1>1, <3>3 DEF SoundFor, EditSound, Staged, Pending, Working, At, Aligned
    <3> QED
      BY <3>1, <3>2, <3>3
  <2> QED
    BY <2>r, <2>s, <2>d, <2>v, <2>3, <2>4 DEF SoundFor
<1> QED
  BY <1>1, <1>2, <1>3 DEF Stores, BeforePublication, ThreadSound

LEMMA QuietStep ==
  ASSUME Typed, Stores, Exists, NEW t \in Client,
         UNCHANGED rows, UNCHANGED checkpoint,
         \A u \in Client \ {t} : thread'[u] = thread[u] /\ (lock = u => lock' = u),
         SoundFor(t)', thread'[t].pc \notin {"pause", "publish"}
  PROVE  Stores'
<1>1. Sound(checkpoint)'
  BY DEF Stores, AfterPublication, Sound, Aligned, Answered, StagedAhead, Base, rows
<1> QED
  BY <1>1, CheckpointStep

\* Steps that end a request without any effect.
LEMMA EndStep ==
  ASSUME Typed, Stores, Exists, NEW t \in Client,
         UNCHANGED rows, UNCHANGED checkpoint, Finish(t), lock' = lock \/ Release(t)
  PROVE  Stores'
<1>1. thread'[t] = Idle /\ \A u \in Client \ {t} : thread'[u] = thread[u] /\ (lock = u => lock' = u)
  BY DEF Finish, Release, Typed, TypeOK
<1>2. SoundFor(t)'
  BY <1>1, IdleSound
<1>3. thread'[t].pc \notin {"pause", "publish"}
  BY <1>1 DEF Idle
<1> QED
  BY <1>1, <1>2, <1>3, QuietStep

\* What is known of a request that has begun.
LEMMA Begun ==
  ASSUME Typed, Stores, NEW t \in Client, thread[t].pc \notin {"idle", "pause", "publish"}
  PROVE  /\ Exists /\ AfterPublication /\ SoundFor(t)
         /\ Sound(checkpoint) /\ TablesAgree /\ approval.plan \in Plan
  BY DEF Stores, BeforePublication, AfterPublication, ThreadSound

\* What the types say of the numbers and plans the proofs compare.
LEMMA Numbers ==
  ASSUME Typed, NEW t \in Client
  PROVE  /\ operation.revision \in Nat /\ checkpoint.revision \in Nat /\ Base \in Int
         /\ thread[t].seen.revision \in Nat /\ thread[t].loaded.revision \in Nat
         /\ thread[t].pc \in Pc
<1>1. operation.revision \in Nat /\ checkpoint.revision \in Nat
  BY DEF Typed, TypeOK, Checkpoint
<1>2. thread[t] \in Local
  BY DEF Typed, TypeOK
<1> QED
  BY <1>1, <1>2 DEF Local, Checkpoint, Base

\* The requests' own steps towards the stores, one by one.
LEMMA RequestStep ==
  ASSUME Typed, Stores, NEW t \in Client,
         DecisionRequested(t) \/ EditRequested(t) \/ ExecuteRequested(t)
  PROVE  Stores'
<1>1. PICK a \in Decision \cup {"edit", "execute"}, p \in Plan \cup {None},
           r \in {AnyRevision, operation.revision}, w \in Target \cup {None} :
        /\ Request(t, a, p, r, w)
        /\ a # "execute" => p \in Plan /\ row[p] # "ABSENT"
        /\ a = "execute" => p = None
  BY DEF DecisionRequested, EditRequested, ExecuteRequested, Known, Decision
<1> DEFINE l == [Idle EXCEPT !.pc = "load", !.action = a, !.plan = p, !.revision = r, !.want = w]
<1>2. /\ l.pc = "load" /\ l.action = a /\ l.plan = p /\ l.revision = r
  BY DEF Idle
<1>3. thread'[t] = l /\ \A u \in Client \ {t} : thread'[u] = thread[u]
  BY <1>1 DEF Request, Typed, TypeOK
<1>4. Exists /\ UNCHANGED rows /\ UNCHANGED <<checkpoint, lock>>
  BY <1>1 DEF Request, Exists, rows
<1> HIDE DEF l
<1>5. SoundFor(t)'
  <2>1. RequestSound(t)'
    BY <1>1, <1>2, <1>3, <1>4 DEF RequestSound, Exists, rows, Decision
  <2>2. RevisionSound(t)'
    BY <1>1, <1>2, <1>3, <1>4 DEF RevisionSound, rows
  <2>3. SeenSound(t)' /\ DecisionSound(t)' /\ EditSound(t)' /\ LoadedSound(t)'
    BY <1>2, <1>3 DEF SeenSound, DecisionSound, EditSound, LoadedSound, Working, At
  <2> QED
    BY <2>1, <2>2, <2>3 DEF SoundFor
<1> QED
  BY <1>2, <1>3, <1>4, <1>5, QuietStep

LEMMA LoadStep ==
  ASSUME Typed, Stores, NEW t \in Client, Load(t)
  PROVE  Stores'
<1> USE DEF rows
<1>1. /\ thread'[t] = [thread[t] EXCEPT !.pc = "read", !.seen = checkpoint]
      /\ \A u \in Client \ {t} : thread'[u] = thread[u]
  BY DEF Load, Typed, TypeOK
<1>2. /\ thread'[t].pc = "read" /\ thread'[t].seen = checkpoint
      /\ thread'[t].action = thread[t].action /\ thread'[t].plan = thread[t].plan
      /\ thread'[t].revision = thread[t].revision
  BY <1>1 DEF Typed, TypeOK, Local
<1>3. /\ Exists /\ SoundFor(t) /\ Sound(checkpoint) /\ TablesAgree /\ approval.plan \in Plan
      /\ Base' = Base
  BY Begun DEF Load, At, Base
<1>4. RequestSound(t)' /\ RevisionSound(t)' /\ LoadedSound(t)'
  BY <1>2, <1>3 DEF SoundFor, RequestSound, RevisionSound, LoadedSound, Load, At, Exists, Pending
<1>5. SeenSound(t)'
  <2>1. CASE Aligned(checkpoint)
    BY <2>1, <1>2, <1>3 DEF SeenSound, Aligned, Load, Working
  <2>2. CASE Answered(checkpoint)
    BY <2>2, <1>2, <1>3 DEF SeenSound, Answered, Load, Working, Decision, Settled
  <2>3. CASE StagedAhead(checkpoint)
    BY <2>3, <1>2, <1>3 DEF SeenSound, StagedAhead, Load, Working, At, TablesAgree, Exists,
       SoundFor, RequestSound
  <2> QED
    BY <2>1, <2>2, <2>3, <1>3 DEF Sound
<1>6. DecisionSound(t)'
  <2> SUFFICES ASSUME thread[t].action \in Decision PROVE DecisionSound(t)'
    BY <1>2 DEF DecisionSound
  <2>1. checkpoint.plan = thread[t].plan /\ checkpoint.status \in {"waiting", Settled[thread[t].action]}
    BY DEF Load, DecisionAccepts
  <2>2. ASSUME checkpoint.status # "waiting"
        PROVE  approval = [status |-> Outcome[thread[t].action], plan |-> thread[t].plan]
    <3>1. PICK a \in Decision :
            checkpoint.plan = approval.plan /\ approval.status = Outcome[a] /\ checkpoint.status = Settled[a]
      BY <2>2, <1>3 DEF Sound, Aligned, Answered, StagedAhead
    <3>2. a = thread[t].action
      BY <2>1, <2>2, <3>1 DEF Settled, Decision
    <3> QED
      BY <2>1, <3>1, <3>2 DEF Typed, TypeOK
  <2> QED
    BY <2>1, <2>2, <1>2 DEF DecisionSound, Load, At
<1>7. EditSound(t)'
  BY <1>2 DEF EditSound, Load, At, Staged
<1> QED
  BY <1>1, <1>2, <1>3, <1>4, <1>5, <1>6, <1>7, QuietStep DEF SoundFor, Load

\* A request that only moves on keeps its memory.
LEMMA GotoMemory ==
  ASSUME Typed, NEW t \in Client, NEW pc, Goto(t, pc)
  PROVE  /\ thread'[t].pc = pc
         /\ thread'[t].action = thread[t].action /\ thread'[t].plan = thread[t].plan
         /\ thread'[t].revision = thread[t].revision /\ thread'[t].new = thread[t].new
         /\ thread'[t].seen = thread[t].seen /\ thread'[t].loaded = thread[t].loaded
         /\ \A u \in Client \ {t} : thread'[u] = thread[u]
  BY DEF Goto, Typed, TypeOK, Local

\* Moving on, nothing that holds between the first read and the end is lost.
LEMMA MemoryKept ==
  ASSUME Typed, Stores, NEW t \in Client, UNCHANGED rows, Working(t),
         thread'[t].pc \in {"read", "insert", "invoke", "apply", "transact"},
         thread'[t].action = thread[t].action, thread'[t].plan = thread[t].plan,
         thread'[t].revision = thread[t].revision, thread'[t].seen = thread[t].seen
  PROVE  RequestSound(t)' /\ SeenSound(t)' /\ RevisionSound(t)'
<1> USE DEF rows
<1>1. SoundFor(t) /\ Exists
  BY Begun DEF Working
<1>2. RequestSound(t)'
  BY <1>1 DEF SoundFor, RequestSound, Exists, Working
<1>3. SeenSound(t)'
  BY <1>1 DEF SoundFor, SeenSound, Working, Base
<1>4. RevisionSound(t)'
  BY <1>1 DEF SoundFor, RevisionSound, Working, Pending
<1> QED
  BY <1>2, <1>3, <1>4

LEMMA ReadDecisionStep ==
  ASSUME Typed, Stores, NEW t \in Client, ReadDecision(t)
  PROVE  Stores'
<1>1. Exists /\ SoundFor(t) /\ Working(t) /\ UNCHANGED rows /\ UNCHANGED <<checkpoint, lock>>
  BY Begun DEF ReadDecision, At, Working, rows
<1>2. CASE Finish(t)
  BY <1>1, <1>2, EndStep
<1>3. ASSUME NEW pc \in {"transact", "invoke"}, Goto(t, pc),
             thread[t].seen.status = "waiting",
             pc = "invoke" => approval.status = Outcome[thread[t].action]
      PROVE  Stores'
  <2>1. /\ thread'[t].pc = pc /\ thread'[t].action = thread[t].action
        /\ thread'[t].plan = thread[t].plan /\ thread'[t].revision = thread[t].revision
        /\ thread'[t].seen = thread[t].seen
        /\ \A u \in Client \ {t} : thread'[u] = thread[u]
    BY <1>3, GotoMemory
  <2>2. RequestSound(t)' /\ SeenSound(t)' /\ RevisionSound(t)'
    BY <1>1, <2>1, MemoryKept
  <2>3. approval.plan = thread[t].plan /\ thread[t].action \in Decision
    BY DEF ReadDecision
  <2>4. pc = "invoke" => approval = [status |-> Outcome[thread[t].action], plan |-> thread[t].plan]
    BY <1>3, <2>3 DEF Typed, TypeOK
  <2>5. DecisionSound(t)'
    BY <1>1, <1>3, <2>1, <2>4 DEF SoundFor, DecisionSound, Working, At, rows
  <2>6. EditSound(t)' /\ LoadedSound(t)'
    BY <1>3, <2>1, <2>3 DEF EditSound, LoadedSound, At, Decision
  <2> QED
    BY <1>1, <2>1, <2>2, <2>5, <2>6, QuietStep DEF SoundFor
<1>4. thread[t].seen.status \in {"waiting", Settled[thread[t].action]}
  BY <1>1 DEF SoundFor, DecisionSound, ReadDecision
<1>5. approval.status = "WAITING_APPROVAL" => thread[t].seen.status = "waiting"
  BY <1>1 DEF SoundFor, DecisionSound, ReadDecision, Outcome, Decision
<1> QED
  BY <1>2, <1>3, <1>4, <1>5 DEF ReadDecision

LEMMA ReadEditStep ==
  ASSUME Typed, Stores, NEW t \in Client, ReadEdit(t)
  PROVE  Stores'
<1>1. Exists /\ SoundFor(t) /\ Working(t) /\ UNCHANGED rows /\ UNCHANGED <<checkpoint, lock>>
  BY Begun DEF ReadEdit, At, Working, rows
<1>2. /\ thread'[t].pc = "insert" /\ thread'[t].action = thread[t].action
      /\ thread'[t].plan = thread[t].plan /\ thread'[t].revision = thread[t].revision
      /\ thread'[t].seen = thread[t].seen
      /\ \A u \in Client \ {t} : thread'[u] = thread[u]
      /\ Staged(t) => thread'[t].new = thread[t].seen.plan
  BY DEF ReadEdit, Goto, Typed, TypeOK, Local
<1>3. RequestSound(t)' /\ SeenSound(t)' /\ RevisionSound(t)'
  BY <1>1, <1>2, MemoryKept
<1>4. DecisionSound(t)' /\ LoadedSound(t)'
  BY <1>2 DEF DecisionSound, LoadedSound, At, ReadEdit, Decision
<1>5. EditSound(t)'
  BY <1>1, <1>2 DEF SoundFor, EditSound, Working, At, Staged, Pending, ReadEdit, EditAccepts, rows
<1> QED
  BY <1>1, <1>2, <1>3, <1>4, <1>5, QuietStep DEF SoundFor

LEMMA InsertStep ==
  ASSUME Typed, Stores, NEW t \in Client, InsertNew(t) \/ InsertStaged(t) \/ InsertFound(t)
  PROVE  Stores'
<1>1. /\ Exists /\ SoundFor(t) /\ Working(t) /\ UNCHANGED rows /\ UNCHANGED checkpoint
      /\ thread[t].action = "edit" /\ Sound(checkpoint) /\ TablesAgree
  BY Begun DEF InsertNew, InsertStaged, InsertFound, At, Working, rows, Typed, Role
<1>2. /\ thread'[t].action = thread[t].action
      /\ thread'[t].plan = thread[t].plan /\ thread'[t].revision = thread[t].revision
      /\ thread'[t].seen = thread[t].seen
      /\ thread'[t].pc \in {"invoke", "transact"}
      /\ \A u \in Client \ {t} : thread'[u] = thread[u]
      /\ Staged(t) => thread'[t].new = thread[t].new
  <2>1. CASE InsertNew(t)
    <3>1. PICK p \in Plan : thread' = [thread EXCEPT ![t].new = p, ![t].pc = "invoke"]
      BY <2>1 DEF InsertNew
    <3>2. /\ thread'[t] = [thread[t] EXCEPT !.new = p, !.pc = "invoke"]
          /\ \A u \in Client \ {t} : thread'[u] = thread[u]
      BY <3>1 DEF Typed, TypeOK
    <3>3. thread[t] \in Local
      BY DEF Typed, TypeOK
    <3> QED
      BY <2>1, <3>2, <3>3 DEF InsertNew, Local
  <2>2. CASE InsertStaged(t) \/ InsertFound(t)
    <3>1. Goto(t, "transact")
      BY <2>2 DEF InsertStaged, InsertFound
    <3> QED
      BY <3>1, GotoMemory
  <2> QED
    BY <2>1, <2>2
<1>3. RequestSound(t)' /\ SeenSound(t)' /\ RevisionSound(t)'
  BY <1>1, <1>2, MemoryKept
<1>4. DecisionSound(t)' /\ LoadedSound(t)'
  BY <1>1, <1>2 DEF DecisionSound, LoadedSound, At, Decision
<1>5. Pending(thread[t].plan) /\ Staged(t) =>
        checkpoint = thread[t].seen /\ StagedAhead(checkpoint) /\ checkpoint.plan = thread[t].new
  BY <1>1 DEF SoundFor, EditSound, Working, At, Staged, Pending, InsertNew, InsertStaged,
     InsertFound, Sound, Aligned, Answered
<1>6. EditSound(t)'
  <2>1. CASE InsertNew(t)
    <3>1. PICK p \in Plan : Fresh(p) /\ thread' = [thread EXCEPT ![t].new = p, ![t].pc = "invoke"]
      BY <2>1 DEF InsertNew
    <3>2. thread'[t].new = p /\ thread'[t].pc = "invoke" /\ row[p] = "ABSENT"
      BY <3>1 DEF Fresh, Typed, TypeOK, Local
    <3> QED
      BY <1>1, <1>2, <2>1, <3>2 DEF SoundFor, EditSound, Working, At, Staged, InsertNew, rows
  <2>2. CASE InsertStaged(t)
    <3>1. thread'[t].pc = "transact" /\ lock' = t
      BY <2>2 DEF InsertStaged, Goto, Typed, TypeOK, Local
    <3> QED
      BY <1>1, <1>2, <1>5, <2>2, <3>1 DEF SoundFor, EditSound, Working, At, Staged, Pending,
         InsertStaged, StagedAhead, Base, rows
  <2>3. CASE InsertFound(t)
    <3>1. thread'[t].pc = "transact" /\ ~Pending(thread[t].plan)
      BY <1>5, <2>3 DEF InsertFound, Goto, Typed, TypeOK, Local, StagedAhead
    <3> QED
      BY <1>1, <1>2, <2>3, <3>1 DEF SoundFor, EditSound, Working, At, Staged, Pending, InsertFound, rows
  <2> QED
    BY <2>1, <2>2, <2>3
<1>7. \A u \in Client \ {t} : lock = u => lock' = u
  BY NoneAssumption DEF InsertNew, InsertStaged, InsertFound
<1> QED
  BY <1>1, <1>2, <1>3, <1>4, <1>6, <1>7, QuietStep DEF SoundFor

LEMMA InvokeStep ==
  ASSUME Typed, Stores, NEW t \in Client, Invoke(t)
  PROVE  Stores'
<1>1. /\ Exists /\ SoundFor(t) /\ Working(t) /\ UNCHANGED rows /\ UNCHANGED <<checkpoint, lock>>
      /\ Sound(checkpoint)
  BY Begun DEF Invoke, At, Working, rows
<1>2. /\ thread'[t].pc = "apply" /\ thread'[t].action = thread[t].action
      /\ thread'[t].plan = thread[t].plan /\ thread'[t].revision = thread[t].revision
      /\ thread'[t].seen = thread[t].seen /\ thread'[t].new = thread[t].new
      /\ thread'[t].loaded = checkpoint
      /\ \A u \in Client \ {t} : thread'[u] = thread[u]
  BY DEF Invoke, Typed, TypeOK, Local
<1>3. RequestSound(t)' /\ SeenSound(t)' /\ RevisionSound(t)'
  BY <1>1, <1>2, MemoryKept
<1>4. DecisionSound(t)'
  BY <1>1, <1>2 DEF SoundFor, DecisionSound, Working, At, Invoke, rows
<1>5. EditSound(t)'
  BY <1>1, <1>2 DEF SoundFor, EditSound, Working, At, Staged, Pending, Invoke, rows
<1>6. LoadedSound(t)'
  BY <1>1, <1>2 DEF LoadedSound, Sound, Aligned, Answered, StagedAhead, Base, rows
<1> QED
  BY <1>1, <1>2, <1>3, <1>4, <1>5, <1>6, QuietStep DEF SoundFor

\* The event of a decision finds the plan it is about; the event of an edit
\* the plan it replaces.
LEMMA LoadedAligned ==
  ASSUME Typed, Stores, NEW t \in Client, At(t, "apply"), EventApplies(t)
  PROVE  /\ Aligned(thread[t].loaded)
         /\ thread[t].action \in Decision =>
              approval = [status |-> Outcome[thread[t].action], plan |-> thread[t].plan]
<1>1. /\ SoundFor(t) /\ Working(t) /\ thread[t].action \in Decision \cup {"edit"}
  BY Begun DEF At, Working, Typed, Role
<1>2. /\ thread[t].seen.revision \in Int /\ thread[t].loaded.revision \in Int /\ Base \in Int
  BY Numbers
<1>3. thread[t].seen.plan = thread[t].plan /\ thread[t].seen.status = "waiting"
  BY <1>1 DEF SoundFor, DecisionSound, EditSound, Staged, Working, At
<1>4. thread[t].action # "execute"
  BY <1>1 DEF Decision
<1>5. thread[t].seen.revision <= Base
  BY <1>1, <1>2, <1>3, <1>4 DEF SoundFor, SeenSound
<1>6. ~StagedAhead(thread[t].loaded) /\ ~Answered(thread[t].loaded)
  BY <1>2, <1>5 DEF StagedAhead, Answered, EventApplies, Decision, Settled
<1>7. Aligned(thread[t].loaded)
  BY <1>1, <1>6 DEF SoundFor, LoadedSound, Sound
<1> QED
  BY <1>1, <1>7 DEF SoundFor, DecisionSound, At

LEMMA ApplyStep ==
  ASSUME Typed, Stores, NEW t \in Client, Apply(t)
  PROVE  Stores'
<1>1. /\ Exists /\ SoundFor(t) /\ Working(t) /\ UNCHANGED rows /\ UNCHANGED lock
      /\ thread[t].action \in Decision \cup {"edit"} /\ approval.plan \in Plan
      /\ At(t, "apply") /\ EventApplies(t)
  BY Begun DEF Apply, At, Working, rows, Typed, Role
<1>2. Aligned(thread[t].loaded)
  BY <1>1, LoadedAligned
<1>3. CASE thread[t].action \in Decision
  <2>1. Finish(t) /\ thread[t].action # "edit"
    BY <1>3 DEF Apply, Decision
  <2>2. thread'[t] = Idle /\ \A u \in Client \ {t} : thread'[u] = thread[u]
    BY <2>1 DEF Finish, Typed, TypeOK
  <2>3. approval = [status |-> Outcome[thread[t].action], plan |-> thread[t].plan]
    BY <1>1, <1>3, LoadedAligned
  <2>4. /\ checkpoint'.plan = approval.plan /\ checkpoint'.revision = Base + 1
        /\ checkpoint'.status = Settled[thread[t].action]
    BY <1>2, <2>1 DEF Apply, Advanced, Aligned
  <2>5. Sound(checkpoint)'
    BY <1>1, <1>3, <2>3, <2>4 DEF Sound, Answered, Base, rows
  <2>6. approval.status # "WAITING_APPROVAL"
    BY <1>3, <2>3 DEF Outcome, Decision
  <2>7. SoundFor(t)' /\ thread'[t].pc = "idle"
    BY <2>2, IdleSound DEF Idle
  <2> QED
    BY <1>1, <2>2, <2>5, <2>6, <2>7, CheckpointStep
<1>4. CASE thread[t].action = "edit"
  <2>1. Goto(t, "transact")
    BY <1>4 DEF Apply
  <2>2. /\ thread'[t].pc = "transact" /\ thread'[t].action = thread[t].action
        /\ thread'[t].plan = thread[t].plan /\ thread'[t].revision = thread[t].revision
        /\ thread'[t].new = thread[t].new /\ thread'[t].seen = thread[t].seen
        /\ \A u \in Client \ {t} : thread'[u] = thread[u]
    BY <2>1, GotoMemory
  <2>3. RequestSound(t)' /\ SeenSound(t)' /\ RevisionSound(t)'
    BY <1>1, <2>2, MemoryKept
  <2>4. /\ checkpoint'.plan = thread[t].new /\ checkpoint'.revision = Base + 1
        /\ checkpoint'.status = "waiting"
    BY <1>2, <1>4 DEF Apply, Advanced, Aligned
  <2>5. /\ ~Staged(t) /\ lock = t /\ thread[t].new \in Plan /\ row[thread[t].new] = "ABSENT"
        /\ thread[t].seen.status = "waiting"
        /\ approval.status = "WAITING_APPROVAL" => thread[t].loaded = checkpoint
    BY <1>1, <1>4 DEF SoundFor, EditSound, At
  <2>6. StagedAhead(checkpoint)'
    BY <1>1, <2>4, <2>5 DEF StagedAhead, Base, rows
  <2>7. Sound(checkpoint)'
    BY <2>6 DEF Sound
  <2>8. EditSound(t)'
    BY <1>1, <2>2, <2>4, <2>5, <2>6 DEF EditSound, At, Staged
  <2>9. DecisionSound(t)' /\ LoadedSound(t)'
    BY <1>4, <2>2 DEF DecisionSound, LoadedSound, At, Decision
  <2>10. approval.status = "WAITING_APPROVAL" => Aligned(checkpoint)
    BY <1>2, <2>5
  <2> QED
    BY <1>1, <2>2, <2>3, <2>5, <2>7, <2>8, <2>9, <2>10, CheckpointStep DEF SoundFor
<1> QED
  BY <1>1, <1>3, <1>4

\* What a failed invocation leaves behind is sound, and while the approval
\* waits it is the checkpoint itself.
LEMMA LeftoverSound ==
  ASSUME Typed, Stores, Exists, NEW t \in Client, NEW c \in Leftover(t)
  PROVE  Sound(c) /\ (approval.status = "WAITING_APPROVAL" => c = checkpoint)
<1>1. At(t, "apply") /\ c = thread[t].loaded
  BY DEF Leftover, Stores, AfterPublication, At
<1>2. SoundFor(t) /\ thread[t].action \in Decision \cup {"edit"} /\ Working(t)
  BY <1>1, Begun DEF At, Typed, Role, Working
<1>3. Sound(thread[t].loaded)
  BY <1>1, <1>2 DEF SoundFor, LoadedSound
<1>4. ASSUME approval.status = "WAITING_APPROVAL" PROVE thread[t].loaded = checkpoint
  <2>1. thread[t].action \notin Decision
    BY <1>1, <1>2, <1>4 DEF SoundFor, DecisionSound, At, Outcome, Decision
  <2> QED
    BY <1>1, <1>2, <1>4, <2>1 DEF SoundFor, EditSound, At
<1> QED
  BY <1>1, <1>3, <1>4

\* A request that fails ends, and may leave its leftover.
LEMMA FailStep ==
  ASSUME Typed, Stores, Exists, NEW t \in Client, UNCHANGED rows,
         checkpoint' \in {checkpoint} \cup Leftover(t), Finish(t), Release(t)
  PROVE  Stores'
<1>1. PICK c : c = checkpoint'
  OBVIOUS
<1>2. Sound(c) /\ (approval.status = "WAITING_APPROVAL" => c = checkpoint)
  <2>1. Sound(checkpoint)
    BY DEF Stores, AfterPublication
  <2> QED
    BY <1>1, <2>1, LeftoverSound
<1>3. Sound(checkpoint)'
  BY <1>1, <1>2 DEF Sound, Aligned, Answered, StagedAhead, Base, rows
<1>4. thread'[t] = Idle /\ \A u \in Client \ {t} : thread'[u] = thread[u] /\ (lock = u => lock' = u)
  BY DEF Finish, Release, Typed, TypeOK
<1>5. SoundFor(t)' /\ thread'[t].pc = "idle"
  BY <1>4, IdleSound DEF Idle
<1> QED
  BY <1>1, <1>2, <1>3, <1>4, <1>5, CheckpointStep

LEMMA TransactDecisionStep ==
  ASSUME Typed, Stores, NEW t \in Client, TransactDecision(t)
  PROVE  Stores'
<1> DEFINE a == thread[t].action
           p == thread[t].plan
<1>1. /\ Exists /\ SoundFor(t) /\ Working(t) /\ AfterPublication /\ approval.plan \in Plan
      /\ TablesAgree /\ Sound(checkpoint)
      /\ a \in Decision /\ lock = None /\ UNCHANGED <<parent, checkpoint, lock>>
      /\ approval.status = "WAITING_APPROVAL" /\ approval.plan = p
      /\ operation.status = "WAITING_APPROVAL"
  BY Begun DEF TransactDecision, At, Working, Transactable
<1>2. /\ approval'.status = Outcome[a] /\ approval'.plan = p
      /\ operation'.status = Outcome[a] /\ operation'.plan = p
      /\ operation'.revision = operation.revision + 1
      /\ row' = [row EXCEPT ![p] = Outcome[a]]
  BY <1>1 DEF TransactDecision, Typed, TypeOK
<1>3. Outcome[a] \in DecidedStatus /\ Outcome[a] # "ABSENT" /\ Outcome[a] # "WAITING_APPROVAL"
      /\ Outcome[a] # "EXECUTING"
  BY <1>1 DEF Outcome, Decision, DecidedStatus
<1>4. Base' = Base
  BY <1>1, <1>2, <1>3, Numbers DEF Base
<1>5. \A q \in Plan : row'[q] = IF q = p THEN Outcome[a] ELSE row[q]
  BY <1>2 DEF Typed, TypeOK
<1>6. \A q \in Plan : (row'[q] = "ABSENT") <=> (row[q] = "ABSENT")
  BY <1>1, <1>3, <1>5 DEF TablesAgree, Exists
<1>7. /\ thread'[t].pc = "invoke" /\ thread'[t].action = a
      /\ thread'[t].plan = p /\ thread'[t].revision = thread[t].revision
      /\ thread'[t].seen = thread[t].seen
      /\ \A u \in Client \ {t} : thread'[u] = thread[u]
  BY GotoMemory DEF TransactDecision
<1> HIDE DEF a, p
<1>8. TablesAgree'
  BY <1>1, <1>2, <1>3, <1>5 DEF TablesAgree, Exists
<1>9. Sound(checkpoint)'
  <2>1. Aligned(checkpoint) \/ StagedAhead(checkpoint)
    BY <1>1 DEF Sound, Answered, Outcome, Decision
  <2> QED
    BY <2>1, <1>1, <1>2, <1>4, <1>6 DEF Sound, Aligned, StagedAhead
<1>10. ASSUME NEW u \in Client \ {t} PROVE SoundFor(u)'
  <2>1. thread'[u] = thread[u] /\ SoundFor(u) /\ Role(thread[u])
    BY <1>7 DEF Stores, ThreadSound, Typed
  <2>2. ~At(u, "apply") /\ (At(u, "invoke") => thread[u].action \notin Decision \cup {"edit"})
    <3>1. u # None
      OBVIOUS
    <3>2. thread[u].pc \in {"invoke", "apply"} => thread[u].action \in Decision \cup {"edit"}
      BY <2>1 DEF Role
    <3>3. thread[u].pc \in {"invoke", "apply"} => thread[u].action \notin Decision
      BY <2>1, <1>1 DEF SoundFor, DecisionSound, Working, Outcome, Decision
    <3>4. thread[u].pc \in {"invoke", "apply"} => thread[u].action # "edit"
      BY <2>1, <1>1, <3>1 DEF SoundFor, EditSound, Working
    <3> QED
      BY <3>2, <3>3, <3>4 DEF At
  <2>3. RequestSound(u)'
    BY <2>1, <1>1, <1>2, <1>3, <1>6 DEF SoundFor, RequestSound, Exists
  <2>4. SeenSound(u)'
    BY <2>1, <1>1, <1>2, <1>4 DEF SoundFor, SeenSound, Working
  <2>5. DecisionSound(u)'
    BY <2>1, <2>2, <1>1 DEF SoundFor, DecisionSound, Working, At, Outcome, Decision
  <2>6. EditSound(u)'
    BY <2>1, <2>2, <1>2, <1>3 DEF SoundFor, EditSound, Working, At, Staged, Pending
  <2>7. LoadedSound(u)' /\ RevisionSound(u)'
    BY <2>1, <2>2, <1>2, <1>3 DEF LoadedSound, RevisionSound, Pending, At
  <2> QED
    BY <2>3, <2>4, <2>5, <2>6, <2>7 DEF SoundFor
<1>11. SoundFor(t)'
  <2>1. thread[t].seen.plan = p /\ thread[t].seen.status = "waiting"
    BY <1>1 DEF SoundFor, DecisionSound, TransactDecision, At, a, p
  <2>2. approval' = [status |-> Outcome[a], plan |-> p]
    BY DEF TransactDecision, Transactable, a, p
  <2>3. RequestSound(t)'
    BY <1>1, <1>2, <1>3, <1>6, <1>7 DEF SoundFor, RequestSound, Exists, Working, a, p
  <2>4. SeenSound(t)'
    BY <1>1, <1>2, <1>4, <1>7 DEF SoundFor, SeenSound, Working, a, p
  <2>5. DecisionSound(t)'
    BY <1>1, <1>7, <2>1, <2>2 DEF DecisionSound, a, p
  <2>6. EditSound(t)' /\ LoadedSound(t)' /\ RevisionSound(t)'
    BY <1>1, <1>2, <1>3, <1>7 DEF EditSound, LoadedSound, RevisionSound, Pending, At, Decision
  <2> QED
    BY <2>3, <2>4, <2>5, <2>6 DEF SoundFor
<1>12. AfterPublication'
  BY <1>1, <1>2, <1>7, <1>8, <1>9 DEF AfterPublication, Exists
<1>13. BeforePublication'
  BY <1>2, <1>3 DEF BeforePublication, Exists
<1> QED
  BY <1>10, <1>11, <1>12, <1>13 DEF Stores, ThreadSound

LEMMA TransactEditStep ==
  ASSUME Typed, Stores, NEW t \in Client, TransactEdit(t)
  PROVE  Stores'
<1> DEFINE p == thread[t].plan
           q == thread[t].new
<1>1. /\ Exists /\ SoundFor(t) /\ Working(t) /\ AfterPublication /\ approval.plan \in Plan
      /\ TablesAgree /\ thread[t].action = "edit" /\ At(t, "transact")
      /\ Pending(p) /\ approval.plan = p /\ approval.status = "WAITING_APPROVAL"
      /\ operation.status = "WAITING_APPROVAL" /\ row[p] = "WAITING_APPROVAL"
  BY Begun DEF TransactEdit, At, Working, Transactable, Pending
<1>2. lock = t /\ checkpoint.plan = q /\ StagedAhead(checkpoint)
  BY <1>1 DEF SoundFor, EditSound
<1>3. /\ q \in Plan /\ row[q] = "ABSENT" /\ p # q /\ p \in Plan
      /\ checkpoint.status = "waiting" /\ checkpoint.revision = Base + 1 /\ Base = operation.revision
  BY <1>1, <1>2 DEF StagedAhead, Base
<1>4. /\ approval'.status = "WAITING_APPROVAL" /\ approval'.plan = q
      /\ operation'.status = "WAITING_APPROVAL" /\ operation'.plan = q
      /\ operation'.revision = operation.revision + 1
      /\ row' = [row EXCEPT ![p] = "SUPERSEDED", ![q] = "WAITING_APPROVAL"]
      /\ checkpoint' = checkpoint
  BY <1>1 DEF TransactEdit, Pending
<1>5. Base' = Base + 1 /\ Base \in Int
  BY <1>3, <1>4, Numbers DEF Base
<1>6. \A r \in Plan : row'[r] = IF r = q THEN "WAITING_APPROVAL" ELSE IF r = p THEN "SUPERSEDED" ELSE row[r]
  BY <1>3, <1>4 DEF Typed, TypeOK
<1>7. thread'[t] = Idle /\ \A u \in Client \ {t} : thread'[u] = thread[u]
  BY DEF TransactEdit, Finish, Typed, TypeOK
<1>8. Exists'
  BY <1>4 DEF Exists
<1> HIDE DEF p, q
<1>9. TablesAgree'
  BY <1>1, <1>3, <1>4, <1>6 DEF TablesAgree, Exists
<1>10. Sound(checkpoint)'
  BY <1>2, <1>3, <1>4, <1>5 DEF Sound, Aligned
<1>11. ASSUME NEW u \in Client \ {t} PROVE SoundFor(u)'
  <2>1. thread'[u] = thread[u] /\ SoundFor(u) /\ Role(thread[u])
    BY <1>7 DEF Stores, ThreadSound, Typed
  <2>2. thread[u].pc \notin {"idle", "pause", "publish"} => thread[u].plan # q
    BY <2>1, <1>3, NoneAssumption DEF SoundFor, RequestSound
  <2>3. thread[u].pc \notin {"invoke", "apply"}
    <3>1. thread[u].pc \in {"invoke", "apply"} => thread[u].action \notin Decision
      BY <2>1, <1>1 DEF SoundFor, DecisionSound, Working, Outcome, Decision
    <3>2. thread[u].pc \in {"invoke", "apply"} => thread[u].action # "edit"
      BY <2>1, <1>2 DEF SoundFor, EditSound, Working
    <3> QED
      BY <2>1, <3>1, <3>2 DEF Role
  <2>4. RequestSound(u)'
    BY <2>1, <1>6, <1>8 DEF SoundFor, RequestSound
  <2>5. SeenSound(u)'
    <3>1. thread[u].seen.revision \in Int
      BY Numbers
    <3>2. Working(u) => thread[u].pc \notin {"idle", "pause", "publish"}
      BY DEF Working
    <3> QED
      BY <2>1, <2>2, <3>1, <3>2, <1>4, <1>5 DEF SoundFor, SeenSound, Working
  <2>6. DecisionSound(u)'
    <3>1. Working(u) /\ thread[u].action \in Decision => thread[u].seen.status = "waiting"
      BY <2>1, <1>1 DEF SoundFor, DecisionSound, Outcome, Decision
    <3> QED
      BY <2>1, <2>3, <3>1 DEF SoundFor, DecisionSound, Working
  <2>7. ~(Working(u) /\ Pending(thread[u].plan)')
    BY <2>1, <2>2, <1>4 DEF Working, Pending
  <2>8. EditSound(u)'
    BY <2>1, <2>3, <2>7 DEF SoundFor, EditSound, Working, At, Staged, Pending
  <2>9. LoadedSound(u)'
    BY <2>1, <2>3 DEF LoadedSound, At
  <2>10. RevisionSound(u)'
    BY <2>1, <2>2, <1>4 DEF RevisionSound, Pending
  <2> QED
    BY <2>4, <2>5, <2>6, <2>8, <2>9, <2>10 DEF SoundFor
<1>12. SoundFor(t)'
  BY <1>7, IdleSound
<1>13. AfterPublication'
  <2>1. \A u \in Client : thread'[u].pc \notin {"pause", "publish"}
    BY <1>1, <1>7 DEF AfterPublication, Idle
  <2> QED
    BY <2>1, <1>3, <1>4, <1>9, <1>10 DEF AfterPublication
<1>14. BeforePublication'
  BY <1>8 DEF BeforePublication
<1> QED
  BY <1>11, <1>12, <1>13, <1>14 DEF Stores, ThreadSound

LEMMA TransactLostStep ==
  ASSUME Typed, Stores, NEW t \in Client, TransactLost(t)
  PROVE  Stores'
<1>1. Exists /\ SoundFor(t) /\ Working(t) /\ UNCHANGED rows /\ UNCHANGED checkpoint
  BY Begun DEF TransactLost, At, Working, rows
<1>2. CASE Finish(t)
  BY <1>1, <1>2, EndStep DEF TransactLost
<1>3. ASSUME Goto(t, "invoke"), thread[t].action \in Decision,
             approval = [status |-> Outcome[thread[t].action], plan |-> thread[t].plan]
      PROVE  Stores'
  <2>1. /\ thread'[t].pc = "invoke" /\ thread'[t].action = thread[t].action
        /\ thread'[t].plan = thread[t].plan /\ thread'[t].revision = thread[t].revision
        /\ thread'[t].seen = thread[t].seen
        /\ \A u \in Client \ {t} : thread'[u] = thread[u]
    BY <1>3, GotoMemory
  <2>2. RequestSound(t)' /\ SeenSound(t)' /\ RevisionSound(t)'
    BY <1>1, <2>1, MemoryKept
  <2>3. thread[t].seen.plan = thread[t].plan /\ thread[t].seen.status = "waiting"
    BY <1>1, <1>3 DEF SoundFor, DecisionSound, TransactLost, At
  <2>4. DecisionSound(t)'
    BY <1>1, <1>3, <2>1, <2>3 DEF DecisionSound, rows
  <2>5. EditSound(t)' /\ LoadedSound(t)'
    BY <1>3, <2>1 DEF EditSound, LoadedSound, At, Decision
  <2>6. \A u \in Client \ {t} : lock = u => lock' = u
    BY DEF TransactLost, Release
  <2> QED
    BY <1>1, <2>1, <2>2, <2>4, <2>5, <2>6, QuietStep DEF SoundFor
<1> QED
  BY <1>2, <1>3 DEF TransactLost, Decision

LEMMA ExecuteStep ==
  ASSUME Typed, Stores, NEW t \in Client, Execute(t)
  PROVE  Stores'
<1>1. /\ Exists /\ AfterPublication /\ TablesAgree /\ Sound(checkpoint)
      /\ UNCHANGED <<approval, row, checkpoint, lock>>
  BY Begun DEF Execute, At
<1>2. /\ approval.status = "APPROVED" /\ operation.status = "APPROVED"
      /\ operation'.status = "EXECUTING" /\ operation'.plan = operation.plan
      /\ operation'.revision = operation.revision + 1
  BY DEF Execute, Ready
<1>3. Base' = Base
  BY <1>1, <1>2, Numbers DEF Base
<1>4. thread'[t] = Idle /\ \A u \in Client \ {t} : thread'[u] = thread[u]
  BY DEF Execute, Finish, Typed, TypeOK
<1>5. TablesAgree'
  BY <1>1, <1>2 DEF TablesAgree, Exists
<1>6. Sound(checkpoint)'
  BY <1>1, <1>3 DEF Sound, Aligned, Answered, StagedAhead
<1>7. ASSUME NEW u \in Client \ {t} PROVE SoundFor(u)'
  <2>1. thread'[u] = thread[u] /\ SoundFor(u)
    BY <1>4 DEF Stores, ThreadSound
  <2>2. RequestSound(u)'
    BY <2>1, <1>1 DEF SoundFor, RequestSound, Exists
  <2>3. SeenSound(u)'
    BY <2>1, <1>1, <1>3 DEF SoundFor, SeenSound, Working
  <2>4. DecisionSound(u)'
    BY <2>1, <1>1 DEF SoundFor, DecisionSound, Working, At
  <2>5. EditSound(u)'
    BY <2>1, <1>1, <1>2 DEF SoundFor, EditSound, Working, At, Staged, Pending
  <2>6. LoadedSound(u)'
    <3>1. PICK c : c = thread[u].loaded
      OBVIOUS
    <3>2. Sound(c) => Sound(c)'
      BY <1>1, <1>3 DEF Sound, Aligned, Answered, StagedAhead
    <3> QED
      BY <2>1, <3>1, <3>2 DEF SoundFor, LoadedSound, At, Sound, Aligned, Answered, StagedAhead
  <2>7. RevisionSound(u)'
    BY <1>1, <1>2 DEF RevisionSound, Pending
  <2> QED
    BY <2>2, <2>3, <2>4, <2>5, <2>6, <2>7 DEF SoundFor
<1>8. SoundFor(t)'
  BY <1>4, IdleSound
<1>9. AfterPublication' /\ Exists'
  BY <1>1, <1>4, <1>5, <1>6 DEF AfterPublication, Exists, Idle
<1> QED
  BY <1>7, <1>8, <1>9 DEF Stores, ThreadSound, BeforePublication
-----------------------------------------------------------------------------
(* The creation of the workflow, failures, and the whole *)

\* A request that has not read anything yet relies on nothing.
LEMMA QuietSound ==
  ASSUME NEW t \in Client, thread'[t].pc \in {"idle", "pause", "publish"}
  PROVE  SoundFor(t)'
  BY DEF SoundFor, RequestSound, SeenSound, DecisionSound, EditSound, LoadedSound,
         RevisionSound, Working, At

\* Until the workflow exists its creator is the only one at work.
LEMMA Alone ==
  ASSUME Typed, Stores, ~Exists
  PROVE  /\ approval.plan = None /\ approval.status = "ABSENT" /\ operation.status = "ABSENT"
         /\ \A p \in Plan : row[p] = "ABSENT"
         /\ \A u \in Client : lock # u => thread[u].pc = "idle"
         /\ \A u \in Client : thread[u].pc \in {"idle", "pause", "publish"}
  BY DEF Stores, BeforePublication, Exists

LEMMA CreateStep ==
  ASSUME Typed, Stores, NEW t \in Client, CreateFlush(t) \/ CreatePause(t)
  PROVE  Stores'
<1>1. ~Exists /\ UNCHANGED <<approval, row, operation>>
  BY DEF CreateFlush, CreatePause, rows, Exists, At, Stores, AfterPublication
<1>2. /\ thread'[t].pc \in {"pause", "publish"} /\ lock' = t /\ thread'[t].new \in Plan
      /\ thread'[t].pc = "pause" => checkpoint' = NoCheckpoint
      /\ thread'[t].pc = "publish" => checkpoint' = Paused(Initial(thread'[t].new))
      /\ \A u \in Client \ {t} : thread'[u] = thread[u] /\ thread[u].pc = "idle"
  <2>1. CASE CreateFlush(t)
    <3>1. PICK p \in Plan :
            thread' = [thread EXCEPT ![t] = [Idle EXCEPT !.pc = "pause", !.action = "create", !.new = p]]
      BY <2>1 DEF CreateFlush
    <3>2. /\ thread'[t].pc = "pause" /\ thread'[t].new = p
          /\ \A u \in Client \ {t} : thread'[u] = thread[u]
      BY <3>1 DEF Typed, TypeOK, Idle
    <3>3. \A u \in Client : thread[u].pc = "idle"
      BY <2>1, <1>1, Alone, NoneAssumption DEF CreateFlush
    <3> QED
      BY <2>1, <3>2, <3>3 DEF CreateFlush
  <2>2. CASE CreatePause(t)
    <3>1. Goto(t, "publish")
      BY <2>2 DEF CreatePause
    <3>2. lock = t /\ thread[t].new \in Plan
      BY <2>2, <1>1 DEF CreatePause, At, Stores, BeforePublication
    <3>3. /\ thread'[t].pc = "publish" /\ thread'[t].new = thread[t].new
          /\ \A u \in Client \ {t} : thread'[u] = thread[u]
      BY <3>1, GotoMemory
    <3> QED
      BY <2>2, <1>1, <3>2, <3>3, Alone DEF CreatePause
  <2> QED
    BY <2>1, <2>2
<1>3. ~Exists'
  BY <1>1 DEF Exists
<1>4. BeforePublication'
  BY <1>1, <1>2, Alone DEF BeforePublication, At
<1>5. \A u \in Client : thread'[u].pc \in {"idle", "pause", "publish"}
  BY <1>2
<1> QED
  BY <1>3, <1>4, <1>5, QuietSound DEF Stores, AfterPublication, ThreadSound

LEMMA CreatePublishStep ==
  ASSUME Typed, Stores, NEW t \in Client, CreatePublish(t)
  PROVE  Stores'
<1> DEFINE p == thread[t].new
<1>1. ~Exists
  BY DEF CreatePublish, At, Stores, AfterPublication
<1>2. lock = t /\ p \in Plan /\ checkpoint = Paused(Initial(p))
  BY <1>1 DEF CreatePublish, At, Stores, BeforePublication
<1>3. \A u \in Client : thread'[u].pc = "idle"
  BY <1>1, <1>2, Alone DEF CreatePublish, Finish, Typed, TypeOK, Idle
<1>4. /\ approval'.status = "WAITING_APPROVAL" /\ approval'.plan = p
      /\ operation'.status = "WAITING_APPROVAL" /\ operation'.plan = p /\ operation'.revision = 1
      /\ checkpoint' = checkpoint
      /\ row' = [row EXCEPT ![p] = "WAITING_APPROVAL"]
  BY DEF CreatePublish
<1>5. \A q \in Plan : row'[q] = IF q = p THEN "WAITING_APPROVAL" ELSE "ABSENT"
  BY <1>1, <1>4, Alone DEF Typed, TypeOK
<1> HIDE DEF p
<1>6. Exists' /\ TablesAgree'
  BY <1>2, <1>4, <1>5 DEF Exists, TablesAgree
<1>7. Sound(checkpoint)'
  BY <1>2, <1>4 DEF Sound, Aligned, Base, Paused, Initial
<1>8. AfterPublication'
  BY <1>2, <1>3, <1>4, <1>6, <1>7 DEF AfterPublication
<1> QED
  BY <1>3, <1>6, <1>8, QuietSound DEF Stores, BeforePublication, ThreadSound

LEMMA FaultStep ==
  ASSUME Typed, Stores, NEW t \in Client, Fault(t)
  PROVE  Stores'
<1>1. CASE Exists
  BY <1>1, FailStep DEF Fault
<1>2. CASE ~Exists
  <2>1. UNCHANGED <<approval, row, operation>>
    BY DEF Fault, rows
  <2>2. \A u \in Client : thread'[u].pc = "idle"
    <3>1. lock = t
      BY <1>2, Alone DEF Fault, At
    <3> QED
      BY <1>2, <3>1, Alone DEF Fault, Finish, Typed, TypeOK, Idle
  <2>3. ~Exists'
    BY <1>2, <2>1 DEF Exists
  <2>4. BeforePublication'
    BY <1>2, <2>1, <2>2, Alone DEF BeforePublication, At
  <2> QED
    BY <2>2, <2>3, <2>4, QuietSound DEF Stores, AfterPublication, ThreadSound
<1> QED
  BY <1>1, <1>2

LEMMA CrashStep ==
  ASSUME Typed, Stores, Crash
  PROVE  Stores'
<1>1. UNCHANGED <<approval, row, operation>> /\ \A u \in Client : thread'[u].pc = "idle"
  BY DEF Crash, rows, Idle
<1>2. CASE Exists
  <2>1. PICK c : c = checkpoint'
    OBVIOUS
  <2>2. Sound(c)
    BY <1>2, <2>1, LeftoverSound DEF Crash, Stores, AfterPublication
  <2>3. Exists' /\ Sound(checkpoint)' /\ TablesAgree'
    BY <1>1, <1>2, <2>1, <2>2 DEF Exists, Sound, Aligned, Answered, StagedAhead, Base, Stores,
       AfterPublication, TablesAgree
  <2> QED
    BY <1>1, <1>2, <2>3, QuietSound DEF Stores, AfterPublication, BeforePublication, ThreadSound
<1>3. CASE ~Exists
  <2>1. ~Exists' /\ BeforePublication'
    BY <1>1, <1>3, Alone DEF BeforePublication, Exists, At
  <2> QED
    BY <1>1, <2>1, QuietSound DEF Stores, AfterPublication, ThreadSound
<1> QED
  BY <1>2, <1>3

\* Requests that are refused, and invocations that fail.
LEMMA RefusedStep ==
  ASSUME Typed, Stores, NEW t \in Client,
         \/ LoadRefused(t) \/ ReadDecisionRefused(t) \/ ReadEditRefused(t) \/ InsertRefused(t)
         \/ LockTimeout(t) \/ ExecuteRefused(t) \/ ApplyRefused(t)
  PROVE  Stores'
<1>1. Exists
  BY Begun DEF LoadRefused, ReadDecisionRefused, ReadEditRefused, InsertRefused, LockTimeout,
     ExecuteRefused, ApplyRefused, At
<1>2. CASE ApplyRefused(t)
  BY <1>1, <1>2, FailStep DEF ApplyRefused
<1>3. CASE Refuse(t)
  BY <1>1, <1>3, EndStep DEF Refuse
<1> QED
  BY <1>2, <1>3 DEF LoadRefused, ReadDecisionRefused, ReadEditRefused, InsertRefused, LockTimeout,
     ExecuteRefused

\* A step that changes nothing keeps what the requests rely on.
LEMMA StutterStep ==
  ASSUME Typed, Stores, UNCHANGED vars
  PROVE  Stores'
  BY DEF vars, Stores, BeforePublication, AfterPublication, TablesAgree, ThreadSound, SoundFor,
         RequestSound, SeenSound, DecisionSound, EditSound, LoadedSound, RevisionSound, Exists,
         Pending, Base, Aligned, Answered, StagedAhead, Sound, Working, At, Staged

LEMMA StoresStep == Typed /\ Stores /\ [Next]_vars => Stores'
<1> SUFFICES ASSUME Typed, Stores, [Next]_vars PROVE Stores'
  OBVIOUS
<1>1. CASE UNCHANGED vars
  BY <1>1, StutterStep
<1>2. CASE Crash
  BY <1>2, CrashStep
<1>3. ASSUME NEW t \in Client,
             CreateFlush(t) \/ CreatePause(t) \/ CreatePublish(t) \/ Fault(t)
      PROVE  Stores'
  BY <1>3, CreateStep, CreatePublishStep, FaultStep
<1>4. ASSUME NEW t \in Client, DecisionRequested(t) \/ EditRequested(t) \/ ExecuteRequested(t)
      PROVE  Stores'
  BY <1>4, RequestStep
<1>5. ASSUME NEW t \in Client, Step(t) PROVE Stores'
  BY <1>5, CreateStep, CreatePublishStep, LoadStep, ReadDecisionStep, ReadEditStep, InsertStep,
     InvokeStep, ApplyStep, TransactDecisionStep, TransactEditStep, TransactLostStep, ExecuteStep,
     RefusedStep DEF Step
<1> QED
  BY <1>1, <1>2, <1>3, <1>4, <1>5 DEF Next

\* The inductive invariant holds of every reachable state.
THEOREM StoresCorrect == Spec => []StoresSound
<1>1. Init => Typed /\ Stores
  BY TypeInit, StoresInit
<1>2. (Typed /\ Stores) /\ [Next]_vars => (Typed /\ Stores)'
  BY TypeStep, StoresStep
<1>3. Typed /\ Stores => StoresSound
  BY DEF StoresSound, Stores
<1> QED
  BY <1>1, <1>2, <1>3, PTL DEF Spec

\* The checkpoint never runs ahead of the committed decision
\* (organization_decisions.py:79-151).
THEOREM CheckpointNeverAhead == Spec => []CheckpointFollowsDecision
<1>1. StoresSound => CheckpointFollowsDecision
  <2> SUFFICES ASSUME StoresSound, Exists, NEW a \in Decision, checkpoint.status = Settled[a]
               PROVE  approval = [status |-> Outcome[a], plan |-> checkpoint.plan]
    BY DEF CheckpointFollowsDecision, Exists
  <2>1. Sound(checkpoint)
    BY DEF StoresSound, AfterPublication
  <2>2. checkpoint.status # "waiting"
    BY DEF Settled, Decision
  <2>3. PICK b \in Decision :
          checkpoint.plan = approval.plan /\ approval.status = Outcome[b] /\ checkpoint.status = Settled[b]
    BY <2>1, <2>2 DEF Sound, Aligned, Answered, StagedAhead
  <2>4. b = a
    BY <2>3 DEF Settled, Decision
  <2> QED
    BY <2>3, <2>4 DEF StoresSound, Typed, TypeOK
<1> QED
  BY <1>1, StoresCorrect, PTL

\* A waiting approval can always be handed back to its human, or its staged
\* edit repeated (approval_recovery.py:87-175).
THEOREM PendingStaysResumable == Spec => []PendingIsResumable
<1>1. StoresSound => PendingIsResumable
  <2> SUFFICES ASSUME StoresSound, approval.status = "WAITING_APPROVAL"
               PROVE  /\ checkpoint.status = "waiting"
                      /\ checkpoint.plan = approval.plan \/ row[checkpoint.plan] = "ABSENT"
    BY DEF PendingIsResumable
  <2>1. Sound(checkpoint)
    BY DEF StoresSound, AfterPublication, Exists
  <2>2. ~Answered(checkpoint)
    BY DEF Answered, Outcome, Decision
  <2> QED
    BY <2>1, <2>2 DEF Sound, Aligned, StagedAhead
<1> QED
  BY <1>1, StoresCorrect, PTL

\* Approval, plan versions and operation agree after every commit
\* (services.py:530-700).
THEOREM TablesAlwaysAgree == Spec => []TablesAgree
<1>1. StoresSound => TablesAgree
  BY DEF StoresSound, AfterPublication, Exists, TablesAgree
<1> QED
  BY <1>1, StoresCorrect, PTL

\* A decision or an edit that named a revision commits at that revision
\* (organization_api.py:358-389).
THEOREM NamedRevisionKept == Spec => NamedRevisionHolds
<1> DEFINE Held(t) ==
      approval' # approval /\ thread'[t] # thread[t] /\ thread[t].revision # AnyRevision
        => thread[t].revision = operation.revision
<1>1. StoresSound /\ [Next]_vars => \A t \in Client : Held(t)
  <2> SUFFICES ASSUME StoresSound, [Next]_vars, NEW t \in Client,
                      approval' # approval, thread'[t] # thread[t], thread[t].revision # AnyRevision
               PROVE  thread[t].revision = operation.revision
    OBVIOUS
  <2>1. PICK u \in Client : CreatePublish(u) \/ TransactDecision(u) \/ TransactEdit(u)
    BY DEF vars, Next, Step, CreateFlush, CreatePause, DecisionRequested, EditRequested,
       ExecuteRequested, Request, Load, LoadRefused, ReadDecision, ReadDecisionRefused, ReadEdit,
       ReadEditRefused, InsertNew, InsertStaged, InsertFound, InsertRefused, Invoke, Apply,
       ApplyRefused, TransactLost, LockTimeout, Execute, ExecuteRefused, Fault, Crash, Refuse, rows
  <2>2. u = t
    BY <2>1 DEF CreatePublish, TransactDecision, TransactEdit, Goto, Finish, StoresSound, Typed, TypeOK
  <2>3. Role(thread[t]) /\ RevisionSound(t)
    BY DEF StoresSound, Typed, ThreadSound, SoundFor
  <2>4. Pending(thread[t].plan) /\ thread[t].pc = "transact"
    BY <2>1, <2>2, <2>3 DEF CreatePublish, TransactDecision, TransactEdit, Transactable, Pending, At, Role
  <2> QED
    BY <2>3, <2>4 DEF RevisionSound
<1>2. (\A t \in Client : Held(t)) =>
        [\A t \in Client :
           /\ approval' # approval /\ thread'[t] # thread[t]
           /\ thread[t].revision # AnyRevision
           => thread[t].revision = operation.revision]_vars
  OBVIOUS
<1> QED
  BY <1>1, <1>2, StoresCorrect, PTL DEF Spec, NamedRevisionHolds
-----------------------------------------------------------------------------
(* The audit trail *)

\* The audit trail is explained only along with the rows it names.
Trail == AuditExplainsApproval /\ \A i \in 1..Len(audit) : audit[i].to \in Plan /\ row[audit[i].to] # "ABSENT"

\* What the trail says of the last event.
LEMMA TrailEnd ==
  ASSUME Typed, Trail, approval.status = "WAITING_APPROVAL", audit # <<>>
  PROVE  /\ Len(audit) \in 1..Len(audit)
         /\ audit[Len(audit)].status = "WAITING_APPROVAL"
         /\ audit[Len(audit)].to = approval.plan
<1>1. Len(audit) \in Nat /\ Len(audit) # 0
  BY DEF Typed, TypeOK
<1>2. approval = [status |-> audit[Len(audit)].status, plan |-> audit[Len(audit)].to]
  BY DEF Trail, AuditExplainsApproval
<1> QED
  BY <1>1, <1>2

\* An event that follows the trail, about a plan that has a row, extends it.
LEMMA TrailStep ==
  ASSUME Typed, Trail, approval.status = "WAITING_APPROVAL",
         NEW q \in Plan, NEW e, audit' = Append(audit, e), e.from = approval.plan, e.to = q,
         approval' = [status |-> e.status, plan |-> q], row'[q] # "ABSENT",
         \A p \in Plan : row[p] # "ABSENT" => row'[p] # "ABSENT" /\ parent'[p] = parent[p],
         e.action = "edit" => parent'[q] = e.from
  PROVE  Trail'
<1> DEFINE k == Len(audit)
<1>1. k \in Nat /\ Len(audit') = k + 1 /\ audit' # <<>>
  BY DEF Typed, TypeOK
<1>2. audit'[k + 1] = e /\ \A i \in 1..k : audit'[i] = audit[i]
  BY DEF Typed, TypeOK
<1>3. audit = <<>> \/ k \in 1..k
  BY <1>1, TrailEnd
<1> HIDE DEF k
<1>4. ASSUME NEW i \in 1..(k + 1)
      PROVE  /\ audit'[i].to \in Plan /\ row'[audit'[i].to] # "ABSENT"
             /\ audit'[i].action = "edit" => parent'[audit'[i].to] = audit'[i].from
  <2>1. CASE i = k + 1
    BY <1>2, <2>1
  <2>2. CASE i \in 1..k
    BY <1>2, <2>2 DEF Trail, AuditExplainsApproval, k
  <2> QED
    BY <1>1, <2>1, <2>2
<1>5. ASSUME NEW i \in 1..(k + 1), i < k + 1
      PROVE  audit'[i].status = "WAITING_APPROVAL" /\ audit'[i + 1].from = audit'[i].to
  <2>1. CASE i = k
    <3>1. audit # <<>>
      BY <2>1, <1>1 DEF k
    <3>2. audit[k].status = "WAITING_APPROVAL" /\ audit[k].to = approval.plan
      BY <3>1, TrailEnd DEF k
    <3> QED
      BY <2>1, <1>1, <1>2, <3>2
  <2>2. CASE i < k
    <3>1. i \in 1..k /\ i + 1 \in 1..k
      BY <1>1, <2>2
    <3> QED
      BY <3>1, <1>2, <2>2 DEF Trail, AuditExplainsApproval, k
  <2> QED
    BY <1>1, <1>5, <2>1, <2>2
<1>6. AuditExplainsApproval'
  BY <1>1, <1>2, <1>4, <1>5 DEF AuditExplainsApproval
<1> QED
  BY <1>1, <1>4, <1>6 DEF Trail

\* The steps that change the rows, and how.
LEMMA RowSteps ==
  ASSUME StoresSound, [Next]_vars
  PROVE  \/ UNCHANGED rows
         \/ \E t \in Client : CreatePublish(t) \/ TransactDecision(t) \/ TransactEdit(t) \/ Execute(t)
<1>1. ASSUME NEW t \in Client,
             CreateFlush(t) \/ CreatePause(t) \/ DecisionRequested(t) \/ EditRequested(t)
               \/ ExecuteRequested(t) \/ Fault(t)
      PROVE  UNCHANGED rows
  BY <1>1 DEF CreateFlush, CreatePause, DecisionRequested, EditRequested, ExecuteRequested,
     Request, Fault
<1>2. ASSUME NEW t \in Client, Step(t),
             ~CreatePublish(t), ~TransactDecision(t), ~TransactEdit(t), ~Execute(t)
      PROVE  UNCHANGED rows
  BY <1>2 DEF Step, CreatePause, Load, LoadRefused, ReadDecision, ReadDecisionRefused, ReadEdit,
     ReadEditRefused, InsertNew, InsertStaged, InsertFound, InsertRefused, Invoke, Apply,
     ApplyRefused, TransactLost, LockTimeout, ExecuteRefused, Refuse
<1>3. UNCHANGED vars \/ Crash => UNCHANGED rows
  BY DEF vars, Crash, rows
<1> QED
  BY <1>1, <1>2, <1>3 DEF Next

\* The replacement an edit commits has no row yet, and is not what it replaces.
LEMMA ReplacementIsNew ==
  ASSUME StoresSound, NEW t \in Client, TransactEdit(t)
  PROVE  /\ thread[t].plan = approval.plan /\ thread[t].plan \in Plan
         /\ thread[t].new \in Plan /\ row[thread[t].new] = "ABSENT"
         /\ row[thread[t].plan] = "WAITING_APPROVAL"
<1>1. Pending(thread[t].plan) /\ row[thread[t].plan] = "WAITING_APPROVAL"
  BY DEF TransactEdit, Transactable, Pending
<1>2. EditSound(t) /\ Working(t)
  BY DEF StoresSound, ThreadSound, SoundFor, TransactEdit, At, Working
<1>3. checkpoint.plan = thread[t].new /\ StagedAhead(checkpoint)
  BY <1>1, <1>2 DEF EditSound, TransactEdit
<1>4. approval.plan \in Plan
  BY <1>1 DEF Pending, StoresSound, AfterPublication, Exists
<1> QED
  BY <1>1, <1>3, <1>4 DEF Pending, StagedAhead

LEMMA TrailKept == StoresSound /\ Trail /\ [Next]_vars => Trail'
<1> SUFFICES ASSUME StoresSound, Trail, [Next]_vars PROVE Trail'
  OBVIOUS
<1>t. Typed
  BY DEF StoresSound
<1>1. CASE UNCHANGED rows
  BY <1>1 DEF rows, Trail, AuditExplainsApproval
<1>2. ASSUME NEW t \in Client, CreatePublish(t) PROVE Trail'
  <2>1. ~Exists /\ thread[t].new \in Plan
    BY <1>2 DEF CreatePublish, At, StoresSound, BeforePublication, AfterPublication
  <2>2. approval.status = "ABSENT" /\ audit = <<>>
    <3>1. approval.status = "ABSENT"
      BY <2>1 DEF Exists
    <3>2. audit = <<>> \/ Len(audit) \in 1..Len(audit)
      BY <1>t DEF Typed, TypeOK
    <3>3. ASSUME audit # <<>> PROVE FALSE
      <4>1. Len(audit) \in 1..Len(audit)
        BY <3>2, <3>3
      <4>2. row[audit[Len(audit)].to] # "ABSENT" /\ audit[Len(audit)].to \in Plan
        BY <4>1 DEF Trail
      <4> QED
        BY <2>1, <4>2 DEF StoresSound, BeforePublication
    <3> QED
      BY <3>1, <3>3
  <2>3. audit' = <<>> /\ approval'.status = "WAITING_APPROVAL"
    BY <1>2, <2>2 DEF CreatePublish
  <2> QED
    BY <2>3 DEF Trail, AuditExplainsApproval
<1>3. ASSUME NEW t \in Client, TransactDecision(t) PROVE Trail'
  <2> DEFINE a == thread[t].action
             p == thread[t].plan
             e == [action |-> a, status |-> Outcome[a], from |-> p, to |-> p]
  <2>1. /\ approval = [status |-> "WAITING_APPROVAL", plan |-> p] /\ a \in Decision
        /\ approval' = [status |-> Outcome[a], plan |-> p]
        /\ row' = [row EXCEPT ![p] = Outcome[a]] /\ UNCHANGED parent
    BY <1>3 DEF TransactDecision, Transactable
  <2>2. p \in Plan
    BY <2>1 DEF StoresSound, AfterPublication, Exists
  <2>3. Outcome[a] # "ABSENT" /\ a # "edit"
    BY <2>1 DEF Outcome, Decision
  <2>4. audit' = Append(audit, e)
    BY <1>3, <2>1 DEF TransactDecision, Record
  <2>5. row'[p] = Outcome[a] /\ \A q \in Plan : q # p => row'[q] = row[q]
    BY <1>t, <2>1, <2>2 DEF Typed, TypeOK
  <2>6. e.from = p /\ e.to = p /\ e.status = Outcome[a] /\ e.action = a
    OBVIOUS
  <2> HIDE DEF a, p, e
  <2> QED
    BY <1>t, <2>1, <2>2, <2>3, <2>4, <2>5, <2>6, TrailStep
<1>4. ASSUME NEW t \in Client, TransactEdit(t) PROVE Trail'
  <2>0. PICK p \in Plan, q \in Plan : p = thread[t].plan /\ q = thread[t].new
    BY <1>4, ReplacementIsNew
  <2>1. p = approval.plan /\ row[q] = "ABSENT" /\ row[p] = "WAITING_APPROVAL"
    BY <1>4, <2>0, ReplacementIsNew
  <2>2. /\ approval = [status |-> "WAITING_APPROVAL", plan |-> p]
        /\ approval' = [status |-> "WAITING_APPROVAL", plan |-> q]
        /\ row' = [row EXCEPT ![p] = "SUPERSEDED", ![q] = "WAITING_APPROVAL"]
        /\ parent' = [parent EXCEPT ![q] = p]
    BY <1>4, <2>0 DEF TransactEdit, Transactable
  <2>3. PICK e : e = [action |-> "edit", status |-> "WAITING_APPROVAL", from |-> p, to |-> q]
    OBVIOUS
  <2>4. audit' = Append(audit, e)
    BY <1>4, <2>0, <2>2, <2>3 DEF TransactEdit, Record
  <2>5. row'[q] # "ABSENT" /\ parent'[q] = p
    BY <1>t, <2>2 DEF Typed, TypeOK
  <2>6. ASSUME NEW r \in Plan, row[r] # "ABSENT" PROVE row'[r] # "ABSENT" /\ parent'[r] = parent[r]
    BY <1>t, <2>1, <2>2, <2>6 DEF Typed, TypeOK
  <2>7. e.from = approval.plan /\ e.to = q /\ e.from = p /\ e.status = "WAITING_APPROVAL"
    BY <2>1, <2>3
  <2>8. approval' = [status |-> e.status, plan |-> q] /\ approval.status = "WAITING_APPROVAL"
    BY <2>2, <2>7
  <2> QED
    BY <1>t, <2>4, <2>5, <2>6, <2>7, <2>8, TrailStep
<1>5. ASSUME NEW t \in Client, Execute(t) PROVE Trail'
  BY <1>5 DEF Execute, Trail, AuditExplainsApproval
<1> QED
  BY <1>1, <1>2, <1>3, <1>4, <1>5, RowSteps

\* The audit trail explains what the approval says (services.py:608-621).
THEOREM AuditAlwaysExplains == Spec => []AuditExplainsApproval
<1>1. Init => Trail
  BY DEF Init, Trail, AuditExplainsApproval
<1>2. Trail => AuditExplainsApproval
  BY DEF Trail
<1> QED
  BY <1>1, <1>2, TrailKept, StoresCorrect, PTL DEF Spec
-----------------------------------------------------------------------------
(* The contract *)

LEMMA ContractInit == Init => Contract!Init
  BY DEF Init, Contract!Init, Decided, DecidedStatus

LEMMA ContractStep == StoresSound /\ [Next]_vars => [Contract!Next]_Contract!promise
<1> SUFFICES ASSUME StoresSound, [Next]_vars PROVE [Contract!Next]_Contract!promise
  OBVIOUS
<1> DEFINE offers == {p \in Plan : row[p] # "ABSENT"}
<1>t. Typed
  BY DEF StoresSound
<1>1. CASE UNCHANGED rows
  BY <1>1 DEF rows, Contract!promise, Decided
<1>2. ASSUME NEW t \in Client, CreatePublish(t) PROVE Contract!Next
  <2>0. PICK p \in Plan : p = thread[t].new
    BY <1>2 DEF CreatePublish, At, StoresSound, BeforePublication, AfterPublication
  <2>1. /\ ~Exists /\ approval.plan = None /\ approval.status = "ABSENT"
        /\ operation.status = "ABSENT" /\ \A q \in Plan : row[q] = "ABSENT"
    BY <1>2 DEF CreatePublish, At, StoresSound, BeforePublication, AfterPublication, Exists
  <2>2. /\ approval'.plan = p /\ approval'.status = "WAITING_APPROVAL"
        /\ operation'.status = "WAITING_APPROVAL"
        /\ row' = [row EXCEPT ![p] = "WAITING_APPROVAL"]
    BY <1>2, <2>0 DEF CreatePublish
  <2>3. offers' = {p}
    BY <1>t, <2>1, <2>2 DEF Typed, TypeOK
  <2>4. ~Decided /\ ~Decided'
    BY <2>1, <2>2 DEF Decided, DecidedStatus
  <2>5. Contract!Propose(p)
    BY <2>1, <2>2, <2>3, <2>4 DEF Contract!Propose
  <2> QED
    BY <2>1, <2>5 DEF Contract!Next
<1>3. ASSUME NEW t \in Client, TransactDecision(t) PROVE Contract!Next
  <2> DEFINE a == thread[t].action
             p == thread[t].plan
  <2>1. /\ approval = [status |-> "WAITING_APPROVAL", plan |-> p] /\ a \in Decision
        /\ approval' = [status |-> Outcome[a], plan |-> p] /\ row[p] = "WAITING_APPROVAL"
        /\ row' = [row EXCEPT ![p] = Outcome[a]]
        /\ operation.status = "WAITING_APPROVAL" /\ operation'.status = Outcome[a]
    BY <1>3 DEF TransactDecision, Transactable
  <2>2. p \in Plan /\ p # None
    BY <2>1, NoneAssumption DEF StoresSound, AfterPublication, Exists
  <2>3. /\ Outcome[a] \in {"APPROVED", "REJECTED", "CANCELLED"}
        /\ Outcome[a] # "ABSENT" /\ Outcome[a] # "EXECUTING"
    BY <2>1 DEF Outcome, Decision
  <2> HIDE DEF a, p
  <2>4. offers' = offers
    BY <1>t, <2>1, <2>2, <2>3 DEF Typed, TypeOK
  <2>5. ~Decided /\ Decided'
    BY <2>1, <2>3 DEF Decided, DecidedStatus
  <2>6. Contract!Decide(Outcome[a])
    BY <2>1, <2>2, <2>3, <2>4, <2>5 DEF Contract!Decide
  <2> QED
    BY <2>3, <2>6 DEF Contract!Next
<1>4. ASSUME NEW t \in Client, TransactEdit(t) PROVE Contract!Next
  <2>0. PICK p \in Plan, q \in Plan : p = thread[t].plan /\ q = thread[t].new
    BY <1>4, ReplacementIsNew
  <2>1. p = approval.plan /\ row[q] = "ABSENT" /\ row[p] = "WAITING_APPROVAL" /\ p # None
    BY <1>4, <2>0, ReplacementIsNew, NoneAssumption
  <2>2. /\ approval.status = "WAITING_APPROVAL"
        /\ approval'.status = "WAITING_APPROVAL" /\ approval'.plan = q
        /\ row' = [row EXCEPT ![p] = "SUPERSEDED", ![q] = "WAITING_APPROVAL"]
        /\ operation.status = "WAITING_APPROVAL" /\ operation'.status = "WAITING_APPROVAL"
    BY <1>4, <2>0 DEF TransactEdit, Transactable
  <2>3. offers' = offers \cup {q} /\ q \notin offers
    BY <1>t, <2>1, <2>2 DEF Typed, TypeOK
  <2>4. ~Decided /\ ~Decided'
    BY <2>2 DEF Decided, DecidedStatus
  <2>5. Contract!Replace(q)
    BY <2>1, <2>2, <2>3, <2>4 DEF Contract!Replace
  <2> QED
    BY <2>1, <2>5 DEF Contract!Next
<1>5. ASSUME NEW t \in Client, Execute(t) PROVE Contract!Next
  <2>1. /\ approval.status = "APPROVED" /\ operation.plan = approval.plan
        /\ operation.status = "APPROVED" /\ operation'.status = "EXECUTING"
        /\ operation'.plan = operation.plan /\ UNCHANGED <<approval, row>>
    BY <1>5 DEF Execute, Ready
  <2>2. Decided /\ Decided'
    BY <2>1 DEF Decided, DecidedStatus
  <2>3. Contract!Execute
    BY <2>1, <2>2 DEF Contract!Execute
  <2> QED
    BY <2>3 DEF Contract!Next
<1> QED
  BY <1>1, <1>2, <1>3, <1>4, <1>5, RowSteps

\* The requests on two stores implement the one-shot decision of
\* ApprovalContract (organization_decisions.py, services.py:390-700).
THEOREM ApprovalImplementsContract == Spec => KeepsApprovalContract
<1> QED
  BY ContractInit, ContractStep, StoresCorrect, PTL DEF Spec, KeepsApprovalContract, Contract!Spec

-----------------------------------------------------------------------------
(* What the pages show *)

\* An event about the approval's plan, or one that replaces it, leaves the
\* trail naming every version.
LEMMA NamesStep ==
  ASSUME Typed, TrailNamesAll, Trail, Exists, approval.status = "WAITING_APPROVAL",
         NEW q \in Plan, NEW e, audit' = Append(audit, e), e.from = approval.plan,
         e.status = (IF e.action = "edit" THEN "WAITING_APPROVAL" ELSE Outcome[e.action]),
         \A p \in Plan : row'[p] = "SUPERSEDED" => row[p] = "SUPERSEDED" \/ p = e.from,
         \A p \in Plan \ {q} : (row'[p] = "ABSENT" <=> row[p] = "ABSENT") /\ parent'[p] = parent[p],
         row'[q] # "ABSENT", row[q] = "ABSENT" \/ parent'[q] = parent[q]
  PROVE  TrailNamesAll'
<1> DEFINE k == Len(audit)
<1>1. k \in Nat /\ Len(audit') = k + 1 /\ audit' # <<>> /\ audit'[k + 1] = e /\ \A i \in 1..k : audit'[i] = audit[i]
  BY DEF Typed, TypeOK
<1>2. audit # <<>> => k # 0
  BY DEF Typed, TypeOK
<1> HIDE DEF k
<1>3. Proposal' = Proposal /\ Proposal \in Plan /\ row[Proposal] # "ABSENT" /\ parent[Proposal] = None
  <2>1. CASE audit = <<>>
    <3>1. k = 0 /\ Proposal = approval.plan /\ Proposal' = audit'[1].from
      BY <1>1, <2>1 DEF Proposal, k
    <3> QED
      BY <1>1, <3>1 DEF TrailNamesAll
  <2>2. CASE audit # <<>>
    <3>1. 1 \in 1..k
      BY <1>1, <1>2, <2>2
    <3> QED
      BY <1>1, <2>2, <3>1 DEF Proposal, TrailNamesAll
  <2> QED
    BY <2>1, <2>2
<1>4. row'[Proposal'] # "ABSENT" /\ parent'[Proposal'] = None
  BY <1>3
<1>5. ASSUME NEW p \in Plan, row'[p] = "SUPERSEDED"
      PROVE  \E i \in 1..(k + 1) : audit'[i].from = p
  <2>1. CASE p = e.from
    BY <1>1, <2>1
  <2>2. CASE row[p] = "SUPERSEDED"
    <3>1. PICK i \in 1..k : audit[i].from = p
      BY <2>2 DEF TrailNamesAll, k
    <3>2. i \in 1..(k + 1) /\ audit'[i].from = p
      BY <1>1, <3>1
    <3> QED
      BY <3>2
  <2> QED
    BY <1>5, <2>1, <2>2
<1>6. ASSUME NEW i \in 1..(k + 1)
      PROVE  audit'[i].status = IF audit'[i].action = "edit" THEN "WAITING_APPROVAL" ELSE Outcome[audit'[i].action]
  <2>1. CASE i = k + 1
    BY <1>1, <2>1
  <2>2. CASE i \in 1..k
    BY <1>1, <2>2 DEF TrailNamesAll, k
  <2> QED
    BY <1>1, <2>1, <2>2
<1>7. \A p \in Plan : row'[p] = "ABSENT" => parent'[p] = None
  BY DEF TrailNamesAll
<1> QED
  BY <1>1, <1>3, <1>4, <1>5, <1>6, <1>7 DEF TrailNamesAll

LEMMA NamesKept == StoresSound /\ Trail /\ TrailNamesAll /\ [Next]_vars => TrailNamesAll'
<1> SUFFICES ASSUME StoresSound, Trail, TrailNamesAll, [Next]_vars PROVE TrailNamesAll'
  OBVIOUS
<1>t. Typed
  BY DEF StoresSound
<1>1. CASE UNCHANGED rows
  BY <1>1 DEF rows, TrailNamesAll, Proposal, Exists
<1>2. ASSUME NEW t \in Client, CreatePublish(t) PROVE TrailNamesAll'
  <2>0. PICK p \in Plan : p = thread[t].new
    BY <1>2 DEF CreatePublish, At, StoresSound, BeforePublication, AfterPublication
  <2>1. ~Exists /\ \A q \in Plan : row[q] = "ABSENT"
    BY <1>2 DEF CreatePublish, At, StoresSound, BeforePublication, AfterPublication
  <2>2. audit = <<>>
    <3>1. audit = <<>> \/ 1 \in 1..Len(audit)
      BY <1>t DEF Typed, TypeOK
    <3>2. 1 \in 1..Len(audit) => FALSE
      BY <2>1 DEF Trail
    <3> QED
      BY <3>1, <3>2
  <2>3. /\ row' = [row EXCEPT ![p] = "WAITING_APPROVAL"] /\ UNCHANGED <<parent, audit>>
        /\ approval'.plan = p
    BY <1>2, <2>0 DEF CreatePublish
  <2>4. row'[p] = "WAITING_APPROVAL" /\ \A q \in Plan \ {p} : row'[q] = "ABSENT"
    BY <1>t, <2>1, <2>3 DEF Typed, TypeOK
  <2>5. Proposal' = p /\ Len(audit') = 0
    BY <2>2, <2>3 DEF Proposal
  <2>6. \A q \in Plan : parent'[q] = None
    BY <2>1, <2>3 DEF TrailNamesAll
  <2> QED
    BY <2>4, <2>5, <2>6 DEF TrailNamesAll
<1>3. ASSUME NEW t \in Client, TransactDecision(t) PROVE TrailNamesAll'
  <2>0. thread[t].action \in Decision /\ thread[t].plan \in Plan
    <3>1. approval.plan = thread[t].plan /\ approval.status = "WAITING_APPROVAL"
      BY <1>3 DEF TransactDecision, Transactable
    <3> QED
      BY <1>3, <3>1 DEF TransactDecision, StoresSound, AfterPublication, Exists
  <2>1. PICK a \in Decision, p \in Plan : a = thread[t].action /\ p = thread[t].plan
    BY <2>0
  <2>2. /\ approval = [status |-> "WAITING_APPROVAL", plan |-> p]
        /\ approval' = [status |-> Outcome[a], plan |-> p]
        /\ row' = [row EXCEPT ![p] = Outcome[a]] /\ UNCHANGED parent /\ row[p] = "WAITING_APPROVAL"
    BY <1>3, <2>1 DEF TransactDecision, Transactable
  <2>3. Outcome[a] \notin {"ABSENT", "SUPERSEDED"} /\ a # "edit"
    BY DEF Outcome, Decision
  <2>4. PICK e : e = [action |-> a, status |-> Outcome[a], from |-> p, to |-> p]
    OBVIOUS
  <2>5. audit' = Append(audit, e)
    BY <1>3, <2>1, <2>2, <2>4 DEF TransactDecision, Record
  <2>6. row'[p] = Outcome[a] /\ \A q \in Plan : q # p => row'[q] = row[q]
    BY <1>t, <2>2 DEF Typed, TypeOK
  <2>7. e.from = approval.plan /\ e.status = Outcome[e.action] /\ e.action = a
    BY <2>2, <2>4
  <2>8. Exists /\ approval.status = "WAITING_APPROVAL"
    BY <2>2 DEF Exists
  <2> QED
    BY <1>t, <2>2, <2>3, <2>5, <2>6, <2>7, <2>8, NamesStep
<1>4. ASSUME NEW t \in Client, TransactEdit(t) PROVE TrailNamesAll'
  <2>0. PICK p \in Plan, q \in Plan : p = thread[t].plan /\ q = thread[t].new
    BY <1>4, ReplacementIsNew
  <2>1. p = approval.plan /\ row[q] = "ABSENT" /\ row[p] = "WAITING_APPROVAL"
    BY <1>4, <2>0, ReplacementIsNew
  <2>2. /\ approval = [status |-> "WAITING_APPROVAL", plan |-> p]
        /\ approval' = [status |-> "WAITING_APPROVAL", plan |-> q]
        /\ row' = [row EXCEPT ![p] = "SUPERSEDED", ![q] = "WAITING_APPROVAL"]
        /\ parent' = [parent EXCEPT ![q] = p]
    BY <1>4, <2>0 DEF TransactEdit, Transactable
  <2>3. PICK e : e = [action |-> "edit", status |-> "WAITING_APPROVAL", from |-> p, to |-> q]
    OBVIOUS
  <2>4. audit' = Append(audit, e)
    BY <1>4, <2>0, <2>2, <2>3 DEF TransactEdit, Record
  <2>5. /\ row'[q] = "WAITING_APPROVAL" /\ (p # q => row'[p] = "SUPERSEDED")
        /\ \A r \in Plan \ {p, q} : row'[r] = row[r]
        /\ \A r \in Plan \ {q} : parent'[r] = parent[r]
    BY <1>t, <2>2 DEF Typed, TypeOK
  <2>6. e.from = approval.plan /\ e.from = p /\ e.status = "WAITING_APPROVAL" /\ e.action = "edit"
    BY <2>1, <2>3
  <2>7. Exists /\ approval.status = "WAITING_APPROVAL"
    BY <2>2 DEF Exists
  <2>8. p # q /\ row'[p] = "SUPERSEDED"
    BY <2>1, <2>5
  <2>9. \A r \in Plan : row'[r] = "SUPERSEDED" => row[r] = "SUPERSEDED" \/ r = e.from
    BY <2>5, <2>6
  <2>10. \A r \in Plan \ {q} : (row'[r] = "ABSENT" <=> row[r] = "ABSENT") /\ parent'[r] = parent[r]
    BY <2>1, <2>5, <2>8
  <2> QED
    BY <1>t, <2>1, <2>4, <2>5, <2>6, <2>7, <2>9, <2>10, NamesStep
<1>5. ASSUME NEW t \in Client, Execute(t) PROVE TrailNamesAll'
  BY <1>5 DEF Execute, TrailNamesAll, Proposal, Exists
<1> QED
  BY <1>1, <1>2, <1>3, <1>4, <1>5, RowSteps

\* Every version has its page, unless it was superseded by the plan that is
\* being executed.
LEMMA VersionsShown ==
  ASSUME StoresSound, TrailNamesAll
  PROVE  PlansAreShown
<1> SUFFICES ASSUME NEW s \in RowStatus \cup {None}, NEW p \in Listed(s),
                    ~(Started /\ s \in {"SUPERSEDED", None})
             PROVE  Associated(p)
  BY DEF PlansAreShown, PageAnswers
<1>1. p \in Plan /\ row[p] # "ABSENT" /\ (row[p] = "SUPERSEDED" => ~Started)
  BY DEF Listed
<1>2. Exists /\ TablesAgree
  BY <1>1 DEF StoresSound, BeforePublication, AfterPublication
<1>3. operation.plan = approval.plan /\ row[approval.plan] = approval.status
      /\ approval.status \in ApprovalStatus
      /\ \/ operation.status = approval.status
         \/ operation.status = "EXECUTING" /\ approval.status = "APPROVED"
  <2>1. approval.status \in ApprovalStatus \cup {"ABSENT"}
    BY DEF StoresSound, Typed, TypeOK
  <2> QED
    BY <1>2, <2>1 DEF TablesAgree, Exists
<1>4. approval.status # "ABSENT" /\ operation.status # "ABSENT"
  BY <1>2, <1>3 DEF Exists
<1>5. CASE row[p] = "SUPERSEDED"
  <2>1. InHistory(p)
    BY <1>1, <1>5 DEF InHistory, TrailNamesAll
  <2> QED
    BY <1>1, <1>4, <1>5, <2>1 DEF Associated
<1>6. CASE row[p] # "SUPERSEDED"
  <2>1. p = approval.plan
    BY <1>1, <1>2, <1>6 DEF TablesAgree, Exists
  <2>2. operation.status \in OperationAllowed[row[p]]
    BY <1>3, <2>1 DEF OperationAllowed, ApprovalStatus, DecidedStatus
  <2> QED
    BY <1>3, <1>4, <1>6, <2>1, <2>2 DEF Associated, ExecutedPlan
<1> QED
  BY <1>5, <1>6

\* What is shown as available can be decided as shown.
LEMMA PendingDecidable ==
  ASSUME StoresSound, PendingIsResumable
  PROVE  ShownAsDecidable
<1> SUFFICES ASSUME NEW item \in PendingItems
             PROVE  IF item.recovery = "available"
                    THEN /\ SnapshotHolds(item.plan, item.revision)
                         /\ Transactable(item.plan) /\ checkpoint.plan = item.plan
                         /\ WorkflowAnswers
                    ELSE checkpoint.plan # item.plan
  BY DEF ShownAsDecidable
<1>1. PICK p \in Plan :
        /\ approval = [status |-> "WAITING_APPROVAL", plan |-> p] /\ row[p] = "WAITING_APPROVAL"
        /\ item = [plan |-> p, revision |-> ShownRevision(p), recovery |-> Recovery]
  BY DEF PendingItems
<1>2. approval.status = "WAITING_APPROVAL" /\ approval.plan = p
      /\ item.plan = p /\ item.revision = ShownRevision(p) /\ item.recovery = Recovery
  BY <1>1
<1>3. operation.plan = p /\ operation.status = "WAITING_APPROVAL" /\ checkpoint.status = "waiting"
  BY <1>2 DEF StoresSound, AfterPublication, Exists, TablesAgree, PendingIsResumable
<1>4. CASE Recoverable
  <2>1. Recovery = "available" /\ checkpoint.plan = p
    BY <1>2, <1>4 DEF Recovery, Recoverable
  <2>2. SnapshotHolds(p, ShownRevision(p)) /\ Transactable(p)
    BY <1>1, <1>3 DEF SnapshotHolds, ShownRevision, Transactable
  <2>3. WorkflowAnswers
    BY <1>2, <1>3, <2>1 DEF WorkflowAnswers, CheckpointShows
  <2> QED
    BY <1>2, <2>1, <2>2, <2>3
<1>5. CASE ~Recoverable
  BY <1>2, <1>3, <1>5 DEF Recovery, Recoverable
<1> QED
  BY <1>4, <1>5

\* The stream begins with the proposal and ends with what the approval says.
LEMMA StreamTells ==
  ASSUME StoresSound, Trail, TrailNamesAll
  PROVE  StreamTellsApproval
<1> SUFFICES ASSUME Exists PROVE StreamTellsApproval
  BY DEF StreamTellsApproval, Exists
<1> DEFINE kind(i) == EventKind[audit[i].action]
           k == Len(audit)
<1>1. k \in Nat /\ DOMAIN audit = 1..k /\ (audit = <<>> <=> k = 0)
      /\ \A i \in 1..k : audit[i].action \in Decision \cup {"edit"}
  <2> DEFINE Event == [action : Decision \cup {"edit"}, status : ApprovalStatus,
                      from : Plan \cup {None}, to : Plan \cup {None}]
  <2>1. audit \in Seq(Event)
    BY DEF StoresSound, Typed, TypeOK
  <2>2. \A e \in Event : e.action \in Decision \cup {"edit"}
    OBVIOUS
  <2> HIDE DEF Event
  <2> QED
    BY <2>1, <2>2
<1>2. /\ Len(ApprovalEvents) = k + 1
      /\ ApprovalEvents[1] = [kind |-> "waiting", plan |-> Proposal]
      /\ \A i \in 1..k : ApprovalEvents[i + 1] = [kind |-> kind(i), plan |-> audit[i].to]
  <2> DEFINE event(i) == [kind |-> kind(i), plan |-> audit[i].to]
             proposed == [kind |-> "waiting", plan |-> Proposal]
             first == <<proposed>>
             rest == [i \in 1..k |-> event(i)]
  <2>1. ApprovalEvents = first \o rest
    BY <1>1 DEF ApprovalEvents, Proposal
  <2> HIDE DEF event, k
  <2> DEFINE Event == {proposed} \cup {event(i) : i \in 1..k}
  <2>2. rest \in Seq(Event) /\ Len(rest) = k
    BY <1>1
  <2>3. \A i \in 1..k : rest[i] = event(i)
    OBVIOUS
  <2> HIDE DEF rest
  <2> HIDE DEF proposed
  <2>4. first \in Seq(Event) /\ Len(first) = 1 /\ first[1] = proposed
    OBVIOUS
  <2> HIDE DEF first, Event
  <2>5. PICK f, r : f = first /\ r = rest
    OBVIOUS
  <2>6. f \in Seq(Event) /\ r \in Seq(Event) /\ Len(f) = 1 /\ Len(r) = k
    BY <2>2, <2>4, <2>5
  <2>7. /\ Len(f \o r) = Len(f) + Len(r)
        /\ \A i \in 1..(Len(f) + Len(r)) : (f \o r)[i] = IF i <= Len(f) THEN f[i] ELSE r[i - Len(f)]
    BY <2>6, ConcatProperties
  <2>8. Len(f \o r) = k + 1 /\ (f \o r)[1] = f[1]
    BY <1>1, <2>6, <2>7
  <2>9. ASSUME NEW i \in 1..k PROVE (f \o r)[i + 1] = r[i]
    BY <1>1, <2>6, <2>7
  <2> QED
    BY <2>1, <2>3, <2>4, <2>5, <2>8, <2>9 DEF event, proposed
<1> HIDE DEF k
<1>3. parent[ApprovalEvents[1].plan] = None
  BY <1>2 DEF TrailNamesAll
<1> DEFINE last == ApprovalEvents[Len(ApprovalEvents)]
<1>4. /\ last.plan = approval.plan
      /\ (last.kind = "waiting") = (approval.status = "WAITING_APPROVAL")
      /\ (last.kind = "approved") = (approval.status = "APPROVED")
  <2>1. CASE k = 0
    <3>1. approval.status = "WAITING_APPROVAL"
      BY <1>1, <2>1 DEF Trail, AuditExplainsApproval, Exists
    <3> QED
      BY <1>1, <1>2, <2>1, <3>1 DEF Proposal
  <2>2. CASE k # 0
    <3>1. k \in 1..k /\ audit # <<>> /\ audit[k].action \in Decision \cup {"edit"}
      BY <1>1, <2>2
    <3>2. approval = [status |-> audit[k].status, plan |-> audit[k].to]
      BY <3>1 DEF Trail, AuditExplainsApproval, k
    <3>3. audit[k].status = IF audit[k].action = "edit" THEN "WAITING_APPROVAL" ELSE Outcome[audit[k].action]
      BY <3>1 DEF TrailNamesAll, k
    <3>4. last.kind = EventKind[audit[k].action] /\ last.plan = audit[k].to
      <4>1. ApprovalEvents[k + 1] = [kind |-> kind(k), plan |-> audit[k].to]
        BY <1>2, <3>1
      <4> QED
        BY <1>2, <4>1
    <3> HIDE DEF last
    <3> QED
      BY <3>1, <3>2, <3>3, <3>4 DEF EventKind, Outcome, Decision
  <2> QED
    BY <2>1, <2>2
<1> QED
  BY <1>3, <1>4 DEF StreamTellsApproval

\* The list of pending approvals and the page of the plan say the same.
LEMMA PendingAsDetailed ==
  ASSUME StoresSound, approval.status = "WAITING_APPROVAL"
  PROVE  PendingItems = {[plan |-> p, revision |-> Detail(p).revision, recovery |-> Detail(p).recovery] :
                           p \in Listed("WAITING_APPROVAL")}
<1>1. PICK p \in Plan : approval = [status |-> "WAITING_APPROVAL", plan |-> p]
  <2>1. approval.plan \in Plan /\ approval \in [status : ApprovalStatus \cup {"ABSENT"}, plan : Plan \cup {None}]
    BY DEF StoresSound, AfterPublication, Exists, Typed, TypeOK
  <2> QED
    BY <2>1
<1>2. row[p] = "WAITING_APPROVAL" /\ \A q \in Plan \ {p} : row[q] \in {"ABSENT", "SUPERSEDED"}
  BY <1>1 DEF StoresSound, AfterPublication, Exists, TablesAgree
<1>3. PendingItems = {[plan |-> p, revision |-> ShownRevision(p), recovery |-> Recovery]}
  BY <1>1, <1>2 DEF PendingItems
<1>4. Listed("WAITING_APPROVAL") = {p}
  BY <1>1, <1>2, FilterAssumption DEF Listed, RowStatus, ApprovalStatus
<1>5. Detail(p).revision = ShownRevision(p) /\ Detail(p).recovery = Recovery
  BY <1>1 DEF Detail
<1> QED
  BY <1>3, <1>4, <1>5

\* A decision that both stores have recorded is shown.
LEMMA ReflectedShown ==
  ASSUME StoresSound, CheckpointFollowsDecision, NEW a \in Decision,
         approval.status = Outcome[a], checkpoint.status = Settled[a]
  PROVE  WorkflowAnswers
<1>1. Exists
  BY DEF Exists, Outcome, Decision
<1>2. checkpoint.plan = approval.plan
  BY <1>1 DEF CheckpointFollowsDecision, Exists
<1>3. CheckpointShows[Settled[a]] = Outcome[a] /\ Settled[a] # "absent"
  BY DEF CheckpointShows, Settled, Outcome, Decision
<1>4. TablesAgree
  BY <1>1 DEF StoresSound, AfterPublication
<1> QED
  BY <1>1, <1>2, <1>3, <1>4 DEF WorkflowAnswers, TablesAgree, Exists

\* The pages tell the truth across the two stores: every version has its page,
\* a pending approval can be decided as it is shown, and a decision that both
\* stores have recorded is shown (organization_api.py:588-757, 946-1057).
THEOREM PagesStayUsable == Spec => []PagesAreUsable
<1>1. Init => Trail /\ TrailNamesAll
  BY DEF Init, Trail, AuditExplainsApproval, TrailNamesAll, Exists
<1>2. /\ StoresSound /\ Trail /\ TrailNamesAll
      /\ CheckpointFollowsDecision /\ PendingIsResumable
      => PagesAreUsable
  BY VersionsShown, PendingDecidable, StreamTells, PendingAsDetailed, ReflectedShown DEF PagesAreUsable
<1> QED
  BY <1>1, <1>2, TrailKept, NamesKept, StoresCorrect, CheckpointNeverAhead, PendingStaysResumable, PTL DEF Spec
=============================================================================
