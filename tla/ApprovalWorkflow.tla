--------------------------- MODULE ApprovalWorkflow ---------------------------
(***************************************************************************)
(* One organization workflow from its proposal to the start of its         *)
(* execution: organization_planning.py creates it, organization_decisions  *)
(* .py applies the human's decisions and plan edits through the approval   *)
(* services of services.py, and the execute route launches it.             *)
(*                                                                         *)
(* Its state lives in two stores without a common transaction: the rows of *)
(* the business database, and the LangGraph checkpoint in an SQLite file   *)
(* of its own.  A decision commits in the database and then advances the   *)
(* checkpoint; an edit advances the checkpoint inside an open database     *)
(* transaction.  Every read of a store, every checkpoint written and every *)
(* commit is a step, so that requests interleave and fail between them.    *)
(***************************************************************************)
EXTENDS Integers, Sequences, FiniteSets

CONSTANTS
  Plan,        \* plan ids
  Targets,     \* the target directories of each plan, as one value
  Client,      \* threads that serve requests
  None,        \* no plan, no thread, nothing wanted
  MaxFault     \* bound on failed statements, failed invocations and crashes

ASSUME NoneAssumption == None \notin Plan /\ None \notin Client
ASSUME TargetsAssumption == Targets \in [Plan -> {Targets[p] : p \in Plan}]
ASSUME FaultAssumption == MaxFault \in Nat

AnyRevision == -1   \* of a request that names no expected_revision
Target == {Targets[p] : p \in Plan}
Decision == {"approve", "reject", "cancel"}
\* Mutant: the verb of the request is stored instead of the status.
OutcomeUnmapped == [approve |-> "APPROVE", reject |-> "REJECT", cancel |-> "CANCEL"]
Outcome == [approve |-> "APPROVED", reject |-> "REJECTED", cancel |-> "CANCELLED"]
\* The checkpoint status a decision leads to (with its error_code, which
\* tells "failed" by rejection, the only failure of this workflow).
Settled == [approve |-> "ready", reject |-> "failed", cancel |-> "cancelled"]

DecidedStatus == {"APPROVED", "REJECTED", "CANCELLED"}
ApprovalStatus == DecidedStatus \cup {"WAITING_APPROVAL"}
RowStatus == ApprovalStatus \cup {"ABSENT", "SUPERSEDED"}

VARIABLES
  approval,    \* the ApprovalRequest row
  row,         \* OperationPlanRecord.status by plan_id
  parent,      \* OperationPlanRecord.parent_plan_id
  operation,   \* the OperationStatusRecord
  audit,       \* the ApprovalAuditEvent rows
  checkpoint,  \* the WorkflowState in the checkpoint store
  lock,        \* who holds the write lock of the database
  thread,      \* what a request has read so far
  faults       \* failures so far

rows == <<approval, row, parent, operation, audit>>
vars == <<approval, row, parent, operation, audit, checkpoint, lock, thread, faults>>

NoCheckpoint == [plan |-> None, status |-> "absent", revision |-> 0]

Idle ==
  [pc |-> "idle", action |-> "none",
   plan |-> None,              \* expected_plan_id
   revision |-> AnyRevision,   \* expected_revision
   want |-> None,              \* the targets an edit asks for
   new |-> None,               \* the plan it builds or finds staged
   seen |-> NoCheckpoint,      \* the checkpoint its first read returned
   loaded |-> NoCheckpoint]    \* the one graph.invoke starts from

Init ==
  /\ approval = [status |-> "ABSENT", plan |-> None]
  /\ row = [p \in Plan |-> "ABSENT"]
  /\ parent = [p \in Plan |-> None]
  /\ operation = [status |-> "ABSENT", plan |-> None, revision |-> 0]
  /\ audit = <<>>
  /\ checkpoint = NoCheckpoint
  /\ lock = None
  /\ thread = [t \in Client |-> Idle]
  /\ faults = 0

At(t, pc) == thread[t].pc = pc
Goto(t, pc) == thread' = [thread EXCEPT ![t].pc = pc]
Finish(t) == thread' = [thread EXCEPT ![t] = Idle]
Release(t) == lock' = IF lock = t THEN None ELSE lock
Refuse(t) == Finish(t) /\ Release(t) /\ UNCHANGED <<rows, checkpoint, faults>>

Decided == approval.status \in DecidedStatus
\* A uuid4 that nothing mentions.
Fresh(p) ==
  /\ row[p] = "ABSENT"
  /\ checkpoint.plan # p
  /\ \A t \in Client : thread[t].new # p /\ thread[t].seen.plan # p /\ thread[t].loaded.plan # p
-----------------------------------------------------------------------------
(* create_waiting_approval_workflow_for_plan *)

\* The rows of the plan, the approval and the operation status are flushed:
\* from here to the commit the request holds the write lock.
CreateFlush(t) ==
  /\ At(t, "idle")
  /\ approval.status = "ABSENT" /\ checkpoint = NoCheckpoint
  /\ lock = None
  /\ \E p \in Plan :
       /\ Fresh(p)
       /\ thread' = [thread EXCEPT ![t] = [Idle EXCEPT !.pc = "pause", !.action = "create", !.new = p]]
  /\ lock' = t
  /\ UNCHANGED <<rows, checkpoint, faults>>

Initial(p) == [plan |-> p, status |-> "ready", revision |-> 0]
Paused(c) == [plan |-> c.plan, status |-> "waiting", revision |-> c.revision + 1]

CreatePause(t) ==
  /\ At(t, "pause")
  /\ checkpoint' = Paused(Initial(thread[t].new))
  /\ Goto(t, "publish")
  /\ UNCHANGED <<rows, lock, faults>>

CreatePublish(t) ==
  LET p == thread[t].new IN
  /\ At(t, "publish")
  /\ approval' = [status |-> "WAITING_APPROVAL", plan |-> p]
  /\ row' = [row EXCEPT ![p] = "WAITING_APPROVAL"]
  /\ operation' = [status |-> "WAITING_APPROVAL", plan |-> p, revision |-> 1]
  /\ Release(t)
  /\ Finish(t)
  /\ UNCHANGED <<parent, audit, checkpoint, faults>>
-----------------------------------------------------------------------------
(* Requests, and the reads they begin with *)

\* The decide and execute routes first compare the revision the page has seen
\* with the operation's; a request that names another one ends there.
Request(t, action, p, r, w) ==
  /\ At(t, "idle")
  /\ approval.status # "ABSENT"
  /\ r \in {AnyRevision, operation.revision}
  /\ thread' = [thread EXCEPT ![t] =
       [Idle EXCEPT !.pc = "load", !.action = action, !.plan = p, !.revision = r, !.want = w]]
  /\ UNCHANGED <<rows, checkpoint, lock, faults>>

\* The plans a page can name: no response shows a plan without a row.
Known == {p \in Plan : row[p] # "ABSENT"}

DecisionRequested(t) ==
  \E a \in Decision, p \in Known, r \in {AnyRevision, operation.revision} :
    Request(t, a, p, r, None)

EditRequested(t) ==
  \E p \in Known, r \in {AnyRevision, operation.revision}, w \in Target :
    Request(t, "edit", p, r, w)

ExecuteRequested(t) == Request(t, "execute", None, AnyRevision, None)

\* _load_waiting_or_applied_workflow
DecisionAccepts(t, c) ==
  /\ c.plan = thread[t].plan
  /\ c.status \in {"waiting", Settled[thread[t].action]}

Load(t) ==
  /\ At(t, "load")
  /\ thread[t].action \in Decision => DecisionAccepts(t, checkpoint)
  /\ thread' = [thread EXCEPT ![t].pc = "read", ![t].seen = checkpoint]
  /\ UNCHANGED <<rows, checkpoint, lock, faults>>

LoadRefused(t) ==
  /\ At(t, "load") /\ thread[t].action \in Decision
  /\ ~DecisionAccepts(t, checkpoint)
  /\ Refuse(t)

\* Mutant: a repeated decision is answered without looking at the checkpoint.
ReadDecisionAnswered(t) ==
  LET a == thread[t].action IN
  /\ At(t, "read") /\ a \in Decision
  /\ approval.plan = thread[t].plan
  /\ \/ approval.status = "WAITING_APPROVAL" /\ Goto(t, "transact")
     \/ approval.status = Outcome[a] /\ Finish(t)
  /\ UNCHANGED <<rows, checkpoint, lock, faults>>

\* A decision reads the approval: it is to be transacted, was transacted
\* before and is repeated towards the checkpoint, or is answered by both.
ReadDecision(t) ==
  LET a == thread[t].action IN
  /\ At(t, "read") /\ a \in Decision
  /\ approval.plan = thread[t].plan
  /\ \/ approval.status = "WAITING_APPROVAL" /\ Goto(t, "transact")
     \/ /\ approval.status = Outcome[a]
        /\ IF thread[t].seen.status = Settled[a] THEN Finish(t) ELSE Goto(t, "invoke")
  /\ UNCHANGED <<rows, checkpoint, lock, faults>>

ReadDecisionRefused(t) ==
  LET a == thread[t].action IN
  /\ At(t, "read") /\ a \in Decision
  /\ \/ approval.plan # thread[t].plan
     \/ approval.status \notin {"WAITING_APPROVAL", Outcome[a]}
  /\ Refuse(t)

\* Mutant: an edit does not know of staged replacements.
EditAcceptsCurrent(t) ==
  /\ approval = [status |-> "WAITING_APPROVAL", plan |-> thread[t].plan]
  /\ thread[t].seen.status = "waiting" /\ thread[t].seen.plan = thread[t].plan

EditAccepts(t) ==
  /\ approval.status = "WAITING_APPROVAL"
  /\ thread[t].seen.status = "waiting"
  /\ approval.plan = thread[t].plan

\* The checkpoint already holds a replacement whose commit failed; the edit
\* takes it over when it asks for the same targets.
Staged(t) == thread[t].seen.plan # thread[t].plan
StagedAsWanted(t) == Targets[thread[t].seen.plan] = thread[t].want

ReadEdit(t) ==
  /\ At(t, "read") /\ thread[t].action = "edit"
  /\ EditAccepts(t)
  /\ \/ /\ ~Staged(t)
        /\ Goto(t, "insert")
     \/ /\ Staged(t) /\ StagedAsWanted(t)
        /\ thread' = [thread EXCEPT ![t].new = thread[t].seen.plan, ![t].pc = "insert"]
  /\ UNCHANGED <<rows, checkpoint, lock, faults>>

ReadEditRefused(t) ==
  /\ At(t, "read") /\ thread[t].action = "edit"
  /\ ~EditAccepts(t) \/ (Staged(t) /\ ~StagedAsWanted(t))
  /\ Refuse(t)
-----------------------------------------------------------------------------
(* An edit inserts the replacement's row and flushes it: it holds the write *)
(* lock while it stages the replacement in the checkpoint.                  *)

\* Mutant: the row is not flushed before the checkpoint is staged.
InsertNewUnflushed(t) ==
  /\ At(t, "insert") /\ ~Staged(t)
  /\ \E p \in Plan :
       /\ Fresh(p) /\ Targets[p] = thread[t].want
       /\ thread' = [thread EXCEPT ![t].new = p, ![t].pc = "invoke"]
  /\ UNCHANGED <<rows, checkpoint, lock, faults>>

InsertNew(t) ==
  /\ At(t, "insert") /\ ~Staged(t)
  /\ lock = None
  /\ \E p \in Plan :
       /\ Fresh(p) /\ Targets[p] = thread[t].want
       /\ thread' = [thread EXCEPT ![t].new = p, ![t].pc = "invoke"]
  /\ lock' = t
  /\ UNCHANGED <<rows, checkpoint, faults>>

\* The row of a staged replacement is inserted again.  When another request
\* has committed it since, it is found there, or its primary key is violated.
InsertStaged(t) ==
  /\ At(t, "insert") /\ Staged(t)
  /\ lock = None
  /\ row[thread[t].new] = "ABSENT"
  /\ Goto(t, "transact")
  /\ lock' = t
  /\ UNCHANGED <<rows, checkpoint, faults>>

InsertFound(t) ==
  /\ At(t, "insert") /\ Staged(t)
  /\ row[thread[t].new] # "ABSENT"
  /\ Goto(t, "transact")
  /\ UNCHANGED <<rows, checkpoint, lock, faults>>

InsertRefused(t) ==
  /\ At(t, "insert")
  /\ \/ Staged(t) /\ lock = None /\ row[thread[t].new] # "ABSENT"
     \/ ~Staged(t)   \* the plan cannot be built: sources, targets or policy
  /\ Refuse(t)
-----------------------------------------------------------------------------
(* run_checkpointed_workflow_event: graph.invoke loads the checkpoint,      *)
(* applies the event to what it loaded, and saves.  Two connections do not  *)
(* exclude each other, so that a checkpoint saved in between is overwritten.*)

Invoke(t) ==
  /\ At(t, "invoke")
  /\ thread' = [thread EXCEPT ![t].pc = "apply", ![t].loaded = checkpoint]
  /\ UNCHANGED <<rows, checkpoint, lock, faults>>

\* transition_workflow: the event's sequence_no follows the revision the
\* request has seen, and must follow the loaded one too.
EventApplies(t) ==
  /\ thread[t].loaded.status = "waiting"
  /\ thread[t].loaded.revision = thread[t].seen.revision

Advanced(c, t) ==
  IF thread[t].action = "edit"
  THEN [plan |-> thread[t].new, status |-> "waiting", revision |-> c.revision + 1]
  ELSE [plan |-> c.plan, status |-> Settled[thread[t].action], revision |-> c.revision + 1]

Apply(t) ==
  /\ At(t, "apply")
  /\ EventApplies(t)
  /\ checkpoint' = Advanced(thread[t].loaded, t)
  /\ IF thread[t].action = "edit" THEN Goto(t, "transact") ELSE Finish(t)
  /\ UNCHANGED <<rows, lock, faults>>

\* graph.invoke saves its input with the workflow it has loaded before it
\* runs the node, so that an invocation that fails may leave that behind.
Leftover(t) ==
  IF At(t, "apply") THEN {thread[t].loaded}
  ELSE IF At(t, "pause") THEN {Initial(thread[t].new)} ELSE {}

\* The event does not apply, or the replacement does not pass
\* validate_operation_plan; an edit rolls its transaction back.
ApplyRefused(t) ==
  /\ At(t, "apply")
  /\ ~EventApplies(t) \/ thread[t].action = "edit"
  /\ checkpoint' \in {checkpoint} \cup Leftover(t)
  /\ Finish(t) /\ Release(t)
  /\ UNCHANGED <<rows, faults>>
-----------------------------------------------------------------------------
(* _transition_approval_request: one transaction of conditional updates     *)

\* Mutants: the updates compare statuses and no plan, or the plan and no status.
TransactableByStatus(p) ==
  approval.status = "WAITING_APPROVAL" /\ operation.status = "WAITING_APPROVAL"
TransactableByPlan(p) == approval.plan = p

\* compare_and_set_approval_request, _sync_operation_plan_status and
\* _sync_operation_status find what they expect.
Transactable(p) ==
  /\ approval = [status |-> "WAITING_APPROVAL", plan |-> p]
  /\ row[p] = "WAITING_APPROVAL"
  /\ operation.status = "WAITING_APPROVAL"

\* Mutant: the event names the version the human saw twice.
RecordPrevious(action, p, q) ==
  audit' = Append(audit, [action |-> action, status |-> approval'.status, from |-> p, to |-> p])

Record(action, p, q) ==
  audit' = Append(audit, [action |-> action, status |-> approval'.status, from |-> p, to |-> q])

TransactDecision(t) ==
  LET a == thread[t].action
      p == thread[t].plan
  IN
  /\ At(t, "transact") /\ a \in Decision
  /\ lock = None
  /\ Transactable(p)
  /\ approval' = [approval EXCEPT !.status = Outcome[a]]
  /\ row' = [row EXCEPT ![p] = Outcome[a]]
  /\ operation' = [status |-> Outcome[a], plan |-> p, revision |-> operation.revision + 1]
  /\ Record(a, p, p)
  /\ Goto(t, "invoke")
  /\ UNCHANGED <<parent, checkpoint, lock, faults>>

TransactEdit(t) ==
  LET p == thread[t].plan
      q == thread[t].new
  IN
  /\ At(t, "transact") /\ thread[t].action = "edit"
  /\ lock \in {None, t}
  /\ Transactable(p)
  /\ row[q] \in {"ABSENT", "WAITING_APPROVAL"}
  /\ approval' = [approval EXCEPT !.plan = q]
  /\ row' = [row EXCEPT ![p] = "SUPERSEDED", ![q] = "WAITING_APPROVAL"]
  /\ parent' = [parent EXCEPT ![q] = p]
  /\ operation' = [status |-> "WAITING_APPROVAL", plan |-> q, revision |-> operation.revision + 1]
  /\ Record("edit", p, q)
  /\ Finish(t) /\ Release(t)
  /\ UNCHANGED <<checkpoint, faults>>

\* Mutant: whatever changed the rows counts as this decision.
TransactLostAccepted(t) ==
  /\ At(t, "transact")
  /\ lock \in {None, t}
  /\ ~Transactable(thread[t].plan)
  /\ IF thread[t].action \in Decision THEN Goto(t, "invoke") ELSE Finish(t)
  /\ Release(t)
  /\ UNCHANGED <<rows, checkpoint, faults>>

\* The rows have changed since they were read.  The same approval or
\* cancellation by another request counts as this one's.
TransactLost(t) ==
  LET a == thread[t].action IN
  /\ At(t, "transact")
  /\ lock \in {None, t}
  /\ ~Transactable(thread[t].plan)
  /\ IF a \in {"approve", "cancel"}
        /\ approval = [status |-> Outcome[a], plan |-> thread[t].plan]
     THEN Goto(t, "invoke")
     ELSE Finish(t)
  /\ Release(t)
  /\ UNCHANGED <<rows, checkpoint, faults>>

\* SQLite gives up waiting for the write lock.
LockTimeout(t) ==
  /\ At(t, "insert") \/ At(t, "transact")
  /\ lock \notin {None, t}
  /\ Refuse(t)
-----------------------------------------------------------------------------
(* The execute route: the checkpoint, then the rows, must agree on an       *)
(* approved plan (_ready_workflow_response, require_approved_operation_plan)*)

Ready(t) ==
  /\ thread[t].seen.status = "ready"
  /\ approval = [status |-> "APPROVED", plan |-> thread[t].seen.plan]
  /\ row[approval.plan] = "APPROVED"
  /\ operation.plan = approval.plan /\ operation.status = "APPROVED"

Execute(t) ==
  /\ At(t, "read") /\ thread[t].action = "execute"
  /\ lock = None
  /\ Ready(t)
  /\ operation' = [status |-> "EXECUTING", plan |-> operation.plan, revision |-> operation.revision + 1]
  /\ Finish(t)
  /\ UNCHANGED <<approval, row, parent, audit, checkpoint, lock, faults>>

ExecuteRefused(t) ==
  /\ At(t, "read") /\ thread[t].action = "execute"
  /\ ~Ready(t)
  /\ Refuse(t)
-----------------------------------------------------------------------------
(* Failures *)

\* A statement, a commit or an invocation fails; the exception handlers roll
\* the transaction back.
Fault(t) ==
  /\ ~At(t, "idle")
  /\ faults < MaxFault
  /\ faults' = faults + 1
  /\ checkpoint' \in {checkpoint} \cup Leftover(t)
  /\ Finish(t) /\ Release(t)
  /\ UNCHANGED rows

Crash ==
  /\ \E t \in Client : ~At(t, "idle")
  /\ faults < MaxFault
  /\ faults' = faults + 1
  /\ checkpoint' \in {checkpoint} \cup UNION {Leftover(t) : t \in Client}
  /\ thread' = [t \in Client |-> Idle]
  /\ lock' = None
  /\ UNCHANGED rows
-----------------------------------------------------------------------------
Step(t) ==
  \/ CreatePause(t) \/ CreatePublish(t)
  \/ Load(t) \/ LoadRefused(t)
  \/ ReadDecision(t) \/ ReadDecisionRefused(t)
  \/ ReadEdit(t) \/ ReadEditRefused(t)
  \/ InsertNew(t) \/ InsertStaged(t) \/ InsertFound(t) \/ InsertRefused(t)
  \/ Invoke(t) \/ Apply(t) \/ ApplyRefused(t)
  \/ TransactDecision(t) \/ TransactEdit(t) \/ TransactLost(t) \/ LockTimeout(t)
  \/ Execute(t) \/ ExecuteRefused(t)

Next ==
  \/ \E t \in Client :
       \/ CreateFlush(t)
       \/ DecisionRequested(t) \/ EditRequested(t) \/ ExecuteRequested(t)
       \/ Step(t)
       \/ Fault(t)
  \/ Crash

Spec == Init /\ [][Next]_vars

\* A client repeats what the two stores do not agree on yet: the decision the
\* database has recorded, or the edit the checkpoint has staged.
RepeatDecision(t) ==
  /\ Decided /\ checkpoint.status = "waiting"
  /\ \E a \in Decision :
       Outcome[a] = approval.status /\ Request(t, a, approval.plan, AnyRevision, None)

RepeatEdit(t) ==
  /\ approval.status = "WAITING_APPROVAL"
  /\ checkpoint.plan # approval.plan
  /\ Request(t, "edit", approval.plan, AnyRevision, Targets[checkpoint.plan])

FairSpec ==
  /\ Spec
  /\ \A t \in Client : WF_vars(Step(t))
  /\ SF_vars(\E t \in Client : RepeatDecision(t))
  /\ SF_vars(\E t \in Client : RepeatEdit(t))
=============================================================================
