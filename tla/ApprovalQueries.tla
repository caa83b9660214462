---------------------------- MODULE ApprovalQueries ----------------------------
(***************************************************************************)
(* What the query routes of organization_api.py answer about the workflow  *)
(* of ApprovalWorkflow: the workflow, one version of its plan, the list of *)
(* versions and the list of pending approvals.  The answers only read, but *)
(* each joins several rows and the checkpoint, and refuses (409) what does *)
(* not fit together; a page shows what they return, and its user decides   *)
(* on the plan and the revision shown there.                               *)
(***************************************************************************)
EXTENDS ApprovalWorkflow

\* map_approval_status_to_operation_status is the identity;
\* map_workflow_status_to_operation_status tells a rejection from a failure.
CheckpointShows ==
  [ready |-> "APPROVED", waiting |-> "WAITING_APPROVAL",
   failed |-> "REJECTED", cancelled |-> "CANCELLED"]

\* The operation's status, of those this workflow reaches, under each plan's.
OperationAllowed ==
  [WAITING_APPROVAL |-> {"WAITING_APPROVAL"},
   APPROVED |-> {"APPROVED", "EXECUTING"},
   REJECTED |-> {"REJECTED"},
   CANCELLED |-> {"CANCELLED"}]

\* operation.execution_id is set; the execution keeps the plan it started with.
Started == operation.status = "EXECUTING"
ExecutedPlan == operation.plan

\* Mutant: a superseded version is looked for where an edit led to.
InHistoryAsResult(p) == \E i \in 1..Len(audit) : audit[i].to = p
InHistory(p) == \E i \in 1..Len(audit) : p \in {audit[i].from, audit[i].to}

\* _validate_plan_associations
Associated(p) ==
  /\ approval.status # "ABSENT" /\ operation.status # "ABSENT"
  /\ IF row[p] = "SUPERSEDED"
     THEN InHistory(p)
     ELSE /\ approval.plan = p /\ operation.plan = p
          /\ operation.status \in OperationAllowed[row[p]]
  /\ Started => ExecutedPlan = p

\* A filter of None lists every plan: it is no status.
ASSUME FilterAssumption == None \notin RowStatus

\* find_operation_plans with its status filter.  The plan page answers every
\* record it lists or, when one is not associated, nothing.
Listed(status) == {p \in Plan : row[p] # "ABSENT" /\ (status = None \/ row[p] = status)}
PageAnswers(status) == \A p \in Listed(status) : Associated(p)

\* scan_waiting_approval_tasks hands back the waiting approvals whose
\* checkpoint waits for the same plan; every other approval is "blocked".
Recoverable ==
  /\ approval.status = "WAITING_APPROVAL"
  /\ checkpoint.plan = approval.plan
  /\ checkpoint.status = "waiting"
Recovery == IF Recoverable THEN "available" ELSE "blocked"

ShownRevision(p) == IF operation.plan = p THEN operation.revision ELSE 0

\* list_pending_approvals joins the approval with its plan's row.
PendingItems ==
  {[plan |-> p, revision |-> ShownRevision(p), recovery |-> Recovery] :
     p \in {q \in Plan : /\ approval = [status |-> "WAITING_APPROVAL", plan |-> q]
                         /\ row[q] = "WAITING_APPROVAL"}}

\* _operation_plan_detail_response
Detail(p) ==
  [status |-> row[p],
   revision |-> ShownRevision(p),
   approval |-> IF approval.plan = p THEN approval.status ELSE "none",
   recovery |-> IF approval.plan = p THEN Recovery ELSE "not_applicable"]

\* _workflow_response: checkpoint, approval, plan and operation are one fact.
WorkflowAnswers ==
  /\ checkpoint.status # "absent" /\ approval.status # "ABSENT"
  /\ checkpoint.plan = approval.plan /\ operation.plan = approval.plan
  /\ CheckpointShows[checkpoint.status] = approval.status
  /\ \/ operation.status = approval.status
     \/ operation.status = "EXECUTING" /\ approval.status = "APPROVED"

\* _check_expected_operation_snapshot
SnapshotHolds(p, r) == operation.plan = p /\ operation.revision = r

\* The approval's part of build_workflow_event_stream: the proposal, then what
\* the audit trail says became of it.
EventKind ==
  [edit |-> "waiting", approve |-> "approved", reject |-> "rejected", cancel |-> "rejected"]
ApprovalEvents ==
  LET proposal == IF audit = <<>> THEN approval.plan ELSE audit[1].from IN
  <<[kind |-> "waiting", plan |-> proposal]>>
    \o [i \in DOMAIN audit |-> [kind |-> EventKind[audit[i].action], plan |-> audit[i].to]]

-----------------------------------------------------------------------------
(* What a user of the pages relies on *)

\* Every version of the plan has its page, and the list of all of them its
\* answer, until the execution starts.  From then on a superseded version is
\* compared with the execution's plan and refused, and the list with it; the
\* lists of the other statuses are answered (organization_api.py:462-585).
PlansAreShown ==
  \A s \in RowStatus \cup {None} :
    PageAnswers(s) \/ (Started /\ s \in {"SUPERSEDED", None})

\* A pending approval shown as available can be decided with the plan and the
\* revision shown, and one shown as blocked has a staged edit in its
\* checkpoint: a decision is refused there (approval_recovery.py:134-187).
ShownAsDecidable ==
  \A item \in PendingItems :
    IF item.recovery = "available"
    THEN /\ SnapshotHolds(item.plan, item.revision)
         /\ Transactable(item.plan) /\ checkpoint.plan = item.plan
         /\ WorkflowAnswers
    ELSE checkpoint.plan # item.plan

\* The stream begins with the proposal and ends with what the approval says.
StreamTellsApproval ==
  LET last == ApprovalEvents[Len(ApprovalEvents)] IN
  approval.status # "ABSENT" =>
    /\ parent[ApprovalEvents[1].plan] = None
    /\ last.plan = approval.plan
    /\ (last.kind = "waiting") = (approval.status = "WAITING_APPROVAL")
    /\ (last.kind = "approved") = (approval.status = "APPROVED")

\* The pages tell the truth across the two stores: versions have their page,
\* pending approvals are decidable as shown, the pending list and the details
\* say the same, and a decision that both stores have recorded is shown
\* (organization_api.py:588-757, 946-1057).
PagesAreUsable ==
  /\ PlansAreShown
  /\ ShownAsDecidable
  /\ StreamTellsApproval
  /\ approval.status = "WAITING_APPROVAL" =>
       PendingItems = {[plan |-> p, revision |-> Detail(p).revision, recovery |-> Detail(p).recovery] :
                         p \in Listed("WAITING_APPROVAL")}
  /\ \A a \in Decision :
       approval.status = Outcome[a] /\ checkpoint.status = Settled[a] => WorkflowAnswers
=============================================================================
