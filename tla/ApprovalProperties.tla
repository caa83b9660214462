-------------------------- MODULE ApprovalProperties --------------------------
(***************************************************************************)
(* What ApprovalWorkflow is checked for.                                   *)
(***************************************************************************)
EXTENDS ApprovalWorkflow

CheckpointStatus == {"absent", "ready", "waiting", "failed", "cancelled"}
Checkpoint == [plan : Plan \cup {None}, status : CheckpointStatus, revision : Nat]
Pc == {"idle", "pause", "publish", "load", "read", "insert", "invoke", "apply", "transact"}
Local ==
  [pc : Pc,
   action : Decision \cup {"none", "create", "edit", "execute"},
   plan : Plan \cup {None},
   revision : Nat \cup {AnyRevision},
   want : Target \cup {None},
   new : Plan \cup {None},
   seen : Checkpoint,
   loaded : Checkpoint]

\* The types of the rows, of the checkpoint and of what a request remembers.
TypeOK ==
  /\ approval \in [status : ApprovalStatus \cup {"ABSENT"}, plan : Plan \cup {None}]
  /\ row \in [Plan -> RowStatus]
  /\ parent \in [Plan -> Plan \cup {None}]
  /\ operation \in [status : ApprovalStatus \cup {"ABSENT", "EXECUTING"},
                    plan : Plan \cup {None}, revision : Nat]
  /\ audit \in Seq([action : Decision \cup {"edit"}, status : ApprovalStatus,
                   from : Plan \cup {None}, to : Plan \cup {None}])
  /\ checkpoint \in Checkpoint
  /\ lock \in Client \cup {None}
  /\ thread \in [Client -> Local]
  /\ faults \in Nat

\* The checkpoint never runs ahead of the database: once the approval exists,
\* a workflow that is ready, failed or cancelled is about the very plan that
\* the committed decision is about (organization_decisions.py:79-151).
CheckpointFollowsDecision ==
  approval.status # "ABSENT" =>
    \A a \in Decision :
      checkpoint.status = Settled[a] =>
        approval = [status |-> Outcome[a], plan |-> checkpoint.plan]

\* A waiting approval is always one that approval_recovery.py can hand back to
\* its human, or whose edit can be repeated: its checkpoint waits too, for the
\* same plan or for a staged replacement that no row knows yet.
PendingIsResumable ==
  approval.status = "WAITING_APPROVAL" =>
    /\ checkpoint.status = "waiting"
    /\ checkpoint.plan = approval.plan \/ row[checkpoint.plan] = "ABSENT"

\* The three tables agree after every commit: one version of the plan is live,
\* it carries the approval's status, every other version is superseded, and
\* the operation points at it (services.py:530-700).
TablesAgree ==
  approval.status # "ABSENT" =>
    /\ row[approval.plan] = approval.status
    /\ \A p \in Plan \ {approval.plan} : row[p] \in {"ABSENT", "SUPERSEDED"}
    /\ operation.plan = approval.plan
    /\ \/ operation.status = approval.status
       \/ operation.status = "EXECUTING" /\ approval.status = "APPROVED"

\* The audit trail explains the approval: its events form a chain from version
\* to version, along the parents of the plans, that ends in what the approval
\* says, and nothing follows a decision (services.py:608-621).
AuditExplainsApproval ==
  /\ \A i \in 1..Len(audit) :
       /\ audit[i].action = "edit" => parent[audit[i].to] = audit[i].from
       /\ i < Len(audit) => audit[i].status = "WAITING_APPROVAL" /\ audit[i + 1].from = audit[i].to
  /\ IF audit = <<>>
     THEN approval.status \in {"ABSENT", "WAITING_APPROVAL"}
     ELSE LET last == audit[Len(audit)] IN
          approval = [status |-> last.status, plan |-> last.to]

\* The revision a request named was compared before anything was read, and is
\* still the operation's when its decision or edit commits
\* (organization_api.py:358-389).
NamedRevisionHolds ==
  [][\A t \in Client :
       /\ approval' # approval /\ thread'[t] # thread[t]
       /\ thread[t].revision # AnyRevision
       => thread[t].revision = operation.revision]_vars

Contract == INSTANCE ApprovalContract WITH
  open <- approval.plan,
  offered <- {p \in Plan : row[p] # "ABSENT"},
  verdict <- IF Decided THEN approval.status ELSE "none",
  executed <- IF operation.status = "EXECUTING" THEN operation.plan ELSE None

\* Requests on two stores implement the one-shot decision of ApprovalContract.
KeepsApprovalContract == Contract!Spec

Reflected ==
  \E a \in Decision : approval.status = Outcome[a] /\ checkpoint.status = Settled[a]

\* A committed decision that is repeated reaches the checkpoint, whatever
\* fails in between; the one thing that keeps it away is an edit which staged
\* another plan there meanwhile (organization_decisions.py:126-141).
DecisionReachesCheckpoint ==
  Decided ~> (Reflected \/ checkpoint.plan # approval.plan)

\* A staged replacement whose edit is repeated becomes the approval's plan,
\* unless a decision comes first (organization_decisions.py:224-255).
EditReachesApproval ==
  (approval.status = "WAITING_APPROVAL" /\ checkpoint.plan # approval.plan)
    ~> (checkpoint.plan = approval.plan \/ Decided)

\* Claim of the docstring at organization_decisions.py:86: a decision may be
\* repeated after its checkpoint failed, and so comes to be reflected there.
EveryDecisionReachesCheckpoint == Decided ~> Reflected
=============================================================================
