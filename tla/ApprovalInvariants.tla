-------------------------- MODULE ApprovalInvariants --------------------------
(***************************************************************************)
(* The inductive invariant of ApprovalWorkflow, in named parts: what the   *)
(* rows and the checkpoint are at any time, and what a request in the      *)
(* middle of its steps can rely on.  ApprovalProofs proves it.             *)
(***************************************************************************)
EXTENDS ApprovalProperties

Exists == approval.status # "ABSENT"
Pending(p) == approval = [status |-> "WAITING_APPROVAL", plan |-> p]

\* The operation's revision counts the edits, from 1, then the decision and
\* the start of the execution.  While the approval waits, the checkpoint
\* counts the same edits.
Base ==
  IF approval.status = "WAITING_APPROVAL" THEN operation.revision
  ELSE IF operation.status = "EXECUTING" THEN operation.revision - 2
  ELSE operation.revision - 1

\* The checkpoint of the approval's plan before its decision, after it, and
\* with a replacement staged that has no row yet.
Aligned(c) == c.plan = approval.plan /\ c.status = "waiting" /\ c.revision = Base
Answered(c) ==
  /\ c.plan = approval.plan /\ c.revision = Base + 1
  /\ \E a \in Decision : approval.status = Outcome[a] /\ c.status = Settled[a]
StagedAhead(c) ==
  c.plan \in Plan /\ row[c.plan] = "ABSENT" /\ c.status = "waiting" /\ c.revision = Base + 1
Sound(c) == Aligned(c) \/ Answered(c) \/ StagedAhead(c)

\* Before the workflow is published its creator is alone, under the lock.
BeforePublication ==
  ~Exists =>
    /\ approval.plan = None /\ operation.status = "ABSENT"
    /\ \A p \in Plan : row[p] = "ABSENT"
    /\ \A t \in Client :
         /\ thread[t].pc \in {"idle", "pause", "publish"}
         /\ thread[t].pc # "idle" => lock = t /\ thread[t].new \in Plan
         /\ At(t, "pause") => checkpoint = NoCheckpoint
         /\ At(t, "publish") => checkpoint = Paused(Initial(thread[t].new))

AfterPublication ==
  Exists =>
    /\ approval.plan \in Plan
    /\ TablesAgree
    /\ Sound(checkpoint)
    /\ \A t \in Client : thread[t].pc \notin {"pause", "publish"}

Working(t) == thread[t].pc \in {"read", "insert", "invoke", "apply", "transact"}

\* The steps each kind of request has; a creation names no revision.
Role(l) ==
  /\ l.pc \in {"pause", "publish"} => l.revision = AnyRevision
  /\ l.pc \in {"load", "read"} => l.action \in Decision \cup {"edit", "execute"}
  /\ l.pc = "insert" => l.action = "edit"
  /\ l.pc \in {"invoke", "apply", "transact"} => l.action \in Decision \cup {"edit"}

\* A request is about a plan that has a row.
RequestSound(t) ==
  thread[t].pc \notin {"idle", "pause", "publish"} =>
    /\ Exists
    /\ IF thread[t].action = "execute"
       THEN thread[t].plan = None
       ELSE thread[t].plan \in Plan /\ row[thread[t].plan] # "ABSENT"

\* What it has seen of the plan is what the stores still agree on, as long as
\* the plan is the approval's; of an earlier plan it is an earlier revision.
SeenSound(t) ==
  /\ Working(t) /\ thread[t].action # "execute"
  /\ thread[t].seen.plan = thread[t].plan /\ thread[t].seen.status = "waiting"
  => IF thread[t].plan = approval.plan
    THEN thread[t].seen.revision = Base
    ELSE thread[t].seen.revision < Base

DecisionSound(t) ==
  LET a == thread[t].action IN
  Working(t) /\ a \in Decision =>
    /\ thread[t].seen.plan = thread[t].plan
    /\ thread[t].seen.status \in {"waiting", Settled[a]}
    /\ thread[t].seen.status # "waiting" =>
         At(t, "read") /\ approval = [status |-> Outcome[a], plan |-> thread[t].plan]
    /\ thread[t].pc \in {"invoke", "apply"} =>
         approval = [status |-> Outcome[a], plan |-> thread[t].plan]

EditSound(t) ==
  Working(t) /\ thread[t].action = "edit" =>
    /\ ~At(t, "read") => thread[t].seen.status = "waiting"
    /\ Pending(thread[t].plan) /\ Staged(t) => checkpoint = thread[t].seen
    /\ At(t, "insert") /\ Staged(t) => thread[t].new = thread[t].seen.plan
    /\ thread[t].pc \in {"invoke", "apply"} =>
         /\ ~Staged(t)
         /\ lock = t
         /\ thread[t].new \in Plan /\ row[thread[t].new] = "ABSENT"
    /\ At(t, "apply") /\ approval.status = "WAITING_APPROVAL" => thread[t].loaded = checkpoint
    /\ At(t, "transact") /\ Pending(thread[t].plan) =>
         lock = t /\ checkpoint.plan = thread[t].new /\ StagedAhead(checkpoint)

LoadedSound(t) == At(t, "apply") => Sound(thread[t].loaded)

RevisionSound(t) ==
  /\ Pending(thread[t].plan)
  /\ thread[t].pc \notin {"idle", "pause", "publish"}
  /\ thread[t].revision # AnyRevision
  => thread[t].revision = operation.revision

SoundFor(t) ==
  /\ RequestSound(t) /\ SeenSound(t) /\ DecisionSound(t)
  /\ EditSound(t) /\ LoadedSound(t) /\ RevisionSound(t)
ThreadSound == \A t \in Client : SoundFor(t)

Typed == TypeOK /\ \A t \in Client : Role(thread[t])

\* The trail names every version that was replaced, begins with the proposal,
\* which replaced nothing, and each event carries the status of its action.
Proposal == IF audit = <<>> THEN approval.plan ELSE audit[1].from
TrailNamesAll ==
  /\ \A p \in Plan : row[p] = "SUPERSEDED" => \E i \in 1..Len(audit) : audit[i].from = p
  /\ \A p \in Plan : row[p] = "ABSENT" => parent[p] = None
  /\ Exists => Proposal \in Plan /\ row[Proposal] # "ABSENT" /\ parent[Proposal] = None
  /\ \A i \in 1..Len(audit) :
       audit[i].status = IF audit[i].action = "edit" THEN "WAITING_APPROVAL" ELSE Outcome[audit[i].action]

\* The inductive invariant: with it, the checkpoint follows the decision and a
\* waiting approval is resumable (organization_decisions.py, services.py).
StoresSound == Typed /\ BeforePublication /\ AfterPublication /\ ThreadSound
=============================================================================
