----------------------------- MODULE JobInvariants -----------------------------
(***************************************************************************)
(* What makes the safety properties of JobRunner inductive: how the row,   *)
(* the record, the work items and the recovery of a job stand to each      *)
(* other between two operations under the runner's lock.                   *)
(***************************************************************************)
EXTENDS JobProperties

\* A job that waits has an attempt left.
Sound(r, max) ==
  /\ r \in Row /\ LifecycleValid(r, max)
  /\ r.status = "pending" => Tries(r) < max

\* The record is the row, or an earlier one after a failed save.  Unless a save
\* has failed, a cancel event that is set while the job waits or runs is left
\* from an earlier attempt.
RecordHolds(j, rec) ==
  /\ Sound(rec.state, MaxAttempts[j])
  /\ Exists(j)
  /\ rec.state.revision <= store[j].revision
  /\ rec.state.revision = store[j].revision => rec.state = store[j]
  /\ j \notin hurt =>
       /\ rec.state = store[j]
       /\ rec.cancel /\ rec.state.status = "pending" => Tries(rec.state) >= 1
       /\ rec.cancel /\ rec.state.status = "running" => Tries(rec.state) >= 2

\* The worker's attempt is the last one of an active record; only a
\* cancellation is answered as one.
WorkHolds(rec) ==
  /\ rec.state.status \in Active /\ Tries(rec.state) = worker.attempt
  /\ worker.outcome = "cancelled" => rec.cancel \/ rec.state.status = "cancel_requested"

InRecovery(j) == Recovering /\ j \in recovery.todo

JobHolds(j) ==
  /\ Exists(j) => Sound(store[j], MaxAttempts[j])
  /\ memory[j] # NoJob => RecordHolds(j, memory[j])
  \* A work item belongs to a record that waits or was cancelled.
  /\ Queued(j) => memory[j] # NoJob /\ memory[j].state.status \in {"pending", "cancelled"}
  /\ Working(j) => memory[j] # NoJob /\ WorkHolds(memory[j])
  \* Recovery has no record of the jobs it still has to settle.
  /\ InRecovery(j) => Exists(j) /\ memory[j] = NoJob
  \* NothingStranded, and its reason while a recovery still goes on.
  /\ phase \in {"starting", "submitting", "up"} /\ Pending(j) =>
       Queued(j) \/ Working(j) \/ j \in hurt \/ CancelKept(j) \/ InRecovery(j)

\* The types of the state.
Shape ==
  /\ store \in [Job -> Row \cup {NoJob}]
  /\ memory \in [Job -> MemoryRecord \cup {NoJob}]
  /\ created \in Seq(Job) /\ queue \in Seq(Job)
  /\ worker \in [job : Job \cup {NoJob}, attempt : Nat,
                 outcome : {"none", "succeeded", "failed", "retryable", "cancelled"}]
  /\ phase \in {"down", "starting", "up", "submitting", "closing"}
  /\ recovery \in [todo : SUBSET Job, verdict : {"unknown", "resume", "refuse"}]
  /\ hurt \subseteq Job
  /\ budget \in Budget

\* A process that has ended left nothing but rows, all of them listed; a work
\* item is queued once.
ProcessInv ==
  /\ phase = "down" =>
       (\A j \in Job : memory[j] = NoJob) /\ queue = <<>> /\ worker = NoWork
  /\ Range(created) = {j \in Job : Exists(j)}
  /\ \A i, k \in DOMAIN queue : queue[i] = queue[k] => i = k
  /\ worker # NoWork => worker.job \in Job

\* The conjunction the proofs carry from step to step.
JobInv == Shape /\ ProcessInv /\ \A j \in Job : JobHolds(j)
=============================================================================
