----------------------------- MODULE JobProperties -----------------------------
(***************************************************************************)
(* What JobRunner promises.                                                *)
(***************************************************************************)
EXTENDS JobRunner

\* The types of the state.  Every row and every record satisfies the
\* lifecycle rules JobState validates when it is built (job_system.py:237): a
\* transition or a recovery that broke them would be an exception there.
JobTypeOK ==
  /\ \A j \in Job : store[j] # NoJob => store[j] \in Row /\ LifecycleValid(store[j], MaxAttempts[j])
  /\ \A j \in Job : memory[j] # NoJob =>
       /\ memory[j] \in MemoryRecord
       /\ LifecycleValid(memory[j].state, MaxAttempts[j])
  /\ created \in Seq(Job) /\ queue \in Seq(Job)
  /\ worker \in [job : Job \cup {NoJob}, attempt : Nat,
                 outcome : {"none", "succeeded", "failed", "retryable", "cancelled"}]
  /\ phase \in {"down", "starting", "up", "submitting", "closing"}
  /\ recovery \in [todo : SUBSET Job, verdict : {"unknown", "resume", "refuse"}]
  /\ hurt \subseteq Job
  /\ budget \in Budget

Pending(j) == store[j] # NoJob /\ store[j].status \in Unfinished
Working(j) == worker.job = j
Queued(j) == j \in Range(queue)

\* A job is run by one thread at a time and queued once; the worker's attempt
\* is the last one of its record, whatever requests came in meanwhile; and a
\* record differs from the row only after a save that failed in this process
\* (job_runner.py:434, :245, :589).
RecordFollowsRow ==
  /\ \A j \in Job : Queued(j) =>
       /\ ~Working(j) \/ worker.outcome # "none"
       /\ Cardinality({i \in DOMAIN queue : queue[i] = j}) = 1
  /\ worker # NoWork =>
       Active \cap {memory[worker.job].state.status} # {}
       /\ Tries(memory[worker.job].state) = worker.attempt
  /\ \A j \in Job : memory[j] # NoJob =>
       /\ store[j] # NoJob
       /\ memory[j].state.revision <= store[j].revision
       /\ j \notin hurt => memory[j].state = store[j]

\* A later attempt runs with the cancel event set, left from the one before it.
CancelKept(j) ==
  /\ memory[j] # NoJob /\ memory[j].cancel
  /\ memory[j].state.status \in Active /\ Tries(memory[j].state) > 1

\* While requests are served, an unfinished job is queued or running in the
\* worker; it is stranded only by a failed save of this process, or because
\* a retried attempt observed the cancellation of the attempt before it, which
\* the state machine then refuses (job_runner.py:519, job_system.py:499).
NothingStranded ==
  phase = "up" => \A j \in Job :
    Pending(j) => Queued(j) \/ Working(j) \/ j \in hurt \/ CancelKept(j)

\* README_V2.md:148, "append-only Attempt history": attempts that have ended
\* never change, the last one only goes forward, none is ever removed
\* (job_system.py:440, job_store.py:289).
HistoryAppendOnly ==
  [][\A j \in Job : store[j] # NoJob =>
       LET old == store[j].attempts
           new == store'[j].attempts IN
       /\ Len(old) <= Len(new) /\ Len(new) <= Len(old) + 1
       /\ \A i \in DOMAIN old :
            /\ old[i].status # "running" => new[i] = old[i]
            /\ old[i].units <= new[i].units]_jobVars

\* A row as the contract sees it: its phase and the attempts begun.
PhaseOf(r) ==
  IF r = NoJob THEN "absent"
  ELSE IF r.status = "pending" THEN "waiting"
  ELSE IF r.status \in Active THEN "active" ELSE r.status
TriesOf(r) == IF r = NoJob THEN 0 ELSE Tries(r)
jobPhase == [j \in Job |-> PhaseOf(store[j])]
jobTries == [j \in Job |-> TriesOf(store[j])]
Contract == INSTANCE JobContract WITH phase <- jobPhase, tries <- jobTries

\* Across failed saves, crashes and recoveries the rows of a job do only what
\* its client was promised: at most max_attempts tries, one at a time, and no
\* further try of a job that succeeded or was cancelled; and they keep their
\* history.
KeepsJobContract == Contract!Spec /\ HistoryAppendOnly

\* Accepted jobs end: while the process lives, and again when it starts, and
\* all of them once no more are submitted, as the budgets see to.  Only a
\* failed save or a kept cancellation event leaves a job unfinished.
JobsEnd ==
  (phase # "down" /\ \E j \in Job : Pending(j))
  ~> (phase = "down" \/ \A j \in Job : ~Pending(j) \/ j \in hurt \/ CancelKept(j))
=============================================================================
