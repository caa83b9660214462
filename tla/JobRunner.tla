------------------------------- MODULE JobRunner -------------------------------
(***************************************************************************)
(* The background jobs of the service: SingleProcessJobRunner over the     *)
(* SqlAlchemyJobStore, with the routes that submit, cancel and retry jobs  *)
(* and the startup that recovers them.                                     *)
(*                                                                         *)
(* A job lives twice: as rows of the database, and as a record in the      *)
(* memory of the one process that runs jobs.  Every operation holds the    *)
(* runner's lock, computes the next state from the RECORD and saves it     *)
(* where the row's revision is still the record's.  The single worker      *)
(* holds the lock only while it starts an attempt, reports progress and    *)
(* ends the attempt; in between the task runs and requests come in.        *)
(***************************************************************************)
EXTENDS JobSystem, FiniteSets, SequencesExt

CONSTANTS
  Job,          \* logical jobs: one per idempotency key
  MaxAttempts,  \* max_attempts of each job
  NoJob,        \* no row, no record, no job
  JobBudgets    \* what a behaviour may use: see Budget

\* The keys clients submit, and bounds on the progress a task reports, on
\* failed saves and on process starts.
Budget == [keys : SUBSET Job, units : Nat, saves : Nat, starts : Nat]

MemoryRecord == [state : Row, cancel : BOOLEAN]   \* _JobRecord

ASSUME JobAssumption == NoJob \notin Job /\ MaxAttempts \in [Job -> Nat \ {0}]
ASSUME NoJobAssumption == NoJob \notin Row /\ NoJob \notin MemoryRecord
ASSUME JobBudgetAssumption == JobBudgets \subseteq Budget

VARIABLES
  store,      \* the rows of a job and its attempts, or NoJob
  created,    \* the jobs in the order of created_at
  memory,     \* _jobs: a record with the cancel event of the job, or NoJob
  queue,      \* the work items of the executor
  worker,     \* the attempt its thread runs
  phase,      \* down, starting, up, submitting, closing
  recovery,   \* the jobs whose persisted state is still to be settled
  hurt,       \* jobs with a failed save in this process, or left unrecovered
  budget      \* what is left of the behaviour's bounds

jobVars == <<store, created, memory, queue, worker, phase, recovery, hurt, budget>>

NoWork == [job |-> NoJob, attempt |-> 0, outcome |-> "none"]
NoRecovery == [todo |-> {}, verdict |-> "unknown"]

JobInit ==
  /\ store = [j \in Job |-> NoJob] /\ created = <<>>
  /\ memory = [j \in Job |-> NoJob] /\ queue = <<>> /\ worker = NoWork
  /\ phase = "down" /\ recovery = NoRecovery
  /\ hurt = {} /\ budget \in JobBudgets

process == <<phase, recovery>>
faultVars == <<hurt, budget>>
-----------------------------------------------------------------------------
(* SqlAlchemyJobStore.save_transition *)

\* The row is as new as the snapshot r the caller started from.
Current(j, r) == store[j].revision = r.revision
Put(j, r) == store' = [store EXCEPT ![j] = r]

\* Saved and reported: the caller goes on with the new state.
\* Mutant: the update does not compare the revision.
SavedBlindly(j, r, e) ==
  /\ Accepts(r, e, MaxAttempts[j])
  /\ Put(j, Transition(r, e))
  /\ UNCHANGED faultVars
Saved(j, r, e) ==
  /\ Accepts(r, e, MaxAttempts[j]) /\ Current(j, r)
  /\ Put(j, Transition(r, e))
  /\ UNCHANGED faultVars

\* The statements fail, or only the reading after the commit: the caller gets
\* an exception in both cases and does not know which.
SaveMayFail == budget.saves > 0 /\ budget' = [budget EXCEPT !.saves = @ - 1]
Fault(j, states) ==
  /\ SaveMayFail /\ hurt' = hurt \cup {j}
  /\ \E r \in states : Put(j, r)
SaveFails(j, r, e) ==
  /\ Accepts(r, e, MaxAttempts[j]) /\ Current(j, r)
  /\ Fault(j, {store[j], Transition(r, e)})

\* JobTransitionError, or a revision or attempt conflict.
Refused(j, r, e) ==
  /\ ~(Accepts(r, e, MaxAttempts[j]) /\ Current(j, r))
  /\ UNCHANGED <<store, faultVars>>

Record(r) == [state |-> r, cancel |-> FALSE]
Remember(j, rec) == memory' = [memory EXCEPT ![j] = rec]
-----------------------------------------------------------------------------
(* _recover_persisted_state and _fail_recovery *)

\* The event that settles a persisted state, and whether more is to be done.
SettlingEvent(r, verdict, max) ==
  CASE r.status = "cancel_requested" -> Ended("attempt_cancelled", Tries(r), FALSE)
    [] r.status = "running" /\ verdict = "refuse" -> Ended("attempt_failed", Tries(r), FALSE)
    [] r.status = "pending" /\ verdict = "refuse" -> Started(r)
    [] r.status = "running" /\ verdict = "resume" -> Ended("attempt_interrupted", Tries(r), TRUE)
    [] OTHER -> RetryRequested
\* Resumed jobs that are interrupted go on; so do those refused while pending.
NeedsEvent(r, verdict, max) ==
  \/ r.status = "cancel_requested"
  \/ verdict # "unknown" /\ r.status = "running"
  \/ verdict = "refuse" /\ r.status = "pending"
  \/ verdict = "resume" /\ MayRetry(r, max) /\ Latest(r).status = "interrupted"
\* _fail_recovery and a cancellation are done once the job has ended.
Settled(r, verdict, max) ==
  \/ r.status \in {"cancelled", "succeeded"}
  \/ r.status = "failed" /\ ~NeedsEvent(r, verdict, max)
-----------------------------------------------------------------------------
(* Requests *)

Serving == phase = "up"
Exists(j) == store[j] # NoJob

\* submit of a key without a row: create_or_get commits, the record is made
\* and its work item queued.  A failure may leave the row without them, as
\* does a process that ends in between.
SubmitNew(j) ==
  /\ Serving /\ j \in budget.keys /\ ~Exists(j)
  /\ \/ /\ Put(j, NewJob) /\ Remember(j, Record(NewJob))
        /\ created' = Append(created, j)
        /\ queue' = Append(queue, j)
        /\ UNCHANGED faultVars
     \/ /\ Fault(j, {NoJob, NewJob})
        /\ created' = IF store'[j] = NoJob THEN created ELSE Append(created, j)
        /\ UNCHANGED <<memory, queue>>
  /\ UNCHANGED <<worker, process>>

\* Mutant: the index of the keys in memory is not consulted.
SubmitUnindexed(j) ==
  /\ Serving /\ Exists(j)
  /\ ~Settled(store[j], "resume", MaxAttempts[j])
  /\ phase' = "submitting"
  /\ recovery' = [todo |-> {j}, verdict |-> "resume"]
  /\ UNCHANGED <<store, created, memory, queue, worker, faultVars>>
\* submit of a key whose job is not in memory: its persisted state is first
\* settled, as at a startup but without asking whether the job may run.  (A
\* key with a record, or of a job that has ended, only returns the state.)
SubmitPersisted(j) ==
  /\ Serving /\ Exists(j) /\ memory[j] = NoJob
  /\ ~Settled(store[j], "resume", MaxAttempts[j])
  /\ phase' = "submitting"
  /\ recovery' = [todo |-> {j}, verdict |-> "resume"]
  /\ UNCHANGED <<store, created, memory, queue, worker, faultVars>>

\* _get_action_record: a job without a record gets one.
ActionRecord(j) == IF memory[j] = NoJob THEN Record(store[j]) ELSE memory[j]

Cancel(j) ==
  LET rec == ActionRecord(j) IN
  /\ Serving /\ Exists(j)
  /\ IF rec.state.status \in {"pending", "running"}
     THEN \/ /\ Saved(j, rec.state, CancellationRequested)
             /\ Remember(j, [state |-> Transition(rec.state, CancellationRequested), cancel |-> TRUE])
          \/ SaveFails(j, rec.state, CancellationRequested) /\ Remember(j, rec)
          \/ Refused(j, rec.state, CancellationRequested) /\ Remember(j, rec)
     ELSE Remember(j, rec) /\ UNCHANGED <<store, faultVars>>
  /\ UNCHANGED <<created, queue, worker, process>>

\* Mutant: the retry is saved but its work item is not queued.
RetryUnscheduled(j) ==
  LET rec == ActionRecord(j) IN
  /\ Serving /\ Exists(j)
  /\ \/ /\ Saved(j, rec.state, RetryRequested)
        /\ Remember(j, [rec EXCEPT !.state = Transition(rec.state, RetryRequested)])
     \/ SaveFails(j, rec.state, RetryRequested) /\ Remember(j, rec)
     \/ Refused(j, rec.state, RetryRequested) /\ Remember(j, rec)
  /\ UNCHANGED <<queue, created, worker, process>>
\* The record keeps its cancel event, set or not.
Retry(j) ==
  LET rec == ActionRecord(j) IN
  /\ Serving /\ Exists(j)
  /\ \/ /\ Saved(j, rec.state, RetryRequested)
        /\ Remember(j, [rec EXCEPT !.state = Transition(rec.state, RetryRequested)])
        /\ queue' = Append(queue, j)
     \/ SaveFails(j, rec.state, RetryRequested) /\ Remember(j, rec) /\ UNCHANGED queue
     \/ Refused(j, rec.state, RetryRequested) /\ Remember(j, rec) /\ UNCHANGED queue
  /\ UNCHANGED <<created, worker, process>>
-----------------------------------------------------------------------------
(* The worker.  It waits for the lock that a recovery holds to its end. *)

LockFree == phase \in {"up", "closing"}
Rest == UNCHANGED <<created, process>>

\* _run: the next work item.  A conflict takes over the row's state, any other
\* failure ends the work item with the record as it was.
StartAttempt ==
  /\ LockFree /\ worker = NoWork /\ queue # <<>>
  /\ queue' = Tail(queue)
  /\ LET j == Head(queue)
         r == memory[j].state
         e == Started(r) IN
       \/ /\ r.status # "pending"
          /\ UNCHANGED <<store, memory, worker, faultVars>>
       \/ /\ r.status = "pending"
          /\ \/ /\ Saved(j, r, e)
                /\ Remember(j, [memory[j] EXCEPT !.state = Transition(r, e)])
                /\ worker' = [job |-> j, attempt |-> e.attempt, outcome |-> "none"]
             \/ SaveFails(j, r, e) /\ UNCHANGED <<memory, worker>>
             \/ /\ Refused(j, r, e)
                /\ Remember(j, [memory[j] EXCEPT !.state = store[j]])
                /\ UNCHANGED worker
  /\ Rest

TaskRuns == LockFree /\ worker.job # NoJob /\ worker.outcome = "none"
Outcome(o) == worker' = [worker EXCEPT !.outcome = o]

\* report_progress: a save that fails or is refused is an exception in the
\* task, which fails with it.
TaskProgress ==
  /\ TaskRuns
  /\ LET j == worker.job
         r == memory[j].state IN
     \E u \in 0..budget.units : LET e == Progress(worker.attempt, u) IN
       /\ Tries(r) > 0 => u # Latest(r).units
       /\ \/ /\ Saved(j, r, e)
             /\ Remember(j, [memory[j] EXCEPT !.state = Transition(r, e)])
             /\ UNCHANGED worker
          \/ SaveFails(j, r, e) /\ Outcome("failed") /\ UNCHANGED memory
          \/ Refused(j, r, e) /\ Outcome("failed") /\ UNCHANGED memory
  /\ UNCHANGED queue /\ Rest

\* raise_if_cancelled raises: the event is set or the record says so.
ObserveCancel ==
  /\ TaskRuns
  /\ memory[worker.job].cancel \/ memory[worker.job].state.status = "cancel_requested"
  /\ Outcome("cancelled")
  /\ UNCHANGED <<store, memory, queue, faultVars>> /\ Rest

\* The task returns, or raises with or without permission to retry.
TaskEnds ==
  /\ TaskRuns
  /\ \E o \in {"succeeded", "failed", "retryable"} : Outcome(o)
  /\ UNCHANGED <<store, memory, queue, faultVars>> /\ Rest

Ending(a, o) ==
  CASE o = "succeeded" -> Ended("attempt_succeeded", a, FALSE)
    [] o = "cancelled" -> Ended("attempt_cancelled", a, FALSE)
    [] o = "failed" -> Ended("attempt_failed", a, FALSE)
    [] o = "retryable" -> Ended("attempt_failed", a, TRUE)

\* _finish_attempt: an exception leaves the worker thread with the record
\* unchanged; nothing runs the attempt any more.
FinishAttempt ==
  /\ LockFree /\ worker.outcome # "none"
  /\ worker' = NoWork
  /\ LET j == worker.job
         r == memory[j].state
         e == Ending(worker.attempt, worker.outcome) IN
       \/ Saved(j, r, e) /\ Remember(j, [memory[j] EXCEPT !.state = Transition(r, e)])
       \/ SaveFails(j, r, e) /\ UNCHANGED memory
       \/ Refused(j, r, e) /\ UNCHANGED memory
  /\ UNCHANGED queue /\ Rest
-----------------------------------------------------------------------------
(* Startup, recovery, shutdown and crash *)

\* The lifespan opens the runner; it lists the unfinished jobs.
\* Mutant: a cancellation nobody answered is not looked for.
StartForgetting ==
  /\ phase = "down" /\ budget.starts > 0
  /\ budget' = [budget EXCEPT !.starts = @ - 1]
  /\ phase' = "starting"
  /\ recovery' = [NoRecovery EXCEPT !.todo =
                    {j \in Range(created) : store[j].status \in {"pending", "running"}}]
  /\ hurt' = {}
  /\ UNCHANGED <<store, created, memory, queue, worker>>
Start ==
  /\ phase = "down" /\ budget.starts > 0
  /\ budget' = [budget EXCEPT !.starts = @ - 1]
  /\ phase' = "starting"
  /\ recovery' = [NoRecovery EXCEPT !.todo = {j \in Range(created) : store[j].status \in Unfinished}]
  /\ hurt' = {}
  /\ UNCHANGED <<store, created, memory, queue, worker>>

Recovering == phase \in {"starting", "submitting"}
RecoveryGoesOn == UNCHANGED <<phase, recovery>>
\* The job whose turn it is: the oldest of those left.
Foremost(j) ==
  \E i \in DOMAIN created :
    created[i] = j /\ \A k \in 1..(i - 1) : created[k] \notin recovery.todo
\* Job j is settled: the next one, or the end of the recovery.
NextJob(j) ==
  /\ recovery' = [NoRecovery EXCEPT !.todo = recovery.todo \ {j}]
  /\ phase' = IF recovery.todo = {j} THEN "up" ELSE phase

RecoveryDone ==
  /\ Recovering /\ recovery.todo = {}
  /\ phase' = "up"
  /\ UNCHANGED <<store, created, memory, queue, worker, recovery, faultVars>>

\* _can_recover_job: whether the workspace exists and its root and policy are
\* valid now; a failing check counts as a refusal.
Judge(j) ==
  /\ recovery.verdict = "unknown"
  /\ store[j].status # "cancel_requested"
  /\ \E v \in {"resume", "refuse"} : recovery' = [recovery EXCEPT !.verdict = v]
  /\ UNCHANGED <<store, created, memory, queue, worker, phase, faultVars>>

\* One commit of the recovery.  A failure ends all of it: the lifespan goes on
\* and serves requests with the other jobs not recovered.
SettleStep(j) ==
  LET r == store[j]
      max == MaxAttempts[j]
      e == SettlingEvent(r, recovery.verdict, max) IN
  /\ NeedsEvent(r, recovery.verdict, max)
  /\ \/ /\ Saved(j, r, e)
        /\ IF Settled(Transition(r, e), recovery.verdict, max)
           THEN NextJob(j) ELSE RecoveryGoesOn
     \/ /\ SaveMayFail
        /\ hurt' = hurt \cup recovery.todo
        /\ Put(j, r) \/ Put(j, Transition(r, e))
        /\ recovery' = NoRecovery /\ phase' = "up"
  /\ UNCHANGED <<created, memory, queue, worker>>

\* _enqueue_persisted_state.
Enqueue(j) ==
  /\ recovery.verdict = "resume"
  /\ store[j].status = "pending"
  /\ Remember(j, Record(store[j]))
  /\ queue' = Append(queue, j)
  /\ NextJob(j)
  /\ UNCHANGED <<store, created, worker, faultVars>>

\* recover_persisted_jobs, and submit, take one job after the other.
RecoverJob(j) ==
  /\ Recovering /\ j \in recovery.todo /\ Foremost(j)
  /\ Judge(j) \/ SettleStep(j) \/ Enqueue(j)

\* The lifespan ends: shutdown waits until the worker has drained the queue.
Shutdown ==
  /\ phase = "up" /\ phase' = "closing"
  /\ UNCHANGED <<store, created, memory, queue, worker, recovery, faultVars>>

Gone ==
  /\ memory' = [j \in Job |-> NoJob] /\ queue' = <<>> /\ worker' = NoWork
  /\ phase' = "down" /\ recovery' = NoRecovery
  /\ UNCHANGED <<store, created, faultVars>>
Exit == phase = "closing" /\ queue = <<>> /\ worker = NoWork /\ Gone
Crash == phase # "down" /\ Gone
-----------------------------------------------------------------------------
Work == StartAttempt \/ TaskEnds \/ FinishAttempt
Recover == RecoveryDone \/ \E j \in Job : RecoverJob(j)

JobNext ==
  \/ \E j \in Job : SubmitNew(j) \/ SubmitPersisted(j) \/ Cancel(j) \/ Retry(j)
  \/ Work \/ TaskProgress \/ ObserveCancel
  \/ Start \/ Recover \/ Shutdown \/ Exit \/ Crash

\* The worker thread runs, tasks end, and so does a startup; nobody has to restart.
JobFairness == WF_jobVars(Work) /\ WF_jobVars(Recover)
JobSpec == JobInit /\ [][JobNext]_jobVars /\ JobFairness
=============================================================================
