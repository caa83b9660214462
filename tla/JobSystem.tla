------------------------------- MODULE JobSystem -------------------------------
(***************************************************************************)
(* A job and the history of its attempts as one value, and the pure state  *)
(* machine of job_system.py: which events a state accepts and what they    *)
(* make of it.  Identities, clocks and error codes are left out: an        *)
(* attempt is its position in the history.                                 *)
(***************************************************************************)
EXTENDS Integers, Sequences

Unfinished == {"pending", "running", "cancel_requested"}
Active == {"running", "cancel_requested"}
Terminal == {"succeeded", "failed", "cancelled"}
JobStatus == Unfinished \cup Terminal

Attempt ==
  [status : {"running", "succeeded", "failed", "cancelled", "interrupted"},
   retryable : BOOLEAN,   \* of a failed or interrupted attempt
   units : Nat]           \* progress.completed_units

\* wanted is cancel_requested_at.
Row ==
  [status : JobStatus, revision : Nat, attempts : Seq(Attempt), wanted : BOOLEAN]
NewJob == [status |-> "pending", revision |-> 0, attempts |-> <<>>, wanted |-> FALSE]
NewAttempt == [status |-> "running", retryable |-> FALSE, units |-> 0]

Tries(r) == Len(r.attempts)
Latest(r) == r.attempts[Tries(r)]
MayRetry(r, max) ==
  /\ r.status = "failed"
  /\ Tries(r) > 0 /\ Latest(r).retryable
  /\ Tries(r) < max

\* JobEvent.  An attempt event names its attempt.
Event == [kind |-> "retry_requested", attempt |-> 0, retryable |-> FALSE, units |-> 0]
Started(r) == [Event EXCEPT !.kind = "attempt_started", !.attempt = Tries(r) + 1]
CancellationRequested == [Event EXCEPT !.kind = "cancellation_requested"]
RetryRequested == Event
Progress(a, u) == [Event EXCEPT !.kind = "progress_reported", !.attempt = a, !.units = u]
Ended(kind, a, retryable) == [Event EXCEPT !.kind = kind, !.attempt = a, !.retryable = retryable]

\* What the four attempt endings make of the attempt and of the job.
AttemptOutcome ==
  [attempt_succeeded |-> "succeeded", attempt_failed |-> "failed",
   attempt_cancelled |-> "cancelled", attempt_interrupted |-> "interrupted"]
JobOutcome == [AttemptOutcome EXCEPT !.attempt_interrupted = "failed"]

ActiveAttempt(r, e) ==
  /\ r.status \in Active
  /\ Latest(r).status = "running" /\ Tries(r) = e.attempt

\* The events the lifecycle rules accept.
Guard(r, e, max) ==
  CASE e.kind = "attempt_started" -> r.status = "pending" /\ Tries(r) < max
    [] e.kind = "progress_reported" -> ActiveAttempt(r, e) /\ e.units >= Latest(r).units
    [] e.kind = "cancellation_requested" -> r.status \in Unfinished
    [] e.kind = "retry_requested" -> MayRetry(r, max)
    [] e.kind = "attempt_cancelled" -> ActiveAttempt(r, e) /\ r.status = "cancel_requested"
    [] OTHER -> ActiveAttempt(r, e)

\* The state an accepted event leads to.
Transition(r, e) ==
  LET n == [r EXCEPT !.revision = @ + 1] IN
  CASE e.kind = "attempt_started" ->
         [n EXCEPT !.status = "running", !.attempts = Append(@, NewAttempt)]
    [] e.kind = "progress_reported" -> [n EXCEPT !.attempts[Tries(r)].units = e.units]
    [] e.kind = "cancellation_requested" ->
         [n EXCEPT !.status = IF r.status = "pending" THEN "cancelled" ELSE "cancel_requested",
                   !.wanted = TRUE]
    [] e.kind = "retry_requested" -> [n EXCEPT !.status = "pending", !.wanted = FALSE]
    [] OTHER ->
         [n EXCEPT !.status = JobOutcome[e.kind],
                   !.attempts[Tries(r)].status = AttemptOutcome[e.kind],
                   !.attempts[Tries(r)].retryable = e.retryable]

\* What JobState's and JobAttempt's validators demand: a state they refuse is
\* an exception in the middle of a transition, or a row that cannot be read.
LifecycleValid(r, max) ==
  /\ Tries(r) <= max
  /\ \A i \in 1..Tries(r) : LET try == r.attempts[i] IN
       /\ try.status \in {"running", "succeeded", "cancelled"} => ~try.retryable
       /\ try.status = "interrupted" => try.retryable
  /\ r.status \in {"cancel_requested", "cancelled"} => r.wanted
  /\ r.status \in Active => Tries(r) > 0 /\ Latest(r).status = "running"
  /\ r.status = "succeeded" => Tries(r) > 0 /\ Latest(r).status = "succeeded"
  /\ r.status = "failed" => Tries(r) > 0 /\ Latest(r).status \in {"failed", "interrupted"}
  /\ r.status = "cancelled" /\ Tries(r) > 0 => Latest(r).status = "cancelled"
  /\ r.status = "pending" /\ Tries(r) > 0 => Latest(r).status \in {"failed", "interrupted"}

\* Mutant: the new state is copied without validation.
AcceptsUnvalidated(r, e, max) == Guard(r, e, max)
\* transition_job returns: the rules accept the event, and the state it leads
\* to passes the validators it is built through.
Accepts(r, e, max) == Guard(r, e, max) /\ LifecycleValid(Transition(r, e), max)
=============================================================================
