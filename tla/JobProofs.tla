------------------------------- MODULE JobProofs -------------------------------
(***************************************************************************)
(* Proofs about JobRunner.                                                 *)
(***************************************************************************)
EXTENDS JobInvariants, FiniteSetTheorems, TLAPS

EventKinds ==
  {"attempt_started", "progress_reported", "cancellation_requested", "retry_requested"}
  \cup {"attempt_succeeded", "attempt_failed", "attempt_cancelled", "attempt_interrupted"}

\* The events the runner makes: only a failure and an interruption may be
\* tried again, and an interruption always may.
Made(e) ==
  /\ e \in [kind : EventKinds, attempt : Nat, retryable : BOOLEAN, units : Nat]
  /\ e.kind \in {"attempt_succeeded", "attempt_cancelled"} => ~e.retryable
  /\ e.kind = "attempt_interrupted" => e.retryable

-----------------------------------------------------------------------------
(* The state machine. *)

\* A history whose last attempt is replaced.
LEMMA LastReplaced ==
  ASSUME NEW s \in Seq(Attempt), Len(s) > 0, NEW a \in Attempt
  PROVE  LET new == [s EXCEPT ![Len(s)] = a] IN
         /\ new \in Seq(Attempt) /\ Len(new) = Len(s)
         /\ new[Len(s)] = a
         /\ \A i \in 1..(Len(s) - 1) : new[i] = s[i]
OBVIOUS

\* A history with one more attempt.
LEMMA OneMore ==
  ASSUME NEW s \in Seq(Attempt), NEW a \in Attempt
  PROVE  LET new == Append(s, a) IN
         /\ new \in Seq(Attempt) /\ Len(new) = Len(s) + 1
         /\ new[Len(s) + 1] = a
         /\ \A i \in 1..Len(s) : new[i] = s[i]
OBVIOUS

\* What the events make of a row, one field at a time.
LEMMA AfterStart ==
  ASSUME NEW r \in Row, NEW e, e.kind = "attempt_started"
  PROVE  LET new == Transition(r, e) IN
         /\ new \in Row /\ new.revision = r.revision + 1 /\ new.wanted = r.wanted
         /\ new.status = "running" /\ Tries(new) = Tries(r) + 1
         /\ new.attempts[Tries(new)] = NewAttempt
         /\ \A i \in 1..Tries(r) : new.attempts[i] = r.attempts[i]
<1> DEFINE new == Transition(r, e)
<1>1. /\ r.attempts \in Seq(Attempt) /\ r.revision + 1 \in Nat /\ r.wanted \in BOOLEAN
      /\ NewAttempt \in Attempt /\ "running" \in JobStatus
  BY DEF Row, NewAttempt, Attempt, JobStatus, Unfinished
<1>2. new = [r EXCEPT !.revision = r.revision + 1, !.status = "running",
                      !.attempts = Append(@, NewAttempt)]
  BY DEF Transition
<1>3. /\ new.revision = r.revision + 1 /\ new.wanted = r.wanted /\ new.status = "running"
      /\ new.attempts = Append(r.attempts, NewAttempt)
  BY <1>2 DEF Row
<1>4. new \in Row
  <2>1. Append(r.attempts, NewAttempt) \in Seq(Attempt)
    BY <1>1
  <2> QED
    BY <1>1, <1>2, <2>1 DEF Row
<1> QED
  BY <1>1, <1>3, <1>4, OneMore DEF Tries

LEMMA AfterRequest ==
  ASSUME NEW r \in Row, NEW e, e.kind \in {"cancellation_requested", "retry_requested"}
  PROVE  LET new == Transition(r, e) IN
         /\ new \in Row /\ new.revision = r.revision + 1 /\ new.attempts = r.attempts
         /\ e.kind = "retry_requested" => new.status = "pending" /\ ~new.wanted
         /\ e.kind = "cancellation_requested" =>
              /\ new.status = IF r.status = "pending" THEN "cancelled" ELSE "cancel_requested"
              /\ new.wanted
<1>1. r.revision + 1 \in Nat /\ {"pending", "cancelled", "cancel_requested"} \subseteq JobStatus
  BY DEF Row, JobStatus, Unfinished, Terminal
<1>2. CASE e.kind = "cancellation_requested"
  <2> DEFINE status == IF r.status = "pending" THEN "cancelled" ELSE "cancel_requested"
  <2>1. Transition(r, e)
          = [r EXCEPT !.revision = r.revision + 1, !.status = status, !.wanted = TRUE]
    BY <1>2 DEF Transition, Row
  <2>2. status \in JobStatus
    BY <1>1
  <2> QED
    BY <1>1, <1>2, <2>1, <2>2 DEF Row
<1>3. CASE e.kind = "retry_requested"
  <2>1. Transition(r, e)
          = [r EXCEPT !.revision = r.revision + 1, !.status = "pending", !.wanted = FALSE]
    BY <1>3 DEF Transition
  <2> QED
    BY <1>1, <1>3, <2>1 DEF Row
<1> QED
  BY <1>2, <1>3

LEMMA AfterProgress ==
  ASSUME NEW r \in Row, Tries(r) > 0, NEW e, e.kind = "progress_reported", e.units \in Nat
  PROVE  LET new == Transition(r, e) IN
         /\ new \in Row /\ new.revision = r.revision + 1
         /\ new.wanted = r.wanted /\ new.status = r.status /\ Tries(new) = Tries(r)
         /\ Latest(new) = [Latest(r) EXCEPT !.units = e.units]
         /\ \A i \in 1..(Tries(r) - 1) : new.attempts[i] = r.attempts[i]
<1> DEFINE new == Transition(r, e)
           last == [Latest(r) EXCEPT !.units = e.units]
<1>1. r.attempts \in Seq(Attempt) /\ r.revision + 1 \in Nat
  BY DEF Row
<1>2. Latest(r) \in Attempt
  BY <1>1 DEF Latest, Tries
<1>3. last \in Attempt
  BY <1>2 DEF Attempt
<1>4. new = [r EXCEPT !.revision = r.revision + 1, !.attempts = [@ EXCEPT ![Tries(r)] = last]]
  BY <1>1 DEF Transition, Latest, Row
<1>5. /\ new.revision = r.revision + 1 /\ new.wanted = r.wanted /\ new.status = r.status
      /\ new.attempts = [r.attempts EXCEPT ![Len(r.attempts)] = last]
  BY <1>4 DEF Row, Tries
<1>6. /\ new.attempts \in Seq(Attempt) /\ Tries(new) = Tries(r) /\ Latest(new) = last
      /\ \A i \in 1..(Tries(r) - 1) : new.attempts[i] = r.attempts[i]
  BY <1>1, <1>3, <1>5, LastReplaced DEF Tries, Latest
<1>7. new \in Row
  BY <1>1, <1>4, <1>5, <1>6 DEF Row
<1> QED
  BY <1>5, <1>6, <1>7

LEMMA AfterEnd ==
  ASSUME NEW r \in Row, Tries(r) > 0, NEW e, Made(e), e.kind \in DOMAIN AttemptOutcome
  PROVE  LET new == Transition(r, e) IN
         /\ new \in Row /\ new.revision = r.revision + 1 /\ new.wanted = r.wanted
         /\ new.status = JobOutcome[e.kind] /\ Tries(new) = Tries(r)
         /\ Latest(new) = [Latest(r) EXCEPT !.status = AttemptOutcome[e.kind],
                                            !.retryable = e.retryable]
         /\ \A i \in 1..(Tries(r) - 1) : new.attempts[i] = r.attempts[i]
<1> DEFINE new == Transition(r, e)
           last == [Latest(r) EXCEPT !.status = AttemptOutcome[e.kind], !.retryable = e.retryable]
<1>1. r.attempts \in Seq(Attempt) /\ r.revision + 1 \in Nat /\ r.wanted \in BOOLEAN
  BY DEF Row
<1>2. /\ e.kind \in {"attempt_succeeded", "attempt_failed", "attempt_cancelled", "attempt_interrupted"}
      /\ e.retryable \in BOOLEAN
  BY DEF AttemptOutcome, Made
<1>3. /\ AttemptOutcome[e.kind] \in {"succeeded", "failed", "cancelled", "interrupted"}
      /\ JobOutcome[e.kind] \in Terminal
  BY <1>2 DEF AttemptOutcome, JobOutcome, Terminal
<1>4. Latest(r) \in Attempt
  BY <1>1 DEF Latest, Tries
<1>5. last \in Attempt
  BY <1>2, <1>3, <1>4 DEF Attempt
<1>6. new = [r EXCEPT !.revision = r.revision + 1, !.status = JobOutcome[e.kind],
                      !.attempts = [@ EXCEPT ![Tries(r)] = last]]
  <2> DEFINE status == AttemptOutcome[e.kind]
             half == [r.attempts EXCEPT ![Tries(r)].status = status]
  <2>1. new = [r EXCEPT !.revision = r.revision + 1, !.status = JobOutcome[e.kind],
                        !.attempts = [half EXCEPT ![Tries(r)].retryable = e.retryable]]
    BY <1>1, <1>2 DEF Transition, Row
  <2>2. [half EXCEPT ![Tries(r)].retryable = e.retryable] = [r.attempts EXCEPT ![Tries(r)] = last]
    <3>1. Tries(r) \in DOMAIN r.attempts
      BY <1>1 DEF Tries
    <3> DEFINE first == [Latest(r) EXCEPT !.status = status]
    <3> HIDE DEF status
    <3>2. half = [r.attempts EXCEPT ![Tries(r)] = first]
      BY DEF Latest
    <3>3. half[Tries(r)] = first
      BY <3>1, <3>2
    <3>4. last = [first EXCEPT !.retryable = e.retryable]
      BY DEF status
    <3>5. [half EXCEPT ![Tries(r)].retryable = e.retryable] = [half EXCEPT ![Tries(r)] = last]
      BY <3>3, <3>4
    <3> HIDE DEF half, first, last
    <3> QED
      BY <3>2, <3>5
  <2> QED
    BY <2>1, <2>2
<1>7. /\ new.revision = r.revision + 1 /\ new.wanted = r.wanted /\ new.status = JobOutcome[e.kind]
      /\ new.attempts = [r.attempts EXCEPT ![Len(r.attempts)] = last]
  BY <1>6 DEF Row, Tries
<1>8. /\ new.attempts \in Seq(Attempt) /\ Tries(new) = Tries(r) /\ Latest(new) = last
      /\ \A i \in 1..(Tries(r) - 1) : new.attempts[i] = r.attempts[i]
  BY <1>1, <1>5, <1>7, LastReplaced DEF Tries, Latest
<1>9. new \in Row
  BY <1>1, <1>3, <1>6, <1>7, <1>8 DEF Row, JobStatus
<1> QED
  BY <1>7, <1>8, <1>9

Cancellable(r) == r.status # "pending" \/ Tries(r) = 0

\* What the validators demand of each attempt.
FlagsFit(r) ==
  \A i \in 1..Tries(r) :
    /\ r.attempts[i].status \in {"running", "succeeded", "cancelled"} => ~r.attempts[i].retryable
    /\ r.attempts[i].status = "interrupted" => r.attempts[i].retryable

LEMMA FlagsKept ==
  ASSUME NEW r, NEW new, Tries(r) \in Nat, Tries(r) > 0, Tries(new) = Tries(r), FlagsFit(r),
         \A i \in 1..(Tries(r) - 1) : new.attempts[i] = r.attempts[i],
         Latest(new).status \in {"running", "succeeded", "cancelled"} => ~Latest(new).retryable,
         Latest(new).status = "interrupted" => Latest(new).retryable
  PROVE  FlagsFit(new)
<1> SUFFICES ASSUME NEW i \in 1..Tries(new)
             PROVE  /\ new.attempts[i].status \in {"running", "succeeded", "cancelled"}
                         => ~new.attempts[i].retryable
                    /\ new.attempts[i].status = "interrupted" => new.attempts[i].retryable
  BY DEF FlagsFit
<1>1. CASE i = Tries(r)
  BY <1>1 DEF Latest
<1>2. CASE i # Tries(r)
  <2>1. i \in 1..(Tries(r) - 1) /\ i \in 1..Tries(r)
    BY <1>2
  <2>2. new.attempts[i] = r.attempts[i]
    BY <2>1
  <2> QED
    BY <2>1, <2>2 DEF FlagsFit
<1> QED
  BY <1>1, <1>2

\* The validators refuse nothing that the lifecycle rules accept, but the
\* cancellation of a job that waits for another attempt.
LEMMA NothingElseRefused ==
  ASSUME NEW max \in Nat, NEW r, Sound(r, max), NEW e, Made(e), Guard(r, e, max),
         e.kind = "cancellation_requested" => Cancellable(r)
  PROVE  Accepts(r, e, max)
<1> DEFINE new == Transition(r, e)
<1>1. /\ r \in Row /\ LifecycleValid(r, max) /\ r.attempts \in Seq(Attempt)
      /\ r.status \in JobStatus /\ Tries(r) \in Nat
  BY DEF Sound, Row, Tries
<1>2. e.kind \in EventKinds /\ e.attempt \in Nat /\ e.units \in Nat /\ e.retryable \in BOOLEAN
  BY DEF Made
<1> SUFFICES LifecycleValid(new, max)
  BY DEF Accepts
<1>3. CASE e.kind = "attempt_started"
  <2>1. /\ new.status = "running" /\ Tries(new) = Tries(r) + 1
        /\ new.attempts[Tries(new)] = NewAttempt
        /\ \A i \in 1..Tries(r) : new.attempts[i] = r.attempts[i]
    BY <1>1, <1>3, AfterStart
  <2>2. Tries(r) < max
    BY <1>3 DEF Guard
  <2>3. NewAttempt.status = "running" /\ ~NewAttempt.retryable
    BY DEF NewAttempt
  <2> HIDE DEF new
  <2> QED
    BY <1>1, <2>1, <2>2, <2>3 DEF LifecycleValid, Latest, Active
<1>4. CASE e.kind = "progress_reported"
  <2>1. Tries(r) > 0
    BY <1>1, <1>4 DEF Guard, ActiveAttempt, LifecycleValid
  <2>2. /\ new.status = r.status /\ new.wanted = r.wanted /\ Tries(new) = Tries(r)
        /\ Latest(new) = [Latest(r) EXCEPT !.units = e.units]
        /\ \A i \in 1..(Tries(r) - 1) : new.attempts[i] = r.attempts[i]
    BY <1>1, <1>2, <1>4, <2>1, AfterProgress
  <2>3. Latest(r) \in Attempt
    BY <1>1, <2>1 DEF Latest, Tries
  <2>4. Latest(new).status = Latest(r).status /\ (Latest(new).retryable <=> Latest(r).retryable)
    BY <2>2, <2>3 DEF Attempt
  <2>5. FlagsFit(r)
    BY <1>1 DEF LifecycleValid, FlagsFit
  <2>6. FlagsFit(new)
    <3>1. /\ Latest(r).status \in {"running", "succeeded", "cancelled"} => ~Latest(r).retryable
          /\ Latest(r).status = "interrupted" => Latest(r).retryable
      BY <1>1, <2>1, <2>5 DEF FlagsFit, Latest
    <3> HIDE DEF new
    <3> QED
      BY <1>1, <2>1, <2>2, <2>4, <2>5, <3>1, FlagsKept
  <2> HIDE DEF new
  <2> QED
    BY <1>1, <2>1, <2>2, <2>4, <2>6 DEF LifecycleValid, FlagsFit
<1>5. CASE e.kind \in {"cancellation_requested", "retry_requested"}
  <2>1. /\ new.attempts = r.attempts
        /\ e.kind = "retry_requested" => new.status = "pending" /\ ~new.wanted
        /\ e.kind = "cancellation_requested" =>
             /\ new.status = IF r.status = "pending" THEN "cancelled" ELSE "cancel_requested"
             /\ new.wanted
    BY <1>1, <1>5, AfterRequest
  <2>2. Tries(new) = Tries(r) /\ Latest(new) = Latest(r)
    BY <2>1 DEF Tries, Latest
  <2>3. CASE e.kind = "retry_requested"
    <3>1. r.status = "failed"
      BY <2>3 DEF Guard, MayRetry
    <3> HIDE DEF new
    <3> QED
      BY <1>1, <2>1, <2>2, <2>3, <3>1 DEF LifecycleValid, Active
  <2>4. CASE e.kind = "cancellation_requested"
    <3>1. r.status \in Unfinished /\ (r.status = "pending" => Tries(r) = 0)
      BY <2>4 DEF Guard, Cancellable
    <3> HIDE DEF new
    <3> QED
      BY <1>1, <2>1, <2>2, <2>4, <3>1 DEF LifecycleValid, Unfinished, Active
  <2> QED
    BY <1>5, <2>3, <2>4
<1>6. CASE e.kind \in DOMAIN AttemptOutcome
  <2>0. /\ e.kind \in {"attempt_succeeded", "attempt_failed", "attempt_cancelled",
                       "attempt_interrupted"}
        /\ ActiveAttempt(r, e)
        /\ e.kind = "attempt_cancelled" => r.status = "cancel_requested"
    BY <1>6 DEF AttemptOutcome, Guard
  <2>1. Tries(r) > 0 /\ (r.status = "cancel_requested" => r.wanted)
    BY <1>1, <2>0 DEF ActiveAttempt, LifecycleValid
  <2>2. /\ new.status = JobOutcome[e.kind] /\ new.wanted = r.wanted /\ Tries(new) = Tries(r)
        /\ Latest(new) = [Latest(r) EXCEPT !.status = AttemptOutcome[e.kind],
                                           !.retryable = e.retryable]
        /\ \A i \in 1..(Tries(r) - 1) : new.attempts[i] = r.attempts[i]
    BY <1>1, <1>6, <2>1, AfterEnd
  <2>3. Latest(r) \in Attempt
    BY <1>1, <2>1 DEF Latest, Tries
  <2>4. Latest(new).status = AttemptOutcome[e.kind] /\ Latest(new).retryable = e.retryable
    BY <2>2, <2>3 DEF Attempt
  <2>5. /\ e.kind = "attempt_succeeded" =>
             new.status = "succeeded" /\ Latest(new).status = "succeeded" /\ ~Latest(new).retryable
        /\ e.kind = "attempt_failed" =>
             new.status = "failed" /\ Latest(new).status = "failed"
        /\ e.kind = "attempt_cancelled" =>
             new.status = "cancelled" /\ Latest(new).status = "cancelled" /\ ~Latest(new).retryable
        /\ e.kind = "attempt_interrupted" =>
             new.status = "failed" /\ Latest(new).status = "interrupted" /\ Latest(new).retryable
    BY <2>2, <2>4 DEF JobOutcome, AttemptOutcome, Made
  <2>6. FlagsFit(new)
    <3>1. FlagsFit(r)
      BY <1>1 DEF LifecycleValid, FlagsFit
    <3> HIDE DEF new
    <3> QED
      BY <1>1, <2>0, <2>1, <2>2, <2>5, <3>1, FlagsKept
  <2> HIDE DEF new
  <2> QED
    BY <1>1, <2>0, <2>1, <2>2, <2>5, <2>6 DEF LifecycleValid, FlagsFit, Active
<1> QED
  BY <1>2, <1>3, <1>4, <1>5, <1>6 DEF EventKinds, AttemptOutcome

\* An accepted event leads from a sound row to a sound row.
LEMMA AcceptedSound ==
  ASSUME NEW max \in Nat, NEW r, Sound(r, max), NEW e, Made(e), Accepts(r, e, max)
  PROVE  LET new == Transition(r, e) IN
         Sound(new, max) /\ new \in Row /\ new.revision = r.revision + 1
<1>1. r \in Row /\ LifecycleValid(r, max) /\ Guard(r, e, max)
  BY DEF Sound, Accepts
<1>2. e.kind \in EventKinds /\ e.units \in Nat
  BY DEF Made
<1>3. CASE e.kind = "attempt_started"
  BY <1>1, <1>3, AfterStart DEF Sound, Accepts
<1>4. CASE e.kind \in {"cancellation_requested", "retry_requested"}
  <2>1. e.kind = "retry_requested" => Tries(r) < max
    BY <1>1 DEF Guard, MayRetry
  <2> QED
    BY <1>1, <1>4, <2>1, AfterRequest DEF Sound, Accepts, Tries
<1>5. CASE e.kind = "progress_reported"
  <2>1. r.status \in Active /\ Tries(r) > 0
    BY <1>1, <1>5 DEF Guard, ActiveAttempt, LifecycleValid
  <2> QED
    BY <1>1, <1>2, <1>5, <2>1, AfterProgress DEF Sound, Accepts, Active
<1>6. CASE e.kind \in DOMAIN AttemptOutcome
  <2>1. Tries(r) > 0
    BY <1>1, <1>6 DEF Guard, ActiveAttempt, LifecycleValid, AttemptOutcome
  <2>2. JobOutcome[e.kind] # "pending"
    BY <1>6 DEF JobOutcome, AttemptOutcome
  <2> QED
    BY <1>1, <1>6, <2>1, <2>2, AfterEnd DEF Sound, Accepts
<1> QED
  BY <1>2, <1>3, <1>4, <1>5, <1>6 DEF EventKinds, AttemptOutcome

-----------------------------------------------------------------------------
(* The events the runner makes. *)

LEMMA EventFields ==
  /\ CancellationRequested.kind = "cancellation_requested" /\ Made(CancellationRequested)
  /\ RetryRequested.kind = "retry_requested" /\ Made(RetryRequested)
  /\ \A r \in Row :
       /\ Made(Started(r)) /\ Started(r).kind = "attempt_started"
       /\ Started(r).attempt = Tries(r) + 1
  /\ \A a, u \in Nat :
       Made(Progress(a, u)) /\ Progress(a, u).kind = "progress_reported"
  /\ \A kind \in DOMAIN AttemptOutcome, a \in Nat, retryable \in BOOLEAN :
       LET e == Ended(kind, a, retryable) IN
       /\ e.kind = kind /\ e.attempt = a
       /\ (kind \in {"attempt_succeeded", "attempt_cancelled"} => ~retryable)
            /\ (kind = "attempt_interrupted" => retryable) => Made(e)
<1>1. CancellationRequested.kind = "cancellation_requested" /\ Made(CancellationRequested)
  BY DEF CancellationRequested, Event, Made, EventKinds
<1>2. RetryRequested.kind = "retry_requested" /\ Made(RetryRequested)
  BY DEF RetryRequested, Event, Made, EventKinds
<1>3. ASSUME NEW r \in Row
      PROVE  /\ Made(Started(r)) /\ Started(r).kind = "attempt_started"
             /\ Started(r).attempt = Tries(r) + 1
  <2>1. Tries(r) + 1 \in Nat
    BY DEF Tries, Row
  <2> HIDE DEF Tries
  <2> QED
    BY <2>1 DEF Started, Event, Made, EventKinds
<1>4. ASSUME NEW a \in Nat, NEW u \in Nat
      PROVE  Made(Progress(a, u)) /\ Progress(a, u).kind = "progress_reported"
  BY DEF Progress, Event, Made, EventKinds
<1>5. ASSUME NEW kind \in DOMAIN AttemptOutcome, NEW a \in Nat, NEW retryable \in BOOLEAN
      PROVE  LET e == Ended(kind, a, retryable) IN
             /\ e.kind = kind /\ e.attempt = a
             /\ (kind \in {"attempt_succeeded", "attempt_cancelled"} => ~retryable)
                  /\ (kind = "attempt_interrupted" => retryable) => Made(e)
  <2>1. kind \in EventKinds
    BY DEF AttemptOutcome, EventKinds
  <2>2. /\ Ended(kind, a, retryable).kind = kind /\ Ended(kind, a, retryable).attempt = a
        /\ Ended(kind, a, retryable).retryable = retryable
        /\ Ended(kind, a, retryable)
             \in [kind : EventKinds, attempt : Nat, retryable : BOOLEAN, units : Nat]
    BY <2>1 DEF Ended, Event
  <2> QED
    BY <2>2 DEF Made
<1> QED
  BY <1>1, <1>2, <1>3, <1>4, <1>5

-----------------------------------------------------------------------------
(* Steps on the rows. *)

\* The row of a job takes one event that the lifecycle accepts.
Moved(j, e) ==
  /\ Exists(j) /\ Made(e) /\ Accepts(store[j], e, MaxAttempts[j])
  /\ store' = [store EXCEPT ![j] = Transition(store[j], e)]
Created(j) == ~Exists(j) /\ store' = [store EXCEPT ![j] = NewJob]

RowStep == \/ UNCHANGED store
           \/ \E j \in Job : Created(j) \/ \E e : Moved(j, e)

LEMMA JobFacts ==
  ASSUME JobInv, NEW j \in Job
  PROVE  /\ JobHolds(j) /\ MaxAttempts[j] \in Nat
         /\ Exists(j) => Sound(store[j], MaxAttempts[j]) /\ store[j] \in Row
         /\ memory[j] # NoJob => memory[j] \in MemoryRecord /\ RecordHolds(j, memory[j])
BY JobAssumption DEF JobInv, JobHolds, Shape, Exists

\* A save that finds the revision of its snapshot finds the snapshot.
LEMMA SavedMoves ==
  ASSUME JobInv, NEW j \in Job, Exists(j), NEW rec \in MemoryRecord, RecordHolds(j, rec),
         NEW e, Made(e), Accepts(rec.state, e, MaxAttempts[j]), Current(j, rec.state)
  PROVE  /\ rec.state = store[j]
         /\ Sound(Transition(store[j], e), MaxAttempts[j])
         /\ Transition(store[j], e) \in Row /\ Transition(store[j], e) # NoJob
         /\ Transition(store[j], e).revision = store[j].revision + 1
<1>1. rec.state = store[j]
  BY DEF RecordHolds, Current
<1> QED
  BY <1>1, JobFacts, AcceptedSound, NoJobAssumption

\* A job that the step leaves alone.
LEMMA OtherJob ==
  ASSUME NEW k \in Job, JobHolds(k), store'[k] = store[k], memory'[k] = memory[k],
         Queued(k)' <=> Queued(k), Working(k)' <=> Working(k), Working(k) => worker' = worker,
         k \in hurt => k \in hurt',
         phase' \in {"starting", "submitting", "up"} => phase \in {"starting", "submitting", "up"},
         InRecovery(k)' => InRecovery(k),
         InRecovery(k) => InRecovery(k)' \/ k \in hurt'
  PROVE  JobHolds(k)'
<1>1. /\ Exists(k)' <=> Exists(k)
      /\ Pending(k)' <=> Pending(k)
      /\ CancelKept(k)' <=> CancelKept(k)
  BY DEF Exists, Pending, CancelKept
<1>2. memory'[k] # NoJob => RecordHolds(k, memory[k])'
  BY DEF JobHolds, RecordHolds, Exists
<1>3. Working(k)' => memory'[k] # NoJob /\ WorkHolds(memory[k])'
  BY DEF JobHolds, WorkHolds
<1> QED
  BY <1>1, <1>2, <1>3 DEF JobHolds

\* The work items.
Distinct(q) == \A i, k \in DOMAIN q : q[i] = q[k] => i = k

LEMMA QueueAppended ==
  ASSUME queue \in Seq(Job), Distinct(queue), NEW j \in Job, ~Queued(j), queue' = Append(queue, j)
  PROVE  /\ queue' \in Seq(Job) /\ Distinct(queue')
         /\ \A k \in Job : Queued(k)' <=> Queued(k) \/ k = j
<1>1. /\ queue' \in Seq(Job) /\ Len(queue') = Len(queue) + 1
      /\ \A i \in 1..Len(queue) : queue'[i] = queue[i]
      /\ queue'[Len(queue) + 1] = j
  OBVIOUS
<1>2. \A i \in 1..Len(queue) : queue[i] # j
  BY DEF Queued, Range
<1>3. Distinct(queue')
  BY <1>1, <1>2 DEF Distinct
<1>4. ASSUME NEW k \in Job PROVE Queued(k)' <=> Queued(k) \/ k = j
  <2>1. Queued(k)' <=> \E i \in 1..Len(queue') : queue'[i] = k
    BY <1>1 DEF Queued, Range
  <2>2. Queued(k) <=> \E i \in 1..Len(queue) : queue[i] = k
    BY DEF Queued, Range
  <2>3. \A i \in 1..Len(queue') : i \in 1..Len(queue) \/ i = Len(queue) + 1
    BY <1>1
  <2>4. 1..Len(queue) \subseteq 1..Len(queue') /\ Len(queue) + 1 \in 1..Len(queue')
    BY <1>1
  <2> QED
    BY <1>1, <2>1, <2>2, <2>3, <2>4
<1> QED
  BY <1>1, <1>3, <1>4

LEMMA QueueTaken ==
  ASSUME queue \in Seq(Job), Distinct(queue), queue # <<>>, queue' = Tail(queue)
  PROVE  /\ queue' \in Seq(Job) /\ Distinct(queue')
         /\ Head(queue) \in Job /\ Queued(Head(queue))
         /\ \A k \in Job : Queued(k)' <=> Queued(k) /\ k # Head(queue)
<1>1. /\ queue' \in Seq(Job) /\ Len(queue') = Len(queue) - 1 /\ Len(queue) > 0
      /\ \A i \in 1..Len(queue') : i + 1 \in 1..Len(queue) /\ queue'[i] = queue[i + 1]
      /\ Head(queue) = queue[1] /\ Head(queue) \in Job
  OBVIOUS
<1>2. Distinct(queue')
  BY <1>1 DEF Distinct
<1>3. Queued(Head(queue))
  BY <1>1 DEF Queued, Range
<1>4. ASSUME NEW k \in Job PROVE Queued(k)' <=> Queued(k) /\ k # Head(queue)
  <2>1. Queued(k)' <=> \E i \in 1..Len(queue') : queue'[i] = k
    <3>1. DOMAIN queue' = 1..Len(queue')
      BY <1>1
    <3>2. Queued(k)' <=> \E i \in DOMAIN queue' : queue'[i] = k
      BY Zenon DEF Queued, Range
    <3> QED
      BY <3>1, <3>2
  <2>2. Queued(k) <=> \E i \in 1..Len(queue) : queue[i] = k
    BY DEF Queued, Range
  <2>3. ASSUME NEW i \in 1..Len(queue), i # 1
        PROVE  i - 1 \in 1..Len(queue') /\ queue'[i - 1] = queue[i]
    BY <1>1, <2>3
  <2>4. \A i \in 1..Len(queue) : queue[i] = queue[1] => i = 1
    BY <1>1 DEF Distinct
  <2> QED
    BY <1>1, <2>1, <2>2, <2>3, <2>4
<1> QED
  BY <1>1, <1>2, <1>3, <1>4

\* A step on job j.
LEMMA OneJob ==
  ASSUME JobInv, NEW j \in Job, Shape', ProcessInv', UNCHANGED process,
         hurt \subseteq hurt', JobHolds(j)',
         \A k \in Job \ {j} :
           /\ store'[k] = store[k] /\ memory'[k] = memory[k]
           /\ Queued(k)' <=> Queued(k)
           /\ Working(k)' <=> Working(k)
           /\ Working(k) => worker' = worker
  PROVE  JobInv'
<1>1. phase' = phase /\ \A k \in Job : InRecovery(k)' <=> InRecovery(k)
  BY DEF process, InRecovery, Recovering
<1>2. ASSUME NEW k \in Job \ {j} PROVE JobHolds(k)'
  BY <1>1, <1>2, OtherJob DEF JobInv
<1> QED
  BY <1>2 DEF JobInv

\* The record an action of a client works with.
LEMMA ActionRecordFits ==
  ASSUME JobInv, NEW j \in Job, Exists(j)
  PROVE  /\ ActionRecord(j) \in MemoryRecord /\ RecordHolds(j, ActionRecord(j))
         /\ memory[j] # NoJob => ActionRecord(j) = memory[j]
<1>1. CASE memory[j] = NoJob
  <2>1. store[j] \in Row /\ Sound(store[j], MaxAttempts[j])
    BY JobFacts
  <2>2. ActionRecord(j) = [state |-> store[j], cancel |-> FALSE]
    BY <1>1 DEF ActionRecord, Record
  <2>3. store[j].revision \in Nat
    BY <2>1 DEF Row
  <2> QED
    BY <1>1, <2>1, <2>2, <2>3 DEF RecordHolds, MemoryRecord
<1>2. CASE memory[j] # NoJob
  BY <1>2, JobFacts DEF ActionRecord
<1> QED
  BY <1>1, <1>2

-----------------------------------------------------------------------------
(* Requests. *)

\* A record of a job is replaced and its row takes an event or stays.
LEMMA RecordStep ==
  ASSUME JobInv, NEW j \in Job, NEW rec \in MemoryRecord,
         UNCHANGED <<created, worker, process>>, phase # "down",
         memory' = [memory EXCEPT ![j] = rec],
         Exists(j), UNCHANGED store \/ \E r \in Row : store' = [store EXCEPT ![j] = r],
         hurt \subseteq hurt', hurt' \subseteq Job, budget' \in Budget,
         UNCHANGED queue \/ (queue' = Append(queue, j) /\ ~Queued(j)),
         JobHolds(j)'
  PROVE  JobInv'
<1>1. /\ \A k \in Job \ {j} : store'[k] = store[k] /\ memory'[k] = memory[k]
      /\ store' \in [Job -> Row \cup {NoJob}] /\ memory' \in [Job -> MemoryRecord \cup {NoJob}]
      /\ \A k \in Job : Exists(k)' <=> Exists(k)
  BY NoJobAssumption DEF JobInv, Shape, Exists
<1>2. /\ queue' \in Seq(Job) /\ Distinct(queue')
      /\ \A k \in Job \ {j} : Queued(k)' <=> Queued(k)
  <2>1. queue \in Seq(Job) /\ Distinct(queue)
    BY DEF JobInv, Shape, ProcessInv, Distinct
  <2>2. CASE UNCHANGED queue
    BY <2>1, <2>2 DEF Queued
  <2>3. CASE queue' = Append(queue, j) /\ ~Queued(j)
    BY <2>1, <2>3, QueueAppended
  <2> QED
    BY <2>2, <2>3
<1>3. Shape'
  BY <1>1, <1>2 DEF JobInv, Shape, process
<1>4. ProcessInv'
  BY <1>1, <1>2 DEF JobInv, ProcessInv, process, Distinct
<1> QED
  BY <1>1, <1>2, <1>3, <1>4, OneJob DEF Working

LEMMA BudgetKept ==
  ASSUME JobInv, UNCHANGED faultVars
  PROVE  hurt \subseteq hurt' /\ hurt' \subseteq Job /\ budget' \in Budget
BY DEF JobInv, Shape, faultVars

LEMMA FaultKept ==
  ASSUME JobInv, NEW j \in Job, NEW states, Fault(j, states)
  PROVE  /\ hurt' = hurt \cup {j} /\ hurt \subseteq hurt' /\ hurt' \subseteq Job
         /\ budget' \in Budget
         /\ \E r \in states : store' = [store EXCEPT ![j] = r]
<1>1. budget' \in Budget
  <2>1. budget \in Budget /\ budget.saves > 0 /\ budget' = [budget EXCEPT !.saves = budget.saves - 1]
    BY DEF Fault, SaveMayFail, JobInv, Shape
  <2>2. budget.saves - 1 \in Nat
    BY <2>1 DEF Budget
  <2> QED
    BY <2>1, <2>2 DEF Budget
<1> QED
  BY <1>1 DEF Fault, Put, JobInv, Shape

\* What a failed save leaves: the row as it was, or after the event.
LEMMA SaveFailed ==
  ASSUME JobInv, NEW j \in Job, Exists(j), NEW rec \in MemoryRecord, RecordHolds(j, rec),
         NEW e, Made(e), SaveFails(j, rec.state, e)
  PROVE  /\ rec.state = store[j]
         /\ UNCHANGED store \/ Moved(j, e)
         /\ \E r \in Row : store' = [store EXCEPT ![j] = r]
         /\ hurt' = hurt \cup {j} /\ hurt \subseteq hurt' /\ hurt' \subseteq Job
         /\ budget' \in Budget
         /\ store'[j] # NoJob /\ Sound(store'[j], MaxAttempts[j])
         /\ rec.state.revision <= store'[j].revision
         /\ rec.state.revision = store'[j].revision => rec.state = store'[j]
<1>1. /\ Accepts(rec.state, e, MaxAttempts[j]) /\ Current(j, rec.state)
      /\ Fault(j, {store[j], Transition(rec.state, e)})
  BY DEF SaveFails
<1>2. /\ rec.state = store[j] /\ Sound(Transition(store[j], e), MaxAttempts[j])
      /\ Transition(store[j], e) \in Row /\ Transition(store[j], e) # NoJob
      /\ Transition(store[j], e).revision = store[j].revision + 1
  BY <1>1, SavedMoves
<1>3. /\ hurt' = hurt \cup {j} /\ hurt \subseteq hurt' /\ hurt' \subseteq Job /\ budget' \in Budget
      /\ \/ store' = [store EXCEPT ![j] = store[j]]
         \/ store' = [store EXCEPT ![j] = Transition(store[j], e)]
  BY <1>1, <1>2, FaultKept
<1>4. store \in [Job -> Row \cup {NoJob}] /\ store[j] \in Row /\ Sound(store[j], MaxAttempts[j])
  BY JobFacts DEF JobInv, Shape
<1>5. CASE store' = [store EXCEPT ![j] = store[j]]
  <2>1. UNCHANGED store
    BY <1>4, <1>5
  <2>2. store[j].revision \in Nat
    BY <1>4 DEF Row
  <2>3. rec.state.revision <= store'[j].revision /\ rec.state = store'[j]
    BY <1>2, <2>1, <2>2
  <2> QED
    BY <1>2, <1>3, <1>4, <1>5, <2>1, <2>3 DEF Exists
<1>6. CASE store' = [store EXCEPT ![j] = Transition(store[j], e)]
  <2>1. Moved(j, e)
    BY <1>1, <1>2, <1>6 DEF Moved
  <2>2. store'[j] = Transition(store[j], e)
    BY <1>4, <1>6
  <2>3. /\ rec.state.revision <= store'[j].revision
        /\ rec.state.revision # store'[j].revision
    <3>1. store[j].revision \in Nat
      BY <1>4 DEF Row
    <3> QED
      BY <1>2, <2>2, <3>1
  <2> QED
    BY <1>2, <1>3, <1>6, <2>1, <2>2, <2>3
<1> QED
  BY <1>3, <1>5, <1>6

\* A job whose save has failed is excused from following its row.
LEMMA HurtHolds ==
  ASSUME JobInv, NEW j \in Job, ~InRecovery(j)', j \in hurt',
         memory'[j] # NoJob, RecordHolds(j, memory[j])', Exists(j)',
         Sound(store'[j], MaxAttempts[j]),
         Queued(j)' => memory'[j].state.status \in {"pending", "cancelled"},
         Working(j)' => WorkHolds(memory[j])'
  PROVE  JobHolds(j)'
BY DEF JobHolds

\* An action that changes nothing but that the job has a record.
LEMMA NothingDone ==
  ASSUME JobInv, NEW j \in Job, Serving, Exists(j), Remember(j, ActionRecord(j)),
         UNCHANGED <<store, faultVars, queue, created, worker, process>>
  PROVE  JobInv'
<1> DEFINE rec == ActionRecord(j)
<1>1. /\ rec \in MemoryRecord /\ RecordHolds(j, rec) /\ rec # NoJob
      /\ memory[j] # NoJob => rec = memory[j]
  BY ActionRecordFits, NoJobAssumption
<1> HIDE DEF rec
<1>2. memory' = [memory EXCEPT ![j] = rec] /\ memory'[j] = rec
  BY <1>1 DEF Remember, rec, JobInv, Shape
<1>3. JobHolds(j)'
  <2>1. RecordHolds(j, memory[j])'
    BY <1>1, <1>2 DEF RecordHolds, Exists, faultVars
  <2>2. /\ JobHolds(j) /\ UNCHANGED <<store, hurt, queue, worker, phase, recovery>>
        /\ phase = "up" /\ ~InRecovery(j) /\ ~InRecovery(j)'
    BY DEF JobInv, faultVars, process, Serving, InRecovery, Recovering
  <2>3. (Working(j) => WorkHolds(memory[j])' /\ memory[j] # NoJob) /\ (CancelKept(j) => CancelKept(j)')
    BY <1>1, <1>2, <2>2 DEF JobHolds, WorkHolds, CancelKept
  <2> QED
    BY <1>1, <1>2, <2>1, <2>2, <2>3 DEF JobHolds, Exists, Pending, Queued, Working
<1> QED
  BY <1>1, <1>2, <1>3, RecordStep, BudgetKept DEF Serving

\* A save that fails leaves the record as it was.
LEMMA ActionFails ==
  ASSUME JobInv, NEW j \in Job, Serving, Exists(j), Remember(j, ActionRecord(j)),
         NEW e, Made(e), SaveFails(j, ActionRecord(j).state, e),
         UNCHANGED <<queue, created, worker, process>>
  PROVE  JobInv' /\ RowStep
<1> DEFINE rec == ActionRecord(j)
<1>1. /\ rec \in MemoryRecord /\ RecordHolds(j, rec) /\ rec # NoJob
      /\ memory[j] # NoJob => rec = memory[j]
  BY ActionRecordFits, NoJobAssumption
<1>2. SaveFails(j, rec.state, e)
  OBVIOUS
<1>3. memory' = [memory EXCEPT ![j] = rec] /\ memory'[j] = rec
  BY <1>1 DEF Remember, JobInv, Shape
<1> HIDE DEF rec
<1>4. /\ UNCHANGED store \/ Moved(j, e)
      /\ \E r \in Row : store' = [store EXCEPT ![j] = r]
      /\ hurt' = hurt \cup {j} /\ hurt \subseteq hurt' /\ hurt' \subseteq Job
      /\ budget' \in Budget
      /\ store'[j] # NoJob /\ Sound(store'[j], MaxAttempts[j])
      /\ rec.state.revision <= store'[j].revision
      /\ rec.state.revision = store'[j].revision => rec.state = store'[j]
  BY <1>1, <1>2, SaveFailed
<1>5. JobHolds(j)'
  <2>1. RecordHolds(j, memory[j])'
    BY <1>1, <1>3, <1>4 DEF RecordHolds, Exists
  <2>2. /\ JobHolds(j) /\ UNCHANGED <<queue, worker>>
        /\ ~InRecovery(j)'
    BY DEF JobInv, process, Serving, InRecovery, Recovering
  <2>3. Working(j)' => WorkHolds(memory[j])'
    BY <1>1, <1>3, <2>2 DEF JobHolds, WorkHolds, Working
  <2>4. Queued(j)' => memory'[j].state.status \in {"pending", "cancelled"}
    BY <1>1, <1>3, <2>2 DEF JobHolds, Queued
  <2> QED
    BY <1>1, <1>3, <1>4, <2>1, <2>2, <2>3, <2>4, HurtHolds DEF Exists
<1> QED
  BY <1>1, <1>3, <1>4, <1>5, RecordStep DEF Serving, RowStep

LEMMA CancelKeeps ==
  ASSUME JobInv, NEW j \in Job, Cancel(j)
  PROVE  JobInv' /\ RowStep
<1> DEFINE rec == ActionRecord(j)
           e == CancellationRequested
           new == Transition(rec.state, e)
<1>0. Serving /\ Exists(j) /\ UNCHANGED <<created, queue, worker, process>> /\ Made(e)
  BY EventFields DEF Cancel
<1>1. CASE /\ rec.state.status \in {"pending", "running"}
           /\ Saved(j, rec.state, e)
           /\ Remember(j, [state |-> new, cancel |-> TRUE])
  <2>1. /\ rec \in MemoryRecord /\ RecordHolds(j, rec)
        /\ memory[j] # NoJob => rec = memory[j]
    BY <1>0, ActionRecordFits
  <2>2. /\ Accepts(rec.state, e, MaxAttempts[j]) /\ Current(j, rec.state)
        /\ store' = [store EXCEPT ![j] = new] /\ UNCHANGED faultVars
    BY <1>1 DEF Saved, Put
  <2>3. /\ rec.state = store[j] /\ store[j] \in Row
        /\ Sound(new, MaxAttempts[j]) /\ new \in Row /\ new # NoJob
    BY <1>0, <2>1, <2>2, SavedMoves, JobFacts
  <2>4. /\ new.status = IF rec.state.status = "pending" THEN "cancelled" ELSE "cancel_requested"
        /\ Tries(new) = Tries(rec.state)
    BY <2>3, EventFields, AfterRequest DEF Tries
  <2>5. /\ memory' = [memory EXCEPT ![j] = [state |-> new, cancel |-> TRUE]]
        /\ memory'[j] = [state |-> new, cancel |-> TRUE] /\ store'[j] = new
    BY <1>1, <2>2 DEF Remember, JobInv, Shape
  <2>6. [state |-> new, cancel |-> TRUE] \in MemoryRecord
    BY <2>3 DEF MemoryRecord
  <2>7. memory'[j] # NoJob
    BY <2>5, <2>6, NoJobAssumption
  <2> HIDE DEF rec, new, e
  <2>8. RecordHolds(j, memory[j])'
    <3>1. new.revision \in Nat
      BY <2>3 DEF Row
    <3> QED
      BY <2>3, <2>4, <2>5, <3>1 DEF RecordHolds, Exists
  <2>9. JobHolds(j) /\ ~InRecovery(j) /\ ~InRecovery(j)'
    BY <1>0 DEF JobInv, process, Serving, InRecovery, Recovering
  <2>10. Working(j) => rec.state.status = "running" /\ memory[j] # NoJob /\ WorkHolds(memory[j])'
    BY <1>0, <1>1, <2>1, <2>4, <2>5, <2>9 DEF JobHolds, WorkHolds, Active
  <2>11. Queued(j) => new.status = "cancelled"
    BY <1>1, <2>1, <2>4, <2>9 DEF JobHolds
  <2>12. Pending(j)' => Working(j) \/ j \in hurt \/ CancelKept(j)'
    <3>1. SUFFICES ASSUME Pending(j)' PROVE Working(j) \/ j \in hurt \/ CancelKept(j)'
      OBVIOUS
    <3>2. new.status = "cancel_requested" /\ rec.state.status = "running"
      BY <1>1, <2>4, <2>5, <3>1 DEF Pending, Unfinished
    <3>3. Pending(j) /\ ~Queued(j)
      BY <1>0, <2>1, <2>3, <2>9, <3>2 DEF Pending, Unfinished, Exists, JobHolds
    <3>4. Working(j) \/ j \in hurt \/ CancelKept(j)
      BY <1>0, <2>9, <3>3 DEF JobHolds, Serving
    <3>5. CancelKept(j) => CancelKept(j)'
      BY <2>1, <2>4, <2>5, <2>7, <3>2 DEF CancelKept, Active
    <3> QED
      BY <3>4, <3>5
  <2>13. JobHolds(j)'
    BY <1>0, <2>2, <2>3, <2>5, <2>7, <2>8, <2>9, <2>10, <2>11, <2>12
    DEF JobHolds, Working, Queued, faultVars
  <2>14. JobInv'
    BY <1>0, <2>2, <2>3, <2>5, <2>6, <2>13, RecordStep, BudgetKept DEF Serving
  <2>15. Moved(j, e)
    BY <1>0, <2>2, <2>3 DEF Moved, new
  <2> QED
    BY <2>14, <2>15 DEF RowStep
<1>2. CASE SaveFails(j, rec.state, e) /\ Remember(j, rec)
  BY <1>0, <1>2, ActionFails
<1>3. CASE Remember(j, rec) /\ UNCHANGED <<store, faultVars>>
  BY <1>0, <1>3, NothingDone DEF RowStep
<1> QED
  BY <1>1, <1>2, <1>3 DEF Cancel, Refused

LEMMA RetryKeeps ==
  ASSUME JobInv, NEW j \in Job, Retry(j)
  PROVE  JobInv' /\ RowStep
<1> DEFINE rec == ActionRecord(j)
           e == RetryRequested
           new == Transition(rec.state, e)
           next == [rec EXCEPT !.state = new]
<1>0. Serving /\ Exists(j) /\ UNCHANGED <<created, worker, process>> /\ Made(e)
  BY EventFields DEF Retry
<1>1. CASE Saved(j, rec.state, e) /\ Remember(j, next) /\ queue' = Append(queue, j)
  <2>1. /\ rec \in MemoryRecord /\ RecordHolds(j, rec)
        /\ memory[j] # NoJob => rec = memory[j]
    BY <1>0, ActionRecordFits
  <2>2. /\ Accepts(rec.state, e, MaxAttempts[j]) /\ Current(j, rec.state)
        /\ store' = [store EXCEPT ![j] = new] /\ UNCHANGED faultVars
    BY <1>1 DEF Saved, Put
  <2>3. /\ rec.state = store[j] /\ store[j] \in Row
        /\ Sound(new, MaxAttempts[j]) /\ new \in Row /\ new # NoJob
    BY <1>0, <2>1, <2>2, SavedMoves, JobFacts
  <2>4. /\ new.status = "pending" /\ Tries(new) = Tries(rec.state)
        /\ rec.state.status = "failed" /\ Tries(rec.state) > 0
    <3>1. new.status = "pending" /\ Tries(new) = Tries(rec.state)
      BY <2>3, EventFields, AfterRequest DEF Tries
    <3>2. MayRetry(rec.state, MaxAttempts[j])
      BY <2>2, EventFields DEF Accepts, Guard
    <3> QED
      BY <3>1, <3>2 DEF MayRetry
  <2>5. next \in MemoryRecord /\ next.state = new /\ next.cancel = rec.cancel
    BY <2>1, <2>3 DEF MemoryRecord
  <2>6. memory' = [memory EXCEPT ![j] = next] /\ memory'[j] = next /\ store'[j] = new
    BY <1>1, <2>2 DEF Remember, JobInv, Shape
  <2>7. memory'[j] # NoJob
    BY <2>5, <2>6, NoJobAssumption
  <2> HIDE DEF rec, new, next, e
  <2>8. RecordHolds(j, memory[j])'
    <3>1. new.revision \in Nat /\ Tries(new) \in Nat
      BY <2>3 DEF Row, Tries
    <3>2. Exists(j)' /\ next.state = store'[j] /\ Tries(next.state) >= 1
      BY <2>3, <2>4, <2>5, <2>6, <3>1 DEF Exists
    <3> QED
      BY <2>3, <2>4, <2>5, <2>6, <3>1, <3>2 DEF RecordHolds
  <2>9. JobHolds(j) /\ ~InRecovery(j) /\ ~InRecovery(j)'
    BY <1>0 DEF JobInv, process, Serving, InRecovery, Recovering
  <2>10. ~Working(j) /\ ~Queued(j)
    BY <2>1, <2>4, <2>9 DEF JobHolds, WorkHolds, Active
  <2>11. Queued(j)'
    BY <1>1, <2>10, QueueAppended DEF JobInv, Shape, ProcessInv, Distinct
  <2>12. JobHolds(j)'
    BY <1>0, <2>2, <2>3, <2>4, <2>5, <2>6, <2>7, <2>8, <2>9, <2>10, <2>11
    DEF JobHolds, Working
  <2>13. JobInv'
    BY <1>0, <1>1, <2>2, <2>3, <2>5, <2>6, <2>10, <2>12, RecordStep, BudgetKept DEF Serving
  <2>14. Moved(j, e)
    BY <1>0, <2>2, <2>3 DEF Moved, new
  <2> QED
    BY <2>13, <2>14 DEF RowStep
<1>2. CASE SaveFails(j, rec.state, e) /\ Remember(j, rec) /\ UNCHANGED queue
  BY <1>0, <1>2, ActionFails
<1>3. CASE Remember(j, rec) /\ UNCHANGED <<store, faultVars, queue>>
  BY <1>0, <1>3, NothingDone DEF RowStep
<1> QED
  BY <1>1, <1>2, <1>3 DEF Retry, Refused

\* A row that is added, with or without the record and the work item.
LEMMA RowAdded ==
  ASSUME JobInv, NEW j \in Job, ~Exists(j), Serving, UNCHANGED <<worker, process>>,
         store' = [store EXCEPT ![j] = NewJob], created' = Append(created, j),
         hurt \subseteq hurt', hurt' \subseteq Job, budget' \in Budget,
         \/ UNCHANGED <<memory, queue>> /\ j \in hurt'
         \/ /\ memory' = [memory EXCEPT ![j] = Record(NewJob)]
            /\ queue' = Append(queue, j)
  PROVE  JobInv' /\ RowStep
<1>1. /\ NewJob \in Row /\ Sound(NewJob, MaxAttempts[j]) /\ NewJob # NoJob
      /\ NewJob.status = "pending" /\ Tries(NewJob) = 0 /\ NewJob.revision = 0
  <2>1. NewJob \in Row /\ NewJob.attempts = <<>>
    BY DEF NewJob, Row, JobStatus, Unfinished
  <2>2. Tries(NewJob) = 0
    BY <2>1 DEF Tries
  <2>3. MaxAttempts[j] \in Nat \ {0}
    BY JobAssumption
  <2>4. NewJob.status = "pending" /\ NewJob.revision = 0
    BY DEF NewJob
  <2> HIDE DEF NewJob
  <2> QED
    BY <2>1, <2>2, <2>3, <2>4, NoJobAssumption DEF Sound, LifecycleValid, Active
<1> HIDE DEF NewJob
<1>2. Record(NewJob) \in MemoryRecord /\ Record(NewJob) # NoJob
  <2>1. Record(NewJob) \in MemoryRecord
    BY <1>1 DEF Record, MemoryRecord
  <2> QED
    BY <2>1, NoJobAssumption
<1>3. memory[j] = NoJob /\ ~Queued(j) /\ ~Working(j) /\ ~InRecovery(j)
  BY JobFacts DEF RecordHolds, JobHolds
<1>4. /\ store' \in [Job -> Row \cup {NoJob}] /\ store'[j] = NewJob
      /\ \A k \in Job \ {j} : store'[k] = store[k]
  BY <1>1 DEF JobInv, Shape
<1>5. created' \in Seq(Job) /\ Range(created') = {k \in Job : Exists(k)'}
  <2>1. created' \in Seq(Job) /\ Len(created') = Len(created) + 1
        /\ (\A i \in 1..Len(created) : created'[i] = created[i])
        /\ created'[Len(created) + 1] = j
    BY DEF JobInv, Shape
  <2>2. ASSUME NEW k \in Job PROVE k \in Range(created') <=> k \in Range(created) \/ k = j
    <3>1. DOMAIN created = 1..Len(created) /\ DOMAIN created' = 1..Len(created')
      BY <2>1 DEF JobInv, Shape
    <3>2. \A i \in 1..Len(created') : i \in 1..Len(created) \/ i = Len(created) + 1
      BY <2>1 DEF JobInv, Shape
    <3>3. 1..Len(created) \subseteq 1..Len(created') /\ Len(created) + 1 \in 1..Len(created')
      BY <2>1 DEF JobInv, Shape
    <3> QED
      BY <2>1, <3>1, <3>2, <3>3 DEF Range
  <2>3. Range(created') \subseteq Job
    BY <2>1 DEF Range
  <2>4. \A k \in Job : k \in Range(created) <=> Exists(k)
    BY DEF JobInv, ProcessInv
  <2>5. \A k \in Job : Exists(k)' <=> Exists(k) \/ k = j
    BY <1>1, <1>4 DEF Exists
  <2> QED
    BY <2>1, <2>2, <2>3, <2>4, <2>5
<1>6. /\ memory' \in [Job -> MemoryRecord \cup {NoJob}]
      /\ \A k \in Job \ {j} : memory'[k] = memory[k]
      /\ queue' \in Seq(Job) /\ Distinct(queue')
      /\ \A k \in Job \ {j} : Queued(k)' <=> Queued(k)
      /\ Queued(j)' => memory'[j] = Record(NewJob)
      /\ memory'[j] = NoJob => j \in hurt'
      /\ memory'[j] # NoJob => memory'[j] = Record(NewJob) /\ Queued(j)'
  <2>1. /\ queue \in Seq(Job) /\ Distinct(queue) /\ memory \in [Job -> MemoryRecord \cup {NoJob}]
    BY DEF JobInv, Shape, ProcessInv, Distinct
  <2>2. CASE UNCHANGED <<memory, queue>> /\ j \in hurt'
    BY <1>3, <2>1, <2>2 DEF Queued
  <2>3. CASE memory' = [memory EXCEPT ![j] = Record(NewJob)] /\ queue' = Append(queue, j)
    BY <1>2, <1>3, <2>1, <2>3, QueueAppended
  <2> QED
    BY <2>2, <2>3
<1>7. Shape'
  BY <1>4, <1>5, <1>6 DEF JobInv, Shape, process
<1>8. ProcessInv'
  BY <1>5, <1>6 DEF JobInv, ProcessInv, Distinct, process, Serving
<1>9. JobHolds(j)'
  <2>1. Exists(j)' /\ Sound(store'[j], MaxAttempts[j])
    BY <1>1, <1>4 DEF Exists
  <2>2. memory'[j] # NoJob => RecordHolds(j, memory[j])'
    BY <1>1, <1>4, <1>6, <2>1 DEF RecordHolds, Record
  <2>3. ~Working(j)' /\ ~InRecovery(j)'
    BY <1>3 DEF Working, InRecovery, Recovering, process
  <2>4. Queued(j)' => memory'[j] # NoJob /\ memory'[j].state.status = "pending"
    BY <1>1, <1>2, <1>6 DEF Record
  <2>5. Queued(j)' \/ j \in hurt'
    BY <1>6
  <2> QED
    BY <2>1, <2>2, <2>3, <2>4, <2>5 DEF JobHolds
<1>10. JobInv'
  BY <1>4, <1>6, <1>7, <1>8, <1>9, OneJob DEF Working
<1>11. RowStep
  BY DEF RowStep, Created
<1> QED
  BY <1>10, <1>11

LEMMA SubmitNewKeeps ==
  ASSUME JobInv, NEW j \in Job, SubmitNew(j)
  PROVE  JobInv' /\ RowStep
<1>1. CASE /\ Put(j, NewJob) /\ Remember(j, Record(NewJob))
           /\ created' = Append(created, j)
           /\ queue' = Append(queue, j)
           /\ UNCHANGED faultVars
  BY <1>1, RowAdded, BudgetKept DEF SubmitNew, Put, Remember
<1>2. CASE /\ Fault(j, {NoJob, NewJob})
           /\ created' = IF store'[j] = NoJob THEN created ELSE Append(created, j)
           /\ UNCHANGED <<memory, queue>>
  <2>1. /\ hurt' = hurt \cup {j} /\ hurt \subseteq hurt' /\ hurt' \subseteq Job
        /\ budget' \in Budget
        /\ \E r \in {NoJob, NewJob} : store' = [store EXCEPT ![j] = r]
    BY <1>2, FaultKept
  <2>2. store \in [Job -> Row \cup {NoJob}] /\ Serving /\ ~Exists(j) /\ UNCHANGED <<worker, process>>
    BY DEF SubmitNew, JobInv, Shape
  <2>3. CASE store' = [store EXCEPT ![j] = NewJob]
    <3>1. NewJob # NoJob
      <4>1. NewJob \in Row
        BY DEF NewJob, Row, JobStatus, Unfinished
      <4> QED
        BY <4>1, NoJobAssumption
    <3>2. created' = Append(created, j)
      BY <1>2, <2>2, <2>3, <3>1
    <3> QED
      BY <1>2, <2>1, <2>2, <2>3, <3>2, RowAdded
  <2>4. CASE store' = [store EXCEPT ![j] = NoJob]
    <3>1. UNCHANGED store
      BY <2>2, <2>4 DEF Exists
    <3>2. UNCHANGED created
      BY <1>2, <2>2, <3>1 DEF Exists
    <3>3. Shape' /\ ProcessInv'
      BY <1>2, <2>1, <2>2, <3>1, <3>2 DEF JobInv, Shape, ProcessInv, process, Exists
    <3>4. ASSUME NEW k \in Job PROVE JobHolds(k)'
      BY <1>2, <2>1, <2>2, <3>1, OtherJob
      DEF JobInv, InRecovery, Recovering, process, Queued, Working
    <3> QED
      BY <3>1, <3>3, <3>4 DEF JobInv, RowStep
  <2> QED
    BY <2>1, <2>3, <2>4
<1> QED
  BY <1>1, <1>2 DEF SubmitNew

LEMMA SubmitPersistedKeeps ==
  ASSUME JobInv, NEW j \in Job, SubmitPersisted(j)
  PROVE  JobInv' /\ RowStep
<1>1. /\ phase = "up" /\ Exists(j) /\ memory[j] = NoJob
      /\ phase' = "submitting" /\ recovery' = [todo |-> {j}, verdict |-> "resume"]
      /\ UNCHANGED <<store, created, memory, queue, worker, hurt, budget>>
  BY DEF SubmitPersisted, Serving, faultVars
<1>2. Shape' /\ ProcessInv'
  BY <1>1 DEF JobInv, Shape, ProcessInv, Exists
<1>3. ASSUME NEW k \in Job PROVE JobHolds(k)'
  <2>1. ~InRecovery(k) /\ (InRecovery(k)' <=> k = j) /\ JobHolds(k)
    BY <1>1 DEF InRecovery, Recovering, JobInv
  <2> QED
    BY <1>1, <2>1
    DEF JobHolds, RecordHolds, WorkHolds, Exists, Pending, CancelKept, Queued, Working
<1> QED
  BY <1>1, <1>2, <1>3 DEF JobInv, RowStep

-----------------------------------------------------------------------------
(* The worker. *)

\* Another record and worker for one job.
LEMMA WorkerStep ==
  ASSUME JobInv, NEW j \in Job, phase # "down", UNCHANGED <<created, process>>, Exists(j),
         UNCHANGED store \/ \E r \in Row : store' = [store EXCEPT ![j] = r],
         UNCHANGED memory \/ \E rec \in MemoryRecord : memory' = [memory EXCEPT ![j] = rec],
         hurt \subseteq hurt', hurt' \subseteq Job, budget' \in Budget,
         queue' \in Seq(Job), Distinct(queue'),
         \A k \in Job \ {j} : Queued(k)' <=> Queued(k),
         worker' \in [job : Job \cup {NoJob}, attempt : Nat,
                      outcome : {"none", "succeeded", "failed", "retryable", "cancelled"}],
         worker = NoWork \/ worker.job = j, worker' = NoWork \/ worker'.job = j,
         JobHolds(j)'
  PROVE  JobInv'
<1>1. /\ \A k \in Job \ {j} : store'[k] = store[k] /\ memory'[k] = memory[k]
      /\ store' \in [Job -> Row \cup {NoJob}] /\ memory' \in [Job -> MemoryRecord \cup {NoJob}]
      /\ \A k \in Job : Exists(k)' <=> Exists(k)
  <2>1. /\ \A k \in Job \ {j} : store'[k] = store[k]
        /\ store' \in [Job -> Row \cup {NoJob}]
        /\ \A k \in Job : Exists(k)' <=> Exists(k)
    BY NoJobAssumption DEF JobInv, Shape, Exists
  <2>2. /\ \A k \in Job \ {j} : memory'[k] = memory[k]
        /\ memory' \in [Job -> MemoryRecord \cup {NoJob}]
    BY DEF JobInv, Shape
  <2> QED
    BY <2>1, <2>2
<1>2. Shape'
  BY <1>1 DEF JobInv, Shape, process
<1>3. ProcessInv'
  BY <1>1 DEF JobInv, ProcessInv, process, Distinct
<1>4. \A k \in Job \ {j} : ~Working(k) /\ ~Working(k)'
  BY JobAssumption DEF Working, NoWork
<1> QED
  BY <1>1, <1>2, <1>3, <1>4, OneJob

\* A job that waits may begin its next attempt.
LEMMA MayStart ==
  ASSUME NEW max \in Nat, NEW r, Sound(r, max), r.status = "pending"
  PROVE  Accepts(r, Started(r), max) /\ Made(Started(r))
<1>1. r \in Row /\ Tries(r) < max
  BY DEF Sound
<1>2. Made(Started(r)) /\ Started(r).kind = "attempt_started"
  BY <1>1, EventFields
<1>3. Guard(r, Started(r), max)
  BY <1>1, <1>2 DEF Guard
<1> QED
  BY <1>2, <1>3, NothingElseRefused

LEMMA StartAttemptKeeps ==
  ASSUME JobInv, StartAttempt
  PROVE  JobInv' /\ RowStep
<1>0. PICK j \in Job : j = Head(queue)
  BY QueueTaken DEF StartAttempt, JobInv, Shape, ProcessInv, Distinct
<1>1. /\ queue' \in Seq(Job) /\ Distinct(queue') /\ j \in Job /\ Queued(j)
      /\ \A k \in Job \ {j} : Queued(k)' <=> Queued(k)
      /\ ~Queued(j)'
  BY <1>0, QueueTaken DEF StartAttempt, JobInv, Shape, ProcessInv, Distinct
<1>01. PICK r : r = memory[j].state
  OBVIOUS
<1> DEFINE e == Started(r)
           new == Transition(r, e)
<1>2. /\ phase \in {"up", "closing"} /\ worker = NoWork /\ UNCHANGED <<created, process>>
      /\ phase' = phase /\ phase # "down"
  BY DEF StartAttempt, LockFree, Rest, process
<1>3. /\ memory[j] # NoJob /\ memory[j] \in MemoryRecord /\ RecordHolds(j, memory[j])
      /\ r.status \in {"pending", "cancelled"} /\ JobHolds(j)
      /\ Exists(j) /\ store[j] \in Row /\ Sound(store[j], MaxAttempts[j])
      /\ r = memory[j].state /\ Sound(r, MaxAttempts[j]) /\ r \in Row /\ MaxAttempts[j] \in Nat
  BY <1>01, <1>1, JobFacts DEF JobHolds, RecordHolds, Sound
<1>4. ~InRecovery(j)' /\ ~InRecovery(j) /\ ~Working(j)
  BY <1>1, <1>2, JobAssumption DEF InRecovery, Recovering, Working, NoWork
<1>5. /\ store \in [Job -> Row \cup {NoJob}] /\ memory \in [Job -> MemoryRecord \cup {NoJob}]
      /\ worker \in [job : Job \cup {NoJob}, attempt : Nat,
                     outcome : {"none", "succeeded", "failed", "retryable", "cancelled"}]
  BY DEF JobInv, Shape
<1>6. r.status = "pending" => Made(e) /\ Accepts(r, e, MaxAttempts[j]) /\ e.attempt = Tries(r) + 1
  BY <1>3, MayStart, EventFields
<1>7. CASE r.status # "pending" /\ UNCHANGED <<store, memory, worker, faultVars>>
  <2>1. r.status = "cancelled"
    BY <1>3, <1>7
  <2>2. j \in hurt \/ store[j].status = "cancelled"
    BY <1>3, <2>1 DEF RecordHolds
  <2>3. Pending(j)' => j \in hurt'
    BY <1>7, <2>2 DEF Pending, Unfinished, faultVars
  <2>4. JobHolds(j)'
    BY <1>1, <1>3, <1>4, <1>7, <2>3
    DEF JobHolds, RecordHolds, Exists, Working, faultVars
  <2>5. JobInv'
    BY <1>1, <1>2, <1>3, <1>5, <1>7, <2>4, WorkerStep, BudgetKept
  <2> QED
    BY <1>7, <2>5 DEF RowStep
<1>8. CASE /\ r.status = "pending"
           /\ Saved(j, r, e)
           /\ Remember(j, [memory[j] EXCEPT !.state = new])
           /\ worker' = [job |-> j, attempt |-> e.attempt, outcome |-> "none"]
  <2>1. /\ Made(e) /\ Accepts(r, e, MaxAttempts[j]) /\ Current(j, r)
        /\ store' = [store EXCEPT ![j] = new] /\ UNCHANGED faultVars
    BY <1>6, <1>8 DEF Saved, Put
  <2>2. /\ r = store[j]
        /\ Sound(new, MaxAttempts[j]) /\ new \in Row /\ new # NoJob
    BY <1>1, <1>3, <2>1, SavedMoves
  <2>3. /\ new.status = "running" /\ Tries(new) = Tries(r) + 1
    BY <1>3, EventFields, AfterStart
  <2> DEFINE next == [memory[j] EXCEPT !.state = new]
  <2>4. next \in MemoryRecord /\ next.state = new /\ next.cancel = memory[j].cancel
    BY <1>3, <2>2 DEF MemoryRecord
  <2>5. memory' = [memory EXCEPT ![j] = next] /\ memory'[j] = next /\ store'[j] = new
    BY <1>1, <1>5, <1>8, <2>1 DEF Remember
  <2>6. memory'[j] # NoJob /\ Tries(r) \in Nat /\ new.revision \in Nat
    BY <1>3, <2>2, <2>4, <2>5, NoJobAssumption DEF Row, Tries
  <2>7. memory[j].cancel /\ j \notin hurt => Tries(r) >= 1
    BY <1>3, <1>8 DEF RecordHolds
  <2>8. /\ worker'.job = j /\ worker'.attempt = Tries(new) /\ worker'.outcome = "none"
        /\ worker' \in [job : Job \cup {NoJob}, attempt : Nat,
                        outcome : {"none", "succeeded", "failed", "retryable", "cancelled"}]
    BY <1>1, <1>6, <1>8, <2>3, <2>6
  <2>9. Moved(j, e)
    BY <1>3, <2>1, <2>2 DEF Moved
  <2> HIDE DEF e, new, next
  <2>10. RecordHolds(j, memory[j])'
    BY <2>1, <2>2, <2>3, <2>4, <2>5, <2>6, <2>7 DEF RecordHolds, Exists, faultVars
  <2>11. Working(j)' /\ WorkHolds(memory[j])'
    BY <2>3, <2>4, <2>5, <2>8 DEF Working, WorkHolds, Active
  <2>12. JobHolds(j)'
    BY <1>1, <1>4, <2>2, <2>5, <2>6, <2>10, <2>11 DEF JobHolds
  <2>13. JobInv'
    BY <1>1, <1>2, <1>3, <2>1, <2>2, <2>4, <2>5, <2>8, <2>12, WorkerStep, BudgetKept
  <2> QED
    BY <1>1, <2>9, <2>13 DEF RowStep
<1>9. CASE r.status = "pending" /\ SaveFails(j, r, e) /\ UNCHANGED <<memory, worker>>
  <2>1. /\ UNCHANGED store \/ Moved(j, e)
        /\ \E row \in Row : store' = [store EXCEPT ![j] = row]
        /\ hurt' = hurt \cup {j} /\ hurt \subseteq hurt' /\ hurt' \subseteq Job
        /\ budget' \in Budget
        /\ store'[j] # NoJob /\ Sound(store'[j], MaxAttempts[j])
        /\ r.revision <= store'[j].revision
        /\ r.revision = store'[j].revision => r = store'[j]
    BY <1>1, <1>3, <1>6, <1>9, SaveFailed
  <2>2. RecordHolds(j, memory[j])'
    BY <1>3, <1>9, <2>1 DEF RecordHolds, Exists
  <2>3. JobHolds(j)'
    BY <1>1, <1>3, <1>4, <1>9, <2>1, <2>2, HurtHolds DEF Exists, Working
  <2>4. JobInv'
    BY <1>1, <1>2, <1>3, <1>5, <1>9, <2>1, <2>3, WorkerStep
  <2> QED
    BY <1>1, <2>1, <2>4 DEF RowStep
<1>10. CASE /\ r.status = "pending" /\ Refused(j, r, e)
            /\ Remember(j, [memory[j] EXCEPT !.state = store[j]])
            /\ UNCHANGED worker
  <2>1. ~Current(j, r) /\ UNCHANGED <<store, faultVars>>
    BY <1>6, <1>10 DEF Refused
  <2>2. j \in hurt /\ j \in hurt'
    BY <1>3, <2>1 DEF Current, RecordHolds, faultVars
  <2> DEFINE next == [memory[j] EXCEPT !.state = store[j]]
  <2>3. next \in MemoryRecord /\ next.state = store[j]
    BY <1>3 DEF MemoryRecord
  <2>4. memory' = [memory EXCEPT ![j] = next] /\ memory'[j] = next /\ next # NoJob
    BY <1>1, <1>5, <1>10, <2>3, NoJobAssumption DEF Remember
  <2> HIDE DEF e, new, next
  <2>5. RecordHolds(j, memory[j])'
    <3>1. store[j].revision \in Nat
      BY <1>3 DEF Row
    <3> QED
      BY <1>3, <2>1, <2>2, <2>3, <2>4, <3>1 DEF RecordHolds, Exists
  <2>6. JobHolds(j)'
    BY <1>1, <1>3, <1>4, <1>10, <2>1, <2>2, <2>4, <2>5, HurtHolds DEF Exists, Working
  <2>7. JobInv'
    BY <1>1, <1>2, <1>3, <1>5, <1>10, <2>1, <2>3, <2>4, <2>6, WorkerStep, BudgetKept
  <2> QED
    BY <2>1, <2>7 DEF RowStep
<1> QED
  BY <1>0, <1>01, <1>7, <1>8, <1>9, <1>10 DEF StartAttempt

\* The job of the worker, while its task runs or has ended.
LEMMA WorkerFacts ==
  ASSUME JobInv, LockFree, worker # NoWork, NEW j, j = worker.job
  PROVE  /\ j \in Job /\ Working(j) /\ JobHolds(j) /\ MaxAttempts[j] \in Nat
         /\ memory[j] # NoJob /\ memory[j] \in MemoryRecord
         /\ RecordHolds(j, memory[j]) /\ WorkHolds(memory[j])
         /\ memory[j].state \in Row /\ Sound(memory[j].state, MaxAttempts[j])
         /\ Tries(memory[j].state) > 0
         /\ Latest(memory[j].state).status = "running"
         /\ Exists(j) /\ store[j] \in Row /\ Sound(store[j], MaxAttempts[j])
         /\ ~Queued(j) /\ ~InRecovery(j)
         /\ phase # "down" /\ worker.attempt \in Nat
<1>1. j \in Job /\ Working(j) /\ phase # "down" /\ ~InRecovery(j) /\ worker.attempt \in Nat
  BY DEF JobInv, ProcessInv, Shape, Working, LockFree, InRecovery, Recovering
<1>2. /\ JobHolds(j) /\ memory[j] # NoJob /\ memory[j] \in MemoryRecord
      /\ RecordHolds(j, memory[j]) /\ WorkHolds(memory[j])
  BY <1>1, JobFacts DEF JobHolds
<1>3. Exists(j) /\ Sound(memory[j].state, MaxAttempts[j]) /\ memory[j].state.status \in Active
  BY <1>2 DEF RecordHolds, WorkHolds
<1>4. /\ memory[j].state \in Row /\ Tries(memory[j].state) > 0
      /\ Latest(memory[j].state).status = "running"
  BY <1>3 DEF Sound, LifecycleValid
<1>5. ~Queued(j)
  BY <1>2, <1>3 DEF JobHolds, Active
<1> QED
  BY <1>1, <1>2, <1>3, <1>4, <1>5, JobFacts

\* The task has ended, with or without a change of the rows.
LEMMA OutcomeKeeps ==
  ASSUME JobInv, TaskRuns, UNCHANGED <<store, memory, queue, faultVars>>, Rest,
         NEW o \in {"succeeded", "failed", "retryable", "cancelled"}, Outcome(o),
         o = "cancelled" =>
           \/ memory[worker.job].cancel
           \/ memory[worker.job].state.status = "cancel_requested"
  PROVE  JobInv' /\ RowStep
<1>0. PICK j : j = worker.job
  OBVIOUS
<1>1. LockFree /\ worker # NoWork /\ UNCHANGED process
  BY JobAssumption DEF TaskRuns, NoWork, Rest
<1>2. /\ j \in Job /\ Working(j) /\ JobHolds(j) /\ memory[j] # NoJob /\ WorkHolds(memory[j])
  BY <1>0, <1>1, WorkerFacts
<1>3. /\ worker'.job = j /\ worker'.attempt = worker.attempt /\ worker'.outcome = o
      /\ worker' \in [job : Job \cup {NoJob}, attempt : Nat,
                      outcome : {"none", "succeeded", "failed", "retryable", "cancelled"}]
  BY <1>0 DEF Outcome, JobInv, Shape
<1>4. Shape' /\ ProcessInv'
  BY <1>1, <1>2, <1>3
  DEF JobInv, Shape, ProcessInv, faultVars, process, Rest, Exists, LockFree
<1>5. WorkHolds(memory[j])'
  BY <1>0, <1>2, <1>3 DEF WorkHolds
<1>6. JobHolds(j)'
  BY <1>0, <1>1, <1>2, <1>3, <1>5
  DEF JobHolds, RecordHolds, Exists, Pending, Queued, Working, CancelKept, InRecovery, Recovering,
      faultVars, process
<1>7. \A k \in Job \ {j} : ~Working(k) /\ ~Working(k)'
  BY <1>0, <1>3 DEF Working
<1>8. JobInv'
  BY <1>1, <1>2, <1>4, <1>6, <1>7, OneJob, BudgetKept DEF Queued
<1> QED
  BY <1>8 DEF RowStep

LEMMA TaskEndsKeeps ==
  ASSUME JobInv, TaskEnds \/ ObserveCancel
  PROVE  JobInv' /\ RowStep
<1>1. CASE TaskEnds
  <2>1. TaskRuns /\ UNCHANGED <<store, memory, queue, faultVars>> /\ Rest
    BY <1>1 DEF TaskEnds
  <2>2. PICK o \in {"succeeded", "failed", "retryable"} : Outcome(o)
    BY <1>1 DEF TaskEnds
  <2> QED
    BY <2>1, <2>2, OutcomeKeeps
<1>2. CASE ObserveCancel
  BY <1>2, OutcomeKeeps DEF ObserveCancel
<1> QED
  BY <1>1, <1>2

LEMMA TaskProgressKeeps ==
  ASSUME JobInv, TaskProgress
  PROVE  JobInv' /\ RowStep
<1>0. PICK j : j = worker.job
  OBVIOUS
<1>01. PICK r : r = memory[j].state
  OBVIOUS
<1>02. PICK u \in 0..budget.units : LET e == Progress(worker.attempt, u) IN
         \/ /\ Saved(j, r, e)
            /\ Remember(j, [memory[j] EXCEPT !.state = Transition(r, e)])
            /\ UNCHANGED worker
         \/ SaveFails(j, r, e) /\ Outcome("failed") /\ UNCHANGED memory
         \/ Refused(j, r, e) /\ Outcome("failed") /\ UNCHANGED memory
  BY <1>0, <1>01 DEF TaskProgress
<1> DEFINE e == Progress(worker.attempt, u)
           new == Transition(r, e)
<1>1. TaskRuns /\ LockFree /\ worker # NoWork /\ UNCHANGED <<queue, created, process>> /\ Rest
  BY JobAssumption DEF TaskProgress, TaskRuns, NoWork, Rest
<1>2. /\ j \in Job /\ Working(j) /\ JobHolds(j) /\ MaxAttempts[j] \in Nat
      /\ memory[j] # NoJob /\ memory[j] \in MemoryRecord
      /\ RecordHolds(j, memory[j]) /\ WorkHolds(memory[j])
      /\ r = memory[j].state /\ r \in Row /\ Sound(r, MaxAttempts[j]) /\ Tries(r) > 0
      /\ Exists(j) /\ store[j] \in Row
      /\ ~Queued(j) /\ ~InRecovery(j)
      /\ phase # "down" /\ worker.attempt \in Nat
  BY <1>0, <1>01, <1>1, WorkerFacts
<1>3. u \in Nat
  BY DEF JobInv, Shape, Budget
<1>4. Made(e) /\ e.kind = "progress_reported" /\ e.units \in Nat
  BY <1>2, <1>3, EventFields DEF Made
<1>5. /\ store \in [Job -> Row \cup {NoJob}] /\ memory \in [Job -> MemoryRecord \cup {NoJob}]
      /\ worker \in [job : Job \cup {NoJob}, attempt : Nat,
                     outcome : {"none", "succeeded", "failed", "retryable", "cancelled"}]
      /\ queue \in Seq(Job) /\ Distinct(queue)
  BY DEF JobInv, Shape, ProcessInv, Distinct
<1>6. \A k \in Job : (Queued(k)' <=> Queued(k)) /\ (InRecovery(k)' <=> InRecovery(k))
  BY <1>1 DEF Queued, InRecovery, Recovering, process
<1>7. CASE /\ Saved(j, r, e)
           /\ Remember(j, [memory[j] EXCEPT !.state = new])
           /\ UNCHANGED worker
  <2>1. /\ Accepts(r, e, MaxAttempts[j]) /\ Current(j, r)
        /\ store' = [store EXCEPT ![j] = new] /\ UNCHANGED faultVars
    BY <1>7 DEF Saved, Put
  <2>2. /\ r = store[j]
        /\ Sound(new, MaxAttempts[j]) /\ new \in Row /\ new # NoJob
    BY <1>2, <1>4, <2>1, SavedMoves
  <2>3. new.status = r.status /\ Tries(new) = Tries(r)
    BY <1>2, <1>4, AfterProgress
  <2> DEFINE next == [memory[j] EXCEPT !.state = new]
  <2>4. next \in MemoryRecord /\ next.state = new /\ next.cancel = memory[j].cancel
    BY <1>2, <2>2 DEF MemoryRecord
  <2>5. memory' = [memory EXCEPT ![j] = next] /\ memory'[j] = next /\ store'[j] = new
    BY <1>2, <1>5, <1>7, <2>1 DEF Remember
  <2>6. memory'[j] # NoJob /\ new.revision \in Nat
    BY <2>2, <2>4, <2>5, NoJobAssumption DEF Row
  <2>7. Moved(j, e)
    BY <1>2, <1>4, <2>1, <2>2 DEF Moved
  <2> HIDE DEF e, new, next
  <2>8. RecordHolds(j, memory[j])'
    BY <1>2, <2>1, <2>2, <2>3, <2>4, <2>5, <2>6 DEF RecordHolds, Exists, faultVars
  <2>9. Working(j)' /\ WorkHolds(memory[j])'
    BY <1>2, <1>7, <2>3, <2>4, <2>5 DEF Working, WorkHolds
  <2>10. JobHolds(j)'
    BY <1>2, <1>6, <2>2, <2>5, <2>6, <2>8, <2>9 DEF JobHolds
  <2>11. JobInv'
    BY <1>0, <1>1, <1>2, <1>5, <1>6, <1>7, <2>1, <2>2, <2>4, <2>5, <2>10, WorkerStep, BudgetKept
  <2> QED
    BY <1>2, <2>7, <2>11 DEF RowStep
<1>8. CASE SaveFails(j, r, e) /\ Outcome("failed") /\ UNCHANGED memory
  <2>1. /\ UNCHANGED store \/ Moved(j, e)
        /\ \E row \in Row : store' = [store EXCEPT ![j] = row]
        /\ hurt' = hurt \cup {j} /\ hurt \subseteq hurt' /\ hurt' \subseteq Job
        /\ budget' \in Budget
        /\ store'[j] # NoJob /\ Sound(store'[j], MaxAttempts[j])
        /\ r.revision <= store'[j].revision
        /\ r.revision = store'[j].revision => r = store'[j]
    BY <1>2, <1>4, <1>8, SaveFailed
  <2>2. /\ worker'.job = j /\ worker'.attempt = worker.attempt /\ worker'.outcome = "failed"
        /\ worker' \in [job : Job \cup {NoJob}, attempt : Nat,
                        outcome : {"none", "succeeded", "failed", "retryable", "cancelled"}]
    BY <1>0, <1>5, <1>8 DEF Outcome
  <2>3. RecordHolds(j, memory[j])'
    BY <1>2, <1>8, <2>1 DEF RecordHolds, Exists
  <2>4. WorkHolds(memory[j])'
    BY <1>2, <1>8, <2>2 DEF WorkHolds
  <2>5. JobHolds(j)'
    BY <1>2, <1>6, <1>8, <2>1, <2>3, <2>4, HurtHolds DEF Exists
  <2>6. JobInv'
    BY <1>0, <1>1, <1>2, <1>5, <1>6, <1>8, <2>1, <2>2, <2>5, WorkerStep
  <2> QED
    BY <1>2, <2>1, <2>6 DEF RowStep
<1>9. CASE Refused(j, r, e) /\ Outcome("failed") /\ UNCHANGED memory
  BY <1>1, <1>9, OutcomeKeeps DEF Refused
<1> QED
  BY <1>02, <1>7, <1>8, <1>9

LEMMA FinishAttemptKeeps ==
  ASSUME JobInv, FinishAttempt
  PROVE  JobInv' /\ RowStep
<1>0. PICK j : j = worker.job
  OBVIOUS
<1>01. PICK r : r = memory[j].state
  OBVIOUS
<1>02. PICK e : e = Ending(worker.attempt, worker.outcome)
  OBVIOUS
<1> DEFINE new == Transition(r, e)
<1>1. /\ LockFree /\ worker # NoWork /\ worker' = NoWork
      /\ UNCHANGED <<queue, created, process>> /\ worker.outcome # "none"
  BY DEF FinishAttempt, NoWork, Rest
<1>2. /\ j \in Job /\ Working(j) /\ JobHolds(j) /\ MaxAttempts[j] \in Nat
      /\ memory[j] # NoJob /\ memory[j] \in MemoryRecord
      /\ RecordHolds(j, memory[j]) /\ WorkHolds(memory[j])
      /\ r = memory[j].state /\ r \in Row /\ Sound(r, MaxAttempts[j])
      /\ Tries(r) > 0 /\ Latest(r).status = "running"
      /\ Exists(j) /\ store[j] \in Row /\ Sound(store[j], MaxAttempts[j])
      /\ ~Queued(j) /\ ~InRecovery(j)
      /\ phase # "down" /\ worker.attempt \in Nat
  BY <1>0, <1>01, <1>1, WorkerFacts
<1>3. /\ store \in [Job -> Row \cup {NoJob}] /\ memory \in [Job -> MemoryRecord \cup {NoJob}]
      /\ worker.outcome \in {"succeeded", "failed", "retryable", "cancelled"}
      /\ NoWork \in [job : Job \cup {NoJob}, attempt : Nat,
                     outcome : {"none", "succeeded", "failed", "retryable", "cancelled"}]
      /\ queue \in Seq(Job) /\ Distinct(queue)
  BY <1>1 DEF JobInv, Shape, ProcessInv, Distinct, NoWork
<1>4. /\ Made(e) /\ e.attempt = worker.attempt
      /\ e.kind \in DOMAIN AttemptOutcome
      /\ e.kind = "attempt_cancelled" => worker.outcome = "cancelled"
  <2>1. PICK a \in Nat, o \in {"succeeded", "failed", "retryable", "cancelled"} :
          a = worker.attempt /\ o = worker.outcome
    BY <1>2, <1>3
  <2>2. e = Ending(a, o)
    BY <1>02, <2>1
  <2>3. {"attempt_succeeded", "attempt_failed", "attempt_cancelled"} \subseteq DOMAIN AttemptOutcome
    BY DEF AttemptOutcome
  <2>4. /\ Made(e) /\ e.attempt = a /\ e.kind \in DOMAIN AttemptOutcome
        /\ e.kind = "attempt_cancelled" => o = "cancelled"
    <3>1. CASE o = "succeeded"
      BY <2>2, <2>3, <3>1, EventFields DEF Ending
    <3>2. CASE o = "cancelled"
      BY <2>2, <2>3, <3>2, EventFields DEF Ending
    <3>3. CASE o = "failed"
      BY <2>2, <2>3, <3>3, EventFields DEF Ending
    <3>4. CASE o = "retryable"
      BY <2>2, <2>3, <3>4, EventFields DEF Ending
    <3> QED
      BY <3>1, <3>2, <3>3, <3>4
  <2> QED
    BY <2>1, <2>4
<1>5. \A k \in Job : (Queued(k)' <=> Queued(k)) /\ (InRecovery(k)' <=> InRecovery(k))
  BY <1>1 DEF Queued, InRecovery, Recovering, process
<1>6. ~Working(j)'
  BY <1>1, <1>2, JobAssumption DEF Working, NoWork
<1>7. CASE Saved(j, r, e) /\ Remember(j, [memory[j] EXCEPT !.state = new])
  <2>1. /\ Accepts(r, e, MaxAttempts[j]) /\ Current(j, r)
        /\ store' = [store EXCEPT ![j] = new] /\ UNCHANGED faultVars
    BY <1>7 DEF Saved, Put
  <2>2. /\ r = store[j]
        /\ Sound(new, MaxAttempts[j]) /\ new \in Row /\ new # NoJob
    BY <1>2, <1>4, <2>1, SavedMoves
  <2>3. new.status \in Terminal
    <3>1. new.status = JobOutcome[e.kind]
      BY <1>2, <1>4, AfterEnd
    <3> HIDE DEF new
    <3> QED
      BY <1>4, <3>1 DEF JobOutcome, AttemptOutcome, Terminal
  <2> DEFINE next == [memory[j] EXCEPT !.state = new]
  <2>4. next \in MemoryRecord /\ next.state = new
    BY <1>2, <2>2 DEF MemoryRecord
  <2>5. memory' = [memory EXCEPT ![j] = next] /\ memory'[j] = next /\ store'[j] = new
    BY <1>2, <1>3, <1>7, <2>1 DEF Remember
  <2>6. memory'[j] # NoJob /\ new.revision \in Nat
    BY <2>2, <2>4, <2>5, NoJobAssumption DEF Row
  <2>7. Moved(j, e)
    BY <1>2, <1>4, <2>1, <2>2 DEF Moved
  <2> HIDE DEF new, next
  <2>8. RecordHolds(j, memory[j])'
    BY <1>2, <2>2, <2>3, <2>4, <2>5, <2>6 DEF RecordHolds, Exists, Terminal
  <2>9. ~Pending(j)'
    BY <2>3, <2>5 DEF Pending, Terminal, Unfinished
  <2>10. JobHolds(j)'
    BY <1>2, <1>5, <1>6, <2>2, <2>5, <2>6, <2>8, <2>9 DEF JobHolds
  <2>11. JobInv'
    BY <1>0, <1>1, <1>2, <1>3, <1>5, <2>1, <2>2, <2>4, <2>5, <2>10, WorkerStep, BudgetKept
  <2> QED
    BY <1>2, <2>7, <2>11 DEF RowStep
<1>8. CASE SaveFails(j, r, e) /\ UNCHANGED memory
  <2>1. /\ UNCHANGED store \/ Moved(j, e)
        /\ \E row \in Row : store' = [store EXCEPT ![j] = row]
        /\ hurt' = hurt \cup {j} /\ hurt \subseteq hurt' /\ hurt' \subseteq Job
        /\ budget' \in Budget
        /\ store'[j] # NoJob /\ Sound(store'[j], MaxAttempts[j])
        /\ r.revision <= store'[j].revision
        /\ r.revision = store'[j].revision => r = store'[j]
    BY <1>2, <1>4, <1>8, SaveFailed
  <2>2. RecordHolds(j, memory[j])'
    BY <1>2, <1>8, <2>1 DEF RecordHolds, Exists
  <2>3. JobHolds(j)'
    BY <1>2, <1>5, <1>6, <1>8, <2>1, <2>2, HurtHolds DEF Exists
  <2>4. JobInv'
    BY <1>0, <1>1, <1>2, <1>3, <1>5, <1>8, <2>1, <2>3, WorkerStep
  <2> QED
    BY <1>2, <2>1, <2>4 DEF RowStep
<1>9. CASE Refused(j, r, e) /\ UNCHANGED memory
  <2>1. UNCHANGED <<store, memory, faultVars>> /\ ~(Accepts(r, e, MaxAttempts[j]) /\ Current(j, r))
    BY <1>9 DEF Refused
  \* Only a cancellation that nobody asked of this attempt is refused.
  <2>2. j \in hurt \/ CancelKept(j)
    <3>1. SUFFICES ASSUME j \notin hurt PROVE CancelKept(j)
      OBVIOUS
    <3>2. r = store[j] /\ Current(j, r) /\ ~Accepts(r, e, MaxAttempts[j])
      BY <1>2, <2>1, <3>1 DEF RecordHolds, Current
    <3>3. ~Guard(r, e, MaxAttempts[j])
      <4>1. e.kind # "cancellation_requested"
        BY <1>4 DEF AttemptOutcome
      <4> QED
        BY <1>2, <1>4, <3>2, <4>1, NothingElseRefused
    <3>4. ActiveAttempt(r, e)
      BY <1>2, <1>4 DEF ActiveAttempt, WorkHolds
    <3>5. e.kind = "attempt_cancelled" /\ r.status # "cancel_requested"
      BY <1>4, <3>3, <3>4 DEF Guard, AttemptOutcome
    <3>6. r.status = "running" /\ memory[j].cancel
      BY <1>2, <1>4, <3>5 DEF WorkHolds, Active
    <3>7. Tries(r) >= 2 /\ Tries(r) \in Nat
      BY <1>2, <3>1, <3>6 DEF RecordHolds, Row, Tries
    <3> QED
      BY <1>2, <3>6, <3>7 DEF CancelKept, Active
  <2>3. j \in hurt' \/ CancelKept(j)'
    BY <2>1, <2>2 DEF faultVars, CancelKept
  <2>4. RecordHolds(j, memory[j])'
    BY <1>2, <2>1 DEF RecordHolds, Exists, faultVars
  <2>5. JobHolds(j)'
    BY <1>2, <1>5, <1>6, <2>1, <2>3, <2>4 DEF JobHolds, Exists
  <2>6. JobInv'
    BY <1>0, <1>1, <1>2, <1>3, <1>5, <2>1, <2>5, WorkerStep, BudgetKept
  <2> QED
    BY <2>1, <2>6 DEF RowStep
<1> QED
  BY <1>0, <1>01, <1>02, <1>7, <1>8, <1>9 DEF FinishAttempt

-----------------------------------------------------------------------------
(* Startup, recovery, shutdown and crash. *)

LEMMA StartKeeps ==
  ASSUME JobInv, Start
  PROVE  JobInv' /\ RowStep
<1>1. /\ phase = "down" /\ phase' = "starting" /\ hurt' = {}
      /\ UNCHANGED <<store, created, memory, queue, worker>>
      /\ recovery' = [todo |-> {j \in Range(created) : store[j].status \in Unfinished},
                      verdict |-> "unknown"]
  BY DEF Start, NoRecovery
<1>2. /\ \A j \in Job : memory[j] = NoJob
      /\ queue = <<>> /\ worker = NoWork /\ Range(created) = {j \in Job : Exists(j)}
  BY <1>1 DEF JobInv, ProcessInv
<1>3. recovery'.todo = {j \in Job : Pending(j)} /\ recovery'.verdict = "unknown"
  BY <1>1, <1>2 DEF Pending, Exists
<1>4. budget' \in Budget
  <2>1. budget \in Budget /\ budget.starts > 0 /\ budget' = [budget EXCEPT !.starts = budget.starts - 1]
    BY DEF Start, JobInv, Shape
  <2>2. budget.starts - 1 \in Nat
    BY <2>1 DEF Budget
  <2> QED
    BY <2>1, <2>2 DEF Budget
<1>5. Shape' /\ ProcessInv'
  <2>1. recovery' \in [todo : SUBSET Job, verdict : {"unknown", "resume", "refuse"}]
    <3>1. recovery' = [todo |-> {j \in Job : Pending(j)}, verdict |-> "unknown"]
      BY <1>1, <1>3
    <3> QED
      BY <3>1
  <2> QED
    BY <1>1, <1>2, <1>4, <2>1 DEF JobInv, Shape, ProcessInv, Exists
<1>6. ASSUME NEW j \in Job PROVE JobHolds(j)'
  <2>1. ~Queued(j)'
    <3>1. queue' = <<>>
      BY <1>1, <1>2
    <3>2. DOMAIN queue' = {}
      BY <3>1
    <3> QED
      BY <3>2, Zenon DEF Queued, Range
  <2>2. ~Working(j)' /\ memory'[j] = NoJob
    BY <1>1, <1>2, JobAssumption DEF Working, NoWork
  <2>3. Exists(j)' => Sound(store'[j], MaxAttempts[j])
    BY <1>1, JobFacts DEF Exists
  <2>4. (Pending(j)' <=> InRecovery(j)') /\ (Pending(j)' => Exists(j)')
    BY <1>1, <1>3 DEF InRecovery, Recovering, Pending, Exists
  <2> QED
    BY <2>1, <2>2, <2>3, <2>4 DEF JobHolds
<1> QED
  BY <1>1, <1>5, <1>6 DEF JobInv, RowStep

\* Steps that change nothing but the phase or the verdict.
LEMMA PhaseKeeps ==
  ASSUME JobInv, RecoveryDone \/ Shutdown \/ \E j \in Job : Judge(j)
  PROVE  JobInv' /\ RowStep
<1>1. UNCHANGED <<store, created, memory, queue, worker, hurt, budget>>
  BY DEF RecoveryDone, Shutdown, Judge, faultVars
<1>2. /\ phase' \in {"starting", "submitting", "up", "closing", "down"}
      /\ phase' = "down" => phase = "down"
      /\ phase' \in {"starting", "submitting", "up"} => phase \in {"starting", "submitting", "up"}
      /\ recovery' \in [todo : SUBSET Job, verdict : {"unknown", "resume", "refuse"}]
      /\ \A k \in Job : InRecovery(k)' <=> InRecovery(k)
  <2>1. CASE RecoveryDone \/ Shutdown
    BY <2>1 DEF RecoveryDone, Shutdown, InRecovery, Recovering, JobInv, Shape
  <2>2. CASE \E j \in Job : Judge(j)
    <3>1. PICK v \in {"resume", "refuse"} : recovery' = [recovery EXCEPT !.verdict = v]
      BY <2>2 DEF Judge
    <3>2. UNCHANGED phase
      BY <2>2 DEF Judge
    <3> QED
      BY <3>1, <3>2 DEF InRecovery, Recovering, JobInv, Shape
  <2> QED
    BY <2>1, <2>2
<1>3. Shape' /\ ProcessInv'
  BY <1>1, <1>2 DEF JobInv, Shape, ProcessInv, Exists
<1>4. ASSUME NEW k \in Job PROVE JobHolds(k)'
  BY <1>1, <1>2, OtherJob DEF JobInv, Queued, Working
<1> QED
  BY <1>1, <1>3, <1>4 DEF JobInv, RowStep

\* The event that settles a row is one that the row accepts.
LEMMA SettlingAccepted ==
  ASSUME NEW max \in Nat, NEW r, Sound(r, max), NEW verdict \in {"unknown", "resume", "refuse"},
         NeedsEvent(r, verdict, max)
  PROVE  LET e == SettlingEvent(r, verdict, max) IN Made(e) /\ Accepts(r, e, max)
<1> DEFINE e == SettlingEvent(r, verdict, max)
<1>1. /\ r \in Row /\ Tries(r) \in Nat
      /\ r.status \in Active => Latest(r).status = "running"
      /\ r.status = "pending" => Tries(r) < max
  BY DEF Sound, LifecycleValid, Row, Tries
<1>2. \A kind \in {"attempt_failed", "attempt_cancelled", "attempt_interrupted"} :
        kind \in DOMAIN AttemptOutcome
  BY DEF AttemptOutcome
<1>3. Made(e) /\ Guard(r, e, max) /\ e.kind # "cancellation_requested"
  <2>1. CASE r.status = "cancel_requested"
    BY <1>1, <1>2, <2>1, EventFields DEF SettlingEvent, Guard, ActiveAttempt, Active
  <2>2. CASE r.status = "running" /\ verdict = "refuse"
    BY <1>1, <1>2, <2>2, EventFields DEF SettlingEvent, Guard, ActiveAttempt, Active
  <2>3. CASE r.status = "pending" /\ verdict = "refuse"
    BY <1>1, <2>3, EventFields DEF SettlingEvent, Guard
  <2>4. CASE r.status = "running" /\ verdict = "resume"
    BY <1>1, <1>2, <2>4, EventFields DEF SettlingEvent, Guard, ActiveAttempt, Active
  <2>5. CASE verdict = "resume" /\ MayRetry(r, max) /\ Latest(r).status = "interrupted"
    BY <2>5, EventFields DEF SettlingEvent, Guard, MayRetry
  <2> QED
    BY <2>1, <2>2, <2>3, <2>4, <2>5 DEF NeedsEvent
<1> HIDE DEF e
<1>4. Accepts(r, e, max)
  BY <1>3, NothingElseRefused
<1> QED
  BY <1>3, <1>4 DEF e

\* What is known of the job that is being settled.
LEMMA RecoveryFacts ==
  ASSUME JobInv, NEW j \in Job, InRecovery(j)
  PROVE  /\ JobHolds(j) /\ Exists(j) /\ memory[j] = NoJob /\ ~Queued(j) /\ ~Working(j)
         /\ store[j] \in Row /\ Sound(store[j], MaxAttempts[j]) /\ MaxAttempts[j] \in Nat
         /\ store \in [Job -> Row \cup {NoJob}]
         /\ recovery.verdict \in {"unknown", "resume", "refuse"}
         /\ phase \in {"starting", "submitting"}
<1>1. JobHolds(j) /\ Exists(j) /\ memory[j] = NoJob
  BY JobFacts DEF JobHolds
<1> QED
  BY <1>1, JobFacts DEF JobHolds, JobInv, Shape, InRecovery, Recovering

\* A job is done with and the others still wait for their turn.
LEMMA NextJobTurn ==
  ASSUME JobInv, NEW j \in Job, InRecovery(j), NextJob(j)
  PROVE  /\ phase' \in {"starting", "submitting", "up"}
         /\ recovery' \in [todo : SUBSET Job, verdict : {"unknown", "resume", "refuse"}]
         /\ ~InRecovery(j)'
         /\ \A k \in Job \ {j} : InRecovery(k)' <=> InRecovery(k)
<1>1. /\ recovery'.todo = recovery.todo \ {j} /\ recovery'.verdict = "unknown"
      /\ recovery' = [todo |-> recovery.todo \ {j}, verdict |-> "unknown"]
  BY DEF NextJob, NoRecovery
<1>2. recovery.todo \in SUBSET Job
  BY DEF JobInv, Shape
<1>3. phase' = (IF recovery.todo = {j} THEN "up" ELSE phase) /\ phase \in {"starting", "submitting"}
  BY DEF NextJob, InRecovery, Recovering
<1>4. recovery' \in [todo : SUBSET Job, verdict : {"unknown", "resume", "refuse"}]
  BY <1>1, <1>2
<1> QED
  BY <1>1, <1>3, <1>4 DEF InRecovery, Recovering

LEMMA SettleStepKeeps ==
  ASSUME JobInv, NEW j \in Job, InRecovery(j), SettleStep(j)
  PROVE  JobInv' /\ RowStep
<1>00. PICK r : r = store[j]
  OBVIOUS
<1>01. PICK e : e = SettlingEvent(r, recovery.verdict, MaxAttempts[j])
  OBVIOUS
<1> DEFINE max == MaxAttempts[j]
           new == Transition(r, e)
<1>1. /\ JobHolds(j) /\ Exists(j) /\ memory[j] = NoJob /\ ~Queued(j) /\ ~Working(j)
      /\ r = store[j] /\ r \in Row /\ Sound(r, max) /\ max \in Nat
      /\ store \in [Job -> Row \cup {NoJob}]
      /\ recovery.verdict \in {"unknown", "resume", "refuse"}
      /\ phase \in {"starting", "submitting"}
  BY <1>00, RecoveryFacts
<1>2. Made(e) /\ Accepts(r, e, max)
  BY <1>00, <1>01, <1>1, SettlingAccepted DEF SettleStep
<1>3. Sound(new, max) /\ new \in Row /\ new # NoJob
  BY <1>1, <1>2, AcceptedSound, NoJobAssumption
<1>4. UNCHANGED <<created, memory, queue, worker>>
  BY DEF SettleStep
<1>5. ASSUME store' = [store EXCEPT ![j] = r] \/ store' = [store EXCEPT ![j] = new]
      PROVE  /\ RowStep
             /\ store' \in [Job -> Row \cup {NoJob}] /\ store'[j] \in {r, new}
             /\ Exists(j)' /\ Sound(store'[j], max)
             /\ \A k \in Job \ {j} : store'[k] = store[k]
             /\ \A k \in Job : Exists(k)' <=> Exists(k)
             /\ ~Queued(j)' /\ ~Working(j)' /\ memory'[j] = NoJob
  <2>1. RowStep
    <3>1. CASE store' = [store EXCEPT ![j] = r]
      <4>1. UNCHANGED store
        BY <1>1, <3>1
      <4> QED
        BY <4>1 DEF RowStep
    <3>2. CASE store' = [store EXCEPT ![j] = new]
      BY <1>1, <1>2, <3>2 DEF RowStep, Moved
    <3> QED
      BY <1>5, <3>1, <3>2
  <2> HIDE DEF new
  <2>2. /\ store' \in [Job -> Row \cup {NoJob}] /\ store'[j] \in {r, new}
        /\ \A k \in Job \ {j} : store'[k] = store[k]
    BY <1>1, <1>3, <1>5
  <2>3. Exists(j)' /\ Sound(store'[j], max)
    BY <1>1, <1>3, <2>2 DEF Exists
  <2>4. \A k \in Job : Exists(k)' <=> Exists(k)
    BY <1>1, <2>2, <2>3 DEF Exists
  <2> QED
    BY <1>1, <1>4, <2>1, <2>2, <2>3, <2>4 DEF Queued, Working
<1>6. CASE /\ Saved(j, r, e)
           /\ IF Settled(new, recovery.verdict, max) THEN NextJob(j) ELSE RecoveryGoesOn
  <2>1. store' = [store EXCEPT ![j] = new] /\ UNCHANGED faultVars
    BY <1>6 DEF Saved, Put
  <2>2. /\ phase' \in {"starting", "submitting", "up"}
        /\ recovery' \in [todo : SUBSET Job, verdict : {"unknown", "resume", "refuse"}]
        /\ \A k \in Job \ {j} : InRecovery(k)' <=> InRecovery(k)
        /\ InRecovery(j)' \/ Settled(new, recovery.verdict, max)
    <3>1. CASE NextJob(j) /\ Settled(new, recovery.verdict, max)
      BY <3>1, NextJobTurn
    <3>2. CASE RecoveryGoesOn
      BY <1>1, <3>2 DEF RecoveryGoesOn, InRecovery, Recovering, JobInv, Shape
    <3> QED
      BY <1>6, <3>1, <3>2
  <2>3. store'[j] = new
    BY <1>1, <2>1
  <2> HIDE DEF new
  <2>4. Shape' /\ ProcessInv'
    BY <1>4, <1>5, <2>1, <2>2 DEF JobInv, Shape, ProcessInv, faultVars
  <2>5. JobHolds(j)'
    <3>1. Settled(new, recovery.verdict, max) => ~Pending(j)'
      BY <2>3 DEF Settled, Pending, Unfinished
    <3> QED
      BY <1>5, <2>1, <2>2, <3>1 DEF JobHolds
  <2>6. ASSUME NEW k \in Job \ {j} PROVE JobHolds(k)'
    BY <1>1, <1>4, <1>5, <2>1, <2>2, OtherJob DEF JobInv, Queued, Working, faultVars
  <2> QED
    BY <1>5, <2>1, <2>4, <2>5, <2>6 DEF JobInv
<1>7. CASE /\ SaveMayFail
           /\ hurt' = hurt \cup recovery.todo
           /\ Put(j, r) \/ Put(j, new)
           /\ recovery' = NoRecovery /\ phase' = "up"
  <2>1. store' = [store EXCEPT ![j] = r] \/ store' = [store EXCEPT ![j] = new]
    BY <1>7 DEF Put
  <2>2. budget' \in Budget
    <3>1. budget \in Budget /\ budget.saves > 0 /\ budget' = [budget EXCEPT !.saves = budget.saves - 1]
      BY <1>7 DEF SaveMayFail, JobInv, Shape
    <3>2. budget.saves - 1 \in Nat
      BY <3>1 DEF Budget
    <3> QED
      BY <3>1, <3>2 DEF Budget
  <2>3. /\ hurt' \subseteq Job /\ j \in hurt'
        /\ \A k \in Job : InRecovery(k) \/ k \in hurt => k \in hurt'
        /\ \A k \in Job : ~InRecovery(k)'
        /\ recovery' \in [todo : SUBSET Job, verdict : {"unknown", "resume", "refuse"}]
    BY <1>7 DEF JobInv, Shape, InRecovery, Recovering, NoRecovery
  <2> HIDE DEF new
  <2>4. Shape' /\ ProcessInv'
    BY <1>4, <1>5, <1>7, <2>1, <2>2, <2>3 DEF JobInv, Shape, ProcessInv
  <2>5. JobHolds(j)'
    BY <1>5, <2>1, <2>3 DEF JobHolds
  <2>6. ASSUME NEW k \in Job \ {j} PROVE JobHolds(k)'
    BY <1>1, <1>4, <1>5, <2>1, <2>3, OtherJob DEF JobInv, Queued, Working
  <2> QED
    BY <1>5, <2>1, <2>4, <2>5, <2>6 DEF JobInv
<1> QED
  BY <1>00, <1>01, <1>6, <1>7 DEF SettleStep

LEMMA EnqueueKeeps ==
  ASSUME JobInv, NEW j \in Job, InRecovery(j), Enqueue(j)
  PROVE  JobInv' /\ RowStep
<1>1. /\ JobHolds(j) /\ Exists(j) /\ memory[j] = NoJob /\ ~Queued(j) /\ ~Working(j)
      /\ store[j] \in Row /\ Sound(store[j], MaxAttempts[j])
      /\ phase \in {"starting", "submitting"}
  BY RecoveryFacts
<1>2. /\ store[j].status = "pending" /\ queue' = Append(queue, j) /\ NextJob(j)
      /\ UNCHANGED <<store, created, worker, hurt, budget>>
  BY DEF Enqueue, faultVars
<1>3. PICK rec : rec = Record(store[j])
  OBVIOUS
<1>4. rec \in MemoryRecord /\ rec # NoJob /\ rec.state = store[j] /\ ~rec.cancel
  <2>1. rec \in MemoryRecord /\ rec.state = store[j] /\ rec.cancel = FALSE
    BY <1>1, <1>3 DEF Record, MemoryRecord
  <2> QED
    BY <2>1, NoJobAssumption
<1>5. /\ memory' = [memory EXCEPT ![j] = rec] /\ memory'[j] = rec
      /\ memory' \in [Job -> MemoryRecord \cup {NoJob}]
      /\ \A k \in Job \ {j} : memory'[k] = memory[k]
  BY <1>3, <1>4 DEF Enqueue, Remember, JobInv, Shape
<1>6. /\ queue' \in Seq(Job) /\ Distinct(queue')
      /\ \A k \in Job : Queued(k)' <=> Queued(k) \/ k = j
  BY <1>1, <1>2, QueueAppended DEF JobInv, Shape, ProcessInv, Distinct
<1>7. /\ phase' \in {"starting", "submitting", "up"}
      /\ recovery' \in [todo : SUBSET Job, verdict : {"unknown", "resume", "refuse"}]
      /\ ~InRecovery(j)'
      /\ \A k \in Job \ {j} : InRecovery(k)' <=> InRecovery(k)
  BY <1>2, NextJobTurn
<1>8. Shape' /\ ProcessInv'
  BY <1>2, <1>5, <1>6, <1>7 DEF JobInv, Shape, ProcessInv, Exists, Distinct
<1>9. JobHolds(j)'
  <2>1. store[j].revision \in Nat
    BY <1>1 DEF Row
  <2>2. RecordHolds(j, memory[j])'
    BY <1>1, <1>2, <1>4, <1>5, <2>1 DEF RecordHolds, Exists
  <2>3. ~Working(j)' /\ Queued(j)' /\ memory'[j].state.status = "pending"
    BY <1>1, <1>2, <1>4, <1>5, <1>6 DEF Working
  <2> QED
    BY <1>1, <1>2, <1>4, <1>5, <1>7, <2>2, <2>3 DEF JobHolds
<1>10. ASSUME NEW k \in Job \ {j} PROVE JobHolds(k)'
  BY <1>1, <1>2, <1>5, <1>6, <1>7, OtherJob DEF JobInv, Working
<1> QED
  BY <1>2, <1>8, <1>9, <1>10 DEF JobInv, RowStep

LEMMA GoneKeeps ==
  ASSUME JobInv, Gone
  PROVE  JobInv' /\ RowStep
<1>1. /\ memory' = [j \in Job |-> NoJob] /\ queue' = <<>> /\ worker' = NoWork
      /\ phase' = "down" /\ recovery' = NoRecovery
      /\ UNCHANGED <<store, created, hurt, budget>>
  BY DEF Gone, faultVars
<1>2. Shape'
  BY <1>1 DEF JobInv, Shape, NoWork, NoRecovery
<1>3. DOMAIN queue' = {}
  BY <1>1
<1>4. ProcessInv'
  BY <1>1, <1>3 DEF JobInv, ProcessInv, Exists
<1>5. ASSUME NEW j \in Job PROVE JobHolds(j)'
  <2>1. ~Queued(j)'
    BY <1>3, Zenon DEF Queued, Range
  <2>2. ~Working(j)' /\ memory'[j] = NoJob /\ ~InRecovery(j)'
    BY <1>1, JobAssumption DEF Working, NoWork, InRecovery, Recovering
  <2> QED
    BY <1>1, <2>1, <2>2, JobFacts DEF JobHolds, Exists
<1> QED
  BY <1>1, <1>2, <1>4, <1>5 DEF JobInv, RowStep

-----------------------------------------------------------------------------
(* The theorems. *)

LEMMA NextKeeps ==
  ASSUME JobInv, JobNext
  PROVE  JobInv' /\ RowStep
<1>1. ASSUME NEW j \in Job, SubmitNew(j) \/ SubmitPersisted(j) \/ Cancel(j) \/ Retry(j)
      PROVE  JobInv' /\ RowStep
  BY <1>1, SubmitNewKeeps, SubmitPersistedKeeps, CancelKeeps, RetryKeeps
<1>2. CASE Work \/ TaskProgress \/ ObserveCancel
  BY <1>2, StartAttemptKeeps, TaskEndsKeeps, FinishAttemptKeeps, TaskProgressKeeps DEF Work
<1>3. CASE Start
  BY <1>3, StartKeeps
<1>4. CASE Recover
  <2>1. CASE RecoveryDone
    BY <2>1, PhaseKeeps
  <2>2. ASSUME NEW j \in Job, RecoverJob(j) PROVE JobInv' /\ RowStep
    <3>1. InRecovery(j)
      BY <2>2 DEF RecoverJob, InRecovery
    <3>2. Judge(j) \/ SettleStep(j) \/ Enqueue(j)
      BY <2>2 DEF RecoverJob
    <3> QED
      BY <3>1, <3>2, PhaseKeeps, SettleStepKeeps, EnqueueKeeps
  <2> QED
    BY <1>4, <2>1, <2>2 DEF Recover
<1>5. CASE Shutdown
  BY <1>5, PhaseKeeps
<1>6. CASE Exit \/ Crash
  BY <1>6, GoneKeeps DEF Exit, Crash
<1> QED
  BY <1>1, <1>2, <1>3, <1>4, <1>5, <1>6 DEF JobNext

LEMMA StutterKeeps ==
  ASSUME JobInv, UNCHANGED jobVars
  PROVE  JobInv' /\ RowStep
<1>1. Shape' /\ ProcessInv'
  BY DEF JobInv, Shape, ProcessInv, jobVars, Exists
<1>2. ASSUME NEW k \in Job PROVE JobHolds(k)'
  BY OtherJob DEF JobInv, jobVars, InRecovery, Recovering, Queued, Working
<1> QED
  BY <1>1, <1>2 DEF JobInv, RowStep, jobVars

LEMMA InitHolds ==
  ASSUME JobInit
  PROVE  JobInv
<1>1. /\ store = [j \in Job |-> NoJob] /\ memory = [j \in Job |-> NoJob]
      /\ created = <<>> /\ queue = <<>> /\ worker = NoWork
      /\ phase = "down" /\ recovery = NoRecovery /\ hurt = {} /\ budget \in Budget
  BY JobBudgetAssumption DEF JobInit
<1>2. Shape
  BY <1>1 DEF Shape, NoWork, NoRecovery
<1>3. DOMAIN created = {} /\ DOMAIN queue = {}
  BY <1>1
<1>4. Range(created) = {} /\ \A j \in Job : ~Exists(j) /\ ~Queued(j)
  BY <1>1, <1>3 DEF Range, Exists, Queued
<1>5. ProcessInv
  BY <1>1, <1>3, <1>4 DEF ProcessInv
<1>6. ASSUME NEW j \in Job PROVE JobHolds(j)
  BY <1>1, <1>4, JobAssumption DEF JobHolds, Working, NoWork, InRecovery, Recovering, Exists
<1> QED
  BY <1>2, <1>5, <1>6 DEF JobInv

\* The rows, the records, the work items and the recovery of the jobs stand to
\* each other as JobInv says, between any two operations under the lock of
\* SingleProcessJobRunner.
THEOREM JobInvariant == JobSpec => []JobInv
<1>1. JobInit => JobInv
  BY InitHolds
<1>2. JobInv /\ [JobNext]_jobVars => JobInv'
  BY NextKeeps, StutterKeeps
<1> QED
  BY <1>1, <1>2, PTL DEF JobSpec

LEMMA InvTypes == JobInv => JobTypeOK
BY JobFacts DEF JobInv, Shape, JobTypeOK, RecordHolds, Sound, Exists

\* Every row and every record of a job passes the validators of JobState
\* (job_system.py:237): no operation, failed save, crash or recovery builds a
\* state they refuse.
THEOREM JobTypesCorrect == JobSpec => []JobTypeOK
BY JobInvariant, InvTypes, PTL

LEMMA InvRecord == JobInv => RecordFollowsRow
<1> SUFFICES ASSUME JobInv PROVE RecordFollowsRow
  OBVIOUS
<1>1. ASSUME NEW j \in Job, Queued(j)
      PROVE  ~Working(j) /\ Cardinality({i \in DOMAIN queue : queue[i] = j}) = 1
  <2>1. ~Working(j)
    BY <1>1, JobFacts DEF JobHolds, WorkHolds, Active
  <2>2. PICK i \in DOMAIN queue : queue[i] = j
    BY <1>1 DEF Queued, Range
  <2>3. {k \in DOMAIN queue : queue[k] = j} = {i}
    BY <2>2 DEF JobInv, ProcessInv
  <2> QED
    BY <2>1, <2>3, FS_Singleton
<1>2. ASSUME worker # NoWork
      PROVE  /\ Active \cap {memory[worker.job].state.status} # {}
             /\ Tries(memory[worker.job].state) = worker.attempt
  <2>1. worker.job \in Job
    BY <1>2 DEF JobInv, ProcessInv
  <2>2. WorkHolds(memory[worker.job])
    BY <2>1, JobFacts DEF JobHolds, Working
  <2> QED
    BY <2>2 DEF WorkHolds
<1>3. ASSUME NEW j \in Job, memory[j] # NoJob
      PROVE  /\ store[j] # NoJob
             /\ memory[j].state.revision <= store[j].revision
             /\ j \notin hurt => memory[j].state = store[j]
  BY <1>3, JobFacts DEF RecordHolds, Exists
<1> QED
  BY <1>1, <1>2, <1>3 DEF RecordFollowsRow

\* The runner's record of a job is its row, or an earlier one after a save that
\* failed; a job is queued once and not while it runs; and the worker runs the
\* last attempt of an active record (job_runner.py:245, :434, :589).
THEOREM RecordsFollowRows == JobSpec => []RecordFollowsRow
BY JobInvariant, InvRecord, PTL

\* While requests are served, a job that has not ended has a work item or the
\* worker, or a save of it has failed, or a later attempt answered a
\* cancellation that was meant for the one before (job_runner.py:519).
THEOREM NothingIsStranded == JobSpec => []NothingStranded
<1>1. JobInv => NothingStranded
  BY DEF JobInv, JobHolds, NothingStranded, InRecovery, Recovering
<1> QED
  BY <1>1, JobInvariant, PTL

-----------------------------------------------------------------------------
(* The promise to the client. *)

\* The turns a row may take in the contract.
Turns(r, new, max) ==
  \/ PhaseOf(new) = PhaseOf(r) /\ TriesOf(new) = TriesOf(r)
  \/ PhaseOf(r) = "absent" /\ PhaseOf(new) = "waiting" /\ TriesOf(new) = TriesOf(r)
  \/ PhaseOf(r) = "waiting" /\ PhaseOf(new) = "cancelled" /\ TriesOf(new) = TriesOf(r)
  \/ /\ PhaseOf(r) = "waiting" /\ PhaseOf(new) = "active"
     /\ TriesOf(r) < max /\ TriesOf(new) = TriesOf(r) + 1
  \/ /\ PhaseOf(r) = "active" /\ PhaseOf(new) \in {"succeeded", "failed", "cancelled"}
     /\ TriesOf(new) = TriesOf(r)
  \/ /\ PhaseOf(r) = "failed" /\ PhaseOf(new) = "waiting"
     /\ TriesOf(r) < max /\ TriesOf(new) = TriesOf(r)

\* What an event adds to the history of the attempts.
Extends(old, new) ==
  /\ Len(old) <= Len(new) /\ Len(new) <= Len(old) + 1
  /\ \A i \in DOMAIN old :
       /\ old[i].status # "running" => new[i] = old[i]
       /\ old[i].units <= new[i].units

LEMMA RowTurns ==
  ASSUME NEW max \in Nat, NEW r, Sound(r, max), r # NoJob, NEW e, Made(e), Accepts(r, e, max),
         Transition(r, e) # NoJob
  PROVE  Turns(r, Transition(r, e), max) /\ Extends(r.attempts, Transition(r, e).attempts)
<1> DEFINE new == Transition(r, e)
<1>1. /\ r \in Row /\ LifecycleValid(r, max) /\ Guard(r, e, max) /\ Tries(r) \in Nat
      /\ r.attempts \in Seq(Attempt) /\ r.status \in JobStatus
  BY DEF Sound, Accepts, Row, Tries
<1>2. e.kind \in EventKinds /\ e.units \in Nat
  BY DEF Made
<1>3. DOMAIN r.attempts = 1..Tries(r) /\ \A i \in 1..Tries(r) : r.attempts[i] \in Attempt
  BY <1>1 DEF Tries
<1>4. \A i \in 1..Tries(r) : r.attempts[i].units \in Nat
  BY <1>3 DEF Attempt
<1>5. CASE e.kind = "attempt_started"
  <2>1. /\ r.status = "pending" /\ Tries(r) < max
        /\ new.status = "running" /\ Tries(new) = Tries(r) + 1
        /\ \A i \in 1..Tries(r) : new.attempts[i] = r.attempts[i]
    BY <1>1, <1>5, AfterStart DEF Guard
  <2> HIDE DEF new
  <2>2. Turns(r, new, max)
    BY <2>1 DEF Turns, PhaseOf, TriesOf, Active, new
  <2>3. Extends(r.attempts, new.attempts)
    BY <1>1, <1>3, <1>4, <2>1 DEF Extends, Tries
  <2> QED
    BY <2>2, <2>3 DEF new
<1>6. CASE e.kind = "progress_reported"
  <2>1. /\ r.status \in Active /\ Tries(r) > 0
        /\ Latest(r).status = "running" /\ e.units >= Latest(r).units
    BY <1>1, <1>6 DEF Guard, ActiveAttempt, LifecycleValid
  <2>2. /\ new.status = r.status /\ Tries(new) = Tries(r)
        /\ Latest(new) = [Latest(r) EXCEPT !.units = e.units]
        /\ \A i \in 1..(Tries(r) - 1) : new.attempts[i] = r.attempts[i]
    BY <1>1, <1>2, <1>6, <2>1, AfterProgress
  <2>3. Latest(r) \in Attempt
    BY <1>1, <1>3, <2>1 DEF Latest
  <2>4. Latest(new).units = e.units
    BY <2>2, <2>3 DEF Attempt
  <2> HIDE DEF new
  <2>5. Turns(r, new, max)
    BY <2>2 DEF Turns, PhaseOf, TriesOf, new
  <2>6. Extends(r.attempts, new.attempts)
    <3>1. \A i \in 1..Tries(r) : i = Tries(r) \/ i \in 1..(Tries(r) - 1)
      BY <1>1
    <3>2. Latest(r).units <= Latest(new).units
      BY <1>2, <2>1, <2>3, <2>4 DEF Attempt
    <3>3. Len(new.attempts) = Tries(new) /\ Len(r.attempts) = Tries(r)
      BY DEF Tries
    <3>4. Latest(new) = new.attempts[Tries(r)] /\ Latest(r) = r.attempts[Tries(r)]
      BY <2>2 DEF Latest
    <3>5. ASSUME NEW i \in 1..Tries(r)
          PROVE  /\ r.attempts[i].status # "running" => new.attempts[i] = r.attempts[i]
                 /\ r.attempts[i].units <= new.attempts[i].units
      <4>1. CASE i = Tries(r)
        BY <1>1, <2>1, <2>2, <2>4, <3>2, <3>3, <3>4, <4>1
      <4>2. CASE i \in 1..(Tries(r) - 1)
        BY <1>4, <2>2, <4>2
      <4> QED
        BY <3>1, <4>1, <4>2
    <3> QED
      BY <1>1, <1>3, <2>2, <3>3, <3>5 DEF Extends
  <2> QED
    BY <2>5, <2>6 DEF new
<1>7. CASE e.kind \in {"cancellation_requested", "retry_requested"}
  <2>1. /\ new.attempts = r.attempts
        /\ e.kind = "retry_requested" => new.status = "pending"
        /\ e.kind = "cancellation_requested" =>
             new.status = IF r.status = "pending" THEN "cancelled" ELSE "cancel_requested"
    BY <1>1, <1>7, AfterRequest
  <2>2. /\ e.kind = "retry_requested" => r.status = "failed" /\ Tries(r) < max
        /\ e.kind = "cancellation_requested" => r.status \in Unfinished
    BY <1>1 DEF Guard, MayRetry
  <2> HIDE DEF new
  <2>3. Tries(new) = Tries(r)
    BY <2>1 DEF Tries
  <2>4. Turns(r, new, max)
    BY <1>7, <2>1, <2>2, <2>3 DEF Turns, PhaseOf, TriesOf, Active, Unfinished, new
  <2>5. Extends(r.attempts, new.attempts)
    BY <1>1, <1>3, <1>4, <2>1 DEF Extends, Tries
  <2> QED
    BY <2>4, <2>5 DEF new
<1>8. CASE e.kind \in DOMAIN AttemptOutcome
  <2>1. r.status \in Active /\ Tries(r) > 0 /\ Latest(r).status = "running"
    BY <1>1, <1>8 DEF Guard, ActiveAttempt, LifecycleValid, AttemptOutcome
  <2>2. /\ new.status = JobOutcome[e.kind] /\ Tries(new) = Tries(r)
        /\ Latest(new) = [Latest(r) EXCEPT !.status = AttemptOutcome[e.kind],
                                           !.retryable = e.retryable]
        /\ \A i \in 1..(Tries(r) - 1) : new.attempts[i] = r.attempts[i]
    BY <1>1, <1>8, <2>1, AfterEnd
  <2>3. Latest(r) \in Attempt
    BY <1>1, <1>3, <2>1 DEF Latest
  <2>4. Latest(new).units = Latest(r).units /\ Latest(r).units \in Nat
    BY <2>2, <2>3 DEF Attempt
  <2> HIDE DEF new
  <2>5. new.status \in {"succeeded", "failed", "cancelled"}
    BY <1>8, <2>2 DEF JobOutcome, AttemptOutcome
  <2>6. Turns(r, new, max)
    BY <2>1, <2>2, <2>5 DEF Turns, PhaseOf, TriesOf, Active, new
  <2>7. Extends(r.attempts, new.attempts)
    <3>1. \A i \in 1..Tries(r) : i = Tries(r) \/ i \in 1..(Tries(r) - 1)
      BY <1>1
    <3>2. Latest(r).units <= Latest(new).units
      BY <2>4
    <3>3. Len(new.attempts) = Tries(new) /\ Len(r.attempts) = Tries(r)
      BY DEF Tries
    <3>4. Latest(new) = new.attempts[Tries(r)] /\ Latest(r) = r.attempts[Tries(r)]
      BY <2>2 DEF Latest
    <3>5. ASSUME NEW i \in 1..Tries(r)
          PROVE  /\ r.attempts[i].status # "running" => new.attempts[i] = r.attempts[i]
                 /\ r.attempts[i].units <= new.attempts[i].units
      <4>1. CASE i = Tries(r)
        BY <1>1, <2>1, <2>2, <2>4, <3>2, <3>3, <3>4, <4>1
      <4>2. CASE i \in 1..(Tries(r) - 1)
        BY <1>4, <2>2, <4>2
      <4> QED
        BY <3>1, <4>1, <4>2
    <3> QED
      BY <1>1, <1>3, <2>2, <3>3, <3>5 DEF Extends
  <2> QED
    BY <2>6, <2>7 DEF new
<1> QED
  BY <1>2, <1>5, <1>6, <1>7, <1>8 DEF EventKinds, AttemptOutcome

\* A step on the row of one job.
LEMMA RowStepTurns ==
  ASSUME JobInv, JobInv', RowStep
  PROVE  \/ UNCHANGED store
         \/ \E j \in Job :
              /\ Turns(store[j], store'[j], MaxAttempts[j])
              /\ \A k \in Job \ {j} : store'[k] = store[k]
              /\ store[j] # NoJob => Extends(store[j].attempts, store'[j].attempts)
<1>1. store \in [Job -> Row \cup {NoJob}]
  BY DEF JobInv, Shape
<1>2. ASSUME NEW j \in Job, Created(j)
      PROVE  /\ Turns(store[j], store'[j], MaxAttempts[j])
             /\ \A k \in Job \ {j} : store'[k] = store[k]
             /\ store[j] = NoJob
  <2>1. /\ store[j] = NoJob /\ store'[j] = NewJob
        /\ \A k \in Job \ {j} : store'[k] = store[k]
    BY <1>1, <1>2 DEF Created, Exists
  <2>2. NewJob # NoJob
    <3>1. NewJob \in Row
      BY DEF NewJob, Row, JobStatus, Unfinished
    <3> QED
      BY <3>1, NoJobAssumption
  <2>3. PhaseOf(NewJob) = "waiting" /\ TriesOf(NewJob) = 0
    BY <2>2 DEF PhaseOf, TriesOf, NewJob, Tries
  <2>4. PhaseOf(NoJob) = "absent" /\ TriesOf(NoJob) = 0
    BY DEF PhaseOf, TriesOf
  <2> HIDE DEF NewJob
  <2>5. Turns(store[j], store'[j], MaxAttempts[j])
    BY <2>1, <2>3, <2>4 DEF Turns
  <2> QED
    BY <2>1, <2>5
<1>3. ASSUME NEW j \in Job, NEW e, Moved(j, e)
      PROVE  /\ Turns(store[j], store'[j], MaxAttempts[j])
             /\ \A k \in Job \ {j} : store'[k] = store[k]
             /\ Extends(store[j].attempts, store'[j].attempts)
  <2>1. /\ store[j] # NoJob /\ Made(e) /\ Accepts(store[j], e, MaxAttempts[j])
        /\ store'[j] = Transition(store[j], e)
        /\ \A k \in Job \ {j} : store'[k] = store[k]
    BY <1>1, <1>3 DEF Moved, Exists
  <2>2. Sound(store[j], MaxAttempts[j]) /\ MaxAttempts[j] \in Nat
    BY <2>1, JobFacts DEF Exists
  <2>3. Transition(store[j], e) # NoJob
    BY <2>1, <2>2, AcceptedSound, NoJobAssumption
  <2> QED
    BY <2>1, <2>2, <2>3, RowTurns
<1> QED
  BY <1>2, <1>3 DEF RowStep

\* Each turn of a row is a step of the contract, or none.
ContractStep == [Contract!Next]_<<jobPhase, jobTries>>

LEMMA ExtendsItself ==
  ASSUME NEW r \in Row
  PROVE  Extends(r.attempts, r.attempts)
<1>1. r.attempts \in Seq(Attempt)
  BY DEF Row
<1>2. \A i \in DOMAIN r.attempts : r.attempts[i] \in Attempt
  BY <1>1
<1>3. \A i \in DOMAIN r.attempts : r.attempts[i].units \in Nat
  BY <1>2 DEF Attempt
<1> QED
  BY <1>1, <1>3 DEF Extends
LEMMA TurnIsStep ==
  ASSUME NEW j \in Job, Turns(store[j], store'[j], MaxAttempts[j]),
         \A k \in Job \ {j} : store'[k] = store[k]
  PROVE  ContractStep
<1>1. /\ \A k \in Job : jobPhase[k] = PhaseOf(store[k]) /\ jobTries[k] = TriesOf(store[k])
      /\ \A k \in Job : jobPhase'[k] = PhaseOf(store'[k]) /\ jobTries'[k] = TriesOf(store'[k])
  BY DEF jobPhase, jobTries, PhaseOf, TriesOf
<1>2. jobPhase' = [jobPhase EXCEPT ![j] = PhaseOf(store'[j])]
  BY DEF jobPhase, PhaseOf
<1>3. /\ TriesOf(store'[j]) = TriesOf(store[j]) => jobTries' = jobTries
      /\ TriesOf(store'[j]) = TriesOf(store[j]) + 1 => jobTries' = [jobTries EXCEPT ![j] = jobTries[j] + 1]
  BY DEF jobTries, TriesOf
<1>4. PhaseOf(store'[j]) = PhaseOf(store[j]) => jobPhase' = jobPhase
  BY DEF jobPhase, PhaseOf
<1>5. \/ Contract!Accept(j) \/ Contract!Withdraw(j) \/ Contract!Begin(j)
      \/ Contract!End(j) \/ Contract!Again(j) \/ UNCHANGED <<jobPhase, jobTries>>
  BY <1>1, <1>2, <1>3, <1>4
  DEF Turns, Contract!Accept, Contract!Withdraw, Contract!Begin, Contract!End, Contract!Again,
      Contract!Turn
<1> QED
  BY <1>5 DEF ContractStep, Contract!Next

\* What a step on the rows means for the contract and for the histories.
LEMMA InvStep ==
  ASSUME JobInv, JobInv', RowStep
  PROVE  /\ ContractStep
         /\ \A j \in Job : store[j] # NoJob => Extends(store[j].attempts, store'[j].attempts)
<1>1. CASE UNCHANGED store
  <2>1. jobPhase' = jobPhase /\ jobTries' = jobTries
    BY <1>1 DEF jobPhase, jobTries, PhaseOf, TriesOf
  <2>2. ASSUME NEW j \in Job, store[j] # NoJob
        PROVE  Extends(store[j].attempts, store'[j].attempts)
    BY <1>1, <2>2, ExtendsItself, JobFacts DEF Exists
  <2> QED
    BY <2>1, <2>2 DEF ContractStep
<1>2. ASSUME NEW j \in Job, Turns(store[j], store'[j], MaxAttempts[j]),
             \A k \in Job \ {j} : store'[k] = store[k],
             store[j] # NoJob => Extends(store[j].attempts, store'[j].attempts)
      PROVE  /\ ContractStep
             /\ \A k \in Job : store[k] # NoJob => Extends(store[k].attempts, store'[k].attempts)
  <2>1. ASSUME NEW k \in Job \ {j}, store[k] # NoJob
        PROVE  Extends(store[k].attempts, store'[k].attempts)
    BY <1>2, <2>1, ExtendsItself, JobFacts DEF Exists
  <2> QED
    BY <1>2, <2>1, TurnIsStep
<1> QED
  BY <1>1, <1>2, RowStepTurns

\* The rows of a job do only what its client was promised, and the history of
\* its attempts only grows, whatever saves fail and whenever the process stops
\* (README_V2.md:148, job_store.py:289, job_system.py:440).
THEOREM JobContractKept == JobSpec => KeepsJobContract
<1>1. JobInit => Contract!Init
  BY DEF JobInit, Contract!Init, jobPhase, jobTries, PhaseOf, TriesOf
<1>2. JobInv /\ JobInv' /\ [JobNext]_jobVars => [Contract!Next]_(Contract!promise)
  BY NextKeeps, StutterKeeps, InvStep DEF ContractStep, Contract!promise
<1>3. ASSUME JobInv, JobInv', [JobNext]_jobVars
      PROVE  \A j \in Job : store[j] # NoJob =>
               LET old == store[j].attempts
                   new == store'[j].attempts IN
               /\ Len(old) <= Len(new) /\ Len(new) <= Len(old) + 1
               /\ \A i \in DOMAIN old :
                    /\ old[i].status # "running" => new[i] = old[i]
                    /\ old[i].units <= new[i].units
  BY <1>3, NextKeeps, StutterKeeps, InvStep DEF Extends
<1>4. JobSpec => Contract!Spec
  BY <1>1, <1>2, JobInvariant, PTL DEF JobSpec, Contract!Spec
<1>5. JobSpec => HistoryAppendOnly
  BY <1>3, JobInvariant, PTL DEF JobSpec, HistoryAppendOnly
<1> QED
  BY <1>4, <1>5 DEF KeepsJobContract
=============================================================================
