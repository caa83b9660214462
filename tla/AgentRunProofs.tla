---------------------------- MODULE AgentRunProofs ----------------------------
(***************************************************************************)
(* Proofs about AgentRuns, and about the records of a run in AgentRecords. *)
(***************************************************************************)
EXTENDS AgentRunInvariants, NaturalsInduction, FiniteSetTheorems, TLAPS

-----------------------------------------------------------------------------
(* Steps of one worker. *)

LEMMA WorkerFacts ==
  ASSUME RunInv, NEW d \in Driver, Drives(d)
  PROVE  /\ DriveHolds(d) /\ PlaceHolds(driver[d]) /\ driver[d] \in Worker /\ driver \in [Driver -> Worker]
         /\ Up /\ RunActive /\ run.turns \in Nat /\ run \in RunRow
         /\ steps \in Seq(StepStatus) /\ calls \in Seq(CallStatus)
         /\ \A e \in Driver \ {d} : ~Drives(e)
<1>1. Up
  BY DEF RunInv, ServerInv, Drives, At
<1> QED
  BY <1>1 DEF RunInv, RunTypeOK, DriveHolds, PlaceHolds, RunRow

\* The worker d has gone on: it still drives the run or has given it up.
LEMMA WorkerStep ==
  ASSUME RunInv, NEW d \in Driver, Drives(d), NEW l \in Worker,
         driver' = [driver EXCEPT ![d] = l],
         run' \in RunRow, steps' \in Seq(StepStatus), calls' \in Seq(CallStatus),
         runBudget' \in RunBudget, unattended' \in {"no", "not_marked", "pending_at_stop"},
         UNCHANGED <<registry, resumed, requester, server>>, StepsInv',
         IF l.pc \in {"free", "cleanup"} THEN ~RunActive' \/ unattended' # "no"
         ELSE PlaceHolds(l)'
  PROVE  RunInv'
<1>1. /\ driver' \in [Driver -> Worker] /\ driver'[d] = l
      /\ \A e \in Driver \ {d} : driver'[e] = driver[e]
  BY DEF RunInv, RunTypeOK
<1>2. RunTypeOK'
  BY <1>1 DEF RunInv, RunTypeOK
<1>3. \A e \in Driver \ {d} : ~Drives(e)'
  BY <1>1, WorkerFacts DEF Drives
<1>4. Drives(d)' <=> l.pc \notin {"free", "cleanup"}
  BY <1>1 DEF Drives
<1>5. ServerInv'
  BY <1>3, <1>4, WorkerFacts DEF ServerInv, Up
<1>6. ASSUME NEW e \in Driver, Drives(e)' PROVE DriveHolds(e)'
  <2>1. e = d /\ PlaceHolds(l)'
    BY <1>3, <1>4, <1>6
  <2>2. PlaceHolds(driver[d])'
    BY <1>1, <2>1 DEF PlaceHolds
  <2> QED
    BY <1>3, <2>1, <2>2, WorkerFacts DEF DriveHolds
<1> QED
  BY <1>2, <1>5, <1>6 DEF RunInv

LEMMA BudgetSpent ==
  ASSUME RunInv, NEW b \in {"resumes", "interrupts", "faults", "starts"}, Spend(b)
  PROVE  runBudget' \in RunBudget
<1>1. runBudget \in RunBudget /\ runBudget[b] > 0 /\ runBudget' = [runBudget EXCEPT ![b] = runBudget[b] - 1]
  BY DEF Spend, RunInv, RunTypeOK
<1>2. runBudget[b] - 1 \in Nat
  BY <1>1 DEF RunBudget
<1> QED
  BY <1>1, <1>2 DEF RunBudget

\* A step of the run that gets another status.
LEMMA StepSet ==
  ASSUME RunInv, NEW i \in 1..Len(steps), NEW status \in StepStatus,
         steps' = [steps EXCEPT ![i] = status]
  PROVE  /\ steps' \in Seq(StepStatus) /\ Len(steps') = Len(steps)
         /\ Last(steps') = IF i = Len(steps) THEN status ELSE Last(steps)
<1>1. steps \in Seq(StepStatus)
  BY DEF RunInv, RunTypeOK
<1>2. steps' \in Seq(StepStatus) /\ Len(steps') = Len(steps)
  BY <1>1
<1>3. Last(steps') = steps'[Len(steps')] /\ Last(steps) = steps[Len(steps)]
  BY DEF Last
<1>4. steps'[Len(steps)] = IF i = Len(steps) THEN status ELSE steps[Len(steps)]
  <2>1. Len(steps) \in DOMAIN steps
    BY <1>1
  <2> QED
    BY <2>1
<1> QED
  BY <1>2, <1>3, <1>4

LEMMA ClaimKeeps ==
  ASSUME RunInv, NEW d \in Driver, ClaimRun(d)
  PROVE  RunInv'
<1>1. Drives(d) /\ At(d, "queued")
  BY DEF ClaimRun, At, Drives
<1>2. PICK l : l = driver[d]
  OBVIOUS
<1>3. /\ PlaceHolds(l) /\ l \in Worker /\ RunActive /\ run.turns \in Nat /\ run \in RunRow
      /\ steps \in Seq(StepStatus) /\ calls \in Seq(CallStatus)
  BY <1>1, <1>2, WorkerFacts
<1>4. PICK t \in Nat : t = run.turns
  BY <1>3
<1>5. PICK new : new = [l EXCEPT !.pc = "step", !.turns = t]
  OBVIOUS
<1>6. /\ run' = [run EXCEPT !.status = "running"]
      /\ driver' = [driver EXCEPT ![d] = new]
      /\ UNCHANGED <<steps, calls, registry, resumed, requester, server, unattended, runBudget>>
  BY <1>2, <1>3, <1>4, <1>5 DEF ClaimRun, Become, Alone, Unshared
<1>7. new \in Worker /\ new.pc = "step" /\ new.turns = t
  BY <1>3, <1>5 DEF Worker, WorkerState
<1>8. /\ run' \in RunRow /\ run'.status = "running" /\ run'.turns = t
      /\ run'.answer = run.answer
  BY <1>3, <1>4, <1>6 DEF RunRow, ActiveStatus
<1>9. PlaceHolds(new)'
  BY <1>7, <1>8 DEF PlaceHolds, RunActive, ActiveStatus
<1>10. StepsInv'
  BY <1>4, <1>6, <1>8 DEF StepsInv, RunInv
<1> QED
  BY <1>1, <1>3, <1>6, <1>7, <1>8, <1>9, <1>10, WorkerStep DEF RunInv, RunTypeOK

\* Steps of a worker that leave the rows alone: it goes on, or raises.
LEMMA QuietKeeps ==
  ASSUME RunInv, NEW d \in Driver, KeepStep(d) \/ StepRefused(d) \/ Ask(d) \/ Raise(d)
  PROVE  RunInv'
<1>1. Drives(d)
  BY DEF KeepStep, StepRefused, Ask, Raise, At, Drives
<1>2. PICK l : l = driver[d]
  OBVIOUS
<1>3. /\ PlaceHolds(l) /\ l \in Worker /\ run.turns \in Nat /\ run \in RunRow
      /\ steps \in Seq(StepStatus) /\ calls \in Seq(CallStatus) /\ StepsInv
  BY <1>1, <1>2, WorkerFacts DEF RunInv
<1>4. UNCHANGED <<run, steps, calls, registry, resumed, requester, server, unattended>>
  BY DEF KeepStep, StepRefused, Ask, Raise, Alone, Unshared, rowVars
<1>5. /\ runBudget' \in RunBudget
      /\ unattended' \in {"no", "not_marked", "pending_at_stop"}
  BY <1>4, BudgetSpent DEF KeepStep, StepRefused, Ask, Raise, Alone, RunInv, RunTypeOK
<1>6. StepsInv'
  BY <1>3, <1>4 DEF StepsInv
<1>7. PICK pc \in {"ask", "asking", "mark"} :
        /\ driver' = [driver EXCEPT ![d] = [l EXCEPT !.pc = pc]]
        /\ pc = "ask" => l.pc = "step" /\ Len(steps) >= l.turns + 1
        /\ pc = "asking" => l.pc = "ask"
  BY <1>2 DEF KeepStep, StepRefused, Ask, Raise, Goto, At, CurrentStep
<1>8. PICK new : new = [l EXCEPT !.pc = pc]
  OBVIOUS
<1>9. new \in Worker /\ new.pc = pc /\ new.turns = l.turns
  BY <1>3, <1>8 DEF Worker, WorkerState
<1>10. PlaceHolds(new)'
  BY <1>3, <1>4, <1>7, <1>9 DEF PlaceHolds, RunActive, StepsInv
<1> QED
  BY <1>1, <1>3, <1>4, <1>5, <1>6, <1>7, <1>8, <1>9, <1>10, WorkerStep

\* A worker opens the step of the next turn.
LEMMA OpenKeeps ==
  ASSUME RunInv, NEW d \in Driver, NewStep(d) \/ ReopenStep(d) \/ PromoteStep(d)
  PROVE  RunInv'
<1>1. Drives(d)
  BY DEF NewStep, ReopenStep, PromoteStep, At, Drives
<1>2. PICK l : l = driver[d]
  OBVIOUS
<1>3. /\ PlaceHolds(l) /\ l \in Worker /\ run.turns \in Nat /\ run \in RunRow
      /\ steps \in Seq(StepStatus) /\ calls \in Seq(CallStatus) /\ StepsInv
  BY <1>1, <1>2, WorkerFacts DEF RunInv
<1>4. /\ l.pc \in {"step", "promote"} /\ l.turns = run.turns /\ run.status = "running"
      /\ CurrentStep(d) = run.turns + 1
      /\ UNCHANGED <<run, calls, registry, resumed, requester, server, unattended, runBudget>>
  BY <1>2, <1>3
  DEF NewStep, ReopenStep, PromoteStep, Alone, Unshared, At, PlaceHolds, CurrentStep
<1>5. PICK pc \in {"promote", "ask"} : driver' = [driver EXCEPT ![d] = [l EXCEPT !.pc = pc]]
  BY <1>2 DEF NewStep, ReopenStep, PromoteStep, Goto
<1>6. PICK new : new = [l EXCEPT !.pc = pc]
  OBVIOUS
<1>7. new \in Worker /\ new.pc = pc /\ new.turns = l.turns
  BY <1>3, <1>6 DEF Worker, WorkerState
<1>8. /\ steps' \in Seq(StepStatus) /\ Len(steps') = run.turns + 1
      /\ Last(steps') \in {"pending", "running"}
  <2>1. CASE NewStep(d)
    <3>1. Len(steps) = run.turns /\ steps' = Append(steps, "pending")
      BY <1>3, <1>4, <2>1 DEF NewStep, StepsInv
    <3> QED
      BY <1>3, <3>1 DEF StepStatus, Last
  <2>2. CASE ReopenStep(d) \/ PromoteStep(d)
    <3>1. Len(steps) = run.turns + 1
      BY <1>2, <1>3, <1>4, <2>2 DEF ReopenStep, PromoteStep, At, PlaceHolds, StepsInv
    <3>2. PICK status \in {"pending", "running"} :
            steps' = [steps EXCEPT ![run.turns + 1] = status]
      BY <1>4, <2>2 DEF ReopenStep, PromoteStep
    <3>3. status \in StepStatus /\ run.turns + 1 \in 1..Len(steps)
      BY <1>3, <3>1 DEF StepStatus
    <3>4. /\ steps' \in Seq(StepStatus) /\ Len(steps') = Len(steps)
          /\ Last(steps') = status
      BY <3>1, <3>2, <3>3, StepSet
    <3> QED
      BY <3>1, <3>4
  <2> QED
    BY <2>1, <2>2
<1>9. StepsInv'
  BY <1>3, <1>4, <1>8 DEF StepsInv
<1>10. PlaceHolds(new)'
  BY <1>3, <1>4, <1>5, <1>7, <1>8 DEF PlaceHolds, RunActive
<1> QED
  BY <1>1, <1>3, <1>4, <1>5, <1>6, <1>7, <1>8, <1>9, <1>10, WorkerStep DEF RunInv, RunTypeOK

\* The loop returns with the end of a step.
LEMMA StopKeeps ==
  ASSUME RunInv, NEW d \in Driver, driver[d].pc \in {"ask", "asking", "answered", "called"},
         NEW step, NEW status \in EndStatus, Stop(d, step, status),
         runBudget' \in RunBudget,
         step = IF driver[d].pc \in {"ask", "asking"} THEN run.turns + 1 ELSE run.turns,
         driver[d].pc \in {"ask", "asking"} => status \in {"cancelled", "timed_out", "failed"}
  PROVE  RunInv'
<1>1. Drives(d)
  BY DEF Drives
<1>2. PICK l : l = driver[d]
  OBVIOUS
<1>3. /\ PlaceHolds(l) /\ l \in Worker /\ run.turns \in Nat /\ run \in RunRow
      /\ steps \in Seq(StepStatus) /\ calls \in Seq(CallStatus) /\ StepsInv
  BY <1>1, <1>2, WorkerFacts DEF RunInv
<1>4. /\ steps' = [steps EXCEPT ![step] = status]
      /\ driver' = [driver EXCEPT ![d] = [l EXCEPT !.pc = "result", !.result = status]]
      /\ UNCHANGED <<run, calls, registry, resumed, requester, server, unattended>>
  BY <1>2 DEF Stop, Become, Unshared
<1>5. PICK new : new = [l EXCEPT !.pc = "result", !.result = status]
  OBVIOUS
<1>6. new \in Worker /\ new.pc = "result" /\ new.turns = l.turns /\ new.result = status
  BY <1>3, <1>5 DEF Worker, WorkerState
<1>7. /\ step = Len(steps) /\ step \in 1..Len(steps) /\ run.status = "running"
      /\ l.turns = run.turns
      /\ status \in {"completed", "max_steps_reached"} => Len(steps) = run.turns
  BY <1>2, <1>3 DEF PlaceHolds
<1>8. steps' \in Seq(StepStatus) /\ Len(steps') = Len(steps) /\ Last(steps') = status
  <2>1. status \in StepStatus
    BY DEF StepStatus
  <2> QED
    BY <1>4, <1>7, <2>1, StepSet
<1>9. StepsInv'
  BY <1>3, <1>4, <1>7, <1>8 DEF StepsInv
<1>10. PlaceHolds(new)'
  BY <1>3, <1>4, <1>6, <1>7, <1>8 DEF PlaceHolds, RunActive
<1>11. unattended' \in {"no", "not_marked", "pending_at_stop"}
  BY <1>4 DEF RunInv, RunTypeOK
<1> QED
  BY <1>1, <1>3, <1>4, <1>5, <1>6, <1>8, <1>9, <1>10, <1>11, WorkerStep

LEMMA BoundaryKeeps ==
  ASSUME RunInv, NEW d \in Driver, driver[d].pc \in {"ask", "asking", "answered", "called"},
         NEW step, StopAtBoundary(d, step),
         step = IF driver[d].pc \in {"ask", "asking"} THEN run.turns + 1 ELSE run.turns
  PROVE  RunInv'
<1>1. {"cancelled", "timed_out"} \subseteq EndStatus
  BY DEF EndStatus, ResumableStatus
<1>2. CASE Stop(d, step, "cancelled") /\ UNCHANGED runBudget
  BY <1>1, <1>2, StopKeeps DEF RunInv, RunTypeOK
<1>3. CASE Stop(d, step, "timed_out") /\ Spend("interrupts")
  BY <1>1, <1>3, StopKeeps, BudgetSpent
<1> QED
  BY <1>2, <1>3 DEF StopAtBoundary

LEMMA EndsOfTurnsKeep ==
  ASSUME RunInv, NEW d \in Driver, Interrupted(d) \/ Complete(d)
  PROVE  RunInv'
<1>1. /\ driver[d].pc \in {"ask", "answered", "called"}
      /\ driver[d].turns = run.turns
  <2>1. driver[d].pc \in {"ask", "answered", "called"}
    BY DEF Interrupted, Complete, At
  <2>2. Drives(d)
    BY <2>1 DEF Drives
  <2> QED
    BY <2>1, <2>2, WorkerFacts DEF PlaceHolds
<1>2. {"completed", "max_steps_reached"} \subseteq EndStatus
  BY DEF EndStatus, ResumableStatus
<1>3. CASE Interrupted(d)
  BY <1>1, <1>3, BoundaryKeeps DEF Interrupted, At, CurrentStep
<1>4. CASE Complete(d)
  BY <1>1, <1>2, <1>4, StopKeeps DEF Complete, At, RunInv, RunTypeOK
<1> QED
  BY <1>3, <1>4

LEMMA AnswerKeeps ==
  ASSUME RunInv, NEW d \in Driver, Answer(d)
  PROVE  RunInv'
<1>1. Drives(d) /\ At(d, "asking")
  BY DEF Answer, At, Drives
<1>2. PICK l : l = driver[d]
  OBVIOUS
<1>3. /\ PlaceHolds(l) /\ l \in Worker /\ run.turns \in Nat /\ run \in RunRow
      /\ steps \in Seq(StepStatus) /\ calls \in Seq(CallStatus) /\ StepsInv
      /\ l.turns = run.turns /\ run.status = "running" /\ Len(steps) = run.turns + 1
  BY <1>1, <1>2, WorkerFacts DEF RunInv, PlaceHolds, At
<1>4. PICK n \in 0..MaxCalls, t \in Nat :
        /\ t = l.turns + 1
        /\ driver' = [driver EXCEPT ![d] =
                       [l EXCEPT !.pc = "answered", !.turns = t, !.left = n, !.tries = 0]]
        /\ run' = [run EXCEPT !.turns = t]
  <2>1. l.turns + 1 \in Nat
    BY <1>3
  <2>2. PICK n \in 0..MaxCalls :
          Become(d, [driver[d] EXCEPT !.pc = "answered", !.turns = @ + 1, !.left = n, !.tries = 0])
    BY DEF Answer
  <2>3. driver' = [driver EXCEPT ![d] =
                    [l EXCEPT !.pc = "answered", !.turns = l.turns + 1, !.left = n, !.tries = 0]]
    BY <1>2, <2>2 DEF Become
  <2>4. run' = [run EXCEPT !.turns = l.turns + 1]
    BY <1>2 DEF Answer
  <2> QED
    BY <2>1, <2>3, <2>4
<1>5. UNCHANGED <<steps, calls, registry, resumed, requester, server, unattended, runBudget>>
  BY DEF Answer, Alone, Unshared
<1>6. PICK new : new = [l EXCEPT !.pc = "answered", !.turns = t, !.left = n, !.tries = 0]
  OBVIOUS
<1>7. 0 \in 0..MaxRetries
  BY LoopAssumption
<1>8. new \in Worker /\ new.pc = "answered" /\ new.turns = t
  BY <1>3, <1>6, <1>7 DEF Worker, WorkerState
<1>9. run' \in RunRow /\ run'.turns = t /\ run'.status = "running" /\ run'.answer = run.answer
  BY <1>3, <1>4 DEF RunRow
<1>10. PlaceHolds(new)'
  BY <1>3, <1>4, <1>5, <1>8, <1>9 DEF PlaceHolds, RunActive, ActiveStatus
<1>11. StepsInv'
  BY <1>3, <1>4, <1>5, <1>9 DEF StepsInv
<1> QED
  BY <1>1, <1>3, <1>4, <1>5, <1>6, <1>8, <1>9, <1>10, <1>11, WorkerStep DEF RunInv, RunTypeOK

LEMMA RequestFailsKeeps ==
  ASSUME RunInv, NEW d \in Driver, RequestFails(d)
  PROVE  RunInv'
<1>1. Drives(d) /\ driver[d].pc = "asking"
  BY DEF RequestFails, At, Drives
<1>2. PICK l : l = driver[d]
  OBVIOUS
<1>3. /\ PlaceHolds(l) /\ l \in Worker /\ run.turns \in Nat /\ run \in RunRow
      /\ steps \in Seq(StepStatus) /\ calls \in Seq(CallStatus) /\ StepsInv
      /\ l.turns = run.turns /\ run.status = "running" /\ Len(steps) = run.turns + 1
      /\ CurrentStep(d) = run.turns + 1
  BY <1>1, <1>2, WorkerFacts DEF RunInv, PlaceHolds, CurrentStep
<1>4. "failed" \in EndStatus
  BY DEF EndStatus, ResumableStatus
<1>5. CASE StopAtBoundary(d, CurrentStep(d))
  BY <1>1, <1>3, <1>5, BoundaryKeeps
<1>6. CASE Stop(d, CurrentStep(d), "failed") /\ UNCHANGED runBudget
  BY <1>1, <1>3, <1>4, <1>6, StopKeeps DEF RunInv, RunTypeOK
<1>7. CASE /\ driver[d].tries < MaxRetries
           /\ Become(d, [driver[d] EXCEPT !.pc = "ask", !.tries = @ + 1])
           /\ UNCHANGED rowVars /\ Alone
  <2>1. PICK k \in 0..MaxRetries : k = l.tries + 1
    BY <1>2, <1>3, <1>7, LoopAssumption DEF Worker
  <2>2. PICK new : new = [l EXCEPT !.pc = "ask", !.tries = k]
    OBVIOUS
  <2>3. driver' = [driver EXCEPT ![d] = new]
    <3>1. driver' = [driver EXCEPT ![d] = [l EXCEPT !.pc = "ask", !.tries = l.tries + 1]]
      BY <1>2, <1>7 DEF Become
    <3> QED
      BY <2>1, <2>2, <3>1
  <2>4. new \in Worker /\ new.pc = "ask" /\ new.turns = l.turns
    BY <1>3, <2>2 DEF Worker, WorkerState
  <2>5. UNCHANGED <<run, steps, calls, registry, resumed, requester, server, unattended, runBudget>>
    BY <1>7 DEF rowVars, Alone, Unshared
  <2>6. PlaceHolds(new)' /\ StepsInv'
    BY <1>3, <2>4, <2>5 DEF PlaceHolds, RunActive, ActiveStatus, StepsInv
  <2> QED
    BY <1>1, <1>3, <2>3, <2>4, <2>5, <2>6, WorkerStep DEF RunInv, RunTypeOK
<1> QED
  BY <1>5, <1>6, <1>7 DEF RequestFails

LEMMA ToolsKeep ==
  ASSUME RunInv, NEW d \in Driver, CallTool(d) \/ ToolDone(d)
  PROVE  RunInv'
<1>1. Drives(d) /\ driver[d].pc \in {"answered", "called", "tool"}
  BY DEF CallTool, ToolDone, At, Drives
<1>2. PICK l : l = driver[d]
  OBVIOUS
<1>3. /\ PlaceHolds(l) /\ l \in Worker /\ run.turns \in Nat /\ run \in RunRow
      /\ steps \in Seq(StepStatus) /\ calls \in Seq(CallStatus) /\ StepsInv
      /\ l.turns = run.turns /\ run.status = "running" /\ Len(steps) = run.turns /\ run.turns > 0
  BY <1>1, <1>2, WorkerFacts DEF RunInv, PlaceHolds
<1>4. UNCHANGED <<run, steps, registry, resumed, requester, server, unattended, runBudget>>
  BY DEF CallTool, ToolDone, Alone, Unshared
<1>5. PICK new \in Worker :
        /\ driver' = [driver EXCEPT ![d] = new]
        /\ new.pc \in {"tool", "called"} /\ new.turns = l.turns /\ new.taken = l.taken
  <2>1. CASE CallTool(d)
    <3>1. PICK k \in 0..MaxCalls : k = l.left - 1
      BY <1>2, <1>3, <2>1, LoopAssumption DEF CallTool, Worker
    <3>2. driver' = [driver EXCEPT ![d] = [l EXCEPT !.pc = "tool", !.left = l.left - 1]]
      BY <1>2, <2>1 DEF CallTool, Become
    <3>3. PICK new : new = [l EXCEPT !.pc = "tool", !.left = k]
      OBVIOUS
    <3>4. new \in Worker /\ new.pc = "tool" /\ new.turns = l.turns /\ new.taken = l.taken
      BY <1>3, <3>3 DEF Worker, WorkerState
    <3> QED
      BY <3>1, <3>2, <3>3, <3>4
  <2>2. CASE ToolDone(d)
    <3>1. driver' = [driver EXCEPT ![d] = [l EXCEPT !.pc = "called"]]
      BY <1>2, <2>2 DEF ToolDone, Goto
    <3>2. PICK new : new = [l EXCEPT !.pc = "called"]
      OBVIOUS
    <3>3. new \in Worker /\ new.pc = "called" /\ new.turns = l.turns /\ new.taken = l.taken
      BY <1>3, <3>2 DEF Worker, WorkerState
    <3> QED
      BY <3>1, <3>2, <3>3
  <2> QED
    BY <2>1, <2>2
<1>6. l.taken < MaxSteps
  BY <1>2, <1>3 DEF CallTool, ToolDone, At, PlaceHolds
<1>7. calls' \in Seq(CallStatus) /\ Len(calls') > 0
  <2>1. CASE CallTool(d)
    BY <1>3, <2>1 DEF CallTool, CallStatus
  <2>2. CASE ToolDone(d)
    <3>1. Len(calls) > 0 /\ calls' = [calls EXCEPT ![Len(calls)] = "finished"]
      BY <1>2, <1>3, <2>2 DEF ToolDone, At, PlaceHolds
    <3>2. "finished" \in CallStatus
      BY DEF CallStatus
    <3> QED
      BY <1>3, <3>1, <3>2
  <2> QED
    BY <2>1, <2>2
<1>8. StepsInv'
  BY <1>3, <1>4 DEF StepsInv
<1>9. PlaceHolds(new)'
  BY <1>3, <1>4, <1>5, <1>6, <1>7 DEF PlaceHolds, RunActive, ActiveStatus
<1> QED
  BY <1>1, <1>3, <1>4, <1>5, <1>7, <1>8, <1>9, WorkerStep DEF RunInv, RunTypeOK

LEMMA NextTurnKeeps ==
  ASSUME RunInv, NEW d \in Driver, NextTurn(d)
  PROVE  RunInv'
<1>1. Drives(d) /\ driver[d].pc = "called"
  BY DEF NextTurn, At, Drives
<1>2. PICK l : l = driver[d]
  OBVIOUS
<1>3. /\ PlaceHolds(l) /\ l \in Worker /\ run.turns \in Nat /\ run \in RunRow
      /\ steps \in Seq(StepStatus) /\ calls \in Seq(CallStatus) /\ StepsInv
      /\ l.turns = run.turns /\ run.status = "running" /\ Len(steps) = run.turns /\ run.turns > 0
      /\ l.taken < MaxSteps
  BY <1>1, <1>2, WorkerFacts DEF RunInv, PlaceHolds
<1>4. /\ steps' = [steps EXCEPT ![run.turns] = "completed"]
      /\ driver' = [driver EXCEPT ![d] = [l EXCEPT !.pc = "step", !.taken = l.taken + 1]]
      /\ UNCHANGED <<run, calls, registry, resumed, requester, server, unattended, runBudget>>
  BY <1>2, <1>3 DEF NextTurn, Become, Alone, Unshared
<1>5. PICK k \in 1..MaxSteps : k = l.taken + 1
  BY <1>3, LoopAssumption DEF Worker
<1>6. PICK new : new = [l EXCEPT !.pc = "step", !.taken = k]
  OBVIOUS
<1>7. new \in Worker /\ new.pc = "step" /\ new.turns = l.turns
  BY <1>3, <1>6 DEF Worker, WorkerState
<1>8. steps' \in Seq(StepStatus) /\ Len(steps') = Len(steps)
  <2>1. "completed" \in StepStatus /\ run.turns \in 1..Len(steps)
    BY <1>3 DEF StepStatus, EndStatus
  <2> QED
    BY <1>4, <2>1, StepSet
<1>9. StepsInv'
  BY <1>3, <1>4, <1>8 DEF StepsInv
<1>10. PlaceHolds(new)'
  BY <1>3, <1>4, <1>7, <1>8 DEF PlaceHolds, RunActive, ActiveStatus
<1> QED
  BY <1>1, <1>3, <1>4, <1>5, <1>6, <1>7, <1>8, <1>9, <1>10, WorkerStep DEF RunInv, RunTypeOK

LEMMA EndsKeep ==
  ASSUME RunInv, NEW d \in Driver, RecordResult(d) \/ FinishRun(d) \/ MarkFailed(d)
  PROVE  RunInv'
<1>1. Drives(d) /\ driver[d].pc \in {"result", "end", "mark"}
  BY DEF RecordResult, FinishRun, MarkFailed, At, Drives
<1>2. PICK l : l = driver[d]
  OBVIOUS
<1>3. /\ PlaceHolds(l) /\ l \in Worker /\ run.turns \in Nat /\ run \in RunRow
      /\ steps \in Seq(StepStatus) /\ calls \in Seq(CallStatus) /\ StepsInv
  BY <1>1, <1>2, WorkerFacts DEF RunInv
<1>4. UNCHANGED <<steps, calls, registry, resumed, requester, server>>
  BY DEF RecordResult, FinishRun, MarkFailed, Alone, Unshared
<1>5. PICK pc \in {"end", "cleanup"} :
        /\ driver' = [driver EXCEPT ![d] = [l EXCEPT !.pc = pc]]
        /\ IF pc = "end" THEN RecordResult(d) ELSE FinishRun(d) \/ MarkFailed(d)
  BY <1>2 DEF RecordResult, FinishRun, MarkFailed, Goto
<1>6. PICK new : new = [l EXCEPT !.pc = pc]
  OBVIOUS
<1>7. new \in Worker /\ new.pc = pc /\ new.turns = l.turns /\ new.result = l.result
  BY <1>3, <1>6 DEF Worker, WorkerState
<1>8. EndStatus \subseteq {"completed", "cancelled", "failed", "timed_out", "max_steps_reached"}
  BY DEF EndStatus, ResumableStatus
<1>9. CASE RecordResult(d)
  <2>1. /\ l.pc = "result" /\ run.status = "running" /\ l.turns = run.turns
        /\ l.result \in EndStatus /\ (l.result = "completed" => Len(steps) = run.turns)
    BY <1>2, <1>3, <1>9 DEF RecordResult, At, PlaceHolds
  <2>2. PICK finished \in BOOLEAN : finished <=> l.result = "completed"
    OBVIOUS
  <2>3. run' = [run EXCEPT !.answer = finished]
    BY <1>2, <1>9, <2>2 DEF RecordResult
  <2>4. /\ run' \in RunRow /\ run'.status = run.status /\ run'.turns = run.turns
        /\ run'.answer = finished
    BY <1>3, <2>3 DEF RunRow
  <2>5. pc = "end" /\ UNCHANGED <<unattended, runBudget>>
    BY <1>2, <1>5, <1>9, <2>1 DEF RecordResult, FinishRun, MarkFailed, At, Alone, Unshared
  <2>6. StepsInv'
    BY <1>3, <1>4, <2>1, <2>4 DEF StepsInv
  <2>7. PlaceHolds(new)'
    BY <1>4, <1>7, <2>1, <2>2, <2>4, <2>5 DEF PlaceHolds, RunActive, ActiveStatus
  <2> QED
    BY <1>1, <1>3, <1>4, <1>5, <1>6, <1>7, <2>4, <2>5, <2>6, <2>7, WorkerStep DEF RunInv, RunTypeOK
<1>10. CASE FinishRun(d)
  <2>1. /\ l.pc = "end" /\ run.status = "running" /\ l.turns = run.turns
        /\ l.result \in EndStatus /\ (l.result = "completed" => Len(steps) = run.turns)
        /\ run.answer <=> l.result = "completed"
    BY <1>2, <1>3, <1>10 DEF FinishRun, At, PlaceHolds
  <2>2. run' = [run EXCEPT !.status = l.result, !.turns = l.turns]
    BY <1>2, <1>10 DEF FinishRun
  <2>3. /\ run' \in RunRow /\ run'.status = l.result /\ run'.turns = run.turns
        /\ run'.answer = run.answer
    BY <1>3, <2>1, <2>2 DEF RunRow
  <2>4. pc = "cleanup" /\ UNCHANGED <<unattended, runBudget>>
    BY <1>2, <1>5, <1>10, <2>1 DEF RecordResult, FinishRun, MarkFailed, At, Alone, Unshared
  <2>5. StepsInv' /\ ~RunActive'
    BY <1>3, <1>4, <1>8, <2>1, <2>3 DEF StepsInv, RunActive, ActiveStatus
  <2> QED
    BY <1>1, <1>3, <1>4, <1>5, <1>6, <1>7, <2>3, <2>4, <2>5, WorkerStep DEF RunInv, RunTypeOK
<1>11. CASE MarkFailed(d)
  <2>1. pc = "cleanup"
    BY <1>1, <1>2, <1>5, <1>11 DEF RecordResult, MarkFailed, At
  <2>2. CASE run' = [run EXCEPT !.status = "failed"] /\ UNCHANGED <<unattended, runBudget>>
    <3>1. /\ run' \in RunRow /\ run'.status = "failed" /\ run'.turns = run.turns
          /\ run'.answer = run.answer
      BY <1>3, <2>2 DEF RunRow, EndStatus, ResumableStatus
    <3>2. StepsInv' /\ ~RunActive'
      BY <1>3, <1>4, <3>1 DEF StepsInv, RunActive, ActiveStatus
    <3> QED
      BY <1>1, <1>3, <1>4, <1>5, <1>6, <1>7, <2>1, <2>2, <3>1, <3>2, WorkerStep
      DEF RunInv, RunTypeOK
  <2>3. CASE Spend("faults") /\ unattended' = "not_marked" /\ UNCHANGED run
    <3>1. StepsInv' /\ runBudget' \in RunBudget
      BY <1>3, <1>4, <2>3, BudgetSpent DEF StepsInv
    <3> QED
      BY <1>1, <1>3, <1>4, <1>5, <1>6, <1>7, <2>1, <2>3, <3>1, WorkerStep
  <2> QED
    BY <1>11, <2>2, <2>3 DEF MarkFailed
<1> QED
  BY <1>9, <1>10, <1>11

LEMMA RemoveKeeps ==
  ASSUME RunInv, NEW d \in Driver, RemoveEvent(d)
  PROVE  RunInv'
<1>1. /\ At(d, "cleanup") /\ driver' = [driver EXCEPT ![d] = Free] /\ registry' = NoDriver
      /\ UNCHANGED <<run, steps, calls, resumed, requester, server, unattended, runBudget>>
  BY DEF RemoveEvent, Become, rowVars
<1>2. Free \in Worker /\ Free.pc = "free"
  BY LoopAssumption DEF Free, Worker, WorkerState
<1>3. /\ driver' \in [Driver -> Worker] /\ driver'[d].pc = "free"
      /\ \A e \in Driver \ {d} : driver'[e] = driver[e]
  BY <1>1, <1>2 DEF RunInv, RunTypeOK
<1>4. RunTypeOK' /\ StepsInv'
  BY <1>1, <1>3 DEF RunInv, RunTypeOK, StepsInv
<1>5. \A e \in Driver : Drives(e)' <=> Drives(e)
  BY <1>1, <1>3 DEF Drives, At
<1>6. ServerInv'
  BY <1>1, <1>3, <1>5 DEF RunInv, ServerInv, Up, RunActive, At
<1>7. ASSUME NEW e \in Driver, Drives(e)' PROVE DriveHolds(e)'
  <2>1. DriveHolds(e) /\ e # d
    BY <1>1, <1>5, <1>7 DEF RunInv, Drives, At
  <2> QED
    BY <1>1, <1>3, <1>5, <2>1 DEF DriveHolds, PlaceHolds, RunActive
<1> QED
  BY <1>4, <1>6, <1>7 DEF RunInv

-----------------------------------------------------------------------------
(* Requests. *)

\* A run that nobody drives is pending and gets a worker.
LEMMA ScheduleKeeps ==
  ASSUME RunInv, Up, ~RunActive, Schedule, UNCHANGED <<steps, calls, server, runBudget>>,
         run' = [run EXCEPT !.status = "pending"] \/
         run' = [run EXCEPT !.status = "pending", !.answer = FALSE],
         resumed' \in BOOLEAN, requester' \in [Requester -> {"idle", "checked"}],
         unattended' = "no"
  PROVE  RunInv'
<1>1. PICK d \in Driver :
        /\ At(d, "free")
        /\ driver' = [driver EXCEPT ![d] = [Free EXCEPT !.pc = "queued"]]
        /\ registry' = d
  <2> DEFINE free == {d \in Driver : At(d, "free")}
  <2>1. (CHOOSE e \in free : TRUE) \in free
    BY DEF Schedule
  <2> QED
    BY <2>1 DEF Schedule
<1>2. PICK new : new = [Free EXCEPT !.pc = "queued"]
  OBVIOUS
<1>3. new \in Worker /\ new.pc = "queued"
  <2>1. new = [pc |-> "queued", cancel |-> FALSE, turns |-> 0, taken |-> 1, tries |-> 0,
               left |-> 0, result |-> "none"]
    BY <1>2 DEF Free
  <2>2. 1 \in 1..MaxSteps /\ 0 \in 0..MaxRetries /\ 0 \in 0..MaxCalls
    BY LoopAssumption
  <2> QED
    BY <2>1, <2>2 DEF Worker, WorkerState
<1>4. /\ driver' \in [Driver -> Worker] /\ driver'[d] = new
      /\ \A e \in Driver \ {d} : driver'[e] = driver[e]
  BY <1>1, <1>2, <1>3 DEF RunInv, RunTypeOK
<1>5. run' \in RunRow /\ run'.status = "pending" /\ run'.turns = run.turns /\ run.turns \in Nat
  BY DEF RunInv, RunTypeOK, RunRow, ActiveStatus
<1>6. RunTypeOK'
  BY <1>1, <1>4, <1>5 DEF RunInv, RunTypeOK
<1>7. \A e \in Driver : ~Drives(e)
  BY DEF RunInv, DriveHolds, PlaceHolds
<1>8. Drives(d)' /\ \A e \in Driver \ {d} : ~Drives(e)'
  BY <1>3, <1>4, <1>7 DEF Drives
<1>9. StepsInv'
  BY <1>5 DEF RunInv, StepsInv
<1>10. ServerInv'
  BY <1>8 DEF ServerInv, Up
<1>11. DriveHolds(d)'
  BY <1>1, <1>3, <1>4, <1>5, <1>8 DEF DriveHolds, PlaceHolds, RunActive, ActiveStatus
<1> QED
  BY <1>6, <1>8, <1>9, <1>10, <1>11 DEF RunInv

\* Steps that change neither the rows nor what drives them.
LEMMA AsideKeeps ==
  ASSUME RunInv, UNCHANGED <<run, steps, calls, driver, registry, server, unattended>>,
         resumed' \in BOOLEAN, requester' \in [Requester -> {"idle", "checked"}],
         Up \/ UNCHANGED requester, runBudget' \in RunBudget
  PROVE  RunInv'
<1>1. RunTypeOK' /\ StepsInv'
  BY DEF RunInv, RunTypeOK, StepsInv
<1>2. (\A e \in Driver : Drives(e)' <=> Drives(e)) /\ (RunActive' <=> RunActive)
  BY DEF Drives, RunActive
<1>3. ServerInv'
  BY <1>2 DEF RunInv, ServerInv, Up, At
<1>4. ASSUME NEW e \in Driver, Drives(e)' PROVE DriveHolds(e)'
  <2>1. DriveHolds(e) /\ PlaceHolds(driver[e])
    BY <1>2, <1>4 DEF RunInv, DriveHolds
  <2>2. PlaceHolds(driver[e])'
    BY <2>1 DEF PlaceHolds, RunActive
  <2> QED
    BY <1>2, <2>1, <2>2 DEF DriveHolds
<1> QED
  BY <1>1, <1>3, <1>4 DEF RunInv

LEMMA SubmitKeeps ==
  ASSUME RunInv, SubmitRun
  PROVE  RunInv'
<1>1. Up /\ run.status = "absent" /\ ~RunActive
  BY DEF SubmitRun, RunActive, ActiveStatus
<1> QED
  BY <1>1, ScheduleKeeps DEF SubmitRun, RunInv, RunTypeOK

LEMMA ResumeKeeps ==
  ASSUME RunInv, NEW c \in Requester, ResumeChecked(c) \/ ResumeQueued(c)
  PROVE  RunInv'
<1>1. requester' \in [Requester -> {"idle", "checked"}]
  BY DEF ResumeChecked, ResumeQueued, RunInv, RunTypeOK
<1>2. CASE ResumeChecked(c)
  BY <1>1, <1>2, AsideKeeps, BudgetSpent DEF ResumeChecked, rowVars, RunInv, RunTypeOK
<1>3. CASE ResumeQueued(c)
  <2>1. Up
    BY <1>3 DEF ResumeQueued, RunInv, ServerInv
  <2>2. CASE run.status \in ResumableStatus
    <3>1. ~RunActive /\ run.status \in ResumableStatus
      BY <2>2 DEF RunActive, ActiveStatus, ResumableStatus
    <3> QED
      BY <1>1, <1>3, <2>1, <3>1, ScheduleKeeps DEF ResumeQueued
  <2>3. CASE run.status \notin ResumableStatus
    BY <1>1, <1>3, <2>1, <2>3, AsideKeeps DEF ResumeQueued, RunInv, RunTypeOK
  <2> QED
    BY <2>2, <2>3
<1> QED
  BY <1>2, <1>3

\* The event of the registered worker is set.
LEMMA CancelKeeps ==
  ASSUME RunInv, CancelRun
  PROVE  RunInv'
<1>1. registry \in Driver
  BY DEF CancelRun, RunInv, RunTypeOK
<1>2. /\ driver' = [driver EXCEPT ![registry].cancel = TRUE]
      /\ UNCHANGED <<run, steps, calls, registry, resumed, requester, server, unattended>>
      /\ runBudget' \in RunBudget
  BY BudgetSpent DEF CancelRun, rowVars
<1>3. driver \in [Driver -> Worker]
  BY DEF RunInv, RunTypeOK
<1>4. /\ driver' \in [Driver -> Worker]
      /\ \A e \in Driver :
           /\ driver'[e].pc = driver[e].pc /\ driver'[e].turns = driver[e].turns
           /\ driver'[e].taken = driver[e].taken /\ driver'[e].result = driver[e].result
  <2>1. PICK new : new = [driver[registry] EXCEPT !.cancel = TRUE]
    OBVIOUS
  <2>2. /\ new \in Worker
        /\ new.pc = driver[registry].pc /\ new.turns = driver[registry].turns
        /\ new.taken = driver[registry].taken /\ new.result = driver[registry].result
    BY <1>1, <1>3, <2>1 DEF Worker
  <2>3. driver' = [driver EXCEPT ![registry] = new]
    BY <1>2, <2>1
  <2> QED
    BY <1>1, <1>3, <2>2, <2>3
<1>5. RunTypeOK' /\ StepsInv'
  BY <1>2, <1>4 DEF RunInv, RunTypeOK, StepsInv
<1>6. \A e \in Driver : Drives(e)' <=> Drives(e)
  BY <1>4 DEF Drives
<1>7. ServerInv'
  BY <1>2, <1>4, <1>6 DEF RunInv, ServerInv, Up, RunActive, At
<1>8. ASSUME NEW e \in Driver, Drives(e)' PROVE DriveHolds(e)'
  <2>1. DriveHolds(e)
    BY <1>6, <1>8 DEF RunInv
  <2>2. PlaceHolds(driver[e])'
    BY <1>2, <1>4, <2>1 DEF DriveHolds, PlaceHolds, RunActive
  <2> QED
    BY <1>2, <1>6, <2>1, <2>2 DEF DriveHolds
<1> QED
  BY <1>5, <1>7, <1>8 DEF RunInv

-----------------------------------------------------------------------------
(* The process. *)

LEMMA ServerKeeps ==
  ASSUME RunInv, StartServer \/ StopServer
  PROVE  RunInv'
<1>0. run \in RunRow /\ StepsInv /\ RunTypeOK
  BY DEF RunInv, RunTypeOK
<1>1. CASE StartServer
  <2>1. /\ server = "down" /\ server' = "up"
        /\ UNCHANGED <<steps, calls, driver, registry, resumed, requester, unattended>>
        /\ run' = IF run.status = "running" THEN [run EXCEPT !.status = "failed"] ELSE run
        /\ runBudget' \in RunBudget
    BY <1>1, BudgetSpent DEF StartServer
  <2>2. \A d \in Driver : At(d, "free")
    BY <2>1 DEF RunInv, ServerInv, Up
  <2>3. run' \in RunRow /\ run'.turns = run.turns /\ run'.answer = run.answer
        /\ run'.status = IF run.status = "running" THEN "failed" ELSE run.status
    BY <1>0, <2>1 DEF RunRow, EndStatus, ResumableStatus
  <2>4. RunTypeOK' /\ StepsInv'
    BY <1>0, <2>1, <2>3 DEF RunTypeOK, StepsInv
  <2>5. \A d \in Driver : ~Drives(d)'
    BY <2>1, <2>2 DEF Drives, At
  <2>6. run'.status = "pending" => unattended' # "no"
    BY <2>1, <2>3 DEF RunInv, ServerInv, Up
  <2>7. run'.status # "running"
    BY <2>3
  <2>8. ServerInv'
    BY <2>1, <2>6, <2>7 DEF ServerInv, Up, RunActive, ActiveStatus
  <2> QED
    BY <2>4, <2>5, <2>8 DEF RunInv
<1>2. CASE StopServer
  <2>1. /\ server' = "down" /\ driver' = [d \in Driver |-> Free] /\ registry' = NoDriver
        /\ resumed' = FALSE /\ requester' = [c \in Requester |-> "idle"]
        /\ unattended' = IF run.status = "pending" THEN "pending_at_stop" ELSE "no"
        /\ UNCHANGED <<run, steps, calls, runBudget>>
    BY <1>2 DEF StopServer, rowVars
  <2>2. Free \in Worker /\ Free.pc = "free"
    BY LoopAssumption DEF Free, Worker, WorkerState
  <2>3. driver' \in [Driver -> Worker] /\ \A d \in Driver : driver'[d].pc = "free"
    BY <2>1, <2>2
  <2>4. RunTypeOK' /\ StepsInv'
    BY <1>0, <2>1, <2>3 DEF RunTypeOK, StepsInv
  <2>5. ServerInv' /\ \A d \in Driver : ~Drives(d)'
    BY <2>1, <2>3 DEF ServerInv, Up, Drives, At
  <2> QED
    BY <2>4, <2>5 DEF RunInv
<1> QED
  BY <1>1, <1>2


-----------------------------------------------------------------------------
(* The invariant. *)

LEMMA InitHolds ==
  ASSUME RunInit
  PROVE  RunInv
<1>1. Free \in Worker /\ Free.pc = "free"
  BY LoopAssumption DEF Free, Worker, WorkerState
<1>2. driver \in [Driver -> Worker] /\ \A d \in Driver : driver[d].pc = "free"
  BY <1>1 DEF RunInit
<1>3. run \in RunRow /\ run.turns = 0 /\ run.status = "absent"
  BY DEF RunInit, NoRun, RunRow
<1>4. RunTypeOK
  <2>1. /\ steps \in Seq(StepStatus) /\ calls \in Seq(CallStatus) /\ runBudget \in RunBudget
    BY RunBudgetAssumption DEF RunInit
  <2>2. requester \in [Requester -> {"idle", "checked"}]
    BY DEF RunInit
  <2>3. registry = NoDriver /\ resumed = FALSE /\ server = "down" /\ unattended = "no"
    BY DEF RunInit
  <2> QED
    BY <1>2, <1>3, <2>1, <2>2, <2>3 DEF RunTypeOK
<1>5. StepsInv
  BY <1>3 DEF RunInit, StepsInv
<1>6. ServerInv /\ \A d \in Driver : ~Drives(d)
  BY <1>2, <1>3 DEF RunInit, ServerInv, Drives, At, Up, RunActive, ActiveStatus
<1> QED
  BY <1>4, <1>5, <1>6 DEF RunInv

LEMMA NextKeeps ==
  ASSUME RunInv, [RunNext]_runVars
  PROVE  RunInv'
<1>1. CASE SubmitRun
  BY <1>1, SubmitKeeps
<1>2. CASE CancelRun
  BY <1>2, CancelKeeps
<1>3. CASE StreamSeesEnd
  BY <1>3, AsideKeeps DEF StreamSeesEnd, rowVars, RunInv, RunTypeOK
<1>4. ASSUME NEW c \in Requester, ResumeChecked(c) \/ ResumeQueued(c)
      PROVE  RunInv'
  BY <1>4, ResumeKeeps
<1>5. ASSUME NEW d \in Driver, Drive(d)
      PROVE  RunInv'
  <2>1. CASE ClaimRun(d)
    BY <2>1, ClaimKeeps
  <2>2. CASE NewStep(d) \/ ReopenStep(d) \/ PromoteStep(d)
    BY <2>2, OpenKeeps
  <2>3. CASE KeepStep(d) \/ StepRefused(d) \/ Ask(d)
    BY <2>3, QuietKeeps
  <2>4. CASE Interrupted(d) \/ Complete(d)
    BY <2>4, EndsOfTurnsKeep
  <2>5. CASE Answer(d)
    BY <2>5, AnswerKeeps
  <2>6. CASE RequestFails(d)
    BY <2>6, RequestFailsKeeps
  <2>7. CASE CallTool(d) \/ ToolDone(d)
    BY <2>7, ToolsKeep
  <2>8. CASE NextTurn(d)
    BY <2>8, NextTurnKeeps
  <2>9. CASE RecordResult(d) \/ FinishRun(d) \/ MarkFailed(d)
    BY <2>9, EndsKeep
  <2>10. CASE RemoveEvent(d)
    BY <2>10, RemoveKeeps
  <2> QED
    BY <1>5, <2>1, <2>2, <2>3, <2>4, <2>5, <2>6, <2>7, <2>8, <2>9, <2>10 DEF Drive
<1>6. ASSUME NEW d \in Driver, Raise(d)
      PROVE  RunInv'
  BY <1>6, QuietKeeps
<1>7. CASE StartServer \/ StopServer
  BY <1>7, ServerKeeps
<1>8. CASE UNCHANGED runVars
  BY <1>8, AsideKeeps DEF runVars, rowVars, memoryVars, RunInv, RunTypeOK
<1> QED
  BY <1>1, <1>2, <1>3, <1>4, <1>5, <1>6, <1>7, <1>8 DEF RunNext

\* Every reachable state satisfies the inductive invariant: whoever drives the
\* run stands where its rows say it stands.
THEOREM RunInvariant == RunSpec => []RunInv
<1>1. RunInit => RunInv
  BY InitHolds
<1>2. RunInv /\ [RunNext]_runVars => RunInv'
  BY NextKeeps
<1> QED
  BY <1>1, <1>2, PTL DEF RunSpec

\* The rows of the run and the process's memory keep their types.
THEOREM RunTypesCorrect == RunSpec => []RunTypeOK
<1>1. RunInv => RunTypeOK
  BY DEF RunInv
<1> QED
  BY <1>1, RunInvariant, PTL

\* However many threads request, cancel and resume the run, across exceptions
\* and restarts: at most one worker drives it, the run is active while it does,
\* and the registered cancellation event is that worker's.  An active run of a
\* process that serves has a worker, unless its failure could not be recorded
\* or it was pending when the process before ended.
THEOREM OneWorkerDrives == RunSpec => []OneDriverHears
<1>1. RunInv => OneDriverHears
  BY DEF RunInv, DriveHolds, PlaceHolds, ServerInv, OneDriverHears
<1> QED
  BY <1>1, RunInvariant, PTL

\* The steps of the run follow its turns wherever a drive is interrupted, so
\* that what inspect_agent_run_recovery looks for is there when the run is
\* resumed, and a run is completed only with an answer and a step for each turn.
THEOREM StepsKeepUp == RunSpec => []StepsFollowTurns
<1>1. ASSUME RunInv, RunEnded, Len(steps) > run.turns
      PROVE  Last(steps) \in {"pending", "running", "failed", "cancelled", "timed_out"}
  <2>1. steps \in Seq(StepStatus) /\ run.turns \in Nat
    BY <1>1 DEF RunInv, RunTypeOK, RunRow
  <2>2. Len(steps) \in DOMAIN steps
    BY <1>1, <2>1
  <2>3. Last(steps) \in StepStatus
    BY <2>1, <2>2 DEF Last
  <2>4. Last(steps) \notin {"completed", "max_steps_reached"}
    BY <1>1 DEF RunInv, StepsInv
  <2> QED
    BY <2>3, <2>4 DEF StepStatus, EndStatus, ResumableStatus
<1>2. RunInv => StepsFollowTurns
  BY <1>1 DEF RunInv, StepsInv, StepsFollowTurns
<1> QED
  BY <1>2, RunInvariant, PTL


-----------------------------------------------------------------------------
(* What the client was promised. *)

\* The client sees nothing of a step that keeps the status and the turns.
LEMMA UnseenKeeps ==
  ASSUME run'.status = run.status, run'.turns = run.turns
  PROVE  UNCHANGED RunPromise!promise
BY DEF RunPromise!promise, runStatus

\* Submission, resumption and the restart.
LEMMA RequestsKeepPromise ==
  ASSUME RunInv, SubmitRun \/ StartServer \/ \E c \in Requester : ResumeQueued(c)
  PROVE  [RunPromise!Next]_(RunPromise!promise)
<1>1. run \in RunRow
  BY DEF RunInv, RunTypeOK
<1>2. CASE SubmitRun
  <2>1. /\ run.status = "absent" /\ run'.status = "pending" /\ run'.turns = run.turns
    BY <1>1, <1>2 DEF SubmitRun, RunRow
  <2>2. RunPromise!Submit
    BY <2>1 DEF RunPromise!Submit, runStatus
  <2> QED
    BY <2>2 DEF RunPromise!Next
<1>3. CASE StartServer
  <2>1. CASE run.status = "running"
    <3>1. run'.status = "failed" /\ run'.turns = run.turns
      BY <1>1, <1>3, <2>1 DEF StartServer, RunRow
    <3>2. runStatus = "working" /\ runStatus' = "failed"
      BY <2>1, <3>1 DEF runStatus
    <3>3. RunPromise!End
      BY <3>1, <3>2 DEF RunPromise!End, RunPromise!Resumable
    <3> QED
      BY <3>3 DEF RunPromise!Next
  <2>2. CASE run.status # "running"
    BY <1>3, <2>2, UnseenKeeps DEF StartServer
  <2> QED
    BY <2>1, <2>2
<1>4. CASE \E c \in Requester : ResumeQueued(c)
  <2>1. CASE run.status \in ResumableStatus
    <3>1. run'.status = "pending" /\ run'.turns = run.turns
      <4>1. run' = [run EXCEPT !.status = "pending", !.answer = FALSE]
        BY <1>4, <2>1 DEF ResumeQueued
      <4> QED
        BY <1>1, <4>1 DEF RunRow
    <3>2. runStatus \in RunPromise!Resumable /\ runStatus' = "queued"
      BY <2>1, <3>1 DEF runStatus, ResumableStatus, RunPromise!Resumable
    <3>3. RunPromise!Resume
      BY <3>1, <3>2 DEF RunPromise!Resume
    <3> QED
      BY <3>3 DEF RunPromise!Next
  <2>2. CASE run.status \notin ResumableStatus
    BY <1>4, <2>2, UnseenKeeps DEF ResumeQueued
  <2> QED
    BY <2>1, <2>2
<1> QED
  BY <1>2, <1>3, <1>4

\* The worker's claim, a response, and the three ends of a drive.
LEMMA DrivesKeepPromise ==
  ASSUME RunInv, NEW d \in Driver,
         ClaimRun(d) \/ Answer(d) \/ RecordResult(d) \/ FinishRun(d) \/ MarkFailed(d)
  PROVE  [RunPromise!Next]_(RunPromise!promise)
<1>1. Drives(d)
  BY DEF ClaimRun, Answer, RecordResult, FinishRun, MarkFailed, At, Drives
<1>2. PlaceHolds(driver[d]) /\ RunActive /\ run \in RunRow /\ run.turns \in Nat
  BY <1>1, WorkerFacts
<1>3. CASE ClaimRun(d)
  <2>1. run'.status = "running" /\ run'.turns = run.turns
    BY <1>2, <1>3 DEF ClaimRun, RunRow
  <2>2. CASE run.status = "pending"
    <3>1. RunPromise!Begin
      BY <2>1, <2>2 DEF RunPromise!Begin, runStatus
    <3> QED
      BY <3>1 DEF RunPromise!Next
  <2>3. CASE run.status = "running"
    BY <2>1, <2>3, UnseenKeeps
  <2> QED
    BY <1>2, <2>2, <2>3 DEF RunActive, ActiveStatus
<1>4. CASE Answer(d)
  <2>1. /\ run.status = "running" /\ run'.status = "running" /\ run'.turns = run.turns + 1
    BY <1>2, <1>4 DEF Answer, At, PlaceHolds, RunRow
  <2>2. RunPromise!Turn
    BY <2>1 DEF RunPromise!Turn, runStatus
  <2> QED
    BY <2>2 DEF RunPromise!Next
<1>5. CASE RecordResult(d)
  <2>1. run'.status = run.status /\ run'.turns = run.turns
    BY <1>2, <1>5 DEF RecordResult, RunRow
  <2> QED
    BY <2>1, UnseenKeeps
<1>6. CASE FinishRun(d)
  <2>1. /\ run.status = "running" /\ driver[d].result \in EndStatus
        /\ run'.status = driver[d].result /\ run'.turns = run.turns
    BY <1>2, <1>6 DEF FinishRun, At, PlaceHolds, RunRow
  <2>2. runStatus = "working" /\ runStatus' \in RunPromise!Resumable \cup {"completed"}
    BY <2>1 DEF runStatus, EndStatus, ResumableStatus, RunPromise!Resumable
  <2>3. RunPromise!End
    BY <2>1, <2>2 DEF RunPromise!End
  <2> QED
    BY <2>3 DEF RunPromise!Next
<1>7. CASE MarkFailed(d)
  <2>1. CASE UNCHANGED run
    BY <2>1, UnseenKeeps
  <2>2. CASE run' = [run EXCEPT !.status = "failed"]
    <3>1. run'.status = "failed" /\ run'.turns = run.turns
      BY <1>2, <2>2 DEF RunRow
    <3>2. runStatus \in {"queued", "working"} /\ runStatus' = "failed"
      BY <1>2, <3>1 DEF runStatus, RunActive, ActiveStatus
    <3>3. RunPromise!End
      BY <3>1, <3>2 DEF RunPromise!End, RunPromise!Resumable
    <3> QED
      BY <3>3 DEF RunPromise!Next
  <2> QED
    BY <1>7, <2>1, <2>2 DEF MarkFailed
<1> QED
  BY <1>3, <1>4, <1>5, <1>6, <1>7

LEMMA StepKeepsPromise ==
  ASSUME RunInv, [RunNext]_runVars
  PROVE  [RunPromise!Next]_(RunPromise!promise)
<1>1. CASE SubmitRun \/ StartServer \/ \E c \in Requester : ResumeQueued(c)
  BY <1>1, RequestsKeepPromise
<1>2. CASE \E d \in Driver :
             ClaimRun(d) \/ Answer(d) \/ RecordResult(d) \/ FinishRun(d) \/ MarkFailed(d)
  BY <1>2, DrivesKeepPromise
<1>3. CASE CancelRun \/ StreamSeesEnd \/ StopServer \/ UNCHANGED runVars
  BY <1>3, UnseenKeeps DEF CancelRun, StreamSeesEnd, StopServer, runVars, rowVars
<1>4. CASE \E c \in Requester : ResumeChecked(c)
  BY <1>4, UnseenKeeps DEF ResumeChecked, rowVars
<1>5. ASSUME NEW d \in Driver,
             \/ NewStep(d) \/ ReopenStep(d) \/ KeepStep(d) \/ StepRefused(d) \/ PromoteStep(d)
             \/ Ask(d) \/ CallTool(d) \/ ToolDone(d) \/ NextTurn(d) \/ RemoveEvent(d) \/ Raise(d)
      PROVE  UNCHANGED RunPromise!promise
  BY <1>5, UnseenKeeps
  DEF NewStep, ReopenStep, KeepStep, StepRefused, PromoteStep, Ask, CallTool, ToolDone,
      NextTurn, RemoveEvent, Raise, rowVars
<1>6. ASSUME NEW d \in Driver, Interrupted(d) \/ RequestFails(d) \/ Complete(d)
      PROVE  UNCHANGED RunPromise!promise
  BY <1>6, UnseenKeeps
  DEF Interrupted, RequestFails, Complete, StopAtBoundary, Stop, rowVars
<1> QED
  BY <1>1, <1>2, <1>3, <1>4, <1>5, <1>6 DEF RunNext, Drive

\* The row of the run does only what its client was promised, whatever races,
\* exceptions and restarts come: it works only after it was queued, each
\* response adds one turn and nothing else changes their number, it ends once,
\* and only an end other than completion is taken up again.
THEOREM ClientPromiseKept == RunSpec => KeepsRunContract
<1>1. RunInit => RunPromise!Init
  BY DEF RunInit, NoRun, RunPromise!Init, runStatus
<1>2. RunInv /\ [RunNext]_runVars => [RunPromise!Next]_(RunPromise!promise)
  BY StepKeepsPromise
<1> QED
  BY <1>1, <1>2, RunInvariant, PTL DEF RunSpec, RunPromise!Spec, KeepsRunContract
-----------------------------------------------------------------------------
LEMMA LeastNumber ==
  ASSUME NEW S \in SUBSET Nat, S # {}
  PROVE  \E n \in S : \A k \in S : n <= k
<1>1. PICK n \in S : \A k \in S : ~(<<k, n>> \in OpToRel(<, Nat))
  BY NatLessThanWellFounded, WFMin
<1>2. \A k \in S : ~(k < n)
  BY <1>1 DEF OpToRel
<1> QED
  BY <1>2

-----------------------------------------------------------------------------
(* The tokens of model runs. *)

\* f sums up the values w.
Sums(f, w, n) == f = [i \in 0..n |-> IF i = 0 THEN 0 ELSE f[i - 1] + w[i]]

SumsUpTo(f, w, n) == \A i \in 0..n : f[i] = IF i = 0 THEN 0 ELSE f[i - 1] + w[i]

LEMMA SumsExist ==
  ASSUME NEW w, NEW n \in Nat
  PROVE  \E f : Sums(f, w, n)
<1> DEFINE bad == {i \in Nat : ~\E f : Sums(f, w, i)}
<1>1. SUFFICES ASSUME n \in bad PROVE FALSE
  OBVIOUS
<1>2. PICK k \in bad : \A i \in bad : k <= i
  BY <1>1, LeastNumber
<1>3. k # 0
  <2>1. Sums([i \in 0..0 |-> 0], w, 0)
    BY DEF Sums
  <2> QED
    BY <1>2, <2>1
<1>4. k - 1 \in Nat /\ k - 1 \notin bad
  BY <1>2, <1>3
<1>5. PICK f : Sums(f, w, k - 1)
  BY <1>4
<1>6. \A i \in 0..(k - 1) : f[i] = IF i = 0 THEN 0 ELSE f[i - 1] + w[i]
  BY <1>5 DEF Sums
<1> DEFINE g == [i \in 0..k |-> IF i = k THEN f[k - 1] + w[k] ELSE f[i]]
<1>7. ASSUME NEW i \in 0..k PROVE g[i] = IF i = 0 THEN 0 ELSE g[i - 1] + w[i]
  BY <1>3, <1>4, <1>6
<1>8. Sums(g, w, k)
  BY <1>7 DEF Sums
<1> QED
  BY <1>8, <1>2

\* There is one sum of the first n values.
LEMMA SumsAgree ==
  ASSUME NEW w, NEW f, NEW g, NEW n \in Nat, SumsUpTo(f, w, n), SumsUpTo(g, w, n)
  PROVE  f[n] = g[n]
<1> DEFINE bad == {i \in 0..n : f[i] # g[i]}
<1>1. SUFFICES ASSUME n \in bad PROVE FALSE
  OBVIOUS
<1>2. bad \in SUBSET Nat /\ bad # {}
  BY <1>1
<1>3. PICK k \in bad : \A i \in bad : k <= i
  BY <1>2, LeastNumber
<1>4. /\ f[k] = IF k = 0 THEN 0 ELSE f[k - 1] + w[k]
      /\ g[k] = IF k = 0 THEN 0 ELSE g[k - 1] + w[k]
  BY DEF SumsUpTo
<1>5. k # 0
  BY <1>4
<1>6. k - 1 \in 0..n /\ k - 1 \notin bad
  BY <1>3, <1>5
<1> QED
  BY <1>4, <1>5, <1>6

Reported(runs) == [i \in 1..Len(runs) |-> runs[i].metrics["total_tokens"]]

LEMMA TokensAreSums ==
  ASSUME NEW runs, Len(runs) \in Nat
  PROVE  \E f : Sums(f, Reported(runs), Len(runs)) /\ Tokens(runs) = f[Len(runs)]
<1> DEFINE w == [i \in 1..Len(runs) |-> runs[i].metrics["total_tokens"]]
<1> DEFINE sum == CHOOSE f : f = [i \in 0..Len(runs) |-> IF i = 0 THEN 0 ELSE f[i - 1] + runs[i].metrics["total_tokens"]]
<1>1. PICK g : Sums(g, w, Len(runs))
  BY SumsExist
<1>2. ASSUME NEW f PROVE Sums(f, w, Len(runs)) <=> f = [i \in 0..Len(runs) |-> IF i = 0 THEN 0 ELSE f[i - 1] + runs[i].metrics["total_tokens"]]
  <2>1. \A i \in 0..Len(runs) : i = 0 \/ w[i] = runs[i].metrics["total_tokens"]
    OBVIOUS
  <2>2. [i \in 0..Len(runs) |-> IF i = 0 THEN 0 ELSE f[i - 1] + w[i]]
          = [i \in 0..Len(runs) |-> IF i = 0 THEN 0 ELSE f[i - 1] + runs[i].metrics["total_tokens"]]
    BY <2>1
  <2> QED
    BY <2>2 DEF Sums
<1>3. Sums(sum, w, Len(runs))
  BY <1>1, <1>2
<1>4. Tokens(runs) = sum[Len(runs)]
  BY DEF Tokens
<1> QED
  BY <1>3, <1>4 DEF Reported

LEMMA TokensOfNone == Tokens(<<>>) = 0
<1>1. PICK none : none = <<>> /\ Len(none) = 0
  OBVIOUS
<1>2. Len(none) \in Nat
  BY <1>1
<1>3. PICK f : Sums(f, Reported(none), Len(none)) /\ Tokens(none) = f[Len(none)]
  BY <1>2, TokensAreSums
<1> QED
  BY <1>1, <1>3 DEF Sums

LEMMA TokensOfMore ==
  ASSUME NEW S, NEW runs \in Seq(S), NEW r \in S
  PROVE  Tokens(Append(runs, r)) = Tokens(runs) + r.metrics["total_tokens"]
<1>1. PICK more : more = Append(runs, r)
  OBVIOUS
<1>2. Len(Append(runs, r)) = Len(runs) + 1 /\ Append(runs, r)[Len(runs) + 1] = r
      /\ \A i \in 1..Len(runs) : Append(runs, r)[i] = runs[i]
  OBVIOUS
<1>3. Len(runs) \in Nat /\ Len(more) = Len(runs) + 1 /\ more[Len(more)] = r
      /\ \A i \in 1..Len(runs) : more[i] = runs[i]
  BY <1>1, <1>2
<1>8. Len(more) \in Nat
  BY <1>3
<1>4. PICK f : Sums(f, Reported(runs), Len(runs)) /\ Tokens(runs) = f[Len(runs)]
  BY <1>3, TokensAreSums
<1>5. PICK g : Sums(g, Reported(more), Len(more)) /\ Tokens(more) = g[Len(more)]
  BY <1>8, TokensAreSums
<1>6. \A i \in 1..Len(runs) : Reported(runs)[i] = Reported(more)[i]
  BY <1>3 DEF Reported
<1>7. Reported(more)[Len(more)] = r.metrics["total_tokens"]
  BY <1>3 DEF Reported
<1>9. f[Len(runs)] = g[Len(runs)]
  <2>1. SumsUpTo(f, Reported(runs), Len(runs))
    BY <1>3, <1>4 DEF Sums, SumsUpTo
  <2>2. SumsUpTo(g, Reported(more), Len(more))
    BY <1>5, <1>8 DEF Sums, SumsUpTo
  <2>3. SumsUpTo(g, Reported(runs), Len(runs))
    BY <1>3, <1>6, <2>2 DEF SumsUpTo
  <2> QED
    BY <1>3, <2>1, <2>3, SumsAgree
<1>10. g[Len(more)] = g[Len(runs)] + Reported(more)[Len(more)]
  BY <1>3, <1>5, <1>8 DEF Sums
<1> QED
  BY <1>1, <1>4, <1>5, <1>7, <1>9, <1>10
-----------------------------------------------------------------------------
(* The timeline. *)

\* The summaries are the same, or one more has come at the end.
TimelineStays == Places' = Places /\ \A p \in Places : Summary(p)' = Summary(p)
TimelineGains(message, place) ==
  /\ Places' = Places \cup {place} /\ place \notin Places
  /\ Summary(place)' = message
  /\ \A p \in Places : Summary(p)' = Summary(p) /\ Precedes(p, place)

LEMMA PlacesStay ==
  ASSUME TimelineStays, NEW m
  PROVE  PlacesOf(m)' = PlacesOf(m)
BY DEF TimelineStays, PlacesOf

LEMMA StillInTimeline ==
  ASSUME TimelineStays, NEW c
  PROVE  InTimeline(c)' <=> InTimeline(c)
<1>1. ASSUME NEW j \in 2..Len(c) PROVE PlacesOf(c[j])' = PlacesOf(c[j])
  BY PlacesStay
<1>2. ASSUME NEW j \in 2..Len(c), NEW i \in 1..(j - 1) PROVE PlacesOf(c[i])' = PlacesOf(c[i])
  BY PlacesStay
<1> QED
  BY <1>1, <1>2 DEF InTimeline, Precedes

LEMMA PlacesGain ==
  ASSUME NEW n, NEW place, TimelineGains(n, place), NEW m
  PROVE  PlacesOf(m)' = IF m = n THEN PlacesOf(m) \cup {place} ELSE PlacesOf(m)
BY DEF TimelineGains, PlacesOf

\* What is in the timeline stays in it, whatever is recorded after it.
LEMMA InLongerTimeline ==
  ASSUME NEW n, NEW place, TimelineGains(n, place), NEW S, NEW c \in Seq(S), InTimeline(c)
  PROVE  InTimeline(c)'
<1>1. ASSUME NEW j \in 2..Len(c)
      PROVE  /\ PlacesOf(c[j])' # {}
             /\ \A q \in PlacesOf(c[j])', i \in 1..(j - 1) : \E p \in PlacesOf(c[i])' : Precedes(p, q)
  <2>1. PlacesOf(c[j]) # {} /\ PlacesOf(c[j]) \subseteq PlacesOf(c[j])'
    BY PlacesGain DEF InTimeline
  <2>2. ASSUME NEW q \in PlacesOf(c[j])', NEW i \in 1..(j - 1)
        PROVE  \E p \in PlacesOf(c[i])' : Precedes(p, q)
    <3>1. PlacesOf(c[i]) \subseteq PlacesOf(c[i])'
      BY PlacesGain
    <3>2. CASE q \in PlacesOf(c[j])
      <4>1. \E p \in PlacesOf(c[i]) : Precedes(p, q)
        BY <3>2 DEF InTimeline
      <4> QED
        BY <3>1, <4>1
    <3>3. CASE q \notin PlacesOf(c[j])
      <4>1. q = place
        BY <3>3, PlacesGain
      <4>2. PICK r \in PlacesOf(c[j]) : TRUE
        BY <2>1
      <4>3. PICK p \in PlacesOf(c[i]) : Precedes(p, r)
        BY <4>2 DEF InTimeline
      <4>4. Precedes(p, place)
        BY <4>3 DEF TimelineGains, PlacesOf
      <4> QED
        BY <3>1, <4>1, <4>4
    <3> QED
      BY <3>2, <3>3
  <2> QED
    BY <2>1, <2>2
<1> QED
  BY <1>1 DEF InTimeline, Precedes

\* A message recorded for the first time comes after the whole context it follows.
LEMMA FollowsInTimeline ==
  ASSUME NEW n, NEW place, TimelineGains(n, place), NEW S, NEW c \in Seq(S), c # <<>>, n \in S,
         InTimeline(c), PlacesOf(c[1]) # {}, PlacesOf(n) = {}
  PROVE  InTimeline(Append(c, n))'
<1>1. PICK d : d = Append(c, n)
  OBVIOUS
<1>2. /\ Len(Append(c, n)) = Len(c) + 1 /\ Append(c, n)[Len(c) + 1] = n
      /\ \A i \in 1..Len(c) : Append(c, n)[i] = c[i]
  OBVIOUS
<1>3. Len(c) \in Nat \ {0} /\ Len(d) = Len(c) + 1 /\ d[Len(d)] = n /\ \A i \in 1..Len(c) : d[i] = c[i]
  BY <1>1, <1>2
<1>4. InTimeline(c)'
  BY InLongerTimeline
<1>5. ASSUME NEW j \in 2..Len(d), j # Len(d)
      PROVE  /\ PlacesOf(d[j])' # {}
             /\ \A q \in PlacesOf(d[j])', i \in 1..(j - 1) : \E p \in PlacesOf(d[i])' : Precedes(p, q)
  <2>1. j \in 2..Len(c) /\ d[j] = c[j] /\ \A i \in 1..(j - 1) : d[i] = c[i]
    BY <1>3, <1>5
  <2> QED
    BY <1>4, <2>1 DEF InTimeline, Precedes
<1>6. PlacesOf(n)' = {place}
  BY PlacesGain
<1>7. ASSUME NEW i \in 1..Len(c) PROVE \E p \in PlacesOf(c[i])' : Precedes(p, place)
  <2>1. PlacesOf(c[i]) # {}
    <3>1. CASE i = 1
      BY <3>1
    <3>2. CASE i # 1
      <4>1. i \in 2..Len(c)
        BY <1>3, <3>2
      <4> QED
        BY <4>1 DEF InTimeline
    <3> QED
      BY <3>1, <3>2
  <2>2. PICK p \in PlacesOf(c[i]) : TRUE
    BY <2>1
  <2>3. Precedes(p, place)
    BY <2>2 DEF TimelineGains, PlacesOf
  <2> QED
    BY <2>2, <2>3, PlacesGain
<1>8. ASSUME NEW j \in 2..Len(d), j = Len(d)
      PROVE  /\ PlacesOf(d[j])' # {}
             /\ \A q \in PlacesOf(d[j])', i \in 1..(j - 1) : \E p \in PlacesOf(d[i])' : Precedes(p, q)
  <2>1. d[j] = n /\ j - 1 = Len(c) /\ \A i \in 1..(j - 1) : d[i] = c[i]
    BY <1>3, <1>8
  <2> QED
    BY <1>6, <1>7, <2>1
<1>9. InTimeline(d)'
  BY <1>5, <1>8 DEF InTimeline, Precedes
<1> QED
  BY <1>1, <1>9

LEMMA Numbered ==
  ASSUME RecordTypeOK, NEW i \in DOMAIN stepRows
  PROVE  \E k \in Nat : Numbers(i) = 0..(k - 1) /\ stepRows[i].messages \in [0..(k - 1) -> MessageRow]
<1>1. stepRows \in Seq(StepRow)
  BY DEF RecordTypeOK
<1>2. stepRows[i] \in StepRow
  BY <1>1
<1> QED
  BY <1>2 DEF StepRow, Numbers

LEMMA SummariesAreRows ==
  ASSUME RecordTypeOK, NEW p \in Places
  PROVE  Summary(p) \in MessageRow
<1>1. PICK i \in DOMAIN stepRows : p \in {i} \X Numbers(i)
  BY DEF Places
<1>2. p[1] = i /\ p[2] \in Numbers(i)
  BY <1>1
<1>3. PICK k \in Nat : Numbers(i) = 0..(k - 1) /\ stepRows[i].messages \in [0..(k - 1) -> MessageRow]
  BY Numbered
<1> QED
  BY <1>2, <1>3 DEF Summary

LEMMA NextIsFree ==
  ASSUME RecordTypeOK, loop.step \in DOMAIN stepRows
  PROVE  NextNumber \in Nat /\ Numbers(loop.step) = 0..(NextNumber - 1)
<1>1. PICK k \in Nat : Numbers(loop.step) = 0..(k - 1)
  BY Numbered
<1>2. CASE k = 0
  BY <1>1, <1>2 DEF NextNumber
<1>3. CASE k # 0
  <2>1. k - 1 \in 0..(k - 1) /\ \A n \in 0..(k - 1) : k - 1 >= n
    BY <1>3
  <2>2. \A n \in 0..(k - 1) : (\A o \in 0..(k - 1) : n >= o) => n = k - 1
    BY <1>3
  <2>3. Max(0..(k - 1)) = k - 1
    BY <2>1, <2>2 DEF Max
  <2> QED
    BY <1>1, <1>3, <2>1, <2>3 DEF NextNumber
<1> QED
  BY <1>2, <1>3

LEMMA Keeping ==
  ASSUME RecordTypeOK, loop.step = Len(stepRows), loop.step > 0,
         NEW m \in MessageRow, NEW no \in Nat, Numbers(loop.step) = 0..(no - 1), NEW next, Keep(m, no, next)
  PROVE  /\ TimelineGains(m, <<Len(stepRows), no>>)
         /\ stepRows' \in Seq(StepRow) /\ Len(stepRows') = Len(stepRows)
         /\ Numbers(loop.step)' = 0..no
         /\ loop' = [loop EXCEPT !.pc = next, !.no = no + 1]
         /\ UNCHANGED <<agentRow, modelRuns, toolRows, made>>
<1>0. PICK s : s = Len(stepRows)
  OBVIOUS
<1>a. PICK row : row = [stepRows[s] EXCEPT !.messages = [n \in DOMAIN @ \cup {no} |-> IF n = no THEN m ELSE @[n]]]
  OBVIOUS
<1>1. stepRows \in Seq(StepRow) /\ s \in Nat /\ DOMAIN stepRows = 1..s /\ s \in 1..s
  BY <1>0 DEF RecordTypeOK
<1>2. no \notin Numbers(loop.step)
  OBVIOUS
<1>3. /\ stepRows' = [stepRows EXCEPT ![loop.step].messages = [n \in DOMAIN @ \cup {no} |-> IF n = no THEN m ELSE @[n]]]
      /\ loop' = [loop EXCEPT !.pc = next, !.no = no + 1]
      /\ UNCHANGED <<agentRow, modelRuns, toolRows, made>>
  BY <1>2 DEF Keep
<1>4. stepRows' = [stepRows EXCEPT ![s] = row]
  BY <1>0, <1>a, <1>3
<1>5. stepRows[s] \in StepRow /\ stepRows[s].messages \in [0..(no - 1) -> MessageRow]
  BY <1>0, <1>1, Numbered DEF Numbers
<1>6. /\ row.messages \in [0..no -> MessageRow] /\ row.messages[no] = m
      /\ \A n \in 0..(no - 1) : row.messages[n] = stepRows[s].messages[n]
  <2>1. PICK old : old = stepRows[s].messages /\ old \in [0..(no - 1) -> MessageRow]
    BY <1>5
  <2>2. row.messages = [n \in DOMAIN old \cup {no} |-> IF n = no THEN m ELSE old[n]]
    BY <1>a, <1>5, <2>1 DEF StepRow
  <2>3. DOMAIN old \cup {no} = 0..no /\ no \notin 0..(no - 1)
    BY <2>1
  <2> QED
    BY <2>1, <2>2, <2>3
<1>7. row \in StepRow
  <2>1. no + 1 \in Nat /\ 0..((no + 1) - 1) = 0..no
    OBVIOUS
  <2>2. row.messages \in UNION {[0..(k - 1) -> MessageRow] : k \in Nat}
    BY <1>6, <2>1
  <2>3. row.status = stepRows[s].status /\ row = [status |-> row.status, messages |-> row.messages]
    BY <1>a, <1>5 DEF StepRow
  <2> QED
    BY <1>5, <2>2, <2>3 DEF StepRow
<1>8. stepRows' \in Seq(StepRow) /\ Len(stepRows') = s /\ DOMAIN stepRows' = 1..s
  BY <1>1, <1>4, <1>7
<1>9. stepRows'[s] = row /\ \A i \in 1..s : i # s => stepRows'[i] = stepRows[i]
  BY <1>1, <1>4
<1>10. Numbers(s)' = 0..no /\ \A i \in 1..s : i # s => Numbers(i)' = Numbers(i)
  BY <1>6, <1>9 DEF Numbers
<1>11. Numbers(loop.step)' = 0..no
  <2>1. loop'.step = s
    BY <1>0, <1>3 DEF RecordTypeOK, LoopRecord
  <2> QED
    BY <1>10, <2>1 DEF Numbers
<1>15. Numbers(s) = 0..(no - 1)
  BY <1>0
<1>16. \A i \in 1..s : Numbers(i)' = IF i = s THEN Numbers(i) \cup {no} ELSE Numbers(i)
  <2>1. 0..no = (0..(no - 1)) \cup {no}
    OBVIOUS
  <2> QED
    BY <1>10, <1>15, <2>1
<1>12. Places' = Places \cup {<<s, no>>} /\ <<s, no>> \notin Places
  <2>1. <<s, no>> \notin Places
    BY <1>15 DEF Places
  <2>2. Places' = UNION {{i} \X Numbers(i)' : i \in 1..s}
    BY <1>8 DEF Places
  <2>3. Places = UNION {{i} \X Numbers(i) : i \in 1..s}
    BY <1>1 DEF Places
  <2>4. ASSUME NEW p PROVE p \in Places' <=> p \in Places \/ p = <<s, no>>
    BY <1>1, <1>16, <2>2, <2>3
  <2> QED
    BY <2>1, <2>4
<1>13. Summary(<<s, no>>)' = m
  BY <1>6, <1>9 DEF Summary
<1>14. ASSUME NEW p \in Places PROVE Summary(p)' = Summary(p) /\ Precedes(p, <<s, no>>)
  <2>1. PICK i \in 1..s : p \in {i} \X Numbers(i)
    BY <1>1 DEF Places
  <2>2. p[1] = i /\ p[2] \in Numbers(i)
    BY <2>1
  <2>3. CASE i = s
    <3>1. p[2] \in 0..(no - 1)
      BY <1>15, <2>2, <2>3
    <3> QED
      BY <1>6, <1>9, <2>2, <2>3, <3>1 DEF Summary, Precedes
  <2>4. CASE i # s
    BY <1>1, <1>9, <2>2, <2>4 DEF Summary, Precedes
  <2> QED
    BY <2>3, <2>4
<1> QED
  BY <1>0, <1>3, <1>8, <1>11, <1>12, <1>13, <1>14 DEF TimelineGains

-----------------------------------------------------------------------------
(* The invariant of the records, part by part *)

\* What holds of the row of the run, whether a worker drives it or not.
RowHolds ==
  /\ agentRow.context # <<>> /\ agentRow.context[1] = Prompt
  /\ ContextIsRecorded /\ AnswerIsRecorded

LEMMA AnswerStaysRecorded ==
  ASSUME AnswerIsRecorded, agentRow'.answer \in {agentRow.answer, "none", "refusal"},
         Places \subseteq Places', \A p \in Places : Summary(p)' = Summary(p)
  PROVE  AnswerIsRecorded'
BY DEF AnswerIsRecorded, Precedes

\* A row whose context and answer stay is explained by a timeline that only grows.
LEMMA RowStays ==
  ASSUME RecordTypeOK, RowHolds, agentRow'.context = agentRow.context,
         agentRow'.answer \in {agentRow.answer, "none", "refusal"},
         TimelineStays \/ \E n, place : TimelineGains(n, place)
  PROVE  RowHolds'
<1>1. agentRow.context \in Seq(MessageRow)
  BY DEF RecordTypeOK, RecordRow
<1>2. PICK c : c = agentRow.context
  OBVIOUS
<1>3. InTimeline(c)'
  <2>1. InTimeline(c)
    BY <1>2 DEF RowHolds, ContextIsRecorded
  <2>2. CASE TimelineStays
    BY <2>1, <2>2, StillInTimeline
  <2>3. ASSUME NEW n, NEW place, TimelineGains(n, place) PROVE InTimeline(c)'
    BY <1>1, <1>2, <2>1, <2>3, InLongerTimeline
  <2> QED
    BY <2>2, <2>3
<1>4. ContextIsRecorded'
  <2>1. c = agentRow'.context
    BY <1>2
  <2> QED
    BY <1>3, <2>1 DEF ContextIsRecorded, InTimeline
<1>5. AnswerIsRecorded'
  BY AnswerStaysRecorded DEF RowHolds, TimelineStays, TimelineGains
<1> QED
  BY <1>4, <1>5 DEF RowHolds

LEMMA NothingRecorded ==
  ASSUME stepRows' = stepRows
  PROVE  TimelineStays
BY DEF TimelineStays, Places, Numbers, Summary

\* The accumulator and the model runs stay.
LEMMA UsageStays ==
  ASSUME UsageInv, modelRuns' = modelRuns, loop'.from = loop.from, loop'.answered = loop.answered,
         loop'.complete = loop.complete, loop'.tokens = loop.tokens, loop.pc # "usage", loop'.pc # "usage"
  PROVE  UsageInv'
<1>1. Mine' = Mine
  BY DEF Mine
<1>2. Silent(Mine)' = Silent(Mine) /\ Tokens(Mine)' = Tokens(Mine)
  BY <1>1 DEF Silent, Tokens, ToSet
<1> QED
  BY <1>1, <1>2 DEF UsageInv

LEMMA NewLoopTyped == NewLoop \in LoopRecord /\ NewLoop.pc = "queued"
<1>1. <<>> \in Seq(MessageRow)
  OBVIOUS
<1> QED
  BY <1>1 DEF NewLoop, LoopRecord, LoopState

LEMMA LoseKeeps ==
  ASSUME RecordInv, Lose
  PROVE  RecordInv'
<1>1. RecordTypeOK'
  <2>1. NoLoop \in LoopRecord
    BY NewLoopTyped DEF NoLoop, LoopRecord, LoopState
  <2>2. agentRow' \in RecordRow
    BY DEF Lose, RecordInv, RecordTypeOK, RecordRow
  <2> QED
    BY <2>1, <2>2 DEF RecordInv, RecordTypeOK, Lose
<1>2. TimelineStays
  BY NothingRecorded DEF Lose
<1>3. agentRow'.context = agentRow.context /\ agentRow'.answer = agentRow.answer /\ agentRow'.turns = agentRow.turns
  BY DEF Lose, RecordInv, RecordTypeOK, RecordRow
<1>4. RowHolds'
  BY <1>2, <1>3, RowStays DEF RecordInv, RowHolds
<1>5. loop'.pc = "gone"
  BY DEF Lose, NoLoop, NewLoop
<1>6. RowsInv'
  <2>1. \A p \in Places' : Summary(p)'.kind = "call" \/ Summary(p)'.id <= made
    <3>1. \A p \in Places : Summary(p).kind = "call" \/ Summary(p).id <= made
      <4>1. \A p \in Places : Summary(p).id \in Nat
        BY SummariesAreRows DEF RecordInv, MessageRow
      <4>2. \A p \in Places : Summary(p).kind = "call" \/ Summary(p).id <= IF Unrecorded THEN made - 1 ELSE made
        BY DEF RecordInv, RowsInv
      <4>3. made \in Nat
        BY DEF RecordInv, RecordTypeOK
      <4> QED
        BY <4>1, <4>2, <4>3
    <3> QED
      BY <1>2, <3>1 DEF TimelineStays
  <2>2. \A i \in 1..agentRow'.turns : \E m \in ToSet(modelRuns') : m.step = i
    BY <1>3 DEF RecordInv, RowsInv, Lose
  <2> QED
    BY <1>3, <1>5, <2>1, <2>2 DEF RecordInv, RowsInv, Lose, Unrecorded
<1> QED
  BY <1>1, <1>4, <1>5, <1>6 DEF RecordInv, RowHolds, Driving

\* What a driving worker's state says of the rows, for the proofs of its actions.
LEMMA DriveFacts ==
  ASSUME RecordInv, Driving
  PROVE  /\ InHandInv /\ KnownInv /\ UsageInv /\ RowHolds /\ RowsInv /\ RecordTypeOK
         /\ agentRow \in RecordRow /\ loop \in LoopRecord /\ made \in Nat
         /\ loop.context \in Seq(MessageRow) /\ loop.no \in Nat /\ loop.turn \in Nat
         /\ stepRows \in Seq(StepRow) /\ Len(stepRows) \in Nat /\ modelRuns \in Seq(ModelRunRow)
         /\ Last(loop.context) = loop.context[Len(loop.context)] /\ Last(loop.context) \in MessageRow
         /\ Len(loop.context) \in Nat \ {0} /\ loop.context[1] = Prompt
<1>1. /\ InHandInv /\ KnownInv /\ UsageInv /\ RowHolds /\ RowsInv /\ RecordTypeOK
      /\ agentRow \in RecordRow /\ loop \in LoopRecord /\ made \in Nat
      /\ stepRows \in Seq(StepRow) /\ modelRuns \in Seq(ModelRunRow)
  BY DEF RecordInv, RowHolds, RecordTypeOK
<1>2. loop.context \in Seq(MessageRow) /\ loop.no \in Nat /\ loop.turn \in Nat
  BY <1>1 DEF LoopRecord
<1>3. Len(loop.context) \in Nat \ {0} /\ loop.context[1] = Prompt
  BY <1>1, <1>2 DEF KnownInv
<1> QED
  BY <1>1, <1>2, <1>3 DEF Last

\* A message is kept: everything but the knowledge of the loop, which is about the message.
LEMMA KeepHolds ==
  ASSUME RecordInv, NEW next, NEW m \in MessageRow, NEW no \in Nat,
         <<loop.pc, next>> \in {<<"input", "asking">>, <<"response", "checkpoint">>, <<"answered", "call">>,
                               <<"called", "call">>, <<"result", "save">>},
         Numbers(loop.step) = 0..(no - 1), m.kind = "call" \/ m.id <= made, Keep(m, no, next)
  PROVE  /\ RecordTypeOK' /\ RowsInv' /\ RowHolds' /\ InHandInv' /\ UsageInv' /\ Driving'
         /\ TimelineGains(m, <<Len(stepRows), no>>)
         /\ loop' = [loop EXCEPT !.pc = next, !.no = no + 1]
         /\ loop'.context = loop.context /\ loop'.pc = next /\ loop'.left = loop.left /\ loop'.status = loop.status
         /\ UNCHANGED <<agentRow, made>>
<1>0. /\ loop.pc \in {"input", "response", "answered", "called", "result"}
      /\ next \in {"asking", "checkpoint", "call", "save"}
      /\ loop.pc = "input" <=> next = "asking"
      /\ loop.pc = "response" <=> next = "checkpoint"
  OBVIOUS
<1>1. Driving
  BY <1>0 DEF Driving
<1>2. loop.step = Len(stepRows) /\ loop.step > 0
  BY <1>0, <1>1, DriveFacts DEF InHandInv
<1>3. /\ TimelineGains(m, <<Len(stepRows), no>>)
      /\ stepRows' \in Seq(StepRow) /\ Len(stepRows') = Len(stepRows) /\ Numbers(loop.step)' = 0..no
      /\ loop' = [loop EXCEPT !.pc = next, !.no = no + 1]
      /\ UNCHANGED <<agentRow, modelRuns, toolRows, made>>
  BY <1>1, <1>2, Keeping, DriveFacts
<1>4. /\ loop'.pc = next /\ loop'.no = no + 1 /\ loop' \in LoopRecord
      /\ loop'.context = loop.context /\ loop'.turn = loop.turn /\ loop'.step = loop.step /\ loop'.left = loop.left
      /\ loop'.status = loop.status /\ loop'.answered = loop.answered /\ loop'.complete = loop.complete
      /\ loop'.tokens = loop.tokens /\ loop'.from = loop.from
  <2>1. no + 1 \in Nat
    OBVIOUS
  <2>2. next \in LoopState
    BY <1>0 DEF LoopState
  <2> QED
    BY <1>1, <1>3, <2>1, <2>2, DriveFacts DEF LoopRecord
<1>5. RecordTypeOK'
  BY <1>1, <1>3, <1>4, DriveFacts DEF RecordTypeOK
<1>6. RowHolds'
  BY <1>1, <1>3, DriveFacts, RowStays
<1>7. UsageInv'
  BY <1>0, <1>1, <1>3, <1>4, DriveFacts, UsageStays
<1>8. RowsInv'
  <2>1. ASSUME NEW p \in Places' PROVE Summary(p)'.kind = "call" \/ Summary(p)'.id <= made
    <3>1. CASE p \in Places
      <4>1. Summary(p)' = Summary(p) /\ Summary(p).id \in Nat
        BY <1>1, <1>3, <3>1, SummariesAreRows, DriveFacts DEF TimelineGains, MessageRow
      <4>2. Summary(p).kind = "call" \/ Summary(p).id <= IF Unrecorded THEN made - 1 ELSE made
        BY <1>1, <3>1, DriveFacts DEF RowsInv
      <4> QED
        BY <1>1, <4>1, <4>2, DriveFacts
    <3>2. CASE p \notin Places
      BY <1>3, <3>2 DEF TimelineGains
    <3> QED
      BY <3>1, <3>2
  <2>2. ~Unrecorded'
    BY <1>0, <1>4 DEF Unrecorded
  <2> QED
    BY <1>1, <1>3, <2>1, <2>2, DriveFacts DEF RowsInv
<1>9. InHandInv'
  <2>1. /\ loop'.turn = agentRow'.turns /\ loop'.step = Len(stepRows') /\ loop'.step > 0
    BY <1>1, <1>2, <1>3, <1>4, DriveFacts DEF InHandInv
  <2>2. Numbers(loop.step)' = 0..(loop'.no - 1)
    BY <1>3, <1>4
  <2>3. /\ next \in {"asking", "checkpoint"} => Len(stepRows') = agentRow'.turns + 1
        /\ next \in {"call", "save"} => Len(stepRows') = agentRow'.turns
    BY <1>0, <1>1, <1>3, DriveFacts DEF InHandInv
  <2>4. next = "checkpoint" => \E r \in ToSet(modelRuns') : r.step = loop'.step
    BY <1>0, <1>1, <1>3, <1>4, DriveFacts DEF InHandInv
  <2> QED
    BY <1>0, <1>4, <2>1, <2>2, <2>3, <2>4 DEF InHandInv
<1> QED
  BY <1>0, <1>3, <1>4, <1>5, <1>6, <1>7, <1>8, <1>9 DEF Driving

LEMMA KeepInputHolds ==
  ASSUME RecordInv, KeepInput
  PROVE  RecordInv'
<1>1. Driving /\ loop.pc = "input" /\ ~Unrecorded
  BY DEF KeepInput, LoopAt, Driving, Unrecorded
<1>2. loop.step = Len(stepRows) /\ loop.step > 0 /\ loop.step \in DOMAIN stepRows
  BY <1>1, DriveFacts DEF InHandInv
<1>3. PICK m, no : m = Last(loop.context) /\ no = NextNumber
  OBVIOUS
<1>4. no \in Nat /\ Numbers(loop.step) = 0..(no - 1) /\ m \in MessageRow
  BY <1>1, <1>2, <1>3, NextIsFree, DriveFacts
<1>5. Keep(m, no, "asking")
  BY <1>3 DEF KeepInput
<1>6. PICK c : c = loop.context
  OBVIOUS
<1>7. c \in Seq(MessageRow) /\ InTimeline(c) /\ Len(c) \in Nat \ {0} /\ c[1] = Prompt /\ m = c[Len(c)]
  BY <1>1, <1>3, <1>6, DriveFacts DEF KnownInv
<1>a. Len(c) # 1 => Len(c) \in 2..Len(c) /\ 2 \in 2..Len(c)
  <2>1. PICK k : k = Len(c)
    OBVIOUS
  <2>2. k \in Nat /\ k # 0
    BY <1>7, <2>1
  <2>3. k # 1 => k \in 2..k /\ 2 \in 2..k
    BY <2>2
  <2> QED
    BY <2>1, <2>3
<1>8. m.kind = "call" \/ m.id <= made
  <2>1. CASE Len(c) = 1
    BY <1>1, <1>7, <2>1, DriveFacts DEF Prompt, Message
  <2>2. CASE Len(c) # 1
    <3>1. PICK p \in PlacesOf(m) : TRUE
      BY <1>7, <1>a, <2>2 DEF InTimeline
    <3> QED
      BY <1>1, <3>1, DriveFacts DEF PlacesOf, RowsInv
  <2> QED
    BY <2>1, <2>2
<1>9. /\ RecordTypeOK' /\ RowsInv' /\ RowHolds' /\ InHandInv' /\ UsageInv' /\ Driving'
      /\ TimelineGains(m, <<Len(stepRows), no>>)
      /\ loop'.context = loop.context /\ loop'.pc = "asking"
  BY <1>1, <1>4, <1>5, <1>8, KeepHolds
<1>10. KnownInv'
  <2>1. InTimeline(c)'
    BY <1>7, <1>9, InLongerTimeline
  <2>2. PlacesOf(c[1])' # {}
    <3>1. CASE Len(c) = 1
      <4>1. PlacesOf(m)' # {}
        BY <1>9, PlacesGain
      <4>2. m = c[1]
        BY <1>7, <3>1
      <4> QED
        BY <4>1, <4>2
    <3>2. CASE Len(c) # 1
      <4>1. 2 \in 2..Len(c) /\ 1 \in 1..(2 - 1)
        BY <1>a, <3>2
      <4>2. PlacesOf(c[1]) # {}
        BY <1>7, <4>1 DEF InTimeline
      <4> QED
        BY <1>9, <4>2, PlacesGain
    <3> QED
      BY <3>1, <3>2
  <2>3. c = loop'.context
    BY <1>6, <1>9
  <2>4. InTimeline(loop.context)' /\ PlacesOf(Prompt)' # {}
    BY <1>7, <2>1, <2>2, <2>3 DEF InTimeline
  <2> QED
    BY <1>6, <1>7, <1>9, <2>3, <2>4 DEF KnownInv, Unrecorded
<1> QED
  BY <1>9, <1>10 DEF RecordInv, RowHolds

\* The message the loop has been given is kept.
LEMMA KeepGivenHolds ==
  ASSUME RecordInv, NEW next, <<loop.pc, next>> \in {<<"response", "checkpoint">>, <<"result", "save">>},
         Keep(Last(loop.context), loop.no, next)
  PROVE  RecordInv'
<1>1. Driving /\ loop.pc \in {"response", "result"} /\ Unrecorded
  BY DEF Driving, Unrecorded
<1>2. PICK m, no, c : m = Last(loop.context) /\ no = loop.no /\ c = SubSeq(loop.context, 1, Len(loop.context) - 1)
  OBVIOUS
<1>3. no \in Nat /\ Numbers(loop.step) = 0..(no - 1) /\ m \in MessageRow
  BY <1>1, <1>2, DriveFacts DEF InHandInv
<1>4. m.id = made /\ m.kind # "call" /\ Len(loop.context) > 1 /\ InTimeline(c)
  BY <1>1, <1>2, DriveFacts DEF KnownInv
<1>a. /\ <<loop.pc, next>> \in {<<"input", "asking">>, <<"response", "checkpoint">>, <<"answered", "call">>,
                               <<"called", "call">>, <<"result", "save">>}
      /\ m.id <= made /\ Keep(m, no, next)
  <2>1. made \in Nat
    BY <1>1, DriveFacts
  <2> QED
    BY <1>2, <1>4, <2>1
<1>5. /\ RecordTypeOK' /\ RowsInv' /\ RowHolds' /\ InHandInv' /\ UsageInv' /\ Driving'
      /\ TimelineGains(m, <<Len(stepRows), no>>)
      /\ loop'.context = loop.context /\ loop'.pc = next /\ loop'.left = loop.left /\ loop'.status = loop.status
      /\ UNCHANGED <<agentRow, made>>
  BY <1>3, <1>a, KeepHolds
<1>6. PlacesOf(m) = {}
  <2>1. made \in Nat
    BY <1>1, DriveFacts
  <2>2. \A p \in Places : Summary(p) # m
    BY <1>1, <1>4, <2>1, DriveFacts DEF RowsInv
  <2> QED
    BY <2>2 DEF PlacesOf
<1>7. PICK whole \in Seq(MessageRow) : whole = loop.context
  BY <1>1, DriveFacts
<1>8. c \in Seq(MessageRow) /\ c # <<>> /\ c[1] = Prompt /\ whole = Append(c, m)
  <2>1. Len(whole) \in Nat /\ Len(whole) > 1 /\ m = whole[Len(whole)] /\ whole[1] = Prompt
        /\ c = SubSeq(whole, 1, Len(whole) - 1)
    BY <1>1, <1>2, <1>4, <1>7, DriveFacts
  <2>2. c \in Seq(MessageRow) /\ Len(c) = Len(whole) - 1 /\ \A i \in 1..Len(c) : c[i] = whole[i]
    BY <2>1
  <2>3. Append(c, m) \in Seq(MessageRow) /\ Len(Append(c, m)) = Len(whole)
        /\ \A i \in 1..Len(whole) : Append(c, m)[i] = IF i = Len(whole) THEN m ELSE c[i]
    BY <1>3, <2>1, <2>2
  <2>4. c # <<>> /\ c[1] = Prompt
    <3>1. 1 \in 1..(Len(whole) - 1)
      BY <2>1
    <3>2. 1 \in 1..Len(c)
      BY <2>2, <3>1
    <3>3. c[1] = whole[1]
      BY <2>2, <3>2
    <3>4. c # <<>>
      BY <2>2, <3>2
    <3> QED
      BY <2>1, <3>3, <3>4
  <2>5. ASSUME NEW i \in 1..Len(whole) PROVE Append(c, m)[i] = whole[i]
    <3>1. CASE i = Len(whole)
      BY <2>1, <2>3, <3>1
    <3>2. CASE i # Len(whole)
      BY <2>1, <2>2, <2>3, <3>2
    <3> QED
      BY <3>1, <3>2
  <2>6. whole = Append(c, m)
    <3>1. PICK d \in Seq(MessageRow) : d = Append(c, m)
      BY <2>3
    <3>2. Len(d) = Len(whole) /\ \A i \in 1..Len(whole) : d[i] = whole[i]
      BY <2>3, <2>5, <3>1
    <3> QED
      BY <3>1, <3>2
  <2> QED
    BY <2>2, <2>4, <2>6
<1>9. PlacesOf(Prompt) # {}
  BY <1>1, DriveFacts DEF KnownInv
<1>10. InTimeline(whole)' /\ PlacesOf(Prompt)' # {}
  BY <1>3, <1>4, <1>5, <1>6, <1>8, <1>9, FollowsInTimeline, PlacesGain
<1>11. KnownInv'
  <2>1. loop'.context = whole
    BY <1>5, <1>7
  <2>2. InTimeline(loop.context)'
    BY <1>10, <2>1 DEF InTimeline
  <2>3. loop'.context # <<>> /\ loop'.context[1] = Prompt
    BY <1>1, <1>5, DriveFacts DEF KnownInv
  <2>4. next = "checkpoint" /\ loop.left = 0 => Last(loop.context).says = "answer"
    BY <1>1, DriveFacts DEF KnownInv
  <2>5. next \in {"checkpoint", "save"}
    OBVIOUS
  <2> QED
    BY <1>5, <1>10, <2>2, <2>3, <2>4, <2>5 DEF KnownInv, Unrecorded
<1> QED
  BY <1>5, <1>11 DEF RecordInv, RowHolds

LEMMA KeepCallHolds ==
  ASSUME RecordInv, KeepCall
  PROVE  RecordInv'
<1>1. Driving /\ loop.pc \in {"answered", "called"} /\ ~Unrecorded
  BY DEF KeepCall, Driving, Unrecorded
<1>2. PICK m, no, c : m = Message("call", made + 1, "calls") /\ no = loop.no /\ c = loop.context
  OBVIOUS
<1>3. no \in Nat /\ Numbers(loop.step) = 0..(no - 1) /\ m \in MessageRow /\ m.kind = "call"
  <2>1. no \in Nat /\ Numbers(loop.step) = 0..(no - 1)
    BY <1>1, <1>2, DriveFacts DEF InHandInv
  <2>2. made + 1 \in Nat
    BY <1>1, DriveFacts
  <2> QED
    BY <1>2, <2>1, <2>2 DEF Message, MessageRow
<1>4. c \in Seq(MessageRow) /\ InTimeline(c) /\ PlacesOf(Prompt) # {} /\ c # <<>> /\ c[1] = Prompt
  BY <1>1, <1>2, DriveFacts DEF KnownInv
<1>5. Keep(m, no, "call")
  BY <1>2 DEF KeepCall
<1>6. /\ RecordTypeOK' /\ RowsInv' /\ RowHolds' /\ InHandInv' /\ UsageInv' /\ Driving'
      /\ TimelineGains(m, <<Len(stepRows), no>>)
      /\ loop'.context = loop.context /\ loop'.pc = "call"
  BY <1>1, <1>3, <1>5, KeepHolds
<1>7. InTimeline(c)' /\ PlacesOf(Prompt)' # {}
  BY <1>4, <1>6, InLongerTimeline, PlacesGain
<1>8. KnownInv'
  <2>1. c = loop'.context
    BY <1>2, <1>6
  <2>2. InTimeline(loop.context)'
    BY <1>7, <2>1 DEF InTimeline
  <2> QED
    BY <1>4, <1>6, <1>7, <2>1, <2>2 DEF KnownInv, Unrecorded
<1> QED
  BY <1>6, <1>8 DEF RecordInv, RowHolds

\* Nothing is recorded in the timeline, and the loop learns nothing.
LEMMA QuietHolds ==
  ASSUME RecordInv, Driving, TimelineStays, ~Unrecorded, ~Unrecorded', Driving',
         loop'.context = loop.context, UNCHANGED <<modelRuns, made>>,
         loop' \in LoopRecord, stepRows' \in Seq(StepRow), agentRow' \in RecordRow,
         toolRows' \in Seq({"requested", "finished"}),
         RowHolds', InHandInv', Len(stepRows') \in {agentRow'.turns, agentRow'.turns + 1},
         \A i \in 1..agentRow'.turns : \E r \in ToSet(modelRuns) : r.step = i,
         loop'.from = loop.from, loop'.answered = loop.answered,
         loop'.complete = loop.complete, loop'.tokens = loop.tokens,
         loop'.pc \in {"step", "input"} \/ loop.pc \notin {"step", "input"},
         loop'.pc \in {"checkpoint", "answered"} /\ loop'.left = 0 => Last(loop.context).says = "answer",
         loop'.pc \in {"answer", "finish"} /\ loop'.status = "completed" => Last(loop.context).says = "answer"
  PROVE  RecordInv'
<1>1. RecordTypeOK'
  BY DriveFacts DEF RecordTypeOK
<1>2. RowsInv'
  BY DriveFacts DEF RowsInv, TimelineStays
<1>3. UsageInv'
  <2>1. loop.pc # "usage" /\ loop'.pc # "usage"
    BY DEF Unrecorded
  <2> QED
    BY <2>1, DriveFacts, UsageStays
<1>4. KnownInv'
  <2>1. PICK c : c = loop.context
    OBVIOUS
  <2>2. InTimeline(c) /\ c # <<>> /\ c[1] = Prompt
    BY <2>1, DriveFacts DEF KnownInv
  <2>3. InTimeline(c)'
    BY <2>2, StillInTimeline
  <2>4. c = loop'.context
    BY <2>1
  <2>5. InTimeline(loop.context)'
    BY <2>3, <2>4 DEF InTimeline
  <2>6. loop'.pc \notin {"step", "input"} => PlacesOf(Prompt)' # {}
    BY PlacesStay, DriveFacts DEF KnownInv
  <2>7. loop'.pc \notin {"usage", "response"}
    BY DEF Unrecorded
  <2> QED
    BY <2>1, <2>2, <2>5, <2>6, <2>7 DEF KnownInv
<1> QED
  BY <1>1, <1>2, <1>3, <1>4 DEF RecordInv, RowHolds, Driving

LEMMA StatusChanges ==
  ASSUME RecordTypeOK, NEW i \in DOMAIN stepRows,
         NEW to \in {"running", "completed", "cancelled", "failed", "max_steps_reached"},
         stepRows' = [stepRows EXCEPT ![i].status = to]
  PROVE  TimelineStays /\ stepRows' \in Seq(StepRow) /\ Len(stepRows') = Len(stepRows)
<1>1. stepRows \in Seq(StepRow) /\ Len(stepRows) \in Nat /\ DOMAIN stepRows = 1..Len(stepRows)
  BY DEF RecordTypeOK
<1>2. PICK row : row = [stepRows[i] EXCEPT !.status = to]
  OBVIOUS
<1>3. stepRows[i] \in StepRow
  BY <1>1
<1>4. row \in StepRow /\ row.messages = stepRows[i].messages
  BY <1>2, <1>3 DEF StepRow
<1>5. stepRows' = [stepRows EXCEPT ![i] = row]
  BY <1>2
<1>6. /\ stepRows' \in Seq(StepRow) /\ Len(stepRows') = Len(stepRows) /\ DOMAIN stepRows' = DOMAIN stepRows
      /\ \A j \in DOMAIN stepRows : stepRows'[j].messages = stepRows[j].messages
  BY <1>1, <1>4, <1>5
<1>7. Places' = Places
  BY <1>6 DEF Places, Numbers
<1>8. ASSUME NEW p \in Places PROVE Summary(p)' = Summary(p)
  <2>1. p[1] \in DOMAIN stepRows
    BY DEF Places
  <2> QED
    BY <1>6, <2>1 DEF Summary
<1> QED
  BY <1>6, <1>7, <1>8 DEF TimelineStays

LEMMA StepOpens ==
  ASSUME RecordTypeOK, stepRows' = Append(stepRows, [status |-> "running", messages |-> <<>>])
  PROVE  TimelineStays /\ stepRows' \in Seq(StepRow) /\ Len(stepRows') = Len(stepRows) + 1
<1>1. stepRows \in Seq(StepRow) /\ Len(stepRows) \in Nat /\ DOMAIN stepRows = 1..Len(stepRows)
  BY DEF RecordTypeOK
<1>2. PICK row : row = [status |-> "running", messages |-> <<>>]
  OBVIOUS
<1>3. DOMAIN row.messages = {} /\ row \in StepRow
  <2>1. <<>> \in [0..(0 - 1) -> MessageRow]
    OBVIOUS
  <2>2. <<>> \in UNION {[0..(k - 1) -> MessageRow] : k \in Nat}
    BY <2>1
  <2> QED
    BY <1>2, <2>2 DEF StepRow
<1>4. /\ stepRows' \in Seq(StepRow) /\ Len(stepRows') = Len(stepRows) + 1
      /\ DOMAIN stepRows' = 1..(Len(stepRows) + 1)
      /\ stepRows'[Len(stepRows) + 1] = row
      /\ \A j \in 1..Len(stepRows) : stepRows'[j] = stepRows[j]
  BY <1>1, <1>2, <1>3
<1>5. Places' = Places
  <2>1. Places' = UNION {{i} \X Numbers(i)' : i \in 1..(Len(stepRows) + 1)}
    BY <1>4 DEF Places
  <2>2. Places = UNION {{i} \X Numbers(i) : i \in 1..Len(stepRows)}
    BY <1>1 DEF Places
  <2>3. \A i \in 1..(Len(stepRows) + 1) : Numbers(i)' = IF i = Len(stepRows) + 1 THEN {} ELSE Numbers(i)
    BY <1>1, <1>3, <1>4 DEF Numbers
  <2> QED
    BY <1>1, <2>1, <2>2, <2>3
<1>6. ASSUME NEW p \in Places PROVE Summary(p)' = Summary(p)
  <2>1. p[1] \in 1..Len(stepRows)
    BY <1>1 DEF Places
  <2> QED
    BY <1>4, <2>1 DEF Summary
<1> QED
  BY <1>4, <1>5, <1>6 DEF TimelineStays

-----------------------------------------------------------------------------
(* The actions *)

LEMMA ResumeKeepsRecords ==
  ASSUME RecordInv, ResumeRecords
  PROVE  RecordInv'
<1>1. loop' = NewLoop /\ loop.pc = "gone" /\ loop' \in LoopRecord /\ loop'.pc = "queued"
  BY NewLoopTyped DEF ResumeRecords, LoopAt
<1>2. /\ agentRow' \in RecordRow /\ agentRow'.context = agentRow.context /\ agentRow'.answer = "none"
      /\ agentRow'.turns = agentRow.turns
  BY DEF ResumeRecords, RecordInv, RecordTypeOK, RecordRow
<1>3. UNCHANGED <<stepRows, modelRuns, toolRows, made>> /\ TimelineStays
  BY NothingRecorded DEF ResumeRecords
<1>4. RecordTypeOK'
  BY <1>1, <1>2, <1>3 DEF RecordInv, RecordTypeOK
<1>5. RowHolds'
  BY <1>2, <1>3, RowStays DEF RecordInv, RowHolds
<1>6. RowsInv'
  BY <1>1, <1>2, <1>3 DEF RecordInv, RowsInv, Unrecorded, TimelineStays
<1> QED
  BY <1>1, <1>4, <1>5, <1>6 DEF RecordInv, RowHolds, Driving

LEMMA TakeUpKeeps ==
  ASSUME RecordInv, TakeUp
  PROVE  RecordInv'
<1>1. loop = NewLoop /\ loop.pc = "queued" /\ loop \in LoopRecord
  BY DEF RecordInv, RecordTypeOK, TakeUp, LoopAt
<1>2. /\ agentRow \in RecordRow /\ agentRow' \in RecordRow /\ agentRow'.context = agentRow.context
      /\ agentRow'.answer = agentRow.answer /\ agentRow'.turns = agentRow.turns
  BY DEF TakeUp, RecordInv, RecordTypeOK, RecordRow
<1>3. UNCHANGED <<stepRows, modelRuns, toolRows, made>> /\ TimelineStays
  BY NothingRecorded DEF TakeUp, Unspent
<1>4. /\ loop'.pc = "step" /\ loop'.context = agentRow.context /\ loop'.turn = agentRow.turns
      /\ loop'.from = Len(modelRuns) /\ loop'.answered = FALSE /\ loop'.complete = TRUE /\ loop'.tokens = 0
      /\ loop' \in LoopRecord
  <2>1. Len(modelRuns) \in Nat /\ agentRow.context \in Seq(MessageRow) /\ agentRow.turns \in Nat
    BY <1>2 DEF RecordInv, RecordTypeOK, RecordRow
  <2> QED
    BY <1>1, <2>1 DEF TakeUp, LoadContext, LoopRecord, LoopState, NewLoop
<1>5. RecordTypeOK'
  BY <1>2, <1>3, <1>4 DEF RecordInv, RecordTypeOK
<1>6. RowHolds'
  BY <1>2, <1>3, RowStays DEF RecordInv, RowHolds
<1>7. RowsInv'
  BY <1>1, <1>2, <1>3, <1>4 DEF RecordInv, RowsInv, Unrecorded, TimelineStays
<1>8. InHandInv'
  BY <1>2, <1>4 DEF InHandInv
<1>9. KnownInv'
  <2>1. loop'.context = agentRow'.context
    BY <1>2, <1>4
  <2>2. InTimeline(loop.context)'
    BY <1>6, <2>1 DEF RowHolds, ContextIsRecorded, InTimeline
  <2> QED
    BY <1>4, <1>6, <2>1, <2>2 DEF KnownInv, RowHolds, Unrecorded
<1>10. UsageInv'
  <2>1. Mine' = <<>> /\ Len(modelRuns) \in Nat
    BY <1>3, <1>4 DEF Mine, RecordInv, RecordTypeOK
  <2>2. ~Silent(Mine)' /\ Tokens(Mine)' = 0
    BY <2>1, TokensOfNone DEF Silent, ToSet
  <2> QED
    BY <1>3, <1>4, <2>1, <2>2 DEF UsageInv
<1> QED
  BY <1>4, <1>5, <1>6, <1>7, <1>8, <1>9, <1>10 DEF RecordInv, RowHolds

LEMMA OpenStepKeeps ==
  ASSUME RecordInv, OpenStep
  PROVE  RecordInv'
<1>1. Driving /\ loop.pc = "step" /\ ~Unrecorded
  BY DEF OpenStep, LoopAt, Driving, Unrecorded
<1>2. PICK i : i = loop.turn + 1 /\ i = agentRow.turns + 1 /\ i \in Nat \ {0}
  BY <1>1, DriveFacts DEF InHandInv
<1>3. CASE Lose
  BY <1>3, LoseKeeps
<1>4. CASE /\ \/ Len(stepRows) < i /\ stepRows' = Append(stepRows, [status |-> "running", messages |-> <<>>])
              \/ Len(stepRows) >= i /\ stepRows' = [stepRows EXCEPT ![i].status = "running"]
           /\ loop' = [loop EXCEPT !.pc = "input", !.step = i]
           /\ UNCHANGED <<agentRow, modelRuns, toolRows, made>>
  <2>1. Len(stepRows) \in {agentRow.turns, agentRow.turns + 1} /\ Len(stepRows) \in Nat /\ agentRow.turns \in Nat
    BY <1>1, DriveFacts DEF RowsInv, RecordRow
  <2>2. TimelineStays /\ stepRows' \in Seq(StepRow) /\ Len(stepRows') = i
    <3>1. CASE Len(stepRows) < i
      BY <1>1, <1>2, <1>4, <2>1, <3>1, StepOpens, DriveFacts
    <3>2. CASE Len(stepRows) >= i
      <4>1. i \in DOMAIN stepRows /\ Len(stepRows) = i
        BY <1>2, <2>1, <3>2, <1>1, DriveFacts
      <4> QED
        <5>1. stepRows' = [stepRows EXCEPT ![i].status = "running"]
          BY <1>2, <1>4, <2>1, <3>2
        <5>2. RecordTypeOK
          BY <1>1, DriveFacts
        <5>3. TimelineStays /\ stepRows' \in Seq(StepRow) /\ Len(stepRows') = Len(stepRows)
          BY <4>1, <5>1, <5>2, StatusChanges
        <5> QED
          BY <4>1, <5>3
    <3> QED
      BY <1>2, <2>1, <3>1, <3>2
  <2>3. /\ loop' \in LoopRecord /\ loop'.pc = "input" /\ loop'.step = i /\ loop'.context = loop.context
        /\ loop'.turn = loop.turn /\ loop'.from = loop.from /\ loop'.answered = loop.answered
        /\ loop'.complete = loop.complete /\ loop'.tokens = loop.tokens
    BY <1>1, <1>2, <1>4, DriveFacts DEF LoopRecord, LoopState
  <2>4. RowHolds'
    BY <1>1, <1>4, <2>2, RowStays, DriveFacts
  <2>5. InHandInv'
    BY <1>1, <1>2, <1>4, <2>2, <2>3, DriveFacts DEF InHandInv
  <2>6. ~Unrecorded' /\ Driving'
    BY <2>3 DEF Unrecorded, Driving
  <2>7. \A t \in 1..agentRow'.turns : \E r \in ToSet(modelRuns) : r.step = t
    BY <1>1, <1>4, DriveFacts DEF RowsInv
  <2>8. Len(stepRows') \in {agentRow'.turns, agentRow'.turns + 1}
    BY <1>2, <1>4, <2>2
  <2>9. agentRow' \in RecordRow /\ toolRows' \in Seq({"requested", "finished"})
    BY <1>4 DEF RecordInv, RecordTypeOK
  <2> QED
    BY <1>1, <1>4, <2>2, <2>3, <2>4, <2>5, <2>6, <2>7, <2>8, <2>9, QuietHolds
<1> QED
  BY <1>2, <1>3, <1>4 DEF OpenStep

\* The rows and the context stay: the loop goes on.
LEMMA GoesOn ==
  ASSUME RecordInv, Driving, ~Unrecorded, loop.pc \notin {"step", "input", "queued", "gone"},
         UNCHANGED <<stepRows, modelRuns, made>>, agentRow' \in RecordRow, agentRow'.turns \in Nat,
         toolRows' \in Seq({"requested", "finished"}),
         NEW next \in LoopState \ {"gone", "queued", "step", "input", "usage", "response", "result"},
         loop'.pc = next, loop' \in LoopRecord, loop'.context = loop.context,
         loop'.from = loop.from, loop'.answered = loop.answered,
         loop'.complete = loop.complete, loop'.tokens = loop.tokens,
         RowHolds', InHandInv', Len(stepRows) \in {agentRow'.turns, agentRow'.turns + 1},
         \A i \in 1..agentRow'.turns : \E r \in ToSet(modelRuns) : r.step = i,
         next \in {"checkpoint", "answered"} /\ loop'.left = 0 => Last(loop.context).says = "answer",
         next \in {"answer", "finish"} /\ loop'.status = "completed" => Last(loop.context).says = "answer"
  PROVE  RecordInv'
<1>1. TimelineStays /\ stepRows' \in Seq(StepRow)
  BY NothingRecorded, DriveFacts
<1>2. ~Unrecorded' /\ Driving'
  BY DEF Unrecorded, Driving
<1> QED
  BY <1>1, <1>2, QuietHolds

\* The loop is given a message, of the model or of a tool.
LEMMA GivenHolds ==
  ASSUME RecordInv, Driving, loop.pc \notin {"step", "input"}, ~Unrecorded,
         NEW next \in {"usage", "result"}, loop'.pc = next, loop' \in LoopRecord,
         NEW m \in MessageRow, m.id = made + 1, m.kind # "call",
         loop'.context = Append(loop.context, m), made' = made + 1,
         next = "usage" /\ loop'.left = 0 => m.says = "answer",
         UNCHANGED <<agentRow, stepRows, modelRuns, toolRows>>
  PROVE  RecordTypeOK' /\ RowsInv' /\ RowHolds' /\ KnownInv' /\ Driving'
<1>1. Unrecorded' /\ Driving'
  BY DEF Unrecorded, Driving
<1>2. TimelineStays /\ made \in Nat
  BY NothingRecorded, DriveFacts
<1>3. RecordTypeOK'
  BY <1>2, DriveFacts DEF RecordTypeOK
<1>4. RowsInv'
  BY <1>1, <1>2, DriveFacts DEF RowsInv, TimelineStays
<1>5. RowHolds'
  BY <1>2, DriveFacts, RowStays
<1>6. PICK c, d : c = loop.context /\ d = Append(c, m)
  OBVIOUS
<1>7. c \in Seq(MessageRow) /\ InTimeline(c) /\ PlacesOf(Prompt) # {} /\ Len(c) \in Nat \ {0} /\ c[1] = Prompt
  BY <1>6, DriveFacts DEF KnownInv
<1>8. /\ d \in Seq(MessageRow) /\ Len(d) = Len(c) + 1 /\ d[Len(d)] = m /\ d[1] = Prompt
      /\ SubSeq(d, 1, Len(d) - 1) = c
  <2>1. /\ Append(c, m) \in Seq(MessageRow) /\ Len(Append(c, m)) = Len(c) + 1 /\ Append(c, m)[Len(c) + 1] = m
        /\ \A i \in 1..Len(c) : Append(c, m)[i] = c[i]
    BY <1>7
  <2>2. d \in Seq(MessageRow) /\ Len(d) = Len(c) + 1 /\ d[Len(d)] = m /\ \A i \in 1..Len(c) : d[i] = c[i]
    BY <1>6, <2>1
  <2>3. d[1] = Prompt
    BY <1>7, <2>2
  <2>4. /\ SubSeq(d, 1, Len(d) - 1) \in Seq(MessageRow) /\ Len(SubSeq(d, 1, Len(d) - 1)) = Len(c)
        /\ \A i \in 1..Len(c) : SubSeq(d, 1, Len(d) - 1)[i] = c[i]
    BY <1>7, <2>2
  <2>5. SubSeq(d, 1, Len(d) - 1) = c
    BY <1>7, <2>4
  <2> QED
    BY <2>2, <2>3, <2>5
<1>9. loop'.context = d
  BY <1>6
<1>10. KnownInv'
  <2>1. InTimeline(c)' /\ PlacesOf(Prompt)' # {}
    BY <1>2, <1>7, StillInTimeline, PlacesStay
  <2>2. InTimeline(SubSeq(loop.context, 1, Len(loop.context) - 1))'
    BY <1>8, <1>9, <2>1 DEF InTimeline
  <2>3. Last(d) = m /\ Len(d) > 1 /\ d # <<>>
    BY <1>7, <1>8 DEF Last
  <2> QED
    BY <1>1, <1>8, <1>9, <2>1, <2>2, <2>3 DEF KnownInv
<1> QED
  BY <1>1, <1>3, <1>4, <1>5, <1>10

LEMMA ModelAnswersKeeps ==
  ASSUME RecordInv, ModelAnswers
  PROVE  RecordInv'
<1>1. Driving /\ loop.pc = "asking" /\ ~Unrecorded
  BY DEF ModelAnswers, LoopAt, Driving, Unrecorded
<1>2. PICK n \in 0..CallLimit, usage \in Usages :
        loop' = [Added(usage) EXCEPT !.pc = "usage", !.left = n, !.context = Append(@, Response(n))]
  BY DEF ModelAnswers
<1>3. PICK m : m = Response(n)
  OBVIOUS
<1>4. usage \in {1, NoUsage} /\ n \in Int
  BY DEF Usages
<1>5. m \in MessageRow /\ m.id = made + 1 /\ m.kind # "call" /\ (n = 0 => m.says = "answer")
  <2>1. made + 1 \in Nat
    BY <1>1, DriveFacts
  <2> QED
    BY <1>3, <2>1 DEF Response, Message, MessageRow
<1>6. /\ made' = made + 1 /\ UNCHANGED <<agentRow, stepRows, modelRuns, toolRows>>
  BY DEF ModelAnswers
<1>7. loop.complete /\ usage # NoUsage => loop.tokens + usage \in Nat
  BY <1>1, <1>4, DriveFacts DEF LoopRecord
<1>8. /\ loop'.pc = "usage" /\ loop'.left = n /\ loop'.context = Append(loop.context, m)
      /\ loop'.usage = usage /\ loop'.answered = TRUE /\ loop'.complete = (loop.complete /\ usage # NoUsage)
      /\ loop'.tokens = IF loop.complete /\ usage # NoUsage THEN loop.tokens + usage ELSE loop.tokens
      /\ loop'.from = loop.from /\ loop'.turn = loop.turn /\ loop'.step = loop.step /\ loop'.no = loop.no
      /\ loop'.status = loop.status /\ loop'.taken = loop.taken
  BY <1>1, <1>2, <1>3, DriveFacts DEF Added, LoopRecord
<1>9. loop' \in LoopRecord
  <2>1. Append(loop.context, m) \in Seq(MessageRow)
    BY <1>1, <1>5, DriveFacts
  <2>2. "usage" \in LoopState
    BY DEF LoopState
  <2>3. (loop.complete /\ usage # NoUsage) \in BOOLEAN
    OBVIOUS
  <2>4. (IF loop.complete /\ usage # NoUsage THEN loop.tokens + usage ELSE loop.tokens) \in Nat
    BY <1>1, <1>7, DriveFacts DEF LoopRecord
  <2> QED
    BY <1>1, <1>2, <1>3, <1>4, <2>1, <2>2, <2>3, <2>4, DriveFacts DEF Added, LoopRecord
<1>10. RecordTypeOK' /\ RowsInv' /\ RowHolds' /\ KnownInv' /\ Driving'
  BY <1>1, <1>5, <1>6, <1>8, <1>9, GivenHolds
<1>11. InHandInv'
  <2>1. Numbers(loop.step)' = 0..(loop'.no - 1)
    BY <1>1, <1>6, <1>8, DriveFacts DEF InHandInv, Numbers
  <2> QED
    BY <1>1, <1>6, <1>8, <2>1, DriveFacts DEF InHandInv
<1>12. UsageInv'
  <2>1. Mine' = Mine
    BY <1>6, <1>8 DEF Mine
  <2>2. Silent(Mine)' = Silent(Mine) /\ Tokens(Mine)' = Tokens(Mine)
    BY <2>1 DEF Silent, Tokens, ToSet
  <2>3. /\ loop.from <= Len(modelRuns) /\ (loop.complete <=> ~Silent(Mine))
        /\ (loop.complete => loop.tokens = Tokens(Mine))
    BY <1>1, DriveFacts DEF UsageInv
  <2> QED
    BY <1>6, <1>8, <2>2, <2>3 DEF UsageInv
<1> QED
  BY <1>10, <1>11, <1>12 DEF RecordInv, RowHolds, Driving

LEMMA ToolAnswersKeeps ==
  ASSUME RecordInv, ToolAnswers
  PROVE  RecordInv'
<1>1. Driving /\ loop.pc = "tool" /\ ~Unrecorded
  BY DEF ToolAnswers, LoopAt, Driving, Unrecorded
<1>2. PICK observed \in Evidence \cup {"nothing"} :
        loop' = [loop EXCEPT !.pc = "result", !.context = Append(@, Message("tool", made + 1, observed))]
  BY DEF ToolAnswers
<1>3. PICK m : m = Message("tool", made + 1, observed)
  OBVIOUS
<1>4. m \in MessageRow /\ m.id = made + 1 /\ m.kind # "call"
  <2>1. made + 1 \in Nat
    BY <1>1, DriveFacts
  <2> QED
    BY <1>3, <2>1 DEF Message, MessageRow
<1>5. /\ made' = made + 1 /\ UNCHANGED <<agentRow, stepRows, modelRuns, toolRows>>
  BY DEF ToolAnswers
<1>6. Append(loop.context, m) \in Seq(MessageRow)
  BY <1>1, <1>4, DriveFacts
<1>7. /\ loop'.pc = "result" /\ loop'.context = Append(loop.context, m) /\ loop' \in LoopRecord
      /\ loop'.answered = loop.answered /\ loop'.complete = loop.complete /\ loop'.tokens = loop.tokens
      /\ loop'.from = loop.from /\ loop'.turn = loop.turn /\ loop'.step = loop.step /\ loop'.no = loop.no
  BY <1>1, <1>2, <1>3, <1>6, DriveFacts DEF LoopRecord, LoopState
<1>8. RecordTypeOK' /\ RowsInv' /\ RowHolds' /\ KnownInv' /\ Driving'
  BY <1>1, <1>4, <1>5, <1>7, GivenHolds
<1>9. InHandInv'
  <2>1. Numbers(loop.step)' = 0..(loop'.no - 1)
    BY <1>1, <1>5, <1>7, DriveFacts DEF InHandInv, Numbers
  <2> QED
    BY <1>1, <1>5, <1>7, <2>1, DriveFacts DEF InHandInv
<1>10. UsageInv'
  BY <1>1, <1>5, <1>7, DriveFacts, UsageStays
<1> QED
  BY <1>8, <1>9, <1>10 DEF RecordInv, RowHolds, Driving

LEMMA RunAdded ==
  ASSUME NEW S, NEW runs \in Seq(S), NEW r \in S, NEW from \in 0..Len(runs)
  PROVE  SubSeq(Append(runs, r), from + 1, Len(runs) + 1) = Append(SubSeq(runs, from + 1, Len(runs)), r)
<1>1. PICK more, old : more = Append(runs, r) /\ old = SubSeq(runs, from + 1, Len(runs))
  OBVIOUS
<1>2. Len(runs) \in Nat /\ from \in Nat /\ from <= Len(runs)
  OBVIOUS
<1>3. /\ more \in Seq(S) /\ Len(more) = Len(runs) + 1 /\ more[Len(runs) + 1] = r
      /\ \A i \in 1..Len(runs) : more[i] = runs[i]
  <2>1. /\ Append(runs, r) \in Seq(S) /\ Len(Append(runs, r)) = Len(runs) + 1 /\ Append(runs, r)[Len(runs) + 1] = r
        /\ \A i \in 1..Len(runs) : Append(runs, r)[i] = runs[i]
    OBVIOUS
  <2> QED
    BY <1>1, <2>1
<1>4. /\ old \in Seq(S) /\ Len(old) = Len(runs) - from
      /\ \A i \in 1..(Len(runs) - from) : old[i] = runs[from + i]
  <2>1. \A i \in (from + 1)..Len(runs) : runs[i] \in S
    BY <1>2
  <2> QED
    BY <1>1, <1>2, <2>1
<1>5. /\ Append(old, r) \in Seq(S) /\ Len(Append(old, r)) = Len(runs) - from + 1
      /\ Append(old, r)[Len(runs) - from + 1] = r
      /\ \A i \in 1..(Len(runs) - from) : Append(old, r)[i] = runs[from + i]
  BY <1>2, <1>4
<1>6. /\ SubSeq(more, from + 1, Len(runs) + 1) \in Seq(S)
      /\ Len(SubSeq(more, from + 1, Len(runs) + 1)) = Len(runs) - from + 1
      /\ \A i \in 1..(Len(runs) - from + 1) : SubSeq(more, from + 1, Len(runs) + 1)[i] = more[from + i]
  <2>1. \A i \in (from + 1)..(Len(runs) + 1) : more[i] \in S
    BY <1>2, <1>3
  <2> QED
    BY <1>2, <1>3, <2>1
<1>7. \A i \in 1..(Len(runs) - from + 1) : more[from + i] = IF i = Len(runs) - from + 1 THEN r ELSE runs[from + i]
  BY <1>2, <1>3
<1>8. PICK s, t : s = SubSeq(more, from + 1, Len(runs) + 1) /\ t = Append(old, r)
  OBVIOUS
<1>9. s \in Seq(S) /\ t \in Seq(S) /\ Len(s) = Len(t) /\ \A i \in 1..Len(s) : s[i] = t[i]
  <2>1. s \in Seq(S) /\ Len(s) = Len(runs) - from + 1 /\ \A i \in 1..(Len(runs) - from + 1) : s[i] = more[from + i]
    BY <1>6, <1>8
  <2>2. t \in Seq(S) /\ Len(t) = Len(runs) - from + 1 /\ t[Len(runs) - from + 1] = r
        /\ \A i \in 1..(Len(runs) - from) : t[i] = runs[from + i]
    BY <1>5, <1>8
  <2>3. ASSUME NEW i \in 1..(Len(runs) - from + 1) PROVE s[i] = t[i]
    <3>1. i = Len(runs) - from + 1 \/ i \in 1..(Len(runs) - from)
      BY <1>2
    <3> QED
      BY <1>7, <2>1, <2>2, <3>1
  <2> QED
    BY <2>1, <2>2, <2>3
<1>10. s = t
  BY <1>9
<1> QED
  BY <1>1, <1>8, <1>10

LEMMA KeepUsageKeeps ==
  ASSUME RecordInv, KeepUsage
  PROVE  RecordInv'
<1>1. Driving /\ loop.pc = "usage" /\ Unrecorded
  BY DEF KeepUsage, LoopAt, Driving, Unrecorded
<1>2. PICK r : r = ModelRun(loop.step, loop.usage)
  OBVIOUS
<1>3. /\ modelRuns' = Append(modelRuns, r) /\ loop' = [loop EXCEPT !.pc = "response"]
      /\ UNCHANGED <<agentRow, stepRows, toolRows, made>>
  BY <1>2 DEF KeepUsage, Unspent
<1>4. r \in ModelRunRow /\ r.step = loop.step /\ r.usage = loop.usage
  <2>1. loop.step \in Nat /\ loop.usage \in {1, NoUsage}
    BY <1>1, DriveFacts DEF LoopRecord
  <2> QED
    BY <1>2, <2>1 DEF ModelRunRow, ModelRun
<1>5. /\ loop'.pc = "response" /\ loop' \in LoopRecord /\ loop'.context = loop.context
      /\ loop'.answered = loop.answered /\ loop'.complete = loop.complete /\ loop'.tokens = loop.tokens
      /\ loop'.from = loop.from /\ loop'.turn = loop.turn /\ loop'.step = loop.step /\ loop'.no = loop.no
      /\ loop'.left = loop.left /\ loop'.status = loop.status
  BY <1>1, <1>3, DriveFacts DEF LoopRecord, LoopState
<1>6. /\ modelRuns' \in Seq(ModelRunRow) /\ Len(modelRuns') = Len(modelRuns) + 1 /\ Len(modelRuns) \in Nat
      /\ modelRuns'[Len(modelRuns) + 1] = r /\ \A i \in 1..Len(modelRuns) : modelRuns'[i] = modelRuns[i]
  BY <1>1, <1>3, <1>4, DriveFacts
<1>7. ToSet(modelRuns) \subseteq ToSet(modelRuns') /\ r \in ToSet(modelRuns')
  <2>1. DOMAIN modelRuns = 1..Len(modelRuns) /\ DOMAIN modelRuns' = 1..(Len(modelRuns) + 1)
    BY <1>1, <1>6, DriveFacts
  <2> QED
    BY <1>6, <2>1 DEF ToSet
<1>8. RecordTypeOK'
  BY <1>1, <1>3, <1>5, <1>6, DriveFacts DEF RecordTypeOK
<1>9. TimelineStays
  BY <1>3, NothingRecorded
<1>10. RowHolds'
  BY <1>1, <1>3, <1>9, RowStays, DriveFacts
<1>11. Unrecorded' /\ Driving'
  BY <1>5 DEF Unrecorded, Driving
<1>12. RowsInv'
  BY <1>1, <1>3, <1>7, <1>9, <1>11, DriveFacts DEF RowsInv, TimelineStays
<1>13. InHandInv'
  <2>1. Numbers(loop.step)' = 0..(loop'.no - 1)
    BY <1>1, <1>3, <1>5, DriveFacts DEF InHandInv, Numbers
  <2> QED
    BY <1>1, <1>3, <1>4, <1>5, <1>7, <2>1, DriveFacts DEF InHandInv
<1>14. KnownInv'
  <2>1. PICK c : c = SubSeq(loop.context, 1, Len(loop.context) - 1)
    OBVIOUS
  <2>2. InTimeline(c) /\ PlacesOf(Prompt) # {}
    BY <1>1, <2>1, DriveFacts DEF KnownInv
  <2>3. InTimeline(c)' /\ PlacesOf(Prompt)' # {}
    BY <1>9, <2>2, StillInTimeline, PlacesStay
  <2>4. InTimeline(SubSeq(loop.context, 1, Len(loop.context) - 1))'
    <3>1. c = SubSeq(loop'.context, 1, Len(loop'.context) - 1)
      BY <1>5, <2>1
    <3> QED
      BY <2>3, <3>1 DEF InTimeline
  <2>5. made' = made
    BY <1>3
  <2> QED
    BY <1>1, <1>5, <1>11, <2>3, <2>4, <2>5, DriveFacts DEF KnownInv
<1>15. UsageInv'
  <2>1. /\ loop.from <= Len(modelRuns) /\ loop.from \in Nat /\ loop.answered
        /\ (loop.complete <=> (loop.usage # NoUsage /\ ~Silent(Mine)))
        /\ (loop.complete => loop.tokens = Tokens(Mine) + loop.usage)
    BY <1>1, DriveFacts DEF UsageInv, LoopRecord
  <2>2. PICK old, new : old = Mine /\ new = Mine'
    OBVIOUS
  <2>3. old \in Seq(ModelRunRow) /\ new = Append(old, r)
    <3>1. loop.from \in 0..Len(modelRuns)
      BY <1>6, <2>1
    <3>2. modelRuns \in Seq(ModelRunRow)
      BY <1>1, DriveFacts
    <3>3. SubSeq(Append(modelRuns, r), loop.from + 1, Len(modelRuns) + 1)
            = Append(SubSeq(modelRuns, loop.from + 1, Len(modelRuns)), r)
      BY <1>4, <3>1, <3>2, RunAdded
    <3>4. new = SubSeq(Append(modelRuns, r), loop.from + 1, Len(modelRuns) + 1)
      BY <1>3, <1>5, <1>6, <2>2 DEF Mine
    <3>5. \A i \in (loop.from + 1)..Len(modelRuns) : modelRuns[i] \in ModelRunRow
      BY <1>6, <2>1, <3>2
    <3>6. SubSeq(modelRuns, loop.from + 1, Len(modelRuns)) \in Seq(ModelRunRow)
      BY <1>6, <2>1, <3>2, <3>5
    <3> QED
      BY <2>2, <3>3, <3>4, <3>6 DEF Mine
  <2>4. Silent(new) <=> (Silent(old) \/ loop.usage = NoUsage)
    <3>1. ToSet(new) = ToSet(old) \cup {r}
      <4>1. /\ Append(old, r) \in Seq(ModelRunRow) /\ Len(Append(old, r)) = Len(old) + 1 /\ Len(old) \in Nat
            /\ Append(old, r)[Len(old) + 1] = r /\ \A i \in 1..Len(old) : Append(old, r)[i] = old[i]
        BY <1>4, <2>3
      <4> QED
        BY <2>3, <4>1 DEF ToSet
    <3> QED
      BY <1>4, <3>1 DEF Silent
  <2>5. loop.usage # NoUsage => Tokens(new) = Tokens(old) + loop.usage
    <3>1. Tokens(new) = Tokens(old) + r.metrics["total_tokens"]
      BY <1>4, <2>3, TokensOfMore
    <3>2. loop.usage # NoUsage => r.metrics["total_tokens"] = loop.usage
      BY <1>2 DEF ModelRun, Metrics
    <3> QED
      BY <3>1, <3>2
  <2>6. new # <<>>
    BY <1>4, <2>3
  <2>7. (loop.complete <=> ~Silent(new)) /\ (loop.complete => loop.tokens = Tokens(new))
    BY <2>1, <2>2, <2>4, <2>5
  <2>8. (Silent(Mine)' <=> Silent(new)) /\ Tokens(Mine)' = Tokens(new)
    BY <2>2 DEF Silent, Tokens
  <2>9. loop.from <= Len(modelRuns')
    BY <1>6, <2>1
  <2> QED
    BY <1>5, <2>1, <2>2, <2>6, <2>7, <2>8, <2>9 DEF UsageInv
<1> QED
  BY <1>8, <1>10, <1>11, <1>12, <1>13, <1>14, <1>15 DEF RecordInv, RowHolds, Driving

\* What the loop knows becomes the context of the row.
LEMMA CheckpointExplained ==
  ASSUME RecordInv, Driving, ~Unrecorded, stepRows' = stepRows,
         agentRow'.context = loop.context, agentRow'.answer = agentRow.answer
  PROVE  RowHolds'
<1>1. TimelineStays
  BY NothingRecorded
<1>2. PICK c : c = loop.context
  OBVIOUS
<1>3. InTimeline(c) /\ c # <<>> /\ c[1] = Prompt
  BY <1>2, DriveFacts DEF KnownInv
<1>4. InTimeline(c)' /\ c = agentRow'.context
  BY <1>1, <1>2, <1>3, StillInTimeline
<1>5. ContextIsRecorded'
  BY <1>4 DEF ContextIsRecorded, InTimeline
<1>6. AnswerIsRecorded'
  BY <1>1, AnswerStaysRecorded DEF RecordInv, TimelineStays
<1> QED
  BY <1>3, <1>4, <1>5, <1>6 DEF RowHolds

LEMMA CheckpointTurnKeeps ==
  ASSUME RecordInv, CheckpointTurn
  PROVE  RecordInv'
<1>1. Driving /\ loop.pc = "checkpoint" /\ ~Unrecorded
  BY DEF CheckpointTurn, LoopAt, Driving, Unrecorded
<1>2. /\ agentRow' = [agentRow EXCEPT !.context = loop.context, !.turns = loop.turn + 1]
      /\ loop' = [loop EXCEPT !.pc = "answered", !.turn = @ + 1]
      /\ UNCHANGED <<stepRows, modelRuns, toolRows, made>>
  BY DEF CheckpointTurn, Checkpoint, Unspent
<1>3. loop.turn = agentRow.turns /\ loop.turn + 1 \in Nat /\ Len(stepRows) = agentRow.turns + 1
  BY <1>1, DriveFacts DEF InHandInv
<1>4. /\ agentRow' \in RecordRow /\ agentRow'.context = loop.context /\ agentRow'.answer = agentRow.answer
      /\ agentRow'.turns = loop.turn + 1
  BY <1>1, <1>2, <1>3, DriveFacts DEF RecordRow
<1>5. /\ loop' \in LoopRecord /\ loop'.pc = "answered" /\ loop'.context = loop.context
      /\ loop'.answered = loop.answered /\ loop'.complete = loop.complete /\ loop'.tokens = loop.tokens
      /\ loop'.from = loop.from /\ loop'.turn = loop.turn + 1 /\ loop'.step = loop.step /\ loop'.no = loop.no
      /\ loop'.left = loop.left
  BY <1>1, <1>2, <1>3, DriveFacts DEF LoopRecord, LoopState
<1>6. RowHolds'
  BY <1>1, <1>2, <1>4, CheckpointExplained
<1>7. InHandInv'
  <2>1. Numbers(loop.step)' = 0..(loop'.no - 1)
    BY <1>1, <1>2, <1>5, DriveFacts DEF InHandInv, Numbers
  <2> QED
    BY <1>1, <1>2, <1>3, <1>4, <1>5, <2>1, DriveFacts DEF InHandInv
<1>8. ASSUME NEW i \in 1..agentRow'.turns PROVE \E r \in ToSet(modelRuns) : r.step = i
  <2>1. i \in 1..agentRow.turns \/ i = loop.step
    BY <1>1, <1>3, <1>4, DriveFacts DEF InHandInv
  <2> QED
    BY <1>1, <2>1, DriveFacts DEF RowsInv, InHandInv
<1>9. loop.left = 0 => Last(loop.context).says = "answer"
  BY <1>1, DriveFacts DEF KnownInv
<1>10. "answered" \in LoopState /\ toolRows' \in Seq({"requested", "finished"})
  BY <1>2 DEF LoopState, RecordInv, RecordTypeOK
<1> QED
  BY <1>1, <1>2, <1>3, <1>4, <1>5, <1>6, <1>7, <1>8, <1>9, <1>10, GoesOn

\* Of the steps about a tool call the row keeps at most the context.
LEMMA ToolStepKeeps ==
  ASSUME RecordInv, loop.pc \in {"call", "save", "end call"},
         NEW next \in {"tool", "end call", "called"}, loop'.pc = next,
         agentRow' \in RecordRow, agentRow'.answer = agentRow.answer, agentRow'.turns = agentRow.turns,
         agentRow'.context \in {agentRow.context, loop.context},
         loop' \in LoopRecord, loop'.context = loop.context, loop'.turn = loop.turn, loop'.step = loop.step,
         loop'.no = loop.no, loop'.from = loop.from, loop'.answered = loop.answered,
         loop'.complete = loop.complete, loop'.tokens = loop.tokens,
         UNCHANGED <<stepRows, modelRuns, made>>, toolRows' \in Seq({"requested", "finished"})
  PROVE  RecordInv'
<1>1. Driving /\ ~Unrecorded
  BY DEF Driving, Unrecorded
<1>2. RowHolds'
  <2>1. CASE agentRow'.context = agentRow.context
    BY <1>1, <2>1, NothingRecorded, RowStays, DriveFacts
  <2>2. CASE agentRow'.context = loop.context
    BY <1>1, <2>2, CheckpointExplained
  <2> QED
    BY <2>1, <2>2
<1>3. InHandInv'
  <2>1. Numbers(loop.step)' = 0..(loop'.no - 1)
    BY <1>1, DriveFacts DEF InHandInv, Numbers
  <2> QED
    BY <1>1, <2>1, DriveFacts DEF InHandInv
<1>4. /\ Len(stepRows) \in {agentRow'.turns, agentRow'.turns + 1}
      /\ \A i \in 1..agentRow'.turns : \E r \in ToSet(modelRuns) : r.step = i
  BY <1>1, DriveFacts DEF RowsInv
<1>5. agentRow'.turns \in Nat /\ next \in LoopState
  BY DEF RecordRow, LoopState
<1> QED
  BY <1>1, <1>2, <1>3, <1>4, <1>5, GoesOn

LEMMA ToolStepsKeep ==
  ASSUME RecordInv, CallBegins \/ CheckpointTool \/ CallEnds
  PROVE  RecordInv'
<1>1. toolRows \in Seq({"requested", "finished"}) /\ agentRow \in RecordRow /\ loop \in LoopRecord
  BY DEF RecordInv, RecordTypeOK
<1>2. CASE CallBegins
  <2>1. loop.pc = "call" /\ UNCHANGED <<agentRow, stepRows, modelRuns, made>>
        /\ toolRows' \in Seq({"requested", "finished"})
    BY <1>1, <1>2 DEF CallBegins, LoopAt, Unspent
  <2>2. loop' = [loop EXCEPT !.pc = "tool", !.left = @ - 1]
    BY <1>2 DEF CallBegins
  <2>3. loop.left - 1 \in Int
    BY <1>1 DEF LoopRecord
  <2>4. /\ loop' \in LoopRecord /\ loop'.pc = "tool" /\ loop'.context = loop.context /\ loop'.turn = loop.turn
        /\ loop'.step = loop.step /\ loop'.no = loop.no /\ loop'.from = loop.from
        /\ loop'.answered = loop.answered /\ loop'.complete = loop.complete /\ loop'.tokens = loop.tokens
    BY <1>1, <2>2, <2>3 DEF LoopRecord, LoopState
  <2> QED
    BY <1>1, <2>1, <2>4, ToolStepKeeps
<1>3. CASE CheckpointTool
  <2>1. loop.pc = "save" /\ UNCHANGED <<stepRows, modelRuns, toolRows, made>>
    BY <1>3 DEF CheckpointTool, LoopAt, Unspent
  <2>2. agentRow' = [agentRow EXCEPT !.context = loop.context, !.turns = loop.turn]
    BY <1>3 DEF CheckpointTool, Checkpoint
  <2>3. loop' = [loop EXCEPT !.pc = "end call"]
    BY <1>3 DEF CheckpointTool
  <2>4. /\ loop' \in LoopRecord /\ loop'.pc = "end call" /\ loop'.context = loop.context
        /\ loop'.turn = loop.turn /\ loop'.step = loop.step /\ loop'.no = loop.no /\ loop'.from = loop.from
        /\ loop'.answered = loop.answered /\ loop'.complete = loop.complete /\ loop'.tokens = loop.tokens
    BY <1>1, <2>3 DEF LoopRecord, LoopState
  <2>5. Driving
    BY <2>1 DEF Driving
  <2>6. loop.turn = agentRow.turns /\ loop.context \in Seq(MessageRow) /\ loop.turn \in Nat
    BY <2>5, DriveFacts DEF InHandInv
  <2>7. /\ agentRow' \in RecordRow /\ agentRow'.answer = agentRow.answer /\ agentRow'.turns = agentRow.turns
        /\ agentRow'.context = loop.context
    BY <1>1, <2>2, <2>6 DEF RecordRow
  <2> QED
    BY <1>1, <2>1, <2>4, <2>7, ToolStepKeeps
<1>4. CASE CallEnds
  <2>1. loop.pc = "end call" /\ UNCHANGED <<agentRow, stepRows, modelRuns, made>>
    BY <1>4 DEF CallEnds, LoopAt, Unspent
  <2>4. toolRows' \in Seq({"requested", "finished"})
    <3>1. toolRows' = [toolRows EXCEPT ![Len(toolRows)] = "finished"]
      BY <1>4 DEF CallEnds
    <3>2. PICK n : n = Len(toolRows)
      OBVIOUS
    <3>3. n \in Nat /\ toolRows \in [1..n -> {"requested", "finished"}]
      BY <1>1, <3>2
    <3>4. toolRows' = [i \in 1..n |-> IF i = n THEN "finished" ELSE toolRows[i]]
      BY <3>1, <3>2, <3>3
    <3>5. toolRows' \in [1..n -> {"requested", "finished"}]
      BY <3>3, <3>4
    <3> QED
      BY <3>3, <3>5
  <2>2. loop' = [loop EXCEPT !.pc = "called"]
    BY <1>4 DEF CallEnds
  <2>3. /\ loop' \in LoopRecord /\ loop'.pc = "called" /\ loop'.context = loop.context
        /\ loop'.turn = loop.turn /\ loop'.step = loop.step /\ loop'.no = loop.no /\ loop'.from = loop.from
        /\ loop'.answered = loop.answered /\ loop'.complete = loop.complete /\ loop'.tokens = loop.tokens
    BY <1>1, <2>2 DEF LoopRecord, LoopState
  <2> QED
    BY <1>1, <2>1, <2>3, <2>4, ToolStepKeeps
<1> QED
  BY <1>2, <1>3, <1>4

\* The step in hand is closed: the loop goes to the next turn, or to its end.
LEMMA StepCloses ==
  ASSUME RecordInv, NEW to \in {"completed", "cancelled", "failed", "max_steps_reached"}, CloseStep(to),
         loop.pc \in {"asking", "answered", "called"}, NEW next \in {"step", "answer"},
         loop' \in LoopRecord, loop'.pc = next, loop'.context = loop.context, loop'.turn = loop.turn,
         loop'.step = loop.step, loop'.from = loop.from, loop'.answered = loop.answered,
         loop'.complete = loop.complete, loop'.tokens = loop.tokens,
         UNCHANGED <<agentRow, modelRuns, toolRows, made>>,
         next = "answer" => loop'.status = to,
         to = "completed" => next = "step" \/ Last(loop.context).says = "answer"
  PROVE  RecordInv'
<1>1. Driving /\ ~Unrecorded
  BY DEF Driving, Unrecorded
<1>2. loop.step = Len(stepRows) /\ loop.step > 0 /\ loop.step \in DOMAIN stepRows
  <2>1. loop.step = Len(stepRows) /\ loop.step > 0
    BY <1>1, DriveFacts DEF InHandInv
  <2>2. DOMAIN stepRows = 1..Len(stepRows) /\ Len(stepRows) \in Nat
    BY <1>1, DriveFacts
  <2> QED
    BY <2>1, <2>2
<1>3. TimelineStays /\ stepRows' \in Seq(StepRow) /\ Len(stepRows') = Len(stepRows)
  <2>1. PICK i \in DOMAIN stepRows : i = loop.step
    BY <1>2
  <2>2. stepRows' = [stepRows EXCEPT ![i].status = to]
    BY <2>1 DEF CloseStep
  <2> QED
    BY <1>1, <2>2, StatusChanges, DriveFacts
<1>4. RowHolds'
  BY <1>1, <1>3, RowStays, DriveFacts
<1>5. InHandInv'
  BY <1>1, <1>3, DriveFacts DEF InHandInv
<1>6. ~Unrecorded' /\ Driving'
  BY DEF Unrecorded, Driving
<1>7. /\ Len(stepRows') \in {agentRow'.turns, agentRow'.turns + 1}
      /\ \A i \in 1..agentRow'.turns : \E r \in ToSet(modelRuns) : r.step = i
  BY <1>1, <1>3, DriveFacts DEF RowsInv
<1>8. agentRow' \in RecordRow /\ toolRows' \in Seq({"requested", "finished"})
  BY DEF RecordInv, RecordTypeOK
<1> QED
  BY <1>1, <1>3, <1>4, <1>5, <1>6, <1>7, <1>8, QuietHolds

LEMMA StepEndsKeep ==
  ASSUME RecordInv, FollowingTurn \/ LoopStops \/ LastTurn
  PROVE  RecordInv'
<1>1. loop \in LoopRecord
  BY DEF RecordInv, RecordTypeOK
<1>2. CASE FollowingTurn
  <2>1. loop.taken + 1 \in Nat
    BY <1>1 DEF LoopRecord
  <2>2. /\ loop' \in LoopRecord /\ loop'.pc = "step" /\ loop'.context = loop.context /\ loop'.turn = loop.turn
        /\ loop'.step = loop.step /\ loop'.from = loop.from /\ loop'.answered = loop.answered
        /\ loop'.complete = loop.complete /\ loop'.tokens = loop.tokens
    BY <1>1, <1>2, <2>1 DEF FollowingTurn, LoopRecord, LoopState
  <2> QED
    BY <1>2, <2>2, StepCloses DEF FollowingTurn, LoopAt, Unspent
<1>3. ASSUME NEW to \in {"completed", "cancelled", "failed", "max_steps_reached"}, Ends(to),
             loop.pc \in {"asking", "answered", "called"},
             to = "completed" => Last(loop.context).says = "answer"
      PROVE  RecordInv'
  <2>1. /\ loop' \in LoopRecord /\ loop'.pc = "answer" /\ loop'.context = loop.context /\ loop'.turn = loop.turn
        /\ loop'.step = loop.step /\ loop'.from = loop.from /\ loop'.answered = loop.answered
        /\ loop'.complete = loop.complete /\ loop'.tokens = loop.tokens /\ loop'.status = to
    BY <1>1, <1>3 DEF Ends, LoopRecord, LoopState
  <2>2. CloseStep(to) /\ UNCHANGED <<agentRow, modelRuns, toolRows, made>>
    BY <1>3 DEF Ends
  <2> QED
    BY <1>3, <2>1, <2>2, StepCloses
<1>4. CASE LoopStops
  BY <1>3, <1>4 DEF LoopStops, LoopAt
<1>5. CASE LastTurn
  <2>1. Driving /\ loop.pc = "answered"
    BY <1>5 DEF LastTurn, LoopAt, Driving
  <2>2. loop.left = 0 => Last(loop.context).says = "answer"
    BY <2>1, DriveFacts DEF KnownInv
  <2>3. CASE loop.left = 0 /\ Ends("completed")
    BY <1>3, <2>1, <2>2, <2>3
  <2>4. CASE Ends("max_steps_reached")
    BY <1>3, <2>1, <2>4
  <2> QED
    BY <1>5, <2>3, <2>4 DEF LastTurn
<1> QED
  BY <1>2, <1>4, <1>5

\* An answer is given when the loop knows a tool's evidence and then the answer of the model.
LEMMA AnswerRests ==
  ASSUME RecordInv, loop.pc = "answer", loop.status = "completed", NEW bound, Sufficient(bound)
  PROVE  \E p, q \in Places : Precedes(p, q) /\ Summary(p).says \in Evidence /\ Summary(q).says = "answer"
<1>1. Driving /\ ~Unrecorded
  BY DEF Driving, Unrecorded
<1>2. PICK c : c = loop.context
  OBVIOUS
<1>3. /\ c \in Seq(MessageRow) /\ InTimeline(c) /\ Len(c) \in Nat \ {0} /\ c[1] = Prompt
      /\ c[Len(c)].says = "answer"
  BY <1>1, <1>2, DriveFacts DEF KnownInv
<1>4. PICK j \in 1..Len(c) : c[j].kind = "tool" /\ c[j].says \in Evidence
  <2>1. PICK says \in Observed : TRUE
    BY DEF Sufficient
  <2>2. PICK m \in ToSet(c) : m.kind = "tool" /\ m.says \in Evidence
    BY <1>2, <2>1 DEF Observed
  <2>3. DOMAIN c = 1..Len(c)
    BY <1>3
  <2> QED
    BY <2>2, <2>3 DEF ToSet
<1>5. c[j].kind # "user" /\ c[j].says # "answer"
  BY <1>4 DEF Evidence
<1>6. j # 1 /\ j # Len(c)
  BY <1>3, <1>5 DEF Prompt, Message
<1>7. PICK k : k = Len(c) /\ k \in Nat /\ j \in 1..k
  BY <1>3
<1>8. k \in 2..k /\ j \in 1..(k - 1)
  BY <1>6, <1>7
<1>9. PICK q \in PlacesOf(c[k]) : TRUE
  BY <1>3, <1>7, <1>8 DEF InTimeline
<1>10. PICK p \in PlacesOf(c[j]) : Precedes(p, q)
  BY <1>3, <1>7, <1>8, <1>9 DEF InTimeline
<1> QED
  BY <1>3, <1>4, <1>7, <1>9, <1>10 DEF PlacesOf

LEMMA KeepAnswerKeeps ==
  ASSUME RecordInv, KeepAnswer
  PROVE  RecordInv'
<1>1. Driving /\ loop.pc = "answer" /\ ~Unrecorded
  BY DEF KeepAnswer, LoopAt, Driving, Unrecorded
<1>2. PICK bound \in BOOLEAN :
        agentRow' = [agentRow EXCEPT !.answer = IF loop.status # "completed" THEN "none"
                                                ELSE IF Sufficient(bound) THEN "answer" ELSE "refusal"]
  BY DEF KeepAnswer
<1>3. loop' = [loop EXCEPT !.pc = "finish"] /\ UNCHANGED <<stepRows, modelRuns, toolRows, made>>
  BY DEF KeepAnswer, Unspent
<1>4. /\ agentRow' \in RecordRow /\ agentRow'.context = agentRow.context /\ agentRow'.turns = agentRow.turns
      /\ agentRow'.answer = "answer" => loop.status = "completed" /\ Sufficient(bound)
  BY <1>1, <1>2, DriveFacts DEF RecordRow
<1>5. /\ loop' \in LoopRecord /\ loop'.pc = "finish" /\ loop'.context = loop.context /\ loop'.turn = loop.turn
      /\ loop'.step = loop.step /\ loop'.from = loop.from /\ loop'.answered = loop.answered
      /\ loop'.complete = loop.complete /\ loop'.tokens = loop.tokens /\ loop'.status = loop.status
  BY <1>1, <1>3, DriveFacts DEF LoopRecord, LoopState
<1>6. TimelineStays
  BY <1>3, NothingRecorded
<1>7. RowHolds'
  <2>1. PICK c : c = agentRow.context
    OBVIOUS
  <2>2. InTimeline(c)' /\ c = agentRow'.context
    BY <1>1, <1>4, <1>6, <2>1, StillInTimeline, DriveFacts DEF RowHolds, ContextIsRecorded
  <2>3. ContextIsRecorded'
    BY <2>2 DEF ContextIsRecorded, InTimeline
  <2>4. AnswerIsRecorded'
    <3>1. agentRow'.answer = "answer" =>
            \E p, q \in Places : Precedes(p, q) /\ Summary(p).says \in Evidence /\ Summary(q).says = "answer"
      BY <1>1, <1>4, AnswerRests
    <3> QED
      BY <1>6, <3>1 DEF AnswerIsRecorded, TimelineStays, Precedes
  <2> QED
    BY <1>1, <1>4, <2>3, <2>4, DriveFacts DEF RowHolds
<1>8. InHandInv'
  BY <1>1, <1>3, <1>4, <1>5, DriveFacts DEF InHandInv
<1>9. /\ Len(stepRows) \in {agentRow'.turns, agentRow'.turns + 1} /\ agentRow'.turns \in Nat
      /\ \A i \in 1..agentRow'.turns : \E r \in ToSet(modelRuns) : r.step = i
  BY <1>1, <1>4, DriveFacts DEF RowsInv, RecordRow
<1>10. loop'.status = "completed" => Last(loop.context).says = "answer"
  BY <1>1, <1>5, DriveFacts DEF KnownInv
<1>11. "finish" \in LoopState /\ toolRows' \in Seq({"requested", "finished"})
  BY <1>3 DEF LoopState, RecordInv, RecordTypeOK
<1> QED
  BY <1>1, <1>3, <1>4, <1>5, <1>7, <1>8, <1>9, <1>10, <1>11, GoesOn

LEMMA FinishKeeps ==
  ASSUME RecordInv, FinishRecords
  PROVE  RecordInv'
<1>1. Driving /\ loop.pc = "finish" /\ ~Unrecorded
  BY DEF FinishRecords, LoopAt, Driving, Unrecorded
<1>2. /\ agentRow' = [agentRow EXCEPT !.status = loop.status, !.turns = loop.turn, !.tokens = Snapshot]
      /\ loop' = NoLoop /\ UNCHANGED <<stepRows, modelRuns, toolRows, made>>
  BY DEF FinishRecords, Unspent
<1>3. loop.turn = agentRow.turns /\ Snapshot \in Nat \cup {NoUsage}
  BY <1>1, DriveFacts DEF InHandInv, Snapshot, LoopRecord
<1>4. /\ agentRow' \in RecordRow /\ agentRow'.context = agentRow.context /\ agentRow'.answer = agentRow.answer
      /\ agentRow'.turns = agentRow.turns
  <2>1. loop.status \in {"completed", "cancelled", "failed", "max_steps_reached"}
    BY <1>1, DriveFacts DEF InHandInv, LoopRecord
  <2> QED
    BY <1>1, <1>2, <1>3, <2>1, DriveFacts DEF RecordRow
<1>5. loop' \in LoopRecord /\ loop'.pc = "gone"
  BY <1>2, NewLoopTyped DEF NoLoop, LoopRecord, LoopState
<1>6. TimelineStays
  BY <1>2, NothingRecorded
<1>7. RecordTypeOK'
  BY <1>1, <1>2, <1>4, <1>5, DriveFacts DEF RecordTypeOK
<1>8. RowHolds'
  BY <1>1, <1>4, <1>6, RowStays, DriveFacts
<1>9. RowsInv'
  BY <1>1, <1>2, <1>4, <1>5, <1>6, DriveFacts DEF RowsInv, Unrecorded, TimelineStays
<1> QED
  BY <1>5, <1>7, <1>8, <1>9 DEF RecordInv, RowHolds, Driving

LEMMA RecordsBegin ==
  ASSUME RecordInit
  PROVE  RecordInv
<1>1. Prompt \in MessageRow
  BY DEF Prompt, Message, MessageRow
<1>2. /\ agentRow = [status |-> "pending", turns |-> 0, context |-> <<Prompt>>, tokens |-> NoUsage, answer |-> "none"]
      /\ stepRows = <<>> /\ modelRuns = <<>> /\ toolRows = <<>> /\ made = 0
      /\ loop \in {NewLoop, NoLoop}
  BY DEF RecordInit
<1>3. <<Prompt>> \in Seq(MessageRow) /\ Len(<<Prompt>>) = 1 /\ <<Prompt>>[1] = Prompt
  BY <1>1
<1>4. loop \in LoopRecord /\ loop.pc \in {"queued", "gone"} /\ (loop.pc = "queued" => loop = NewLoop)
  BY <1>2, NewLoopTyped DEF NoLoop, LoopRecord, LoopState
<1>5. RecordTypeOK
  BY <1>2, <1>3, <1>4 DEF RecordTypeOK, RecordRow
<1>6. Places = {}
  BY <1>2 DEF Places
<1>7. RowsInv
  BY <1>2, <1>6 DEF RowsInv
<1>8. agentRow.context # <<>> /\ agentRow.context[1] = Prompt /\ ContextIsRecorded /\ AnswerIsRecorded
  BY <1>2, <1>3 DEF ContextIsRecorded, InTimeline, AnswerIsRecorded
<1> QED
  BY <1>4, <1>5, <1>7, <1>8 DEF RecordInv, Driving

LEMMA RecordsStutter ==
  ASSUME RecordInv, UNCHANGED recordVars
  PROVE  RecordInv'
<1>1. UNCHANGED <<agentRow, stepRows, modelRuns, toolRows, loop, made>> /\ TimelineStays
  BY NothingRecorded DEF recordVars
<1>2. RecordTypeOK'
  BY <1>1 DEF RecordInv, RecordTypeOK
<1>3. RowsInv'
  BY <1>1 DEF RecordInv, RowsInv, Unrecorded, TimelineStays
<1>4. RowHolds'
  BY <1>1, RowStays DEF RecordInv, RowHolds
<1>5. (loop.pc = "queued" => loop = NewLoop)' /\ (Driving' <=> Driving)
  BY <1>1 DEF RecordInv, Driving
<1>6. CASE Driving
  <2>1. InHandInv'
    BY <1>1, <1>6, DriveFacts DEF InHandInv, Numbers
  <2>2. PICK c : c = loop.context
    OBVIOUS
  <2>3. PICK d : d = SubSeq(c, 1, Len(c) - 1)
    OBVIOUS
  <2>4. (InTimeline(c)' <=> InTimeline(c)) /\ (InTimeline(d)' <=> InTimeline(d)) /\ PlacesOf(Prompt)' = PlacesOf(Prompt)
    BY <1>1, StillInTimeline, PlacesStay
  <2>5. c = loop'.context /\ d = SubSeq(loop'.context, 1, Len(loop'.context) - 1)
    BY <1>1, <2>2, <2>3
  <2>6. InTimeline(loop.context) <=> InTimeline(c)
    BY <2>2 DEF InTimeline
  <2>7. InTimeline(loop.context)' <=> InTimeline(c)'
    BY <2>5 DEF InTimeline
  <2>8. InTimeline(SubSeq(loop.context, 1, Len(loop.context) - 1)) <=> InTimeline(d)
    BY <2>2, <2>3 DEF InTimeline
  <2>9. InTimeline(SubSeq(loop.context, 1, Len(loop.context) - 1))' <=> InTimeline(d)'
    BY <2>5 DEF InTimeline
  <2>10. /\ InTimeline(loop.context)' <=> InTimeline(loop.context)
         /\ InTimeline(SubSeq(loop.context, 1, Len(loop.context) - 1))'
              <=> InTimeline(SubSeq(loop.context, 1, Len(loop.context) - 1))
    BY <2>4, <2>6, <2>7, <2>8, <2>9
  <2>11. KnownInv'
    BY <1>1, <1>6, <2>4, <2>10, DriveFacts DEF KnownInv, Unrecorded
  <2>12. Mine' = Mine
    BY <1>1 DEF Mine
  <2>13. Silent(Mine)' = Silent(Mine) /\ Tokens(Mine)' = Tokens(Mine)
    BY <2>12 DEF Silent, Tokens, ToSet
  <2>14. UsageInv'
    BY <1>1, <1>6, <2>12, <2>13, DriveFacts DEF UsageInv
  <2> QED
    BY <1>2, <1>3, <1>4, <1>5, <2>1, <2>11, <2>14 DEF RecordInv, RowHolds
<1> QED
  BY <1>2, <1>3, <1>4, <1>5, <1>6 DEF RecordInv, RowHolds

LEMMA RecordInvariant == RecordSpec => []RecordInv
<1>1. RecordInit => RecordInv
  BY RecordsBegin
<1>2. RecordInv /\ [RecordNext]_recordVars => RecordInv'
  <2> SUFFICES ASSUME RecordInv, [RecordNext]_recordVars PROVE RecordInv'
    OBVIOUS
  <2>1. CASE WorkerLost
    BY <2>1, LoseKeeps DEF WorkerLost
  <2>2. CASE ResumeRecords \/ TakeUp \/ OpenStep
    BY <2>2, ResumeKeepsRecords, TakeUpKeeps, OpenStepKeeps
  <2>3. CASE KeepInput \/ KeepCall
    BY <2>3, KeepInputHolds, KeepCallHolds
  <2>4. CASE KeepResponse
    BY <2>4, KeepGivenHolds DEF KeepResponse, LoopAt
  <2>5. CASE KeepToolResult
    BY <2>5, KeepGivenHolds DEF KeepToolResult, LoopAt
  <2>6. CASE ModelAnswers \/ ToolAnswers \/ KeepUsage
    BY <2>6, ModelAnswersKeeps, ToolAnswersKeeps, KeepUsageKeeps
  <2>7. CASE CheckpointTurn
    BY <2>7, CheckpointTurnKeeps
  <2>8. CASE CallBegins \/ CheckpointTool \/ CallEnds
    BY <2>8, ToolStepsKeep
  <2>9. CASE FollowingTurn \/ LoopStops \/ LastTurn
    BY <2>9, StepEndsKeep
  <2>10. CASE KeepAnswer \/ FinishRecords
    BY <2>10, KeepAnswerKeeps, FinishKeeps
  <2>11. CASE UNCHANGED recordVars
    BY <2>11, RecordsStutter
  <2> QED
    BY <2>1, <2>2, <2>3, <2>4, <2>5, <2>6, <2>7, <2>8, <2>9, <2>10, <2>11 DEF RecordNext
<1> QED
  BY <1>1, <1>2, PTL DEF RecordSpec

LEMMA InvExplains ==
  ASSUME RecordInv
  PROVE  RecordsExplainRun
<1>1. agentRow \in RecordRow /\ stepRows \in Seq(StepRow) /\ modelRuns \in Seq(ModelRunRow)
  BY DEF RecordInv, RecordTypeOK
<1>2. Len(stepRows) >= agentRow.turns /\ agentRow.turns \in Nat
  BY <1>1 DEF RecordInv, RowsInv, RecordRow
<1>3. ASSUME NEW i \in DOMAIN stepRows PROVE Numbers(i) = 0..(Cardinality(Numbers(i)) - 1)
  <2>1. PICK k \in Nat : Numbers(i) = 0..(k - 1)
    BY Numbered DEF RecordInv
  <2>2. Cardinality(0..(k - 1)) = k
    BY FS_Interval
  <2> QED
    BY <2>1, <2>2
<1>4. agentRow.turns > 0 => modelRuns # <<>>
  <2>1. ASSUME agentRow.turns > 0 PROVE modelRuns # <<>>
    <3>1. 1 \in 1..agentRow.turns
      BY <1>2, <2>1
    <3>2. PICK m \in ToSet(modelRuns) : m.step = 1
      BY <3>1 DEF RecordInv, RowsInv
    <3> QED
      BY <3>2 DEF ToSet
  <2> QED
    BY <2>1
<1>5. EvidenceIsWhole
  <2>1. RecoveryCode = "none"
    BY <1>1, <1>2, <1>3, <1>4 DEF RecoveryCode
  <2> QED
    BY <2>1 DEF EvidenceIsWhole, RecordInv, RowsInv
<1>6. UsageAddsUp
  <2>1. SUFFICES ASSUME loop.pc \notin {"gone", "queued", "usage"}
                 PROVE Snapshot = IF Mine = <<>> \/ Silent(Mine) THEN NoUsage ELSE Tokens(Mine)
    BY DEF UsageAddsUp
  <2>2. UsageInv
    BY <2>1 DEF RecordInv, Driving
  <2> QED
    BY <2>1, <2>2 DEF UsageInv, Snapshot
<1> QED
  BY <1>5, <1>6 DEF RecordInv, RecordsExplainRun

\* Wherever the workers of a run are lost, what is recorded of it can be resumed
\* from, holds the context in the order it came about, adds up to the usage that
\* is reported, and shows the evidence of its answer.
THEOREM RecordsExplain == RecordSpec => []RecordsExplainRun
<1>1. RecordInv => RecordsExplainRun
  BY InvExplains
<1> QED
  BY <1>1, RecordInvariant, PTL
-----------------------------------------------------------------------------
(* Sequences that are joined. *)

\* f joins the sequences w, one after the other.
Joins(f, w, n) == f = [i \in 1..n |-> IF i = 1 THEN w[i] ELSE f[i - 1] \o w[i]]

JoinsUpTo(f, w, n) == \A i \in 1..n : f[i] = IF i = 1 THEN w[i] ELSE f[i - 1] \o w[i]

LEMMA JoinsExist ==
  ASSUME NEW w, NEW n \in Nat
  PROVE  \E f : Joins(f, w, n)
<1> DEFINE bad == {i \in Nat : ~\E f : Joins(f, w, i)}
<1>1. SUFFICES ASSUME n \in bad PROVE FALSE
  OBVIOUS
<1>2. PICK k \in bad : \A i \in bad : k <= i
  BY <1>1, LeastNumber
<1>3. k # 0
  <2>1. Joins([i \in 1..0 |-> <<>>], w, 0)
    BY DEF Joins
  <2> QED
    BY <1>2, <2>1
<1>4. k - 1 \in Nat /\ k - 1 \notin bad
  BY <1>2, <1>3
<1>5. PICK f : Joins(f, w, k - 1)
  BY <1>4
<1>6. \A i \in 1..(k - 1) : f[i] = IF i = 1 THEN w[i] ELSE f[i - 1] \o w[i]
  BY <1>5 DEF Joins
<1> DEFINE g == [i \in 1..k |-> IF i < k THEN f[i] ELSE IF i = 1 THEN w[i] ELSE f[k - 1] \o w[k]]
<1>7. ASSUME NEW i \in 1..k PROVE g[i] = IF i = 1 THEN w[i] ELSE g[i - 1] \o w[i]
  BY <1>3, <1>4, <1>6
<1>8. Joins(g, w, k)
  BY <1>7 DEF Joins
<1> QED
  BY <1>8, <1>2

LEMMA JoinsAgree ==
  ASSUME NEW w, NEW f, NEW g, NEW n \in Nat \ {0}, JoinsUpTo(f, w, n), JoinsUpTo(g, w, n)
  PROVE  f[n] = g[n]
<1> DEFINE bad == {i \in 1..n : f[i] # g[i]}
<1>1. SUFFICES ASSUME n \in bad PROVE FALSE
  OBVIOUS
<1>2. bad \in SUBSET Nat /\ bad # {}
  BY <1>1
<1>3. PICK k \in bad : \A i \in bad : k <= i
  BY <1>2, LeastNumber
<1>4. /\ f[k] = IF k = 1 THEN w[k] ELSE f[k - 1] \o w[k]
      /\ g[k] = IF k = 1 THEN w[k] ELSE g[k - 1] \o w[k]
  BY DEF JoinsUpTo
<1>5. k # 1
  BY <1>4
<1>6. k - 1 \in 1..n /\ k - 1 \notin bad
  BY <1>3, <1>5
<1> QED
  BY <1>4, <1>5, <1>6

\* What is joined is a sequence of what the parts are sequences of.
LEMMA JoinsTyped ==
  ASSUME NEW S, NEW w \in Seq(Seq(S)), NEW f, NEW n \in 1..Len(w), JoinsUpTo(f, w, n)
  PROVE  f[n] \in Seq(S)
<1> DEFINE bad == {i \in 1..n : f[i] \notin Seq(S)}
<1>1. SUFFICES ASSUME n \in bad PROVE FALSE
  OBVIOUS
<1>2. bad \in SUBSET Nat /\ bad # {}
  BY <1>1
<1>3. PICK k \in bad : \A i \in bad : k <= i
  BY <1>2, LeastNumber
<1>4. f[k] = (IF k = 1 THEN w[k] ELSE f[k - 1] \o w[k]) /\ w[k] \in Seq(S)
  BY DEF JoinsUpTo
<1>5. k # 1
  BY <1>4
<1>6. k - 1 \in 1..n /\ k - 1 \notin bad
  BY <1>3, <1>5
<1>7. f[k] = f[k - 1] \o w[k] /\ f[k - 1] \in Seq(S)
  BY <1>4, <1>5, <1>6
<1>8. f[k] \in Seq(S)
  BY <1>4, <1>7
<1> QED
  BY <1>8

LEMMA FlattenJoins ==
  ASSUME NEW w, NEW n \in Nat \ {0}, Len(w) = n
  PROVE  \E f : JoinsUpTo(f, w, n) /\ FlattenSeq(w) = f[n]
<1> DEFINE flatten == CHOOSE f : f = [i \in 1..Len(w) |-> IF i = 1 THEN w[i] ELSE f[i - 1] \o w[i]]
<1>1. \E f : f = [i \in 1..Len(w) |-> IF i = 1 THEN w[i] ELSE f[i - 1] \o w[i]]
  BY JoinsExist DEF Joins
<1>2. flatten = [i \in 1..Len(w) |-> IF i = 1 THEN w[i] ELSE flatten[i - 1] \o w[i]]
  BY <1>1
<1>3. FlattenSeq(w) = flatten[Len(w)]
  BY DEF FlattenSeq
<1>4. JoinsUpTo(flatten, w, n)
  BY <1>2 DEF JoinsUpTo
<1> QED
  BY <1>3, <1>4

\* One part more comes at the end.
LEMMA FlattenMore ==
  ASSUME NEW S, NEW w \in Seq(Seq(S)), NEW v \in Seq(Seq(S)), Len(v) = Len(w) + 1,
         \A i \in 1..Len(w) : v[i] = w[i]
  PROVE  /\ FlattenSeq(w) \in Seq(S) /\ v[Len(v)] \in Seq(S)
         /\ FlattenSeq(v) = FlattenSeq(w) \o v[Len(v)]
<1>1. PICK n : n = Len(w)
  OBVIOUS
<1>2. n \in Nat /\ n + 1 \in Nat \ {0} /\ Len(v) = n + 1 /\ v[n + 1] \in Seq(S)
  BY <1>1
<1>3. PICK g : JoinsUpTo(g, v, n + 1) /\ FlattenSeq(v) = g[n + 1]
  BY <1>2, FlattenJoins
<1>4. CASE n = 0
  <2>1. FlattenSeq(w) = w /\ w = <<>>
    <3>1. Len(w) = 0
      BY <1>1, <1>4
    <3>2. FlattenSeq(w) = w
      BY <3>1 DEF FlattenSeq
    <3>3. w = <<>>
      BY <3>1
    <3> QED
      BY <3>2, <3>3
  <2>2. FlattenSeq(v) = v[1] /\ v[1] \in Seq(S)
    BY <1>2, <1>3, <1>4 DEF JoinsUpTo
  <2>3. <<>> \o v[1] = v[1]
    BY <2>2
  <2> QED
    BY <1>2, <1>4, <2>1, <2>2, <2>3
<1>5. CASE n # 0
  <2>1. PICK f : JoinsUpTo(f, w, n) /\ FlattenSeq(w) = f[n]
    BY <1>1, <1>2, <1>5, FlattenJoins
  <2>2. f[n] \in Seq(S)
    <3>1. n \in 1..Len(w)
      BY <1>1, <1>2, <1>5
    <3> QED
      BY <2>1, <3>1, JoinsTyped
  <2>3. JoinsUpTo(g, w, n)
    <3>1. \A i \in 1..n : i \in 1..(n + 1) /\ v[i] = w[i]
      BY <1>1, <1>2
    <3>2. \A i \in 1..(n + 1) : g[i] = IF i = 1 THEN v[i] ELSE g[i - 1] \o v[i]
      BY <1>3 DEF JoinsUpTo
    <3> QED
      BY <3>1, <3>2 DEF JoinsUpTo
  <2>4. f[n] = g[n]
    BY <1>2, <1>5, <2>1, <2>3, JoinsAgree
  <2>5. g[n + 1] = g[n] \o v[n + 1]
    <3>1. n + 1 \in 1..(n + 1) /\ n + 1 # 1 /\ (n + 1) - 1 = n
      BY <1>2, <1>5
    <3>2. \A i \in 1..(n + 1) : g[i] = IF i = 1 THEN v[i] ELSE g[i - 1] \o v[i]
      BY <1>3 DEF JoinsUpTo
    <3>3. g[n + 1] = IF n + 1 = 1 THEN v[n + 1] ELSE g[(n + 1) - 1] \o v[n + 1]
      BY <3>1, <3>2
    <3> QED
      BY <3>1, <3>3
  <2> QED
    BY <1>2, <1>3, <2>1, <2>2, <2>4, <2>5
<1> QED
  BY <1>4, <1>5
-----------------------------------------------------------------------------
(* The events of the run. *)

RunEvent ==
  ({"running", "begun", "requested", "step", "finished", "stepped", "ended"} \cup EndStatus) \X Nat

\* The events of the i-th call.
EventsOfCall(call, i) ==
  <<<<"requested", i>>, <<"step", i>>>>
  \o (IF call = "finished" THEN <<<<"finished", i>>, <<"stepped", i>>>> ELSE <<>>)

LEMMA CallEvents ==
  ASSUME NEW call, NEW i \in Nat
  PROVE  EventsOfCall(call, i) \in Seq(RunEvent)
<1>1. <<<<"requested", i>>, <<"step", i>>>> \in Seq(RunEvent)
  BY DEF RunEvent
<1>2. <<<<"finished", i>>, <<"stepped", i>>>> \in Seq(RunEvent)
  BY DEF RunEvent
<1>3. <<>> \in Seq(RunEvent)
  OBVIOUS
<1> QED
  BY <1>1, <1>2, <1>3 DEF EventsOfCall

LEMMA EventsAreJoined ==
  ASSUME NEW cs, Len(cs) \in Nat, DOMAIN cs = 1..Len(cs)
  PROVE  \E w \in Seq(Seq(RunEvent)) :
           /\ Len(w) = Len(cs) /\ \A i \in 1..Len(cs) : w[i] = EventsOfCall(cs[i], i)
           /\ EventsOfCalls(cs) = FlattenSeq(w)
<1> DEFINE w == [i \in DOMAIN cs |-> EventsOfCall(cs[i], i)]
<1>1. w = [i \in 1..Len(cs) |-> EventsOfCall(cs[i], i)]
  OBVIOUS
<1>2. \A i \in 1..Len(cs) : EventsOfCall(cs[i], i) \in Seq(RunEvent)
  BY CallEvents
<1>3. w \in Seq(Seq(RunEvent)) /\ Len(w) = Len(cs)
  BY <1>1, <1>2
<1>4. EventsOfCalls(cs) = FlattenSeq(w)
  BY DEF EventsOfCalls, EventsOfCall
<1> QED
  BY <1>1, <1>3, <1>4

\* The events of the calls up to the last one, and those of the last one.
LEMMA LastCallsEvents ==
  ASSUME NEW S, NEW cs \in Seq(S), NEW ds \in Seq(S), Len(ds) = Len(cs) + 1,
         \A i \in 1..Len(cs) : ds[i] = cs[i]
  PROVE  /\ EventsOfCalls(cs) \in Seq(RunEvent)
         /\ EventsOfCalls(ds) = EventsOfCalls(cs) \o EventsOfCall(ds[Len(ds)], Len(ds))
<1>1. PICK n : n = Len(cs)
  OBVIOUS
<1>2. n \in Nat /\ n + 1 \in Nat /\ Len(ds) = n + 1 /\ DOMAIN cs = 1..n /\ DOMAIN ds = 1..(n + 1)
  BY <1>1
<1>3. PICK w \in Seq(Seq(RunEvent)) :
        /\ Len(w) = n /\ \A i \in 1..n : w[i] = EventsOfCall(cs[i], i)
        /\ EventsOfCalls(cs) = FlattenSeq(w)
  BY <1>1, <1>2, EventsAreJoined
<1>4. PICK v \in Seq(Seq(RunEvent)) :
        /\ Len(v) = n + 1 /\ \A i \in 1..(n + 1) : v[i] = EventsOfCall(ds[i], i)
        /\ EventsOfCalls(ds) = FlattenSeq(v)
  BY <1>2, EventsAreJoined
<1>5. \A i \in 1..Len(w) : v[i] = w[i]
  BY <1>1, <1>2, <1>3, <1>4
<1>6. v[Len(v)] = EventsOfCall(ds[Len(ds)], Len(ds))
  BY <1>2, <1>4
<1>7. /\ FlattenSeq(w) \in Seq(RunEvent)
      /\ FlattenSeq(v) = FlattenSeq(w) \o v[Len(v)]
  BY <1>3, <1>4, <1>5, FlattenMore
<1> QED
  BY <1>3, <1>4, <1>6, <1>7

LEMMA EventsTyped ==
  ASSUME NEW S, NEW cs \in Seq(S)
  PROVE  EventsOfCalls(cs) \in Seq(RunEvent)
<1>1. CASE cs = <<>>
  <2>1. Len(cs) = 0 /\ Len(cs) \in Nat /\ DOMAIN cs = 1..Len(cs)
    BY <1>1
  <2>2. PICK w \in Seq(Seq(RunEvent)) : Len(w) = Len(cs) /\ EventsOfCalls(cs) = FlattenSeq(w)
    BY <2>1, EventsAreJoined
  <2>3. Len(w) = 0
    BY <2>1, <2>2
  <2>4. FlattenSeq(w) = w
    BY <2>3 DEF FlattenSeq
  <2>5. w = <<>>
    BY <2>3
  <2>6. <<>> \in Seq(RunEvent)
    OBVIOUS
  <2> QED
    BY <2>2, <2>4, <2>5, <2>6
<1>2. CASE cs # <<>>
  <2>1. PICK ds : ds = Append(cs, cs[1])
    OBVIOUS
  <2>2. cs[1] \in S /\ ds \in Seq(S) /\ Len(ds) = Len(cs) + 1 /\ \A i \in 1..Len(cs) : ds[i] = cs[i]
    BY <1>2, <2>1
  <2> QED
    BY <2>2, LastCallsEvents
<1> QED
  BY <1>1, <1>2

LEMMA PrefixOfJoin ==
  ASSUME NEW S, NEW a \in Seq(S), NEW b \in Seq(S), NEW c \in Seq(S)
  PROVE  /\ IsPrefix(a, a \o b) /\ IsPrefix(a, a)
         /\ (a \o b) \o c = a \o (b \o c)
<1>1. PICK d : d = a \o b
  OBVIOUS
<1>2. d \in Seq(S) /\ Len(a) <= Len(d) /\ \A i \in 1..Len(a) : d[i] = a[i]
  BY <1>1
<1>3. SubSeq(a, 1, Len(a)) = SubSeq(d, 1, Len(a))
  BY <1>2
<1>4. IsPrefix(a, d)
  BY <1>2, <1>3 DEF IsPrefix
<1>5. IsPrefix(a, a)
  BY DEF IsPrefix
<1>6. (a \o b) \o c = a \o (b \o c)
  OBVIOUS
<1> QED
  BY <1>1, <1>4, <1>5, <1>6

Beginning == <<<<"running", 0>>, <<"begun", 0>>>>
Ending(status) ==
  CASE status \in {"cancelled", "failed", "timed_out"} -> <<<<status, 0>>, <<"ended", 0>>>>
    [] status \in {"completed", "max_steps_reached"} -> <<<<"ended", 0>>>>
    [] OTHER -> <<>>

RunStatus == {"absent"} \cup ActiveStatus \cup EndStatus

LEMMA EndingTyped ==
  ASSUME NEW status \in RunStatus
  PROVE  Ending(status) \in Seq(RunEvent) /\ (status \in ActiveStatus => Ending(status) = <<>>)
<1>1. CASE status \in {"cancelled", "failed", "timed_out"}
  <2>1. Ending(status) = <<<<status, 0>>, <<"ended", 0>>>>
    BY <1>1 DEF Ending
  <2>2. <<status, 0>> \in RunEvent /\ <<"ended", 0>> \in RunEvent
    BY <1>1 DEF RunEvent, EndStatus, ResumableStatus
  <2> QED
    BY <1>1, <2>1, <2>2 DEF ActiveStatus
<1>2. CASE status \in {"completed", "max_steps_reached"}
  <2>1. Ending(status) = <<<<"ended", 0>>>>
    BY <1>2 DEF Ending
  <2>2. <<"ended", 0>> \in RunEvent
    BY DEF RunEvent
  <2> QED
    BY <1>2, <2>1, <2>2 DEF ActiveStatus
<1>3. CASE status \in {"absent"} \cup ActiveStatus
  <2>1. Ending(status) = <<>>
    BY <1>3 DEF Ending, ActiveStatus
  <2> QED
    BY <2>1
<1> QED
  BY <1>1, <1>2, <1>3 DEF RunStatus, EndStatus, ResumableStatus

LEMMA BeginningTyped == Beginning \in Seq(RunEvent)
<1>1. <<"running", 0>> \in RunEvent /\ <<"begun", 0>> \in RunEvent
  BY DEF RunEvent
<1> QED
  BY <1>1 DEF Beginning

\* Of two timelines with the same calls, one of an active run is the beginning.
LEMMA EndsAreAdded ==
  ASSUME RunTypeOK, RunTypeOK', UNCHANGED calls, run.status \in ActiveStatus \/ run'.status = run.status
  PROVE  IsPrefix(Timeline, Timeline')
<1>1. PICK b, e, x, y : /\ b = Beginning /\ e = EventsOfCalls(calls)
                        /\ x = Ending(run.status) /\ y = Ending(run'.status)
  OBVIOUS
<1>2. run.status \in RunStatus /\ run'.status \in RunStatus
  BY DEF RunTypeOK, RunRow, RunStatus
<1>3. b \in Seq(RunEvent) /\ e \in Seq(RunEvent) /\ x \in Seq(RunEvent) /\ y \in Seq(RunEvent)
  BY <1>1, <1>2, BeginningTyped, EndingTyped, EventsTyped DEF RunTypeOK
<1>4. Timeline = (b \o e) \o x
  BY <1>1 DEF Timeline, Beginning, Ending
<1>5. Timeline' = (b \o e) \o y
  BY <1>1 DEF Timeline, Beginning, Ending
<1>6. x = <<>> \/ y = x
  BY <1>1, <1>2, EndingTyped
<1>7. (b \o e) \in Seq(RunEvent) /\ (b \o e) \o x \in Seq(RunEvent)
  BY <1>3
<1>8. CASE x = <<>>
  <2>1. (b \o e) \o x = b \o e
    BY <1>7, <1>8
  <2> QED
    BY <1>3, <1>4, <1>5, <1>7, <2>1, PrefixOfJoin
<1>9. CASE y = x
  BY <1>4, <1>5, <1>7, <1>9, PrefixOfJoin
<1> QED
  BY <1>6, <1>8, <1>9

\* The events of the calls of an active run grow, and so does its timeline.
LEMMA CallsAreAdded ==
  ASSUME RunTypeOK, run.status \in ActiveStatus, UNCHANGED run, NEW more \in Seq(RunEvent),
         EventsOfCalls(calls)' = EventsOfCalls(calls) \o more
  PROVE  IsPrefix(Timeline, Timeline')
<1>1. PICK b, e, x : b = Beginning /\ e = EventsOfCalls(calls) /\ x = Ending(run.status)
  OBVIOUS
<1>2. b \in Seq(RunEvent) /\ e \in Seq(RunEvent) /\ x = <<>>
  BY <1>1, BeginningTyped, EndingTyped, EventsTyped DEF RunTypeOK, RunRow, RunStatus
<1>3. Timeline = (b \o e) \o x
  BY <1>1 DEF Timeline, Beginning, Ending
<1>4. Timeline' = (b \o (e \o more)) \o x
  BY <1>1 DEF Timeline, Beginning, Ending
<1>5. b \o e \in Seq(RunEvent) /\ b \o (e \o more) = (b \o e) \o more
  BY <1>2
<1>6. (b \o e) \o more \in Seq(RunEvent)
  BY <1>5
<1>7. (b \o e) \o x = b \o e /\ ((b \o e) \o more) \o x = (b \o e) \o more
  BY <1>2, <1>5, <1>6
<1>8. IsPrefix(b \o e, (b \o e) \o more)
  BY <1>5, PrefixOfJoin
<1> QED
  BY <1>3, <1>4, <1>5, <1>7, <1>8

LEMMA ToolsExtend ==
  ASSUME RunInv, NEW d \in Driver, CallTool(d) \/ ToolDone(d)
  PROVE  IsPrefix(Timeline, Timeline')
<1>1. Drives(d)
  BY DEF CallTool, ToolDone, Drives, At
<1>2. RunTypeOK /\ calls \in Seq(CallStatus) /\ run.status \in ActiveStatus /\ UNCHANGED run
  BY <1>1, WorkerFacts DEF RunInv, RunActive, CallTool, ToolDone
<1>3. PICK n : n = Len(calls)
  OBVIOUS
<1>4. CASE CallTool(d)
  <2>1. PICK cs : cs = Append(calls, "requested")
    OBVIOUS
  <2>2. cs \in Seq(CallStatus) /\ Len(cs) = Len(calls) + 1 /\ \A i \in 1..Len(calls) : cs[i] = calls[i]
    BY <1>2, <2>1 DEF CallStatus
  <2>3. EventsOfCalls(cs) = EventsOfCalls(calls) \o EventsOfCall(cs[Len(cs)], Len(cs))
    BY <1>2, <2>2, LastCallsEvents
  <2>4. calls' = cs
    BY <1>4, <2>1 DEF CallTool
  <2>5. EventsOfCalls(calls)' = EventsOfCalls(cs)
    BY <2>4
  <2>6. EventsOfCall(cs[Len(cs)], Len(cs)) \in Seq(RunEvent)
    BY <2>2, CallEvents
  <2> QED
    BY <1>2, <2>3, <2>5, <2>6, CallsAreAdded
<1>5. CASE ToolDone(d)
  <2>1. n \in Nat \ {0}
    BY <1>1, <1>2, <1>3, <1>5, WorkerFacts DEF ToolDone, At, PlaceHolds
  <2>2. PICK front, cs : front = SubSeq(calls, 1, n - 1) /\ cs = [calls EXCEPT ![n] = "finished"]
    OBVIOUS
  <2>3. /\ front \in Seq(CallStatus) /\ cs \in Seq(CallStatus)
        /\ Len(front) = n - 1 /\ Len(cs) = n /\ cs[n] = "finished"
        /\ \A i \in 1..(n - 1) : front[i] = calls[i] /\ cs[i] = calls[i]
    BY <1>2, <1>3, <2>1, <2>2 DEF CallStatus
  <2>4. PICK f, r, s : /\ f = EventsOfCalls(front) /\ r = EventsOfCall(calls[n], n)
                       /\ s = EventsOfCall("finished", n)
    OBVIOUS
  <2>5. /\ f \in Seq(RunEvent) /\ EventsOfCalls(calls) = f \o r /\ EventsOfCalls(cs) = f \o s
    <3>1. /\ Len(calls) = Len(front) + 1 /\ Len(cs) = Len(front) + 1
          /\ \A i \in 1..Len(front) : calls[i] = front[i] /\ cs[i] = front[i]
      BY <1>3, <2>1, <2>3
    <3>2. EventsOfCalls(calls) = EventsOfCalls(front) \o EventsOfCall(calls[Len(calls)], Len(calls))
      BY <1>2, <2>3, <3>1, LastCallsEvents
    <3>3. EventsOfCalls(cs) = EventsOfCalls(front) \o EventsOfCall(cs[Len(cs)], Len(cs))
      BY <2>3, <3>1, LastCallsEvents
    <3>4. EventsOfCalls(front) \in Seq(RunEvent)
      BY <2>3, EventsTyped
    <3> QED
      BY <1>3, <2>3, <2>4, <3>2, <3>3, <3>4
  <2>6. PICK more \in Seq(RunEvent) : r \in Seq(RunEvent) /\ s = r \o more
    <3>1. PICK two, end : two = <<<<"requested", n>>, <<"step", n>>>> /\ end = <<<<"finished", n>>, <<"stepped", n>>>>
      OBVIOUS
    <3>2. two \in Seq(RunEvent) /\ end \in Seq(RunEvent)
      BY <2>1, <3>1 DEF RunEvent
    <3>3. s = two \o end /\ (r = two \o end \/ r = two \o <<>>)
      BY <2>4, <3>1 DEF EventsOfCall
    <3>4. two \o <<>> = two /\ two \o end \in Seq(RunEvent) /\ (two \o end) \o <<>> = two \o end
      BY <3>2
    <3>5. <<>> \in Seq(RunEvent)
      OBVIOUS
    <3> QED
      BY <3>2, <3>3, <3>4, <3>5
  <2>7. (f \o r) \o more = f \o (r \o more)
    BY <2>5, <2>6
  <2>8. calls' = cs
    BY <1>3, <1>5, <2>2 DEF ToolDone
  <2>9. EventsOfCalls(calls)' = EventsOfCalls(calls) \o more
    BY <2>5, <2>6, <2>7, <2>8
  <2> QED
    BY <1>2, <2>6, <2>9, CallsAreAdded
<1> QED
  BY <1>4, <1>5

\* The other steps leave the calls and what an ended run is, unless it is resumed.
LEMMA EndsStay ==
  ASSUME RunInv, RunNext, ~\E d \in Driver : CallTool(d) \/ ToolDone(d)
  PROVE  /\ UNCHANGED calls
         /\ \/ run.status \in ActiveStatus \/ run'.status = run.status
            \/ run.status = "absent" \/ (RunEnded /\ run'.status = "pending")
<1>0. run \in RunRow
  BY DEF RunInv, RunTypeOK
<1>1. CASE SubmitRun \/ CancelRun \/ StreamSeesEnd \/ StartServer \/ StopServer
  BY <1>0, <1>1 DEF SubmitRun, CancelRun, StreamSeesEnd, StartServer, StopServer, rowVars, ActiveStatus
<1>2. CASE \E c \in Requester : ResumeChecked(c) \/ ResumeQueued(c)
  BY <1>0, <1>2 DEF ResumeChecked, ResumeQueued, rowVars, RunEnded, EndStatus, RunRow
<1>3. ASSUME NEW d \in Driver, Drive(d) \/ Raise(d), ~CallTool(d), ~ToolDone(d)
      PROVE  UNCHANGED calls /\ (run.status \in ActiveStatus \/ run'.status = run.status)
  <2>1. CASE Drives(d)
    <3>1. run.status \in ActiveStatus
      BY <2>1, WorkerFacts DEF RunActive
    <3> QED
      BY <1>3, <3>1
      DEF Drive, Raise, ClaimRun, NewStep, ReopenStep, KeepStep, StepRefused, PromoteStep,
          Interrupted, Ask, Answer, RequestFails, StopAtBoundary, Stop, Complete, NextTurn,
          RecordResult, FinishRun, MarkFailed, RemoveEvent, rowVars
  <2>2. CASE ~Drives(d)
    <3>1. RemoveEvent(d)
      BY <1>3, <2>2
      DEF Drives, At, Drive, Raise, ClaimRun, NewStep, ReopenStep, KeepStep, StepRefused, PromoteStep,
          Interrupted, Ask, Answer, RequestFails, Complete, NextTurn, RecordResult, FinishRun, MarkFailed
    <3> QED
      BY <3>1 DEF RemoveEvent, rowVars
  <2> QED
    BY <2>1, <2>2
<1> QED
  BY <1>1, <1>2, <1>3 DEF RunNext

\* Whatever requests, exceptions and restarts come, the events of a run are
\* only added to at the end, in every step of every process that works on it,
\* unless an ended run is resumed: a client that goes on reading after the
\* last event it was sent misses none and is sent none again.
THEOREM TimelineIsExtended == RunSpec => TimelineExtends
<1>1. ASSUME RunInv, RunInv', [RunNext]_runVars, run.status # "absent"
      PROVE  IsPrefix(Timeline, Timeline') \/ (RunEnded /\ run'.status = "pending")
  <2>1. RunTypeOK /\ RunTypeOK'
    BY <1>1 DEF RunInv
  <2>2. CASE UNCHANGED runVars
    BY <2>1, <2>2, EndsAreAdded DEF runVars, rowVars
  <2>3. CASE \E d \in Driver : CallTool(d) \/ ToolDone(d)
    BY <1>1, <2>3, ToolsExtend
  <2>4. CASE RunNext /\ ~\E d \in Driver : CallTool(d) \/ ToolDone(d)
    BY <1>1, <2>1, <2>4, EndsStay, EndsAreAdded
  <2> QED
    BY <1>1, <2>2, <2>3, <2>4
<1> QED
  BY <1>1, RunInvariant, PTL DEF RunSpec, TimelineExtends
=============================================================================
