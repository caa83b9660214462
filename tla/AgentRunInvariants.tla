-------------------------- MODULE AgentRunInvariants --------------------------
(***************************************************************************)
(* What makes the safety properties of AgentRuns inductive: how the row    *)
(* and the steps of the run stand to the worker that drives it, at each    *)
(* place the worker may be.                                                *)
(***************************************************************************)
EXTENDS AgentRunProperties, AgentRecords

\* Where a worker l that drives the run may be.  From its claim on it knows
\* the turns of the row; it asks the model with the step of the next turn
\* open, and calls tools with a step for each turn, not in the last turn of its
\* drive.
PlaceHolds(l) ==
  /\ RunActive
  /\ l.pc \notin {"queued", "mark"} => run.status = "running" /\ l.turns = run.turns
  /\ l.pc \in {"promote", "ask", "asking"} => Len(steps) = run.turns + 1
  /\ l.pc \in {"answered", "tool", "called"} => Len(steps) = run.turns /\ run.turns > 0
  /\ l.pc \in {"tool", "called"} => l.taken < MaxSteps
  /\ l.pc = "tool" => Len(calls) > 0
  /\ l.pc \in {"result", "end"} =>
       l.result \in EndStatus /\ (l.result = "completed" => Len(steps) = run.turns)
  /\ l.pc = "end" => (run.answer <=> l.result = "completed")

\* It drives the run alone, and no event but its own is registered.
DriveHolds(d) ==
  /\ PlaceHolds(driver[d])
  /\ registry \in {d, NoDriver}
  /\ \A e \in Driver \ {d} : ~Drives(e)

\* A step for each turn, and at most one more, which has had no response.
StepsInv ==
  /\ Len(steps) \in {run.turns, run.turns + 1}
  /\ Len(steps) > run.turns => Last(steps) \notin {"completed", "max_steps_reached"}
  /\ run.status = "completed" => run.answer /\ Len(steps) = run.turns

\* A process that has ended left nothing but rows; one that serves requests
\* has a worker for the active run, or it is known why not.
ServerInv ==
  /\ ~Up => /\ \A d \in Driver : At(d, "free")
            /\ \A c \in Requester : requester[c] = "idle"
            /\ run.status = "pending" => unattended # "no"
  /\ Up /\ RunActive /\ unattended = "no" => \E d \in Driver : Drives(d)

\* The conjunction the proofs carry from step to step.
RunInv ==
  RunTypeOK /\ StepsInv /\ ServerInv /\ \A d \in Driver : Drives(d) => DriveHolds(d)
-----------------------------------------------------------------------------
(* AgentRecords *)

MessageRow ==
  [kind : {"user", "assistant", "call", "tool"}, id : Nat,
   says : {"request", "calls", "answer", "nothing"} \cup Evidence]
StepRow ==
  [status : {"running", "completed", "cancelled", "failed", "max_steps_reached"},
   messages : UNION {[0..(k - 1) -> MessageRow] : k \in Nat}]
ModelRunRow == {ModelRun(step, usage) : step \in Nat, usage \in {1, NoUsage}}
LoopState ==
  {"queued", "gone", "step", "input", "asking", "usage", "response", "checkpoint", "answered",
   "call", "tool", "result", "save", "end call", "called", "answer", "finish"}
RecordRow ==
  [status : {"pending", "running", "completed", "cancelled", "failed", "max_steps_reached"},
   turns : Nat, context : Seq(MessageRow), tokens : Nat \cup {NoUsage},
   answer : {"none", "answer", "refusal"}]
LoopRecord ==
  [pc : LoopState, context : Seq(MessageRow), turn : Nat, taken : Nat, step : Nat, no : Nat, left : Int,
   status : {"none", "completed", "cancelled", "failed", "max_steps_reached"},
   usage : {1, NoUsage}, tokens : Nat, complete : BOOLEAN, answered : BOOLEAN, from : Nat]
RecordTypeOK ==
  /\ agentRow \in RecordRow /\ loop \in LoopRecord /\ made \in Nat
  /\ stepRows \in Seq(StepRow) /\ modelRuns \in Seq(ModelRunRow)
  /\ toolRows \in Seq({"requested", "finished"})

Driving == loop.pc \notin {"gone", "queued"}
\* The last message of the loop's context is not recorded yet.
Unrecorded == loop.pc \in {"usage", "response", "result"}

\* A row for each turn and at most one more; a new message is nowhere in them.
RowsInv ==
  /\ Len(stepRows) \in {agentRow.turns, agentRow.turns + 1}
  /\ \A i \in 1..agentRow.turns : \E m \in ToSet(modelRuns) : m.step = i
  /\ \A p \in Places : Summary(p).kind = "call" \/ Summary(p).id <= IF Unrecorded THEN made - 1 ELSE made

\* The step in hand is the last one, its next number is free, its turn counts
\* from the checkpoint on, and in the end the outcome is known.
InHandInv ==
  /\ loop.turn = agentRow.turns
  /\ loop.pc \in {"input", "asking", "usage", "response", "checkpoint"} => Len(stepRows) = agentRow.turns + 1
  /\ loop.pc \in {"answered", "call", "tool", "result", "save", "end call", "called"} =>
       Len(stepRows) = agentRow.turns
  /\ loop.pc # "step" => loop.step = Len(stepRows) /\ loop.step > 0
  /\ loop.pc \notin {"step", "input", "answer", "finish"} => Numbers(loop.step) = 0..(loop.no - 1)
  /\ loop.pc \in {"response", "checkpoint"} => \E m \in ToSet(modelRuns) : m.step = loop.step
  /\ loop.pc \in {"answer", "finish"} => loop.status # "none"

\* What the loop knows is in the timeline, but for the message it has just been given.
KnownInv ==
  /\ loop.context # <<>> /\ loop.context[1] = Prompt
  /\ loop.pc \notin {"step", "input"} => PlacesOf(Prompt) # {}
  /\ IF Unrecorded
     THEN /\ Len(loop.context) > 1 /\ Last(loop.context).id = made
          /\ Last(loop.context).kind # "call"
          /\ InTimeline(SubSeq(loop.context, 1, Len(loop.context) - 1))
     ELSE InTimeline(loop.context)
  /\ loop.pc \in {"usage", "response", "checkpoint", "answered"} /\ loop.left = 0 =>
       Last(loop.context).says = "answer"
  /\ loop.pc \in {"answer", "finish"} /\ loop.status = "completed" => Last(loop.context).says = "answer"

\* The accumulator is ahead of the model runs of this drive by the usage in hand.
UsageInv ==
  /\ loop.from <= Len(modelRuns)
  /\ IF loop.pc = "usage"
     THEN /\ loop.answered
          /\ loop.complete <=> (loop.usage # NoUsage /\ ~Silent(Mine))
          /\ loop.complete => loop.tokens = Tokens(Mine) + loop.usage
     ELSE /\ loop.answered <=> Mine # <<>>
          /\ loop.complete <=> ~Silent(Mine)
          /\ loop.complete => loop.tokens = Tokens(Mine)

RecordInv ==
  /\ RecordTypeOK /\ RowsInv
  /\ agentRow.context # <<>> /\ agentRow.context[1] = Prompt
  /\ ContextIsRecorded /\ AnswerIsRecorded
  /\ loop.pc = "queued" => loop = NewLoop
  /\ Driving => InHandInv /\ KnownInv /\ UsageInv
=============================================================================
