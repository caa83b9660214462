------------------------------ MODULE AgentRecords ------------------------------
(***************************************************************************)
(* What one agent run leaves behind: its context, and the steps, message   *)
(* summaries, model runs and tool calls that SqlAlchemyAgentRunRecorder    *)
(* (agent_observability.py) commits one after another while AgentLoop      *)
(* (agent_loop.py) runs, so that a worker may be lost between any two of   *)
(* them and a later one resume from what is there.  AgentRuns has the life *)
(* cycle around it: requests, threads and the process.                     *)
(*                                                                         *)
(* A message is known by its kind and a number; a summary tells the two    *)
(* apart and keeps no text.                                                *)
(***************************************************************************)
EXTENDS Integers, SequencesExt

CONSTANTS
  TurnLimit,     \* max_steps of one drive
  CallLimit,     \* bound on the tool calls of one response
  NoUsage,       \* token usage a provider did not report
  RecordBudgets  \* runs: is there one; bounds: resumes, interrupts, faults, silent responses

ASSUME NoUsageAssumption == NoUsage \notin Nat

Evidence == {"knowledge", "metadata"}  \* what tools observe
Message(kind, id, says) == [kind |-> kind, id |-> id, says |-> says]
Prompt == Message("user", 0, "request")

VARIABLES
  agentRow,    \* AgentRun: status, turns, context, tokens, answer
  stepRows,    \* AgentStep by step_index + 1, with its AgentMessage by sequence_no
  modelRuns,   \* AgentModelRun, with its step and its AgentMetric rows
  toolRows,    \* AgentToolCall by sequence_no
  loop,        \* AgentLoop.run in the worker
  made,        \* the messages made so far
  recordBudget
recordVars == <<agentRow, stepRows, modelRuns, toolRows, loop, made, recordBudget>>

\* A worker before AgentLoop.run, and none at all.
NewLoop ==
  [pc |-> "queued", context |-> <<>>, turn |-> 0, taken |-> 1, step |-> 0, no |-> 0, left |-> 0,
   status |-> "none", usage |-> NoUsage,
   tokens |-> 0, complete |-> TRUE, answered |-> FALSE,  \* _RunMetricsAccumulator
   from |-> 0]                                           \* history: model runs before this drive
NoLoop == [NewLoop EXCEPT !.pc = "gone"]

\* start_pending_run, with the context it is given.
RecordInit ==
  /\ recordBudget \in RecordBudgets
  /\ agentRow = [status |-> "pending", turns |-> 0, context |-> <<Prompt>>, tokens |-> NoUsage, answer |-> "none"]
  /\ stepRows = <<>> /\ modelRuns = <<>> /\ toolRows = <<>>
  /\ made = 0
  /\ loop = IF recordBudget.runs THEN NewLoop ELSE NoLoop

LoopAt(pc) == loop.pc = pc
Allow(what) == recordBudget[what] > 0 /\ recordBudget' = [recordBudget EXCEPT ![what] = @ - 1]
Unspent == UNCHANGED <<made, recordBudget>>
-----------------------------------------------------------------------------
(* Loss and resumption *)

\* An exception of the worker, or the end of its process and the next start: only
\* the status is written, by finish_run without metrics.
Lose ==
  /\ agentRow' = [agentRow EXCEPT !.status = "failed"]
  /\ loop' = NoLoop
  /\ UNCHANGED <<stepRows, modelRuns, toolRows, made>>
WorkerLost == ~LoopAt("gone") /\ Allow("faults") /\ Lose

Numbers(i) == DOMAIN stepRows[i].messages
\* inspect_agent_run_recovery
RecoveryCode ==
  IF Len(stepRows) < agentRow.turns THEN "step_missing"
  ELSE IF \E i \in DOMAIN stepRows : Numbers(i) # 0..(Cardinality(Numbers(i)) - 1) THEN "message_sequence_invalid"
  ELSE IF agentRow.turns > 0 /\ modelRuns = <<>> THEN "model_run_missing"
  ELSE "none"

ResumeRecords ==
  /\ LoopAt("gone") /\ agentRow.status \in {"cancelled", "failed", "max_steps_reached"}
  /\ RecoveryCode = "none" /\ Allow("resumes")
  /\ agentRow' = [agentRow EXCEPT !.status = "pending", !.answer = "none"]
  /\ loop' = NewLoop
  /\ UNCHANGED <<stepRows, modelRuns, toolRows, made>>

\* load_context
LoadContext == [loop EXCEPT !.context = agentRow.context, !.turn = agentRow.turns]
\* start_existing_run, and the context; AgentLoop.run saves the same context again.
TakeUp ==
  /\ LoopAt("queued")
  /\ agentRow' = [agentRow EXCEPT !.status = "running"]
  /\ loop' = [LoadContext EXCEPT !.pc = "step", !.from = Len(modelRuns)]
  /\ UNCHANGED <<stepRows, modelRuns, toolRows>> /\ Unspent
-----------------------------------------------------------------------------
(* One turn *)

\* start_step: a step that has failed, or was never closed, is taken up again.
OpenStep ==
  /\ LoopAt("step")
  /\ LET i == loop.turn + 1 IN
     \/ /\ Len(stepRows) < i
        /\ stepRows' = Append(stepRows, [status |-> "running", messages |-> <<>>])
        /\ loop' = [loop EXCEPT !.pc = "input", !.step = i]
        /\ UNCHANGED <<agentRow, modelRuns, toolRows, made>>
     \/ /\ Len(stepRows) >= i /\ stepRows[i].status \in {"failed", "running"}
        /\ stepRows' = [stepRows EXCEPT ![i].status = "running"]
        /\ loop' = [loop EXCEPT !.pc = "input", !.step = i]
        /\ UNCHANGED <<agentRow, modelRuns, toolRows, made>>
     \/ Len(stepRows) >= i /\ stepRows[i].status \notin {"failed", "running"} /\ Lose
  /\ UNCHANGED recordBudget

\* _add_message: a number that is taken is refused by the unique constraint.
Keep(message, no, next) ==
  /\ IF no \in Numbers(loop.step) THEN Lose
     ELSE /\ stepRows' = [stepRows EXCEPT ![loop.step].messages =
                            [n \in DOMAIN @ \cup {no} |-> IF n = no THEN message ELSE @[n]]]
          /\ loop' = [loop EXCEPT !.pc = next, !.no = no + 1]
          /\ UNCHANGED <<agentRow, modelRuns, toolRows, made>>
  /\ UNCHANGED recordBudget

\* next_message_sequence
NextNumber == IF Numbers(loop.step) = {} THEN 0 ELSE Max(Numbers(loop.step)) + 1

\* _record_step_input
KeepInput == LoopAt("input") /\ Keep(Last(loop.context), NextNumber, "asking")

\* What the provider reports of a response: one token, or nothing.
Usages == IF recordBudget.silent > 0 THEN {1, NoUsage} ELSE {1}
Report(usage) ==
  recordBudget' = IF usage = NoUsage THEN [recordBudget EXCEPT !.silent = @ - 1] ELSE recordBudget

\* _RunMetricsAccumulator.add: one response without usage leaves the sum unknown.
Added(usage) ==
  [loop EXCEPT !.usage = usage, !.answered = TRUE,
               !.complete = @ /\ usage # NoUsage,
               !.tokens = IF loop.complete /\ usage # NoUsage THEN @ + usage ELSE @]
\* A response with n tool calls; none is a final answer.
Response(n) == Message("assistant", made + 1, IF n = 0 THEN "answer" ELSE "calls")

\* Mutant: the context is saved before the response is recorded.
ModelAnswersSaved ==
  /\ LoopAt("asking")
  /\ \E n \in 0..CallLimit, usage \in Usages :
       /\ loop' = [Added(usage) EXCEPT !.pc = "usage", !.left = n, !.context = Append(@, Response(n))]
       /\ agentRow' = [agentRow EXCEPT !.context = Append(loop.context, Response(n))]
       /\ Report(usage)
  /\ made' = made + 1
  /\ UNCHANGED <<stepRows, modelRuns, toolRows>>

\* request_model_turn, and the accumulator.
ModelAnswers ==
  /\ LoopAt("asking")
  /\ \E n \in 0..CallLimit, usage \in Usages :
       /\ loop' = [Added(usage) EXCEPT !.pc = "usage", !.left = n, !.context = Append(@, Response(n))]
       /\ Report(usage)
  /\ made' = made + 1
  /\ UNCHANGED <<agentRow, stepRows, modelRuns, toolRows>>

\* The AgentMetric rows of a model run, by name, and the run itself.
Metrics(usage) ==
  [name \in {"model_turn"} \cup (IF usage = NoUsage THEN {} ELSE {"total_tokens"}) |->
    IF name = "model_turn" THEN 1 ELSE usage]
ModelRun(step, usage) == [step |-> step, usage |-> usage, metrics |-> Metrics(usage)]

\* record_model_run commits them together.
KeepUsage ==
  /\ LoopAt("usage")
  /\ modelRuns' = Append(modelRuns, ModelRun(loop.step, loop.usage))
  /\ loop' = [loop EXCEPT !.pc = "response"]
  /\ UNCHANGED <<agentRow, stepRows, toolRows>> /\ Unspent

\* record_model_message
KeepResponse == LoopAt("response") /\ Keep(Last(loop.context), loop.no, "checkpoint")

\* checkpoint_run
Checkpoint(turns) == agentRow' = [agentRow EXCEPT !.context = loop.context, !.turns = turns]
CheckpointTurn ==
  /\ LoopAt("checkpoint")
  /\ Checkpoint(loop.turn + 1)
  /\ loop' = [loop EXCEPT !.pc = "answered", !.turn = @ + 1]
  /\ UNCHANGED <<stepRows, modelRuns, toolRows>> /\ Unspent

\* record_tool_call_message; the last turn allowed calls no tool.
KeepCall ==
  /\ loop.pc \in {"answered", "called"}
  /\ LoopAt("answered") => loop.taken < TurnLimit
  /\ loop.left > 0
  /\ Keep(Message("call", made + 1, "calls"), loop.no, "call")

\* start_tool_call
CallBegins ==
  /\ LoopAt("call")
  /\ toolRows' = Append(toolRows, "requested")
  /\ loop' = [loop EXCEPT !.pc = "tool", !.left = @ - 1]
  /\ UNCHANGED <<agentRow, stepRows, modelRuns>> /\ Unspent

\* _execute_tool_call_with_observation: what it observes, or a failure.
ToolAnswers ==
  /\ LoopAt("tool")
  /\ \E observed \in Evidence \cup {"nothing"} :
       loop' = [loop EXCEPT !.pc = "result", !.context = Append(@, Message("tool", made + 1, observed))]
  /\ made' = made + 1
  /\ UNCHANGED <<agentRow, stepRows, modelRuns, toolRows, recordBudget>>

KeepToolResult == LoopAt("result") /\ Keep(Last(loop.context), loop.no, "save")

CheckpointTool ==
  /\ LoopAt("save")
  /\ Checkpoint(loop.turn)
  /\ loop' = [loop EXCEPT !.pc = "end call"]
  /\ UNCHANGED <<stepRows, modelRuns, toolRows>> /\ Unspent

\* finish_tool_call
CallEnds ==
  /\ LoopAt("end call")
  /\ toolRows' = [toolRows EXCEPT ![Len(toolRows)] = "finished"]
  /\ loop' = [loop EXCEPT !.pc = "called"]
  /\ UNCHANGED <<agentRow, stepRows, modelRuns>> /\ Unspent
-----------------------------------------------------------------------------
(* The end of a turn and of a drive *)

\* finish_step
CloseStep(status) == stepRows' = [stepRows EXCEPT ![loop.step].status = status]

FollowingTurn ==
  /\ LoopAt("called") /\ loop.left = 0
  /\ CloseStep("completed")
  /\ loop' = [loop EXCEPT !.pc = "step", !.taken = @ + 1]
  /\ UNCHANGED <<agentRow, modelRuns, toolRows>> /\ Unspent

Ends(status) ==
  /\ CloseStep(status)
  /\ loop' = [loop EXCEPT !.pc = "answer", !.status = status]
  /\ UNCHANGED <<agentRow, modelRuns, toolRows, made>>
\* A cancellation, which stands for a passed deadline as well, is seen at a
\* boundary; a request is given up.
LoopStops ==
  /\ Allow("interrupts")
  /\ \/ loop.pc \in {"asking", "answered", "called"} /\ Ends("cancelled")
     \/ LoopAt("asking") /\ Ends("failed")
LastTurn ==
  /\ LoopAt("answered") /\ UNCHANGED recordBudget
  /\ \/ loop.left = 0 /\ Ends("completed")
     \/ loop.left > 0 /\ loop.taken = TurnLimit /\ Ends("max_steps_reached")

\* _successful_read_observations and _has_sufficient_answer_evidence: documents
\* that were searched must be cited.
Observed == {m.says : m \in {n \in ToSet(loop.context) : n.kind = "tool"}} \cap Evidence
Sufficient(bound) == IF "knowledge" \in Observed THEN bound ELSE "metadata" \in Observed

\* finalize_result: record_result ...
KeepAnswer ==
  /\ LoopAt("answer")
  /\ \E bound \in BOOLEAN :
       agentRow' = [agentRow EXCEPT !.answer = IF loop.status # "completed" THEN "none"
                                               ELSE IF Sufficient(bound) THEN "answer" ELSE "refusal"]
  /\ loop' = [loop EXCEPT !.pc = "finish"]
  /\ UNCHANGED <<stepRows, modelRuns, toolRows>> /\ Unspent

\* _RunMetricsAccumulator.snapshot
Snapshot == IF loop.answered /\ loop.complete THEN loop.tokens ELSE NoUsage

\* ... and finish_run.
FinishRecords ==
  /\ LoopAt("finish")
  /\ agentRow' = [agentRow EXCEPT !.status = loop.status, !.turns = loop.turn, !.tokens = Snapshot]
  /\ loop' = NoLoop
  /\ UNCHANGED <<stepRows, modelRuns, toolRows>> /\ Unspent

RecordNext ==
  \/ WorkerLost \/ ResumeRecords \/ TakeUp \/ OpenStep \/ KeepInput \/ ModelAnswers \/ KeepUsage
  \/ KeepResponse \/ CheckpointTurn \/ KeepCall \/ CallBegins \/ ToolAnswers \/ KeepToolResult
  \/ CheckpointTool \/ CallEnds \/ FollowingTurn \/ LoopStops \/ LastTurn \/ KeepAnswer \/ FinishRecords
-----------------------------------------------------------------------------
(* Properties *)

\* The timeline shows the summaries by step and number.
Places == UNION {{i} \X Numbers(i) : i \in DOMAIN stepRows}
Summary(p) == stepRows[p[1]].messages[p[2]]
PlacesOf(message) == {p \in Places : Summary(p) = message}
Precedes(p, q) == p[1] < q[1] \/ (p[1] = q[1] /\ p[2] < q[2])

\* Wherever a worker is lost, the resume route finds nothing wrong with what it has
\* recorded (agent_recovery.py:66), and every turn that counts has its model run.
EvidenceIsWhole ==
  /\ RecoveryCode = "none"
  /\ \A i \in 1..agentRow.turns : \E m \in ToSet(modelRuns) : m.step = i

\* Each message after the first is in the timeline, and everywhere after those it
\* follows.
InTimeline(context) ==
  \A j \in 2..Len(context) :
    /\ PlacesOf(context[j]) # {}
    /\ \A q \in PlacesOf(context[j]), i \in 1..(j - 1) : \E p \in PlacesOf(context[i]) : Precedes(p, q)

\* The context a resumption continues is part of the timeline, in its order: no
\* message is known to the model only (agent_loop.py:291).
ContextIsRecorded == InTimeline(agentRow.context)

\* The tokens of model runs that report them.
Tokens(runs) ==
  LET sum[n \in 0..Len(runs)] == IF n = 0 THEN 0 ELSE sum[n - 1] + runs[n].metrics["total_tokens"]
  IN  sum[Len(runs)]

\* The model runs of this drive.
Mine == SubSeq(modelRuns, loop.from + 1, Len(modelRuns))
Silent(runs) == \E m \in ToSet(runs) : m.usage = NoUsage

\* The run's usage is what the model runs of this drive say, and unknown when one
\* of them says nothing (agent_loop.py:106).
UsageAddsUp ==
  loop.pc \notin {"gone", "queued", "usage"} =>
    Snapshot = IF Mine = <<>> \/ Silent(Mine) THEN NoUsage ELSE Tokens(Mine)

\* An answer the user gets rests on a tool result the timeline shows
\* (agent_api.py:652).
AnswerIsRecorded ==
  agentRow.answer = "answer" =>
    \E p, q \in Places : Precedes(p, q) /\ Summary(p).says \in Evidence /\ Summary(q).says = "answer"

\* What is recorded of a run explains its context, its usage and its answer, and
\* can be resumed from, wherever its workers were lost.
RecordsExplainRun == EvidenceIsWhole /\ ContextIsRecorded /\ UsageAddsUp /\ AnswerIsRecorded

RecordSpec == RecordInit /\ [][RecordNext]_recordVars
=============================================================================
