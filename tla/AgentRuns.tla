------------------------------- MODULE AgentRuns -------------------------------
(***************************************************************************)
(* One agent run: the routes of agent_api.py that submit, cancel and       *)
(* resume it, the background worker that drives AgentLoop, the records     *)
(* SqlAlchemyAgentRunRecorder commits on the way, and the startup that     *)
(* fails what a former process left running.                               *)
(*                                                                         *)
(* The run's rows survive the process; its worker, the event that asks the *)
(* worker to stop and the mark that the run was resumed do not.  Every     *)
(* commit is a step of the worker.  Runs share only the pool and are       *)
(* otherwise independent.                                                  *)
(***************************************************************************)
EXTENDS Integers, Sequences, FiniteSets

CONSTANTS
  Driver,       \* background workers of the run
  Requester,    \* threads that serve resume requests
  NoDriver,
  MaxSteps,     \* max_steps of one drive
  MaxRetries,   \* max_model_retries
  MaxCalls,     \* bound on the tool calls of one model response
  RunBudgets    \* what a behaviour may use: see RunBudget

\* Bounds on resume requests, on cancellations and passed deadlines, on
\* exceptions of the worker and on process starts.
RunBudget == [resumes : Nat, interrupts : Nat, faults : Nat, starts : Nat]

ASSUME DriverAssumption == NoDriver \notin Driver
ASSUME LoopAssumption == MaxSteps \in Nat \ {0} /\ MaxRetries \in Nat /\ MaxCalls \in Nat
ASSUME RunBudgetAssumption == RunBudgets \subseteq RunBudget

ActiveStatus == {"pending", "running"}
ResumableStatus == {"cancelled", "failed", "timed_out", "max_steps_reached"}
EndStatus == ResumableStatus \cup {"completed"}

VARIABLES
  run,        \* the AgentRun row
  steps,      \* status of its AgentStep rows, by step_index + 1
  calls,      \* status of its AgentToolCall rows, by sequence_no
  driver,     \* the worker threads of the run
  registry,   \* _agent_run_cancel_events: whose event is registered
  resumed,    \* _agent_run_resumed_ids
  requester,  \* resume requests between their checks and queue_resume
  server,     \* down or up
  unattended, \* why nobody drives an active run: ghost
  runBudget   \* what is left of the behaviour's bounds

rowVars == <<run, steps, calls>>
memoryVars == <<driver, registry, resumed, requester, server>>
runVars == <<rowVars, memoryVars, unattended, runBudget>>

\* The rows of the run, its steps and its tool calls.
RunRow == [status : {"absent"} \cup ActiveStatus \cup EndStatus, turns : Nat, answer : BOOLEAN]
StepStatus == {"pending", "running"} \cup EndStatus
CallStatus == {"requested", "finished"}
\* Where a worker is in _run_agent_run_in_background and AgentLoop.run.
WorkerState ==
  {"free", "queued", "step", "promote", "ask", "asking", "answered", "tool",
   "called", "result", "end", "mark", "cleanup"}

NoRun == [status |-> "absent", turns |-> 0, answer |-> FALSE]

\* cancel: its event is set; turns, taken: model turns of the run and of this
\* drive; tries: failed requests of this turn; left: tool calls to execute;
\* result: the status AgentLoop returns.
Free == [pc |-> "free", cancel |-> FALSE, turns |-> 0, taken |-> 1, tries |-> 0,
         left |-> 0, result |-> "none"]

RunInit ==
  /\ run = NoRun /\ steps = <<>> /\ calls = <<>>
  /\ driver = [d \in Driver |-> Free] /\ registry = NoDriver
  /\ resumed = FALSE /\ requester = [c \in Requester |-> "idle"]
  /\ server = "down" /\ unattended = "no"
  /\ runBudget \in RunBudgets

At(d, pc) == driver[d].pc = pc
Goto(d, pc) == driver' = [driver EXCEPT ![d].pc = pc]
Become(d, l) == driver' = [driver EXCEPT ![d] = l]
Spend(b) == runBudget[b] > 0 /\ runBudget' = [runBudget EXCEPT ![b] = @ - 1]
\* A step of the worker that leaves the process's shared memory alone.
Unshared == UNCHANGED <<registry, resumed, requester, server, unattended>>
Alone == Unshared /\ UNCHANGED runBudget
-----------------------------------------------------------------------------
(* Routes *)

Up == server = "up"
RunActive == run.status \in ActiveStatus

\* _schedule_agent_run: a worker with an event of its own, which replaces the
\* registered one.
Schedule ==
  LET free == {d \in Driver : At(d, "free")}
      d == CHOOSE e \in free : TRUE IN
    /\ free # {}
    /\ driver' = [driver EXCEPT ![d] = [Free EXCEPT !.pc = "queued"]]
    /\ registry' = d

\* create_agent_run.
SubmitRun ==
  /\ Up /\ run.status = "absent"
  /\ run' = [run EXCEPT !.status = "pending"]
  /\ Schedule
  /\ unattended' = "no"
  /\ UNCHANGED <<steps, calls, resumed, requester, server, runBudget>>

\* inspect_agent_run_recovery: a step is recorded for every model turn.
CanResume == Len(steps) >= run.turns

\* resume_agent_run up to its checks ...
ResumeChecked(c) ==
  /\ Up /\ requester[c] = "idle" /\ Spend("resumes")
  /\ run.status \in ResumableStatus /\ CanResume
  /\ requester' = [requester EXCEPT ![c] = "checked"]
  /\ UNCHANGED <<rowVars, driver, registry, resumed, server, unattended>>

\* Mutant: the update does not compare the status again.
ResumeBlindly(c) ==
  /\ requester[c] = "checked"
  /\ requester' = [requester EXCEPT ![c] = "idle"]
  /\ run' = [run EXCEPT !.status = "pending", !.answer = FALSE]
  /\ resumed' = TRUE
  /\ Schedule
  /\ unattended' = "no"
  /\ UNCHANGED <<steps, calls, server, runBudget>>
\* ... and from queue_resume, one conditional update, to its answer.
ResumeQueued(c) ==
  /\ requester[c] = "checked"
  /\ requester' = [requester EXCEPT ![c] = "idle"]
  /\ \/ /\ run.status \in ResumableStatus
        /\ run' = [run EXCEPT !.status = "pending", !.answer = FALSE]
        /\ resumed' = TRUE
        /\ Schedule
        /\ unattended' = "no"
     \/ /\ run.status \notin ResumableStatus
        /\ UNCHANGED <<run, driver, registry, resumed, unattended>>
  /\ UNCHANGED <<steps, calls, server, runBudget>>

\* cancel_agent_run of an active run whose event is registered; without one
\* the request is refused.
CancelRun ==
  /\ Up /\ RunActive /\ registry # NoDriver /\ Spend("interrupts")
  /\ driver' = [driver EXCEPT ![registry].cancel = TRUE]
  /\ UNCHANGED <<rowVars, registry, resumed, requester, server, unattended>>

\* _stream_agent_run_events: a stream that has seen the end forgets the mark.
StreamSeesEnd ==
  /\ Up /\ run.status \in EndStatus /\ resumed
  /\ resumed' = FALSE
  /\ UNCHANGED <<rowVars, driver, registry, requester, server, unattended, runBudget>>
-----------------------------------------------------------------------------
(* The worker: one turn of AgentLoop.run *)

\* start_existing_run, refused for a run that is not active, and load_context.
ClaimRun(d) ==
  /\ At(d, "queued")
  /\ run' = IF RunActive THEN [run EXCEPT !.status = "running"] ELSE run
  /\ Become(d, [driver[d] EXCEPT !.pc = IF RunActive THEN "step" ELSE "mark",
                                 !.turns = run.turns])
  /\ UNCHANGED <<steps, calls>> /\ Alone

CurrentStep(d) == driver[d].turns + 1

\* start_step creates the step pending, or takes up the one that a former
\* drive left without a model response.
NewStep(d) ==
  /\ At(d, "step") /\ Len(steps) < CurrentStep(d)
  /\ steps' = Append(steps, "pending")
  /\ Goto(d, "promote")
  /\ UNCHANGED <<run, calls>> /\ Alone
ReopenStep(d) ==
  /\ At(d, "step") /\ Len(steps) >= CurrentStep(d)
  /\ steps[CurrentStep(d)] \in {"pending", "failed"}
  /\ steps' = [steps EXCEPT ![CurrentStep(d)] = "pending"]
  /\ Goto(d, "promote")
  /\ UNCHANGED <<run, calls>> /\ Alone
KeepStep(d) ==
  /\ At(d, "step") /\ Len(steps) >= CurrentStep(d)
  /\ steps[CurrentStep(d)] = "running"
  /\ Goto(d, "ask")
  /\ UNCHANGED rowVars /\ Alone
\* Any other status is an exception.
StepRefused(d) ==
  /\ At(d, "step") /\ Len(steps) >= CurrentStep(d)
  /\ steps[CurrentStep(d)] \notin {"pending", "failed", "running"}
  /\ Goto(d, "mark")
  /\ UNCHANGED rowVars /\ Alone
PromoteStep(d) ==
  /\ At(d, "promote")
  /\ steps' = [steps EXCEPT ![CurrentStep(d)] = "running"]
  /\ Goto(d, "ask")
  /\ UNCHANGED <<run, calls>> /\ Alone

\* _finish_agent_step, then the loop returns.
Stop(d, step, status) ==
  /\ steps' = [steps EXCEPT ![step] = status]
  /\ Become(d, [driver[d] EXCEPT !.pc = "result", !.result = status])
  /\ UNCHANGED <<run, calls>> /\ Unshared

\* _boundary_status: a set event comes before the deadline, which may have
\* passed at any boundary.
StopAtBoundary(d, step) ==
  \/ driver[d].cancel /\ Stop(d, step, "cancelled") /\ UNCHANGED runBudget
  \/ ~driver[d].cancel /\ Stop(d, step, "timed_out") /\ Spend("interrupts")
Interrupted(d) ==
  \/ At(d, "ask") /\ StopAtBoundary(d, CurrentStep(d))
  \/ driver[d].pc \in {"answered", "called"} /\ StopAtBoundary(d, driver[d].turns)

\* _request_model_turn_with_retries.
Ask(d) ==
  /\ At(d, "ask") /\ ~driver[d].cancel
  /\ Goto(d, "asking")
  /\ UNCHANGED rowVars /\ Alone
\* The response and its checkpoint.  n tool calls; none is a final answer.
Answer(d) ==
  /\ At(d, "asking")
  /\ \E n \in 0..MaxCalls :
       Become(d, [driver[d] EXCEPT !.pc = "answered", !.turns = @ + 1, !.left = n, !.tries = 0])
  /\ run' = [run EXCEPT !.turns = driver[d].turns + 1]
  /\ UNCHANGED <<steps, calls>> /\ Alone
\* Mutant: a request that may be retried is retried for ever.
RequestFailsEndlessly(d) ==
  /\ At(d, "asking")
  /\ Become(d, [driver[d] EXCEPT !.pc = "ask"])
  /\ UNCHANGED rowVars /\ Alone
RequestFails(d) ==
  /\ At(d, "asking")
  /\ \/ StopAtBoundary(d, CurrentStep(d))
     \/ ~driver[d].cancel /\ Stop(d, CurrentStep(d), "failed") /\ UNCHANGED runBudget
     \/ /\ ~driver[d].cancel /\ driver[d].tries < MaxRetries
        /\ Become(d, [driver[d] EXCEPT !.pc = "ask", !.tries = @ + 1])
        /\ UNCHANGED rowVars /\ Alone

\* The end of a turn without tool calls, or of the last turn allowed.
Complete(d) ==
  /\ At(d, "answered") /\ ~driver[d].cancel /\ UNCHANGED runBudget
  /\ \/ driver[d].left = 0 /\ Stop(d, driver[d].turns, "completed")
     \/ /\ driver[d].left > 0 /\ driver[d].taken = MaxSteps
        /\ Stop(d, driver[d].turns, "max_steps_reached")

\* Mutant: tools are called in the last turn as well.
CallToolUnlimited(d) ==
  /\ driver[d].pc \in {"answered", "called"} /\ ~driver[d].cancel
  /\ driver[d].left > 0
  /\ calls' = Append(calls, "requested")
  /\ Become(d, [driver[d] EXCEPT !.pc = "tool", !.left = @ - 1])
  /\ UNCHANGED <<run, steps>> /\ Alone
\* start_tool_call; the last turn allowed calls no tool.
CallTool(d) ==
  /\ driver[d].pc \in {"answered", "called"} /\ ~driver[d].cancel
  /\ At(d, "answered") => driver[d].taken < MaxSteps
  /\ driver[d].left > 0
  /\ calls' = Append(calls, "requested")
  /\ Become(d, [driver[d] EXCEPT !.pc = "tool", !.left = @ - 1])
  /\ UNCHANGED <<run, steps>> /\ Alone
\* The tool has run, its message is in the checkpoint; finish_tool_call.
ToolDone(d) ==
  /\ At(d, "tool")
  /\ calls' = [calls EXCEPT ![Len(calls)] = "finished"]
  /\ Goto(d, "called")
  /\ UNCHANGED <<run, steps>> /\ Alone
\* All tools of the turn have run: the step is completed, the next one begins.
NextTurn(d) ==
  /\ At(d, "called") /\ ~driver[d].cancel /\ driver[d].left = 0
  /\ steps' = [steps EXCEPT ![driver[d].turns] = "completed"]
  /\ Become(d, [driver[d] EXCEPT !.pc = "step", !.taken = @ + 1])
  /\ UNCHANGED <<run, calls>> /\ Alone
-----------------------------------------------------------------------------
(* The worker: the end of a drive *)

\* Mutant: the status is committed before the result.
ResultUnwritten(d) ==
  /\ At(d, "result")
  /\ run' = [run EXCEPT !.status = driver[d].result]
  /\ Goto(d, "end")
  /\ UNCHANGED <<steps, calls>> /\ Alone
\* finalize_result: first the answer, then the status.
RecordResult(d) ==
  /\ At(d, "result")
  /\ run' = [run EXCEPT !.answer = driver[d].result = "completed"]
  /\ Goto(d, "end")
  /\ UNCHANGED <<steps, calls>> /\ Alone
FinishRun(d) ==
  /\ At(d, "end")
  /\ run' = [run EXCEPT !.status = driver[d].result, !.turns = driver[d].turns]
  /\ Goto(d, "cleanup")
  /\ UNCHANGED <<steps, calls>> /\ Alone

\* A commit, the model client or a tool raises.
Raise(d) ==
  /\ driver[d].pc \notin {"free", "mark", "cleanup"}
  /\ Spend("faults")
  /\ Goto(d, "mark")
  /\ UNCHANGED rowVars /\ Unshared

\* _mark_background_agent_run_failed.  When that commit fails as well, the
\* run stays as it is.
MarkFailed(d) ==
  /\ At(d, "mark")
  /\ Goto(d, "cleanup")
  /\ \/ run' = [run EXCEPT !.status = "failed"] /\ UNCHANGED <<unattended, runBudget>>
     \/ /\ Spend("faults")
        /\ unattended' = "not_marked"
        /\ UNCHANGED run
  /\ UNCHANGED <<steps, calls, registry, resumed, requester, server>>

\* finally: whichever event is registered for the run is removed.
RemoveEvent(d) ==
  /\ At(d, "cleanup")
  /\ Become(d, Free)
  /\ registry' = NoDriver
  /\ UNCHANGED <<rowVars, resumed, requester, server, unattended, runBudget>>
-----------------------------------------------------------------------------
(* The process *)

\* Mutant: the startup recovers nothing.
StartUnrecovered ==
  /\ server = "down" /\ Spend("starts")
  /\ server' = "up"
  /\ UNCHANGED <<rowVars, driver, registry, resumed, requester, unattended>>
\* recover_unfinished_agent_runs: a pending run is not looked for.
StartServer ==
  /\ server = "down" /\ Spend("starts")
  /\ server' = "up"
  /\ run' = IF run.status = "running" THEN [run EXCEPT !.status = "failed"] ELSE run
  /\ UNCHANGED <<steps, calls, driver, registry, resumed, requester, unattended>>

StopServer ==
  /\ Up /\ server' = "down"
  /\ driver' = [d \in Driver |-> Free] /\ registry' = NoDriver
  /\ resumed' = FALSE /\ requester' = [c \in Requester |-> "idle"]
  /\ unattended' = IF run.status = "pending" THEN "pending_at_stop" ELSE "no"
  /\ UNCHANGED <<rowVars, runBudget>>
-----------------------------------------------------------------------------
Drive(d) ==
  \/ ClaimRun(d) \/ NewStep(d) \/ ReopenStep(d) \/ KeepStep(d) \/ StepRefused(d) \/ PromoteStep(d)
  \/ Interrupted(d) \/ Ask(d) \/ Answer(d) \/ RequestFails(d)
  \/ Complete(d) \/ CallTool(d) \/ ToolDone(d) \/ NextTurn(d)
  \/ RecordResult(d) \/ FinishRun(d) \/ MarkFailed(d) \/ RemoveEvent(d)

RunNext ==
  \/ SubmitRun \/ CancelRun \/ StreamSeesEnd
  \/ \E c \in Requester : ResumeChecked(c) \/ ResumeQueued(c)
  \/ \E d \in Driver : Drive(d) \/ Raise(d)
  \/ StartServer \/ StopServer

\* The worker threads run; the model answers or its request times out.
RunFairness == \A d \in Driver : WF_runVars(Drive(d))
RunSpec == RunInit /\ [][RunNext]_runVars /\ RunFairness
=============================================================================
