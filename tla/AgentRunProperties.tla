-------------------------- MODULE AgentRunProperties --------------------------
(***************************************************************************)
(* What AgentRuns promises, and the event stream built from its rows.      *)
(***************************************************************************)
EXTENDS AgentRuns, SequencesExt

Worker ==
  [pc : WorkerState, cancel : BOOLEAN, turns : Nat, taken : 1..MaxSteps,
   tries : 0..MaxRetries, left : 0..MaxCalls, result : {"none"} \cup EndStatus]
RunTypeOK ==
  /\ run \in RunRow /\ steps \in Seq(StepStatus) /\ calls \in Seq(CallStatus)
  /\ driver \in [Driver -> Worker]
  /\ registry \in Driver \cup {NoDriver} /\ resumed \in BOOLEAN
  /\ requester \in [Requester -> {"idle", "checked"}]
  /\ server \in {"down", "up"}
  /\ unattended \in {"no", "not_marked", "pending_at_stop"}
  /\ runBudget \in RunBudget

Drives(d) == driver[d].pc \notin {"free", "cleanup"}
RunEnded == run.status \in EndStatus

\* However requests race, one thread drives the run, it drives an active run,
\* and the registered event is its own: a cancellation that was accepted
\* reaches the loop.  A run nobody drives was pending when the process ended,
\* or its failure could not be recorded (agent_api.py:1142, :1229, :1528).
OneDriverHears ==
  /\ \A d \in Driver : Drives(d) =>
       /\ RunActive
       /\ \A e \in Driver \ {d} : ~Drives(e)
       /\ registry \in {d, NoDriver}
  /\ Up /\ RunActive /\ unattended = "no" => \E d \in Driver : Drives(d)

\* What inspect_agent_run_recovery looks for is there whenever the run can be
\* resumed: a step for each turn, and the one after them, if a drive has begun
\* it, still without a response.  The exception: a drive that was cancelled or
\* timed out before the response has closed that step (agent_recovery.py:66).
StepsFollowTurns ==
  /\ Len(steps) \in {run.turns, run.turns + 1}
  /\ RunEnded /\ Len(steps) > run.turns =>
       Last(steps) \in {"pending", "running", "failed", "cancelled", "timed_out"}
  /\ run.status = "completed" => run.answer /\ Len(steps) = run.turns

\* README_V2.md:87, "eligible failed or cancelled runs can resume from
\* persisted context": a resumed run is not refused by the step it begins
\* with (agent_recovery.py:24, agent_observability.py:531).
ResumableRunsResume ==
  \A d \in Driver : At(d, "step") /\ Len(steps) >= CurrentStep(d) =>
    steps[CurrentStep(d)] \in {"pending", "failed", "running"}

runStatus ==
  CASE run.status = "pending" -> "queued"
    [] run.status = "running" -> "working"
    [] OTHER -> run.status
RunPromise == INSTANCE AgentRunContract WITH status <- runStatus, turns <- run.turns

\* Across races, exceptions and restarts the row of the run does only what
\* its client was promised: a completed run is never taken up again, none of
\* its turns is ever lost or taken back.
KeepsRunContract == RunPromise!Spec

\* An active run ends while the process lives: cancelled or not, its worker
\* brings it to an end, except for the two ways of having no worker.
RunEnds ==
  (RunActive /\ Up) ~> (RunEnded \/ ~Up \/ unattended # "no")
-----------------------------------------------------------------------------
(* build_agent_run_event_stream *)

\* Two events when a call is requested, two more when it is finished.
\* Mutant: all requests come first.
EventsOfCallsGrouped(cs) ==
  FlattenSeq([i \in DOMAIN cs |-> <<<<"requested", i>>, <<"step", i>>>>])
  \o FlattenSeq([i \in DOMAIN cs |-> IF cs[i] = "finished" THEN <<<<"finished", i>>, <<"stepped", i>>>> ELSE <<>>])
EventsOfCalls(cs) ==
  FlattenSeq([i \in DOMAIN cs |->
    <<<<"requested", i>>, <<"step", i>>>>
    \o (IF cs[i] = "finished" THEN <<<<"finished", i>>, <<"stepped", i>>>> ELSE <<>>)])

\* The events of the run in the order of their ids.  The first two say whether
\* the run is still pending and whether this process has resumed it; they change
\* where they stand, and only their places count here.
Timeline ==
  <<<<"running", 0>>, <<"begun", 0>>>>
  \o EventsOfCalls(calls)
  \o (CASE run.status \in {"cancelled", "failed", "timed_out"} -> <<<<run.status, 0>>, <<"ended", 0>>>>
        [] run.status \in {"completed", "max_steps_reached"} -> <<<<"ended", 0>>>>
        [] OTHER -> <<>>)

\* A stream sends the events after the last one it has sent, by position: it
\* repeats and skips nothing as long as the list is only ever extended, in
\* live streams and across restarts.  Only the resumption of an ended run
\* takes the last events back (events.py:304, agent_api.py:1291).
TimelineExtends ==
  [][run.status # "absent" =>
       IsPrefix(Timeline, Timeline') \/ (RunEnded /\ run'.status = "pending")]_runVars
=============================================================================
