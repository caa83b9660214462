---------------------------- MODULE WorkflowEvents ----------------------------
(***************************************************************************)
(* The event stream of a workflow's execution: build_workflow_event_stream *)
(* of events.py derives it anew, at every poll, from the rows that         *)
(* SafeExecution changes, and the id of an event is its position.  A       *)
(* connection sends what lies beyond the last id its client has seen, and  *)
(* ends once the execution is finished (_stream_workflow_events).          *)
(***************************************************************************)
EXTENDS SafeExecution, SequencesExt

Event(kind, n, status) == [kind |-> kind, item |-> n, status |-> status]

\* The item rows come by sequence_no.
InPlanOrder(items) ==
  LET upTo[n \in 0..N] ==
        IF n = 0 THEN <<>> ELSE IF n \in items THEN Append(upTo[n - 1], n) ELSE upTo[n - 1]
  IN  upTo[N]

\* Mutant: an announced move is reported like a finished one.
ReportedAnnounced(e) == Item \ ItemsIn(e, "PENDING")
Reported(e) == Item \ (ItemsIn(e, "PENDING") \cup ItemsIn(e, "EXECUTING"))

ItemEvents(e) ==
  LET order == InPlanOrder(Reported(e)) IN
  [i \in DOMAIN order |->
     Event(IF item[e][order[i]] = "FAILED" THEN "item_failed" ELSE "item_completed", order[i], "none")]

\* An undo hides how the execution had ended.
CompletionEvents(e) ==
  IF execution[e] = "EXECUTING" THEN <<>>
  ELSE <<Event("completed", 0,
               IF execution[e] \in {"UNDOING", "UNDONE"} THEN "COMPLETED" ELSE execution[e])>>

\* Items are undone in reverse and listed in plan order.
UndoEvents(e) ==
  LET order == InPlanOrder(ItemsIn(e, "UNDONE")) IN
  IF execution[e] \notin {"UNDOING", "UNDONE"} THEN <<>>
  ELSE <<Event("undo_started", 0, "none")>>
       \o [i \in DOMAIN order |-> Event("undo_item_completed", order[i], "none")]
       \o IF execution[e] = "UNDONE" THEN <<Event("undo_completed", 0, "none")>> ELSE <<>>

Stream(e) ==
  IF execution[e] = "ABSENT" THEN <<>>
  ELSE <<Event("started", 0, "none")>> \o ItemEvents(e) \o CompletionEvents(e) \o UndoEvents(e)

\* The connection ends with these; it outlives a completed execution.
StreamEnds(e) == execution[e] \in {"PARTIALLY_COMPLETED", "FAILED", "UNDONE"}

\* The ids a client resumes from are good while an execution runs for the first
\* time and until its undo starts: every event keeps its position, whatever
\* recovery does to the rows.  Nothing that was sent is retracted later, except
\* what a retry takes up again, and the summary of what is undone
\* (events.py:413-580, organization_api.py:827-872).
WorkflowStreamExtends ==
  [][\A e \in Execution :
       LET sent == Stream(e)
           gone == ToSet(sent) \ ToSet(Stream(e)') IN
       /\ ~StreamEnds(e) /\ execution[e] # "UNDOING" /\ attempt'[e] = 1 =>
            IsPrefix(sent, Stream(e)')
       /\ \A event \in gone :
            \/ attempt'[e] # attempt[e] /\ event.kind \in {"item_failed", "completed"}
            \/ event.kind = "completed" /\ execution'[e] = "UNDOING"]_vars
=============================================================================
