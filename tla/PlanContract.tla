----------------------------- MODULE PlanContract -----------------------------
(***************************************************************************)
(* What the execution of an approved plan promises about the files it      *)
(* names, without threads, transactions, crashes or statuses of the        *)
(* database: files go to their targets only while the plan executes and    *)
(* come back only while it is undone, and the history the user reads when  *)
(* the plan is closed is what the disk shows.  SafeExecution implements it *)
(* (SafeExecutionContract).                                                *)
(***************************************************************************)
CONSTANTS Plan, Entry   \* the plans, and the operations of a plan

VARIABLES
  phase,     \* of a plan
  moved,     \* operations whose file, untouched by the user, is at its target
  reported,  \* operations the history reports as done
  released   \* operations whose files the user changed: nothing is promised

promise == <<phase, moved, reported, released>>

Init ==
  /\ phase = [p \in Plan |-> "approved"]
  /\ moved = [p \in Plan |-> {}]
  /\ reported = [p \in Plan |-> {}]
  /\ released = [p \in Plan |-> {}]

Begin(p) ==
  /\ phase[p] = "approved"
  /\ phase' = [phase EXCEPT ![p] = "executing"]
  /\ UNCHANGED <<moved, reported, released>>

Move(p, n) ==
  /\ phase[p] = "executing"
  /\ n \notin moved[p] \cup reported[p] \cup released[p]
  /\ moved' = [moved EXCEPT ![p] = @ \cup {n}]
  /\ UNCHANGED <<phase, reported, released>>

Report(p, n) ==
  /\ phase[p] = "executing"
  /\ n \in (moved[p] \cup released[p]) \ reported[p]
  /\ reported' = [reported EXCEPT ![p] = @ \cup {n}]
  /\ UNCHANGED <<phase, moved, released>>

\* The plan ends, and what it reports is what has moved.
Close(p) ==
  /\ phase[p] = "executing"
  /\ reported[p] \ released[p] = moved[p]
  /\ phase' = [phase EXCEPT ![p] = "closed"]
  /\ UNCHANGED <<moved, reported, released>>

\* The state of the disk is in doubt after an interruption: nothing moves any
\* more, and the report may be incomplete.
GiveUp(p) ==
  /\ phase[p] = "executing"
  /\ phase' = [phase EXCEPT ![p] = "abandoned"]
  /\ UNCHANGED <<moved, reported, released>>

Undo(p) ==
  /\ phase[p] = "closed" /\ reported[p] # {}
  /\ phase' = [phase EXCEPT ![p] = "undoing"]
  /\ UNCHANGED <<moved, reported, released>>

MoveBack(p, n) ==
  /\ phase[p] = "undoing"
  /\ n \in moved[p]
  /\ moved' = [moved EXCEPT ![p] = @ \ {n}]
  /\ UNCHANGED <<phase, reported, released>>

Withdraw(p, n) ==
  /\ phase[p] = "undoing"
  /\ n \in reported[p] \ moved[p]
  /\ reported' = [reported EXCEPT ![p] = @ \ {n}]
  /\ UNCHANGED <<phase, moved, released>>

Restored(p) ==
  /\ phase[p] = "undoing"
  /\ moved[p] = {} /\ reported[p] = {}
  /\ phase' = [phase EXCEPT ![p] = "undone"]
  /\ UNCHANGED <<moved, reported, released>>

\* The user changes a file of the plan.
Release(p, n) ==
  /\ released' = [released EXCEPT ![p] = @ \cup {n}]
  /\ moved' = [moved EXCEPT ![p] = @ \ {n}]
  /\ UNCHANGED <<phase, reported>>

Next ==
  \E p \in Plan :
    \/ Begin(p) \/ Close(p) \/ GiveUp(p) \/ Undo(p) \/ Restored(p)
    \/ \E n \in Entry :
         Move(p, n) \/ Report(p, n) \/ MoveBack(p, n) \/ Withdraw(p, n) \/ Release(p, n)

Spec == Init /\ [][Next]_promise
=============================================================================
