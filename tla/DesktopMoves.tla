----------------------------- MODULE DesktopMoves -----------------------------
(***************************************************************************)
(* The desktop application: FileNestApp moves a dropped or noticed file    *)
(* into a folder of the category tree and remembers the last moves, which  *)
(* the user may roll back one level or undo.                               *)
(*                                                                         *)
(* One thread runs everything, but each dialog waits in an event loop of   *)
(* its own: other files are processed while a dialog is open, so several   *)
(* of them are stacked, and only the one on top goes on.  Other programs   *)
(* create and remove files at any time, also between two calls.            *)
(***************************************************************************)
EXTENDS Naturals, Sequences, FiniteSets, FiniteSetsExt, SequencesExt

CONSTANTS
  Folder,         \* directories; those below a root of the tree have a parent
  Parent,         \* parent of a directory below a root
  Watched,        \* the monitored directory
  Stem,           \* names of files
  File,           \* files, whatever their place
  HistoryMax,     \* HISTORY_MAX
  DesktopBudgets  \* what a behaviour may use: see DesktopBudget

\* A name is a stem and the counters that were appended to it.
Place == [dir : Folder, name : Seq(Stem \cup Nat)]

\* The files at the start, and bounds on files dropped and noticed, on files
\* other programs create and remove, on undos and rollbacks and on failures.
DesktopBudget ==
  [drops : Nat, notices : Nat, changes : Nat, undos : Nat, failures : Nat]

ASSUME FolderAssumption ==
  Parent \in [DOMAIN Parent -> Folder] /\ DOMAIN Parent \subseteq Folder /\ Watched \in Folder
ASSUME HistoryAssumption == HistoryMax \in Nat \ {0}
ASSUME DesktopBudgetAssumption == \A b \in DesktopBudgets :
  /\ b.budget \in DesktopBudget
  /\ DOMAIN b.files \subseteq Place /\ IsFiniteSet(DOMAIN b.files)
  /\ Range(b.files) \subseteq File /\ IsInjective(b.files)

VARIABLES
  at,        \* the file at a place, for each place that has one
  drops,     \* dropped files whose processing is scheduled
  notices,   \* open notifications
  stack,     \* what the thread is doing, the innermost first
  history,   \* the last moves, the newest first
  mover,     \* the move that brought a file where it is, 0 for none: ghost
  excused,   \* files the user agreed to lose, or removed: ghost
  late,      \* files created after the check for a collision: ghost
  desktopBudget

screen == <<drops, notices>>
ghosts == <<mover, excused, late>>
desktopVars == <<at, screen, stack, history, ghosts, desktopBudget>>

Taken == DOMAIN at
Nowhere == [dir |-> Watched, name |-> <<>>]
Frame == [pc |-> "ask", kind |-> "file", src |-> Nowhere, dir |-> Watched,
          original |-> Nowhere, strategy |-> "keep_both", target |-> Nowhere, record |-> 0]

DesktopInit ==
  /\ \E b \in DesktopBudgets : at = b.files /\ desktopBudget = b.budget
  /\ drops = {} /\ notices = {} /\ stack = <<>> /\ history = <<>>
  /\ mover = [f \in File |-> 0] /\ excused = {} /\ late = {}

Afford(b) == desktopBudget[b] > 0 /\ desktopBudget' = [desktopBudget EXCEPT ![b] = @ - 1]
Top == Head(stack)
AtTop(pcs) == stack # <<>> /\ Top.pc \in pcs
\* The main window is enabled only while no dialog is open; callbacks of the
\* event loop run inside every dialog.
WindowEnabled == stack = <<>>
CallbacksRun == WindowEnabled \/ AtTop({"ask", "pick", "collide"})
Continue(frame) == stack' = <<frame>> \o Tail(stack)
Return == stack' = Tail(stack)
-----------------------------------------------------------------------------
(* _process_file *)

\* One file or several at a time are dropped on the main window.
Drop(places) ==
  /\ WindowEnabled /\ places # {} /\ Afford("drops")
  /\ drops' = drops \cup places
  /\ UNCHANGED <<at, notices, stack, history, ghosts>>

\* The monitor has queued a file of its directory, and the poll shows it.
Notice(place) ==
  /\ CallbacksRun /\ place.dir = Watched /\ Afford("notices")
  /\ notices' = notices \cup {place}
  /\ UNCHANGED <<at, drops, stack, history, ghosts>>

\* The notification is ignored, or closes itself.
Dismiss(place) ==
  /\ CallbacksRun /\ notices' = notices \ {place}
  /\ UNCHANGED <<at, drops, stack, history, ghosts, desktopBudget>>

\* _do_move up to the question what to do with a file of the same name.
Toward(frame, dir) ==
  [frame EXCEPT !.dir = dir,
     !.pc = IF [frame.src EXCEPT !.dir = dir] \in Taken THEN "collide" ELSE "move"]

\* _process_file: a clear winner is taken at once; otherwise the user picks a
\* candidate, or is asked for a folder.
Process(place) ==
  LET frame == [Frame EXCEPT !.src = place, !.original = place] IN
    IF place \notin Taken THEN UNCHANGED stack
    ELSE \/ \E pc \in {"ask", "pick"} : stack' = <<[frame EXCEPT !.pc = pc]>> \o stack
         \/ \E dir \in Folder : stack' = <<Toward(frame, dir)>> \o stack

ProcessDrop(place) ==
  /\ CallbacksRun /\ place \in drops
  /\ drops' = drops \ {place} /\ Process(place)
  /\ UNCHANGED <<at, notices, history, ghosts, desktopBudget>>

\* The windows with candidates and collisions grab all clicks, the folder
\* dialog of the system only those on the main window.
Classify(place) ==
  /\ WindowEnabled \/ AtTop({"ask"})
  /\ place \in notices
  /\ notices' = notices \ {place} /\ Process(place)
  /\ UNCHANGED <<at, drops, history, ghosts, desktopBudget>>

Choose ==
  /\ AtTop({"ask", "pick"})
  /\ Return \/ \E dir \in Folder : Continue(Toward(Top, dir))
  /\ UNCHANGED <<at, screen, history, ghosts, desktopBudget>>

\* CollisionDialog: skip, or one of the strategies.
Resolve ==
  /\ AtTop({"collide"})
  /\ \/ Return
     \/ \E s \in {"overwrite", "keep_both"} :
          Continue([Top EXCEPT !.pc = "move", !.strategy = s])
  /\ UNCHANGED <<at, screen, history, ghosts, desktopBudget>>
-----------------------------------------------------------------------------
(* move_file *)

\* _generate_alternative_name: the first counter that is free.
Alternative(place) ==
  LET numbered(n) == [place EXCEPT !.name = Append(@, n)] IN
    numbered(Min({n \in 1..(Cardinality(Taken) + 1) : numbered(n) \notin Taken}))

Without(places) == [p \in Taken \ places |-> at[p]]

\* handle_collision looks again, because the file system has gone on since
\* the dialog; overwriting removes what is there now.
\* Mutant: what _do_move saw before the dialog is still taken for true.
CheckTargetOnce ==
  LET to == [Top.src EXCEPT !.dir = Top.dir] IN
    /\ AtTop({"move"}) /\ Top.src \in Taken
    /\ late' = {}
    /\ Continue([Top EXCEPT !.pc = "rename", !.target = to])
    /\ IF to \in Taken /\ Top.strategy = "overwrite"
       THEN at' = Without({to}) /\ excused' = excused \cup {at[to]}
       ELSE UNCHANGED <<at, excused>>
    /\ UNCHANGED <<screen, history, mover, desktopBudget>>
CheckTarget ==
  LET to == [Top.src EXCEPT !.dir = Top.dir]
      free == IF to \in Taken /\ Top.strategy = "keep_both" THEN Alternative(to) ELSE to IN
    /\ AtTop({"move"}) /\ Top.src \in Taken
    /\ late' = {}
    /\ Continue([Top EXCEPT !.pc = "rename", !.target = free])
    /\ IF to \in Taken /\ Top.strategy = "overwrite"
       THEN at' = Without({to}) /\ excused' = excused \cup {at[to]}
       ELSE UNCHANGED <<at, excused>>
    /\ UNCHANGED <<screen, history, mover, desktopBudget>>

NextId == 1 + Max({0} \cup Range(mover) \cup {history[i].id : i \in DOMAIN history})

\* _add_history, or what _undo and _rollback make of the record.
Remembered(target) == [id |-> NextId, current |-> target, original |-> Top.original]

Recorded(file, target) ==
  CASE Top.kind = "file" ->
         /\ history' = SubSeq(<<Remembered(target)>> \o history, 1,
                              Min({Len(history) + 1, HistoryMax}))
         /\ mover' = [mover EXCEPT ![file] = Remembered(target).id]
    [] Top.kind = "undo" ->
         /\ history' = RemoveAt(history, Top.record)
         /\ mover' = [mover EXCEPT ![file] = 0]
    [] Top.kind = "rollback" ->
         /\ history' = [history EXCEPT ![Top.record].current = target]
         /\ mover' = [mover EXCEPT ![file] = history[Top.record].id]

\* shutil.move replaces a file that has come to the target since the check.
Rename ==
  LET file == at[Top.src] IN
    /\ AtTop({"rename"}) /\ Top.src \in Taken
    /\ at' = [p \in (Taken \ {Top.src}) \cup {Top.target} |->
                IF p = Top.target THEN file ELSE at[p]]
    /\ Recorded(file, Top.target)
    /\ Return
    /\ UNCHANGED <<screen, excused, late, desktopBudget>>

\* The source is gone or busy, the overwritten file cannot be removed, or the
\* move fails: there is no record, and what was overwritten stays removed.
MoveFails ==
  /\ AtTop({"move", "rename"})
  /\ IF Top.src \in Taken THEN Afford("failures") ELSE UNCHANGED desktopBudget
  /\ Return
  /\ UNCHANGED <<at, screen, history, ghosts>>
-----------------------------------------------------------------------------
(* The buttons of a record *)

\* A move of the record's file, or of what is there now, without questions.
MoveBack(kind, i, dir) ==
  /\ WindowEnabled /\ history[i].current \in Taken /\ Afford("undos")
  /\ stack' = <<[Frame EXCEPT !.pc = "move", !.kind = kind, !.src = history[i].current,
                   !.dir = dir, !.record = i]>>
  /\ UNCHANGED <<at, screen, history, ghosts>>

\* _undo: to the directory the file came from.
Undo(i) == MoveBack("undo", i, history[i].original.dir)

\* _rollback: one level up, not above a root.
Rollback(i) ==
  /\ history[i].current.dir \in DOMAIN Parent
  /\ MoveBack("rollback", i, Parent[history[i].current.dir])
-----------------------------------------------------------------------------
(* Other programs *)

Unused == File \ (Range(at) \cup excused)

Appears(file, place) ==
  /\ file \in Unused /\ mover[file] = 0 /\ place \notin Taken /\ Afford("changes")
  /\ at' = [p \in Taken \cup {place} |-> IF p = place THEN file ELSE at[p]]
  /\ late' = late \cup (IF AtTop({"rename"}) THEN {file} ELSE {})
  /\ UNCHANGED <<screen, stack, history, mover, excused>>

Vanishes(place) ==
  /\ Afford("changes")
  /\ at' = Without({place}) /\ excused' = excused \cup {at[place]}
  /\ UNCHANGED <<screen, stack, history, mover, late>>

DesktopNext ==
  \/ \E places \in SUBSET Taken : Drop(places)
  \/ \E place \in Taken : Notice(place)
  \/ \E place \in notices : Dismiss(place)
  \/ \E place \in drops : ProcessDrop(place)
  \/ \E place \in notices : Classify(place)
  \/ Choose \/ Resolve \/ CheckTarget \/ Rename \/ MoveFails
  \/ \E i \in DOMAIN history : Undo(i)
  \/ \E i \in DOMAIN history : Rollback(i)
  \/ \E file \in File, dir \in Folder, s \in Stem : Appears(file, [dir |-> dir, name |-> <<s>>])
  \/ \E place \in Taken : Vanishes(place)

DesktopSpec == DesktopInit /\ [][DesktopNext]_desktopVars
=============================================================================
