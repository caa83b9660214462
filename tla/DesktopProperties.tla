-------------------------- MODULE DesktopProperties --------------------------
(***************************************************************************)
(* What the desktop application promises about the user's files.           *)
(***************************************************************************)
EXTENDS DesktopMoves

\* The types of the state.
DesktopTypeOK ==
  /\ Taken \subseteq Place /\ Range(at) \subseteq File
  /\ \A p, q \in Taken : at[p] = at[q] => p = q
  /\ drops \cup notices \subseteq Place
  /\ \A i \in DOMAIN stack :
       /\ stack[i].pc \in {"ask", "pick", "collide", "move", "rename"}
       /\ {stack[i].src, stack[i].target, stack[i].original} \subseteq Place
       /\ stack[i].dir \in Folder /\ stack[i].record \in Nat
       /\ stack[i].kind # "file" => stack[i].record \in DOMAIN history
  /\ Len(history) <= HistoryMax
  /\ \A i \in DOMAIN history :
       history[i].id \in Nat /\ {history[i].current, history[i].original} \subseteq Place
  /\ mover \in [File -> Nat] /\ excused \cup late \subseteq File
  /\ desktopBudget \in DesktopBudget

\* The record that moved a file last names the place where it is, under the
\* name it got there, until the file is lost or another record moves it.
HistoryNamesPlace ==
  \A i \in DOMAIN history : \A f \in File :
    mover[f] = history[i].id /\ f \in Range(at) =>
      history[i].current \in Taken /\ at[history[i].current] = f

\* However many dialogs are open and whatever other programs do meanwhile, no
\* file is lost but one the user chose to overwrite or removed, and one that
\* came to the target between the last check and the move; and the record that
\* moved a file last names the place where it is, which undo and rollback act
\* on (file_mover.py:100, :197; main_window.py:426, :523, :562).
FilesAreKept ==
  [][/\ Range(at) \subseteq {at'[p] : p \in DOMAIN at'} \cup excused' \cup late
     /\ HistoryNamesPlace']_desktopVars
=============================================================================
