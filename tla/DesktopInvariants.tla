--------------------------- MODULE DesktopInvariants ---------------------------
(***************************************************************************)
(* The inductive invariant of DesktopMoves, in named parts: what is on the *)
(* disk, what the thread is doing there, and what the records tell of it.  *)
(* DesktopProofs proves it.                                                *)
(***************************************************************************)
EXTENDS DesktopProperties

Strategy == {"overwrite", "keep_both"}
Asking == {"ask", "pick", "collide"}
Moving == {"move", "rename"}
Frames ==
  [pc : Asking \cup Moving, kind : {"file", "undo", "rollback"}, src : Place, dir : Folder,
   original : Place, strategy : Strategy, target : Place, record : Nat]
Record == [id : Nat, current : Place, original : Place]

\* Of finitely many files on the disk each is at one place.
DiskSound ==
  /\ Taken \subseteq Place /\ Range(at) \subseteq File
  /\ IsFiniteSet(Taken) /\ IsInjective(at)

ScreenSound == drops \cup notices \subseteq Place

\* Only the innermost frame moves, all others wait for an answer about a file;
\* undo and rollback move the file of their record, with no other frame below.
StackSound ==
  /\ stack \in Seq(Frames)
  /\ \A i \in DOMAIN stack :
       /\ i # 1 => stack[i].pc \in Asking
       /\ stack[i].kind # "file" =>
            /\ Len(stack) = 1 /\ stack[i].pc \in Moving
            /\ stack[i].record \in DOMAIN history
            /\ history[stack[i].record].current = stack[i].src

\* What is at the target has come there since it was looked at.
TargetSound ==
  AtTop({"rename"}) /\ Top.target \in Taken => at[Top.target] \in late

IdsUpTo(n) ==
  /\ \A i \in DOMAIN history : history[i].id <= n
  /\ \A f \in File : mover[f] <= n

\* No two records have one id, and a new id is above all there are.
RecordsSound ==
  /\ history \in Seq(Record) /\ Len(history) <= HistoryMax
  /\ \A i, j \in DOMAIN history : history[i].id = history[j].id => i = j
  /\ \A i \in DOMAIN history : history[i].id # 0
  /\ mover \in [File -> Nat]
  /\ \E n \in Nat : IdsUpTo(n)

\* The inductive invariant: with it, a file is lost only where the user or
\* another program wants it, and records lead to their files (file_mover.py).
DesktopInv ==
  /\ DiskSound /\ ScreenSound /\ StackSound /\ TargetSound /\ RecordsSound
  /\ HistoryNamesPlace /\ excused \cup late \subseteq File

\* Whatever leaves the disk may leave it (first half of FilesAreKept).
FilesStay == Range(at) \subseteq {at'[p] : p \in DOMAIN at'} \cup excused' \cup late
=============================================================================
