----------------------------- MODULE DesktopProofs -----------------------------
(***************************************************************************)
(* Proofs about DesktopMoves, for any folders, files, dialogs and lengths  *)
(* of the history.                                                         *)
(***************************************************************************)
EXTENDS DesktopInvariants, FiniteSetTheorems, SequenceTheorems, WellFoundedInduction, TLAPS

USE FolderAssumption, HistoryAssumption

-----------------------------------------------------------------------------
(* Numbers: a new id and a free counter exist *)

LEMMA LeastNumber ==
  ASSUME NEW S \in SUBSET Nat, S # {}
  PROVE  \E n \in S : \A k \in S : n <= k
<1>1. PICK n \in S : \A k \in S : ~(<<k, n>> \in OpToRel(<, Nat))
  BY NatLessThanWellFounded, WFMin
<1>2. \A k \in S : ~(k < n)
  BY <1>1 DEF OpToRel
<1> QED
  BY <1>2

LEMMA GreatestNumber ==
  ASSUME NEW S \in SUBSET Nat, S # {}, NEW top \in Nat, \A n \in S : n <= top
  PROVE  Max(S) \in S /\ \A n \in S : n <= Max(S)
<1> DEFINE bounds == {u \in Nat : \A n \in S : n <= u}
<1>1. PICK least \in bounds : \A u \in bounds : least <= u
  BY LeastNumber
<1>2. least \in S
  <2>1. SUFFICES ASSUME least \notin S PROVE FALSE
    OBVIOUS
  <2>2. \A n \in S : n <= least /\ n # least
    BY <2>1
  <2>3. PICK m \in S : m \in Nat
    OBVIOUS
  <2>4. m <= least /\ m # least /\ least \in Nat
    BY <2>2
  <2>5. least # 0
    BY <2>3, <2>4
  <2>6. least - 1 \in Nat /\ \A n \in S : n <= least - 1
    BY <2>2, <2>5
  <2> QED
    BY <2>6, <1>1
<1>3. \E m \in S : \A n \in S : m >= n
  BY <1>2
<1>4. Max(S) \in S /\ \A n \in S : Max(S) >= n
  BY <1>3 DEF Max
<1> QED
  BY <1>4

\* The id of a new record is above every other.
LEMMA NextIdIsNew ==
  ASSUME RecordsSound
  PROVE  /\ NextId \in Nat \ {0}
         /\ \A i \in DOMAIN history : history[i].id < NextId
         /\ \A f \in File : mover[f] < NextId
<1> DEFINE ids == {0} \cup Range(mover) \cup {history[i].id : i \in DOMAIN history}
<1>0. PICK n \in Nat : IdsUpTo(n)
  BY DEF RecordsSound
<1>1. /\ \A i \in DOMAIN history : history[i].id <= n
      /\ \A f \in File : mover[f] <= n
  BY <1>0 DEF IdsUpTo
<1>2. \A i \in DOMAIN history : history[i].id \in Nat
  <2>1. history \in Seq(Record)
    BY DEF RecordsSound
  <2>2. \A i \in DOMAIN history : history[i] \in Record
    BY <2>1
  <2> QED
    BY <2>2 DEF Record
<1>3. \A f \in File : mover[f] \in Nat
  BY DEF RecordsSound
<1>4. DOMAIN mover = File
  BY DEF RecordsSound
<1>5. ids \in SUBSET Nat /\ 0 \in ids /\ \A m \in ids : m <= n
  BY <1>1, <1>2, <1>3, <1>4 DEF Range
<1>6. Max(ids) \in ids /\ \A m \in ids : m <= Max(ids)
  BY <1>1, <1>5, GreatestNumber
<1>7. NextId = 1 + Max(ids)
  BY DEF NextId
<1>8. \A i \in DOMAIN history : history[i].id \in ids
  OBVIOUS
<1>9. \A f \in File : mover[f] \in ids
  BY <1>4 DEF Range
<1> HIDE DEF ids
<1>10. Max(ids) \in Nat
  BY <1>5, <1>6
<1> QED
  BY <1>5, <1>6, <1>7, <1>8, <1>9, <1>10

\* Of one counter more than there are files on the disk, some is free.
LEMMA AlternativeIsFree ==
  ASSUME DiskSound, NEW place \in Place
  PROVE  Alternative(place) \in Place \ Taken
<1> DEFINE numbered(n) == [place EXCEPT !.name = Append(@, n)]
           upper == Cardinality(Taken) + 1
           free == {n \in 1..upper : numbered(n) \notin Taken}
<1>1. IsFiniteSet(Taken) /\ Cardinality(Taken) \in Nat
  BY FS_CardinalityType DEF DiskSound
<1>2. \A n \in Nat : numbered(n) \in Place /\ numbered(n).name = Append(place.name, n)
  BY DEF Place
<1>3. \A m, n \in Nat : numbered(m) = numbered(n) => m = n
  <2>1. place.name \in Seq(Stem \cup Nat)
    BY DEF Place
  <2>2. \A m, n \in Nat : Append(place.name, m) = Append(place.name, n) => m = n
    BY <2>1, AppendInjective
  <2> QED
    BY <1>2, <2>2
<1> HIDE DEF numbered
<1>4. free # {}
  <2> SUFFICES ASSUME free = {} PROVE FALSE
    OBVIOUS
  <2> DEFINE f == [n \in 1..upper |-> numbered(n)]
  <2>1. f \in [1..upper -> Taken]
    OBVIOUS
  <2>2. \A m, n \in 1..upper : f[m] = f[n] => m = n
    BY <1>1, <1>3
  <2>3. f \in Injection(1..upper, Taken)
    BY <2>1, <2>2 DEF Injection, IsInjective
  <2>4. Cardinality(1..upper) <= Cardinality(Taken)
    BY <1>1, <2>3, FS_Injection
  <2>5. Cardinality(1..upper) = upper
    BY <1>1, FS_Interval
  <2> QED
    BY <1>1, <2>4, <2>5
<1>5. Min(free) \in free
  <2>1. free \in SUBSET Nat
    BY <1>1
  <2>2. \E n \in free : \A k \in free : n <= k
    BY <1>4, <2>1, LeastNumber
  <2> HIDE DEF free
  <2> QED
    BY <2>2 DEF Min
<1>6. Alternative(place) = numbered(Min(free))
  BY DEF Alternative, numbered
<1> QED
  BY <1>1, <1>2, <1>5, <1>6

-----------------------------------------------------------------------------
(* The stack *)

LEMMA Consed ==
  ASSUME NEW S, NEW e \in S, NEW s \in Seq(S)
  PROVE  /\ <<e>> \o s \in Seq(S) /\ Len(<<e>> \o s) = Len(s) + 1 /\ (<<e>> \o s)[1] = e
         /\ DOMAIN (<<e>> \o s) = 1..(Len(s) + 1) /\ DOMAIN s = 1..Len(s) /\ Len(s) \in Nat
         /\ \A i \in 1..Len(s) : (<<e>> \o s)[i + 1] = s[i]
<1>0. <<e>> \in Seq(S)
  OBVIOUS
<1>1. PICK f \in Seq(S) : f = <<e>>
  BY <1>0
<1>2. Len(f) = 1 /\ f[1] = e /\ Len(s) \in Nat /\ DOMAIN s = 1..Len(s)
  BY <1>1
<1>3. /\ f \o s \in Seq(S) /\ Len(f \o s) = Len(f) + Len(s)
      /\ \A i \in 1..(Len(f) + Len(s)) : (f \o s)[i] = IF i <= Len(f) THEN f[i] ELSE s[i - Len(f)]
  BY ConcatProperties
<1>4. DOMAIN (f \o s) = 1..(Len(s) + 1) /\ (f \o s)[1] = e
  BY <1>2, <1>3
<1>5. ASSUME NEW i \in 1..Len(s) PROVE (f \o s)[i + 1] = s[i]
  BY <1>2, <1>3
<1> QED
  BY <1>1, <1>2, <1>3, <1>4, <1>5

\* What the thread is doing and waits for.
LEMMA TopIs ==
  ASSUME StackSound, stack # <<>>
  PROVE  /\ Top \in Frames /\ Top = stack[1] /\ 1 \in DOMAIN stack /\ Len(stack) \in Nat \ {0}
         /\ Tail(stack) \in Seq(Frames) /\ Len(Tail(stack)) = Len(stack) - 1
         /\ \A i \in DOMAIN Tail(stack) :
              i + 1 \in DOMAIN stack /\ Tail(stack)[i] = stack[i + 1]
              /\ Tail(stack)[i].pc \in Asking /\ Tail(stack)[i].kind = "file"
         /\ Top.kind # "file" => Tail(stack) = <<>>
<1>1. stack \in Seq(Frames)
  BY DEF StackSound
<1>2. PICK n \in Nat : n = Len(stack) /\ n # 0 /\ DOMAIN stack = 1..n /\ Top = stack[1]
  BY <1>1 DEF Top
<1>3. /\ Tail(stack) \in Seq(Frames) /\ Len(Tail(stack)) = n - 1
      /\ \A i \in 1..(n - 1) : Tail(stack)[i] = stack[i + 1]
  BY <1>1, <1>2, HeadTailProperties
<1>4. DOMAIN Tail(stack) = 1..(n - 1)
  BY <1>2, <1>3
<1>5. \A i \in DOMAIN stack : stack[i].kind # "file" => n = 1
  BY <1>2 DEF StackSound
<1>6. ASSUME NEW i \in DOMAIN Tail(stack)
      PROVE  i + 1 \in DOMAIN stack /\ Tail(stack)[i] = stack[i + 1]
             /\ Tail(stack)[i].pc \in Asking /\ Tail(stack)[i].kind = "file"
  <2>1. i + 1 \in DOMAIN stack /\ Tail(stack)[i] = stack[i + 1] /\ i + 1 # 1 /\ n # 1
    BY <1>2, <1>3, <1>4
  <2> QED
    BY <1>5, <2>1 DEF StackSound
<1>7. Top.kind # "file" => Tail(stack) = <<>>
  BY <1>2, <1>3, <1>5
<1>8. Top \in Frames
  BY <1>1, <1>2
<1> QED
  BY <1>2, <1>3, <1>6, <1>7, <1>8

\* A frame on top of frames that wait.
LEMMA Stacked ==
  ASSUME NEW rest \in Seq(Frames), NEW frame \in Frames, stack' = <<frame>> \o rest,
         \A i \in DOMAIN rest : rest[i].pc \in Asking /\ rest[i].kind = "file",
         frame.kind # "file" =>
           /\ rest = <<>> /\ frame.pc \in Moving
           /\ frame.record \in DOMAIN history' /\ history'[frame.record].current = frame.src
  PROVE  StackSound' /\ Top' = frame /\ stack' # <<>>
<1>1. /\ stack' \in Seq(Frames) /\ Len(stack') = Len(rest) + 1 /\ stack'[1] = frame
      /\ DOMAIN stack' = 1..(Len(rest) + 1) /\ DOMAIN rest = 1..Len(rest) /\ Len(rest) \in Nat
      /\ \A i \in 1..Len(rest) : stack'[i + 1] = rest[i]
  BY Consed
<1>2. ASSUME NEW i \in DOMAIN stack'
      PROVE  /\ i # 1 => stack'[i].pc \in Asking
             /\ stack'[i].kind # "file" =>
                  /\ Len(stack') = 1 /\ stack'[i].pc \in Moving
                  /\ stack'[i].record \in DOMAIN history'
                  /\ history'[stack'[i].record].current = stack'[i].src
  <2>1. CASE i = 1
    BY <1>1, <2>1
  <2>2. CASE i # 1
    <3>1. i - 1 \in 1..Len(rest) /\ (i - 1) + 1 = i
      BY <1>1, <2>2
    <3>2. stack'[i] = rest[i - 1]
      BY <1>1, <3>1
    <3> QED
      BY <1>1, <2>2, <3>1, <3>2
  <2> QED
    BY <2>1, <2>2
<1>3. stack' # <<>> /\ Top' = stack'[1]
  BY <1>1 DEF Top
<1> QED
  BY <1>1, <1>2, <1>3 DEF StackSound

\* A frame that ends leaves frames that wait, whatever becomes of the records.
LEMMA Returned ==
  ASSUME StackSound, stack # <<>>, Return
  PROVE  StackSound' /\ ~AtTop({"rename"})'
<1>1. /\ stack' \in Seq(Frames)
      /\ \A i \in DOMAIN stack' : stack'[i].pc \in Asking /\ stack'[i].kind = "file"
  BY TopIs DEF Return
<1>2. StackSound'
  BY <1>1 DEF StackSound
<1>3. stack' # <<>> => Top' = stack'[1] /\ 1 \in DOMAIN stack'
  BY <1>1 DEF Top
<1> QED
  BY <1>1, <1>2, <1>3 DEF AtTop, Asking

\* The frame on top goes on.
LEMMA Continued ==
  ASSUME StackSound, stack # <<>>, NEW frame \in Frames, Continue(frame),
         frame.kind = Top.kind, frame.src = Top.src, frame.record = Top.record,
         frame.kind # "file" => frame.pc \in Moving, UNCHANGED history
  PROVE  StackSound' /\ Top' = frame /\ stack' # <<>>
<1>1. PICK rest \in Seq(Frames) : rest = Tail(stack)
  BY TopIs
<1>2. /\ \A i \in DOMAIN rest : rest[i].pc \in Asking /\ rest[i].kind = "file"
      /\ Top.kind # "file" => rest = <<>>
      /\ stack' = <<frame>> \o rest
  BY <1>1, TopIs DEF Continue
<1>3. frame.kind # "file" => frame.record \in DOMAIN history' /\ history'[frame.record].current = frame.src
  BY TopIs DEF StackSound
<1> QED
  BY <1>2, <1>3, Stacked

\* While callbacks run, every frame waits.
LEMMA AllWait ==
  ASSUME StackSound, CallbacksRun
  PROVE  /\ stack \in Seq(Frames)
         /\ \A i \in DOMAIN stack : stack[i].pc \in Asking /\ stack[i].kind = "file"
<1>1. CASE stack = <<>>
  BY <1>1
<1>2. CASE stack # <<>>
  <2>1. stack[1].pc \in Asking
    BY <1>2, TopIs DEF CallbacksRun, WindowEnabled, AtTop, Asking
  <2>2. \A i \in DOMAIN stack : stack[i].pc \in Asking
    BY <2>1 DEF StackSound
  <2>3. \A i \in DOMAIN stack : stack[i].pc \notin Moving
    BY <2>2 DEF Asking, Moving
  <2> QED
    BY <2>2, <2>3 DEF StackSound
<1> QED
  BY <1>1, <1>2

-----------------------------------------------------------------------------
(* Steps that leave the disk and the records alone *)

LEMMA NothingMoves ==
  ASSUME DesktopInv, UNCHANGED <<at, history, ghosts>>, ScreenSound', StackSound', TargetSound'
  PROVE  DesktopInv' /\ FilesStay
<1>1. DiskSound' /\ HistoryNamesPlace' /\ (excused \cup late \subseteq File)'
  BY DEF DesktopInv, DiskSound, HistoryNamesPlace, Taken, ghosts
<1>2. RecordsSound'
  BY DEF DesktopInv, RecordsSound, IdsUpTo, ghosts
<1>3. FilesStay
  BY DEF FilesStay, Range
<1> QED
  BY <1>1, <1>2, <1>3 DEF DesktopInv

LEMMA OnlyScreen ==
  ASSUME DesktopInv, UNCHANGED <<at, stack, history, ghosts>>, ScreenSound'
  PROVE  DesktopInv' /\ FilesStay
<1>1. StackSound' /\ TargetSound'
  BY DEF DesktopInv, StackSound, TargetSound, AtTop, Top, Taken, ghosts
<1> QED
  BY <1>1, NothingMoves

LEMMA FrameType ==
  /\ Nowhere \in Place
  /\ \A place \in Place, pc \in Asking :
       [[Frame EXCEPT !.src = place, !.original = place] EXCEPT !.pc = pc] \in Frames
  /\ \A place \in Place : [Frame EXCEPT !.src = place, !.original = place] \in Frames
<1>1. Nowhere \in Place
  BY DEF Nowhere, Place
<1>2. Frame \in Frames
  BY <1>1 DEF Frame, Frames, Asking, Strategy
<1> QED
  BY <1>1, <1>2 DEF Frames

LEMMA TowardType ==
  ASSUME NEW frame \in Frames, NEW dir \in Folder
  PROVE  /\ Toward(frame, dir) \in Frames /\ Toward(frame, dir).kind = frame.kind
         /\ Toward(frame, dir).src = frame.src /\ Toward(frame, dir).record = frame.record
         /\ Toward(frame, dir).pc \in {"collide", "move"}
BY DEF Toward, Frames, Asking, Moving

\* A file that is processed is asked about, or about to be moved.
LEMMA ProcessSound ==
  ASSUME DesktopInv, CallbacksRun, NEW place \in Place, Process(place),
         UNCHANGED <<at, history, ghosts>>
  PROVE  StackSound' /\ TargetSound'
<1> DEFINE frame == [Frame EXCEPT !.src = place, !.original = place]
<1>1. frame \in Frames /\ frame.kind = "file"
  BY FrameType DEF Frame
<1>2. /\ stack \in Seq(Frames)
      /\ \A i \in DOMAIN stack : stack[i].pc \in Asking /\ stack[i].kind = "file"
  BY AllWait DEF DesktopInv
<1>3. ASSUME NEW top \in Frames, stack' = <<top>> \o stack, top.kind = "file", top.pc # "rename"
      PROVE  StackSound' /\ TargetSound'
  <2>1. StackSound' /\ Top' = top
    BY <1>2, <1>3, Stacked
  <2> QED
    BY <1>3, <2>1 DEF TargetSound, AtTop
<1>4. CASE UNCHANGED stack
  BY <1>4 DEF DesktopInv, StackSound, TargetSound, AtTop, Top, Taken, ghosts
<1>5. ASSUME NEW pc \in {"ask", "pick"}, stack' = <<[frame EXCEPT !.pc = pc]>> \o stack
      PROVE  StackSound' /\ TargetSound'
  <2>1. PICK top \in Frames : top = [frame EXCEPT !.pc = pc]
    BY FrameType DEF Asking
  <2>2. top.kind = "file" /\ top.pc = pc
    BY <1>1, <2>1 DEF Frames
  <2> QED
    BY <1>3, <1>5, <2>1, <2>2
<1>6. ASSUME NEW dir \in Folder, stack' = <<Toward(frame, dir)>> \o stack
      PROVE  StackSound' /\ TargetSound'
  BY <1>1, <1>3, <1>6, TowardType
<1>7. \/ UNCHANGED stack
      \/ \E pc \in {"ask", "pick"} : stack' = <<[frame EXCEPT !.pc = pc]>> \o stack
      \/ \E dir \in Folder : stack' = <<Toward(frame, dir)>> \o stack
  BY DEF Process
<1> QED
  BY <1>4, <1>5, <1>6, <1>7

LEMMA DropSound ==
  ASSUME DesktopInv, NEW places \in SUBSET Taken, Drop(places)
  PROVE  DesktopInv' /\ FilesStay
<1>1. ScreenSound' /\ UNCHANGED <<at, stack, history, ghosts>>
  BY DEF DesktopInv, ScreenSound, DiskSound, Drop
<1> QED
  BY <1>1, OnlyScreen

LEMMA NoticeSound ==
  ASSUME DesktopInv, NEW place \in Taken, Notice(place)
  PROVE  DesktopInv' /\ FilesStay
<1>1. ScreenSound' /\ UNCHANGED <<at, stack, history, ghosts>>
  BY DEF DesktopInv, ScreenSound, DiskSound, Notice
<1> QED
  BY <1>1, OnlyScreen

LEMMA DismissSound ==
  ASSUME DesktopInv, NEW place \in notices, Dismiss(place)
  PROVE  DesktopInv' /\ FilesStay
<1>1. ScreenSound' /\ UNCHANGED <<at, stack, history, ghosts>>
  BY DEF DesktopInv, ScreenSound, Dismiss
<1> QED
  BY <1>1, OnlyScreen

LEMMA ProcessDropSound ==
  ASSUME DesktopInv, NEW place \in drops, ProcessDrop(place)
  PROVE  DesktopInv' /\ FilesStay
<1>1. ScreenSound' /\ place \in Place
  BY DEF DesktopInv, ScreenSound, ProcessDrop
<1>2. CallbacksRun /\ Process(place) /\ UNCHANGED <<at, history, ghosts>>
  BY DEF ProcessDrop
<1> QED
  BY <1>1, <1>2, ProcessSound, NothingMoves

LEMMA ClassifySound ==
  ASSUME DesktopInv, NEW place \in notices, Classify(place)
  PROVE  DesktopInv' /\ FilesStay
<1>1. ScreenSound' /\ place \in Place
  BY DEF DesktopInv, ScreenSound, Classify
<1>2. CallbacksRun /\ Process(place) /\ UNCHANGED <<at, history, ghosts>>
  BY DEF Classify, CallbacksRun, AtTop
<1> QED
  BY <1>1, <1>2, ProcessSound, NothingMoves

-----------------------------------------------------------------------------
(* Steps of the dialogs *)

LEMMA ReturnSound ==
  ASSUME DesktopInv, stack # <<>>, Return, UNCHANGED <<at, screen, history, ghosts>>
  PROVE  DesktopInv' /\ FilesStay
<1>1. StackSound' /\ TargetSound'
  BY Returned DEF DesktopInv, TargetSound
<1>2. ScreenSound'
  BY DEF DesktopInv, ScreenSound, screen
<1> QED
  BY <1>1, <1>2, NothingMoves

LEMMA ContinueSound ==
  ASSUME DesktopInv, stack # <<>>, NEW frame \in Frames, Continue(frame),
         frame.kind = Top.kind, frame.src = Top.src, frame.record = Top.record,
         frame.kind # "file" => frame.pc \in Moving, frame.pc # "rename",
         UNCHANGED <<at, screen, history, ghosts>>
  PROVE  DesktopInv' /\ FilesStay
<1>1. StackSound' /\ Top' = frame
  BY Continued DEF DesktopInv
<1>2. TargetSound'
  BY <1>1 DEF TargetSound, AtTop
<1>3. ScreenSound'
  BY DEF DesktopInv, ScreenSound, screen
<1> QED
  BY <1>1, <1>2, <1>3, NothingMoves

\* Only a file that is dropped or noticed is asked about.
LEMMA AskedIsFile ==
  ASSUME StackSound, stack # <<>>, Top.pc \in Asking
  PROVE  Top \in Frames /\ Top.kind = "file"
<1>1. Top \in Frames /\ Top = stack[1] /\ 1 \in DOMAIN stack
  BY TopIs
<1>2. stack[1].pc \notin Moving
  BY <1>1 DEF Asking, Moving
<1> QED
  BY <1>1, <1>2 DEF StackSound

LEMMA ChooseSound ==
  ASSUME DesktopInv, Choose
  PROVE  DesktopInv' /\ FilesStay
<1>1. stack # <<>> /\ Top.pc \in Asking /\ UNCHANGED <<at, screen, history, ghosts>>
  BY DEF Choose, AtTop, Asking
<1>2. CASE Return
  BY <1>1, <1>2, ReturnSound
<1>3. ASSUME NEW dir \in Folder, Continue(Toward(Top, dir))
      PROVE  DesktopInv' /\ FilesStay
  <2>1. Top \in Frames /\ Top.kind = "file"
    BY <1>1, AskedIsFile DEF DesktopInv
  <2>2. PICK frame \in Frames : /\ frame = Toward(Top, dir) /\ frame.kind = Top.kind
          /\ frame.src = Top.src /\ frame.record = Top.record /\ frame.pc # "rename"
    BY <2>1, TowardType
  <2> QED
    BY <1>1, <1>3, <2>1, <2>2, ContinueSound
<1> QED
  BY <1>2, <1>3 DEF Choose

LEMMA ResolveSound ==
  ASSUME DesktopInv, Resolve
  PROVE  DesktopInv' /\ FilesStay
<1>1. stack # <<>> /\ Top.pc \in Asking /\ UNCHANGED <<at, screen, history, ghosts>>
  BY DEF Resolve, AtTop, Asking
<1>2. CASE Return
  BY <1>1, <1>2, ReturnSound
<1>3. ASSUME NEW s \in Strategy, Continue([Top EXCEPT !.pc = "move", !.strategy = s])
      PROVE  DesktopInv' /\ FilesStay
  <2>1. Top \in Frames /\ Top.kind = "file"
    BY <1>1, AskedIsFile DEF DesktopInv
  <2>2. PICK frame : frame = [Top EXCEPT !.pc = "move", !.strategy = s]
    OBVIOUS
  <2>3. /\ frame \in Frames /\ frame.kind = Top.kind /\ frame.src = Top.src
        /\ frame.record = Top.record /\ frame.pc # "rename"
    BY <2>1, <2>2 DEF Frames, Moving
  <2> QED
    BY <1>1, <1>3, <2>1, <2>2, <2>3, ContinueSound
<1> QED
  BY <1>2, <1>3 DEF Resolve, Strategy

LEMMA MoveFailsSound ==
  ASSUME DesktopInv, MoveFails
  PROVE  DesktopInv' /\ FilesStay
BY ReturnSound DEF MoveFails, AtTop

\* The main window starts a move of its own only when no dialog is open.
LEMMA MoveBackSound ==
  ASSUME DesktopInv, NEW kind \in {"undo", "rollback"}, NEW i \in DOMAIN history,
         NEW dir \in Folder, MoveBack(kind, i, dir)
  PROVE  DesktopInv' /\ FilesStay
<1> DEFINE frame == [Frame EXCEPT !.pc = "move", !.kind = kind, !.src = history[i].current,
                       !.dir = dir, !.record = i]
<1>1. history \in Seq(Record)
  BY DEF DesktopInv, RecordsSound
<1>2. history[i].current \in Place /\ i \in Nat
  <2>1. history[i] \in Record /\ i \in Nat
    BY <1>1
  <2> QED
    BY <2>1 DEF Record
<1>3. Frame \in Frames
  BY FrameType DEF Frame, Frames, Asking, Strategy
<1>4. PICK top \in Frames : top = frame
  BY <1>2, <1>3 DEF Frames, Moving
<1>5. top.kind = kind /\ top.pc = "move" /\ top.src = history[i].current /\ top.record = i
  BY <1>3, <1>4 DEF Frames
<1>6. stack' = <<top>> /\ UNCHANGED <<at, screen, history, ghosts>>
  BY <1>4 DEF MoveBack
<1>7. StackSound' /\ Top' = top
  <2>0. <<>> \in Seq(Frames)
    OBVIOUS
  <2>1. PICK rest \in Seq(Frames) : rest = <<>>
    BY <2>0
  <2>2. stack' = <<top>> \o rest
    BY <1>6, <2>1
  <2>3. \A k \in DOMAIN rest : rest[k].pc \in Asking /\ rest[k].kind = "file"
    BY <2>1
  <2>4. top.pc \in Moving /\ top.record \in DOMAIN history' /\ history'[top.record].current = top.src
    BY <1>5, <1>6 DEF Moving
  <2> QED
    BY <2>1, <2>2, <2>3, <2>4, Stacked
<1>8. TargetSound'
  BY <1>5, <1>7 DEF TargetSound, AtTop
<1>9. ScreenSound'
  BY <1>6 DEF DesktopInv, ScreenSound, screen
<1> QED
  BY <1>6, <1>7, <1>8, <1>9, NothingMoves

LEMMA ButtonsSound ==
  ASSUME DesktopInv, NEW i \in DOMAIN history, Undo(i) \/ Rollback(i)
  PROVE  DesktopInv' /\ FilesStay
<1>1. history \in Seq(Record)
  BY DEF DesktopInv, RecordsSound
<1>2. history[i] \in Record
  BY <1>1
<1>3. history[i].original.dir \in Folder
  BY <1>2 DEF Record, Place
<1>4. CASE Undo(i)
  BY <1>3, <1>4, MoveBackSound DEF Undo
<1>5. CASE Rollback(i)
  <2>1. Parent[history[i].current.dir] \in Folder
    BY <1>5 DEF Rollback
  <2> QED
    BY <1>5, <2>1, MoveBackSound DEF Rollback
<1> QED
  BY <1>4, <1>5

-----------------------------------------------------------------------------
(* Steps that move files *)

LEMMA RecordsKept ==
  ASSUME RecordsSound, UNCHANGED <<history, mover>>
  PROVE  RecordsSound'
BY DEF RecordsSound, IdsUpTo

\* Where no record and no moved file is concerned, records lead to their files
\* if the files that stay do not change their places.
LEMMA PlacesKept ==
  ASSUME RecordsSound, HistoryNamesPlace, UNCHANGED <<history, mover>>,
         \A f \in Range(at') : f \in Range(at) \/ mover[f] = 0,
         \A p \in Taken : at[p] \in Range(at') => p \in Taken' /\ at'[p] = at[p]
  PROVE  HistoryNamesPlace'
<1> SUFFICES ASSUME NEW i \in DOMAIN history, NEW f \in File,
                    mover[f] = history[i].id, f \in Range(at')
             PROVE  history[i].current \in Taken' /\ at'[history[i].current] = f
  BY DEF HistoryNamesPlace
<1>1. history[i].id # 0
  BY DEF RecordsSound
<1>2. f \in Range(at)
  BY <1>1
<1>3. history[i].current \in Taken /\ at[history[i].current] = f
  BY <1>2 DEF HistoryNamesPlace
<1> QED
  BY <1>3

\* Removing what is at a place disturbs nothing else.
LEMMA Emptied ==
  ASSUME DesktopInv, NEW place \in Taken, at' = Without({place}), UNCHANGED <<history, mover>>
  PROVE  /\ DiskSound' /\ RecordsSound' /\ HistoryNamesPlace'
         /\ Taken' = Taken \ {place} /\ \A p \in Taken' : at'[p] = at[p]
         /\ Range(at) \subseteq Range(at') \cup {at[place]} /\ at[place] \in File
<1>1. Taken' = Taken \ {place} /\ \A p \in Taken' : at'[p] = at[p]
  BY DEF Without, Taken
<1>2. /\ Taken \subseteq Place /\ Range(at) \subseteq File /\ IsFiniteSet(Taken)
      /\ \A p, q \in Taken : at[p] = at[q] => p = q
  BY DEF DesktopInv, DiskSound, IsInjective, Taken
<1>3. IsFiniteSet(Taken')
  BY <1>1, <1>2, FS_Subset
<1>4. DiskSound'
  <2>1. Taken' \subseteq Place
    BY <1>1, <1>2
  <2>2. Range(at)' \subseteq Range(at)
    BY <1>1 DEF Taken, Range
  <2>3. IsInjective(at)'
    BY <1>1, <1>2 DEF IsInjective, Taken
  <2> QED
    BY <1>2, <1>3, <2>1, <2>2, <2>3 DEF DiskSound
<1>5. Range(at) \subseteq Range(at') \cup {at[place]} /\ at[place] \in File
  BY <1>1, <1>2 DEF Taken, Range
<1>6. \A f \in Range(at') : f \in Range(at)
  BY <1>1 DEF Taken, Range
<1>7. \A p \in Taken : at[p] \in Range(at') => p \in Taken' /\ at'[p] = at[p]
  BY <1>1, <1>2 DEF Taken, Range
<1>8. RecordsSound' /\ HistoryNamesPlace'
  BY <1>6, <1>7, RecordsKept, PlacesKept DEF DesktopInv
<1> QED
  BY <1>1, <1>4, <1>5, <1>8

LEMMA VanishesSound ==
  ASSUME DesktopInv, NEW place \in Taken, Vanishes(place)
  PROVE  DesktopInv' /\ FilesStay
<1>1. /\ DiskSound' /\ RecordsSound' /\ HistoryNamesPlace'
      /\ Taken' = Taken \ {place} /\ \A p \in Taken' : at'[p] = at[p]
      /\ Range(at) \subseteq Range(at') \cup {at[place]} /\ at[place] \in File
  BY Emptied DEF Vanishes
<1>2. UNCHANGED <<screen, stack, history, late>> /\ excused' = excused \cup {at[place]}
  BY DEF Vanishes
<1>3. StackSound' /\ ScreenSound'
  BY <1>2 DEF DesktopInv, StackSound, ScreenSound, screen
<1>4. TargetSound'
  BY <1>1, <1>2 DEF DesktopInv, TargetSound, AtTop, Top
<1>5. FilesStay
  BY <1>1, <1>2 DEF FilesStay, Range
<1> QED
  BY <1>1, <1>2, <1>3, <1>4, <1>5 DEF DesktopInv

LEMMA AppearsSound ==
  ASSUME DesktopInv, NEW file \in File, NEW place \in Place, Appears(file, place)
  PROVE  DesktopInv' /\ FilesStay
<1>1. /\ Taken' = Taken \cup {place} /\ at'[place] = file /\ place \notin Taken
      /\ \A p \in Taken : at'[p] = at[p]
  BY DEF Appears, Taken
<1>2. /\ UNCHANGED <<screen, stack, history, mover, excused>> /\ mover[file] = 0
      /\ file \notin Range(at)
      /\ late' = late \cup (IF AtTop({"rename"}) THEN {file} ELSE {})
  BY DEF Appears, Unused
<1>3. /\ Taken \subseteq Place /\ Range(at) \subseteq File /\ IsFiniteSet(Taken)
      /\ \A p, q \in Taken : at[p] = at[q] => p = q
  BY DEF DesktopInv, DiskSound, IsInjective, Taken
<1>4. \A p \in Taken : at[p] # file
  BY <1>2 DEF Range, Taken
<1>5. IsFiniteSet(Taken')
  BY <1>1, <1>3, FS_AddElement
<1>6. Taken' \subseteq Place /\ Range(at)' \subseteq File
  BY <1>1, <1>3 DEF Range, Taken
<1>7. IsInjective(at)'
  BY <1>1, <1>3, <1>4 DEF IsInjective, Taken
<1>8. DiskSound'
  BY <1>5, <1>6, <1>7 DEF DiskSound
<1>9. StackSound' /\ ScreenSound'
  BY <1>2 DEF DesktopInv, StackSound, ScreenSound, screen
<1>10. TargetSound'
  BY <1>1, <1>2 DEF DesktopInv, TargetSound, AtTop, Top
<1>11. RecordsSound'
  BY <1>2, RecordsKept DEF DesktopInv
<1>12. HistoryNamesPlace'
  <2>1. \A f \in Range(at') : f \in Range(at) \/ mover[f] = 0
    BY <1>1, <1>2 DEF Range, Taken
  <2> QED
    BY <1>1, <1>2, <2>1, PlacesKept DEF DesktopInv
<1>13. FilesStay
  BY <1>1 DEF FilesStay, Range, Taken
<1>14. (excused \cup late \subseteq File)'
  BY <1>2 DEF DesktopInv
<1> QED
  BY <1>8, <1>9, <1>10, <1>11, <1>12, <1>13, <1>14 DEF DesktopInv

\* The move goes to a place that is free when it is looked at.
LEMMA CheckTargetSound ==
  ASSUME DesktopInv, CheckTarget
  PROVE  DesktopInv' /\ FilesStay
<1> DEFINE to == [Top.src EXCEPT !.dir = Top.dir]
           free == IF to \in Taken /\ Top.strategy = "keep_both" THEN Alternative(to) ELSE to
<1>1. stack # <<>> /\ Top.pc = "move"
  BY DEF CheckTarget, AtTop
<1>2. Top \in Frames
  BY <1>1, TopIs DEF DesktopInv
<1>3. to \in Place /\ Top.strategy \in Strategy
  BY <1>2 DEF Frames, Place
<1> HIDE DEF to
<1>4. free \in Place /\ (free \in Taken => to \in Taken /\ Top.strategy = "overwrite" /\ free = to)
  <2>1. Alternative(to) \in Place \ Taken
    BY <1>3, AlternativeIsFree DEF DesktopInv
  <2> QED
    BY <1>3, <2>1 DEF Strategy
<1>5. /\ late' = {} /\ UNCHANGED <<screen, history, mover>>
      /\ Continue([Top EXCEPT !.pc = "rename", !.target = free])
      /\ IF to \in Taken /\ Top.strategy = "overwrite"
         THEN at' = Without({to}) /\ excused' = excused \cup {at[to]}
         ELSE UNCHANGED <<at, excused>>
  BY DEF CheckTarget, to
<1> HIDE DEF free
<1>6. PICK frame : frame = [Top EXCEPT !.pc = "rename", !.target = free]
  OBVIOUS
<1>7. /\ frame \in Frames /\ frame.kind = Top.kind /\ frame.src = Top.src
      /\ frame.record = Top.record /\ frame.pc \in Moving /\ frame.target = free
  BY <1>2, <1>4, <1>6 DEF Frames, Moving
<1>8. StackSound' /\ Top' = frame
  BY <1>1, <1>5, <1>6, <1>7, Continued DEF DesktopInv
<1>9. ScreenSound'
  BY <1>5 DEF DesktopInv, ScreenSound, screen
<1>10. CASE to \in Taken /\ Top.strategy = "overwrite"
  <2>1. /\ DiskSound' /\ RecordsSound' /\ HistoryNamesPlace' /\ Taken' = Taken \ {to}
        /\ Range(at) \subseteq Range(at') \cup {at[to]} /\ at[to] \in File
    BY <1>5, <1>10, Emptied
  <2>2. TargetSound'
    BY <1>4, <1>7, <1>8, <2>1 DEF TargetSound
  <2>3. FilesStay
    BY <1>5, <1>10, <2>1 DEF FilesStay, Range
  <2>4. (excused \cup late \subseteq File)'
    BY <1>5, <1>10, <2>1 DEF DesktopInv
  <2> QED
    BY <1>8, <1>9, <2>1, <2>2, <2>3, <2>4 DEF DesktopInv
<1>11. CASE ~(to \in Taken /\ Top.strategy = "overwrite")
  <2>1. UNCHANGED <<at, excused>>
    BY <1>5, <1>11
  <2>2. DiskSound' /\ HistoryNamesPlace' /\ RecordsSound'
    BY <1>5, <2>1, RecordsKept DEF DesktopInv, DiskSound, HistoryNamesPlace, Taken
  <2>3. TargetSound'
    BY <1>4, <1>7, <1>8, <1>11, <2>1 DEF TargetSound, Taken
  <2>4. FilesStay
    BY <2>1 DEF FilesStay, Range
  <2>5. (excused \cup late \subseteq File)'
    BY <1>5, <2>1 DEF DesktopInv
  <2> QED
    BY <1>8, <1>9, <2>2, <2>3, <2>4, <2>5 DEF DesktopInv
<1> QED
  BY <1>10, <1>11

-----------------------------------------------------------------------------
(* The move itself and its record *)

\* What the two halves of a rename do to the disk.
Renamed(file) ==
  /\ Taken' = (Taken \ {Top.src}) \cup {Top.target}
  /\ at'[Top.target] = file
  /\ \A p \in Taken' : p # Top.target => p \in Taken /\ at'[p] = at[p]

\* Every other file that stays keeps its place.
LEMMA RenameMovesOne ==
  ASSUME DesktopInv, Rename
  PROVE  /\ Top \in Frames /\ stack # <<>> /\ Top.src \in Taken /\ at[Top.src] \in File
         /\ Renamed(at[Top.src]) /\ DiskSound' /\ FilesStay
         /\ \A p \in Taken : at[p] # at[Top.src] /\ at[p] \in Range(at') =>
              p \in Taken' /\ at'[p] = at[p]
         /\ \A f \in Range(at') : f \in Range(at)
<1>1. stack # <<>> /\ AtTop({"rename"}) /\ Top.src \in Taken
  BY DEF Rename, AtTop
<1>2. Top \in Frames
  BY <1>1, TopIs DEF DesktopInv
<1>3. Top.target \in Place
  BY <1>2 DEF Frames
<1>4. /\ Taken \subseteq Place /\ Range(at) \subseteq File /\ IsFiniteSet(Taken)
      /\ \A p, q \in Taken : at[p] = at[q] => p = q
  BY DEF DesktopInv, DiskSound, IsInjective, Taken
<1>5. PICK file \in File : file = at[Top.src]
  BY <1>1, <1>4 DEF Range, Taken
<1>6. PICK src, target : src = Top.src /\ target = Top.target
  OBVIOUS
<1>7. at' = [p \in (Taken \ {src}) \cup {target} |-> IF p = target THEN file ELSE at[p]]
  BY <1>5, <1>6 DEF Rename
<1>8. /\ Taken' = (Taken \ {src}) \cup {target} /\ at'[target] = file
      /\ \A p \in Taken' : p # target => p \in Taken /\ p # src /\ at'[p] = at[p]
  BY <1>7 DEF Taken
<1>9. Renamed(at[Top.src])
  BY <1>5, <1>6, <1>8 DEF Renamed
<1>10. IsFiniteSet(Taken')
  <2>1. IsFiniteSet(Taken \ {src})
    BY <1>4, FS_Subset
  <2> QED
    BY <1>8, <2>1, FS_AddElement
<1>11. Taken' \subseteq Place /\ Range(at)' \subseteq File
  BY <1>3, <1>4, <1>6, <1>8 DEF Range, Taken
<1>12. IsInjective(at)'
  <2> SUFFICES ASSUME NEW p \in Taken', NEW q \in Taken', at'[p] = at'[q] PROVE p = q
    BY DEF IsInjective, Taken
  <2> QED
    BY <1>1, <1>4, <1>5, <1>6, <1>8
<1>13. DiskSound'
  BY <1>10, <1>11, <1>12 DEF DiskSound
<1>14. ASSUME NEW p \in Taken, p # src, p # target PROVE p \in Taken' /\ at'[p] = at[p]
  BY <1>8, <1>14
<1>15. target \in Taken => at[target] \in late
  BY <1>1, <1>6 DEF DesktopInv, TargetSound
<1>16. FilesStay
  <2> SUFFICES ASSUME NEW p \in Taken
               PROVE  at[p] \in late \/ \E q \in Taken' : at'[q] = at[p]
    BY DEF FilesStay, Range, Taken
  <2>1. target \in Taken'
    BY <1>8
  <2> QED
    BY <1>5, <1>6, <1>8, <1>14, <1>15, <2>1
<1>17. ASSUME NEW p \in Taken, at[p] # file, at[p] \in Range(at') PROVE p \in Taken' /\ at'[p] = at[p]
  <2>1. PICK q \in Taken' : at'[q] = at[p]
    BY <1>17 DEF Range, Taken
  <2>2. q # target /\ q \in Taken /\ at[q] = at[p]
    BY <1>8, <1>17, <2>1
  <2>3. p = q
    BY <1>4, <2>2
  <2> QED
    BY <2>1, <2>3
<1>18. ASSUME NEW f \in Range(at') PROVE f \in Range(at)
  <2>1. PICK q \in Taken' : at'[q] = f
    BY DEF Range, Taken
  <2> QED
    BY <1>1, <1>5, <1>6, <1>8, <2>1 DEF Range, Taken
<1> QED
  BY <1>1, <1>2, <1>5, <1>9, <1>13, <1>16, <1>17, <1>18

LEMMA Prefix ==
  ASSUME NEW S, NEW s \in Seq(S), NEW m \in Nat, m <= Len(s)
  PROVE  /\ SubSeq(s, 1, m) \in Seq(S) /\ Len(SubSeq(s, 1, m)) = m
         /\ \A i \in 1..m : SubSeq(s, 1, m)[i] = s[i]
OBVIOUS

LEMMA Suffix ==
  ASSUME NEW S, NEW s \in Seq(S), NEW m \in Nat, m <= Len(s)
  PROVE  /\ SubSeq(s, m + 1, Len(s)) \in Seq(S) /\ Len(SubSeq(s, m + 1, Len(s))) = Len(s) - m
         /\ \A i \in 1..(Len(s) - m) : SubSeq(s, m + 1, Len(s))[i] = s[m + i]
OBVIOUS

LEMMA Shorter ==
  ASSUME NEW n \in Nat
  PROVE  /\ Min({n + 1, HistoryMax}) \in Nat \ {0}
         /\ Min({n + 1, HistoryMax}) <= n + 1 /\ Min({n + 1, HistoryMax}) <= HistoryMax
<1> DEFINE both == {n + 1, HistoryMax}
<1>1. \E k \in both : \A j \in both : k <= j
  OBVIOUS
<1>2. Min(both) \in both /\ \A j \in both : Min(both) <= j
  BY <1>1 DEF Min
<1>3. both \in SUBSET (Nat \ {0}) /\ n + 1 \in both /\ HistoryMax \in both
  OBVIOUS
<1> HIDE DEF both
<1>4. Min(both) \in Nat \ {0} /\ Min(both) <= n + 1 /\ Min(both) <= HistoryMax
  BY <1>2, <1>3
<1> QED
  BY <1>4 DEF both

\* The records after a move, newest first and no more than HistoryMax of them.
NewestFirst(u, e, s) ==
  /\ 1 \in DOMAIN u /\ u[1] = e
  /\ \A i \in DOMAIN u : i # 1 => i - 1 \in DOMAIN s /\ u[i] = s[i - 1]

LEMMA Added ==
  ASSUME NEW S, NEW e \in S, NEW s \in Seq(S), NEW longer, longer = <<e>> \o s,
         NEW m \in Nat \ {0}, m <= Len(s) + 1, m <= HistoryMax,
         NEW u, u = SubSeq(longer, 1, m)
  PROVE  u \in Seq(S) /\ Len(u) <= HistoryMax /\ NewestFirst(u, e, s)
<1>1. PICK full \in Seq(S) : full = <<e>> \o s /\ full = longer
  BY Consed
<1>2. /\ full[1] = e /\ DOMAIN full = 1..(Len(s) + 1) /\ DOMAIN s = 1..Len(s) /\ Len(s) \in Nat
      /\ \A i \in 1..Len(s) : full[i + 1] = s[i]
  BY <1>1, Consed
<1>3. m \in Nat \ {0} /\ m <= Len(s) + 1 /\ m <= HistoryMax
  OBVIOUS
<1>4. m \in Nat /\ m <= Len(full) /\ u = SubSeq(full, 1, m)
  BY <1>1, <1>2, <1>3
<1>5. u \in Seq(S) /\ Len(u) = m /\ \A i \in 1..m : u[i] = full[i]
  <2>1. m \in Nat /\ m <= Len(full)
    BY <1>4
  <2>2. u \in Seq(S) /\ Len(u) = m
    BY <1>4, <2>1
  <2>3. ASSUME NEW i \in 1..m PROVE u[i] = full[i]
    BY <1>4, <2>1
  <2> QED
    BY <2>2, <2>3
<1>6. DOMAIN u = 1..m
  BY <1>4, <1>5
<1>7. u \in Seq(S) /\ Len(u) = m /\ DOMAIN u = 1..m /\ \A i \in 1..m : u[i] = full[i]
  BY <1>5, <1>6
<1>8. ASSUME NEW i \in DOMAIN u, i # 1 PROVE i - 1 \in DOMAIN s /\ u[i] = s[i - 1]
  <2>1. i - 1 \in 1..Len(s) /\ (i - 1) + 1 = i /\ u[i] = full[i]
    BY <1>2, <1>3, <1>7, <1>8
  <2> QED
    BY <1>2, <2>1
<1>9. 1 \in DOMAIN u /\ u[1] = e /\ Len(u) <= HistoryMax
  BY <1>2, <1>3, <1>7
<1> QED
  BY <1>7, <1>8, <1>9 DEF NewestFirst

\* The records after one of them is undone: the others, in their order.
Old(i, k) == IF k < i THEN k ELSE k + 1

LEMMA Removed ==
  ASSUME NEW S, NEW s \in Seq(S), NEW i \in DOMAIN s, NEW u, u = RemoveAt(s, i)
  PROVE  /\ u \in Seq(S) /\ Len(u) <= Len(s)
         /\ \A k \in DOMAIN u : k \in Nat /\ Old(i, k) \in DOMAIN s /\ u[k] = s[Old(i, k)]
<1>1. PICK n \in Nat : n = Len(s) /\ DOMAIN s = 1..n
  OBVIOUS
<1>2. i \in 1..n /\ \A k \in 1..n : s[k] \in S
  BY <1>1
<1>3. PICK before, after : before = SubSeq(s, 1, i - 1) /\ after = SubSeq(s, i + 1, n)
  OBVIOUS
<1>4. /\ before \in Seq(S) /\ Len(before) = i - 1
      /\ \A k \in 1..(i - 1) : before[k] = s[k]
  <2>1. PICK m \in Nat : m = i - 1 /\ m <= Len(s)
    BY <1>1, <1>2
  <2>2. /\ before \in Seq(S) /\ Len(before) = m
        /\ \A k \in 1..m : before[k] = s[k]
    BY <1>3, <2>1, Prefix
  <2> QED
    BY <2>1, <2>2
<1>5. /\ after \in Seq(S) /\ Len(after) = n - i
      /\ \A k \in 1..(n - i) : after[k] = s[i + k]
  <2>1. i \in Nat /\ i <= Len(s)
    BY <1>1, <1>2
  <2>2. /\ after \in Seq(S) /\ Len(after) = Len(s) - i
        /\ \A k \in 1..(Len(s) - i) : after[k] = s[i + k]
    BY <1>1, <1>3, <2>1, Suffix
  <2> QED
    BY <1>1, <2>2
<1>6. u = before \o after
  BY <1>1, <1>3 DEF RemoveAt
<1>7. /\ u \in Seq(S) /\ Len(u) = Len(before) + Len(after)
      /\ \A k \in 1..(Len(before) + Len(after)) :
           u[k] = IF k <= Len(before) THEN before[k] ELSE after[k - Len(before)]
  <2>1. before \in Seq(S) /\ after \in Seq(S)
    BY <1>4, <1>5
  <2>2. u \in Seq(S) /\ Len(u) = Len(before) + Len(after)
    BY <1>6, <2>1
  <2>3. \A k \in 1..(Len(before) + Len(after)) :
           u[k] = IF k <= Len(before) THEN before[k] ELSE after[k - Len(before)]
    BY <1>6, <2>1
  <2> QED
    BY <2>2, <2>3
<1>8. Len(u) = n - 1 /\ DOMAIN u = 1..(n - 1)
  <2>1. Len(u) = n - 1
    BY <1>2, <1>4, <1>5, <1>7
  <2> QED
    BY <1>7, <2>1
<1>9. ASSUME NEW k \in 1..(n - 1) PROVE Old(i, k) \in 1..n /\ u[k] = s[Old(i, k)]
  <2>0. Len(before) = i - 1 /\ k \in 1..(Len(before) + Len(after))
    BY <1>2, <1>4, <1>5
  <2>1. u[k] = IF k <= i - 1 THEN before[k] ELSE after[k - (i - 1)]
    BY <1>7, <2>0
  <2>2. CASE k < i
    BY <1>2, <1>4, <2>1, <2>2 DEF Old
  <2>3. CASE ~(k < i)
    <3>1. PICK j \in Int : j = k - (i - 1)
      BY <1>2
    <3>2. j \in 1..(n - i) /\ i + j = k + 1 /\ k + 1 \in 1..n
      BY <1>2, <2>3, <3>1
    <3>3. u[k] = after[j]
      BY <1>2, <2>1, <2>3, <3>1
    <3>4. after[j] = s[k + 1]
      BY <1>5, <3>2
    <3>5. Old(i, k) = k + 1
      BY <2>3 DEF Old
    <3> QED
      BY <3>2, <3>3, <3>4, <3>5
  <2> QED
    BY <2>2, <2>3
<1> QED
  BY <1>1, <1>7, <1>8, <1>9

\* One step of one file: the records of all others still lead to them.
OthersNamed(file) ==
  \A i \in DOMAIN history : \A f \in File :
    f # file /\ mover[f] = history[i].id /\ f \in Range(at') =>
      /\ history[i].current \in Taken /\ at[history[i].current] = f
      /\ history[i].current \in Taken' /\ at'[history[i].current] = f

LEMMA OthersStay ==
  ASSUME DesktopInv, Rename
  PROVE  OthersNamed(at[Top.src])
<1> SUFFICES ASSUME NEW i \in DOMAIN history, NEW f \in File, f # at[Top.src],
                    mover[f] = history[i].id, f \in Range(at')
             PROVE  /\ history[i].current \in Taken /\ at[history[i].current] = f
                    /\ history[i].current \in Taken' /\ at'[history[i].current] = f
  BY DEF OthersNamed
<1>1. f \in Range(at)
  BY RenameMovesOne
<1>2. history[i].current \in Taken /\ at[history[i].current] = f
  BY <1>1 DEF DesktopInv, HistoryNamesPlace
<1> QED
  BY <1>2, RenameMovesOne

\* A file that is dropped or noticed gets a record of its own.
LEMMA FileRecorded ==
  ASSUME DesktopInv, Rename, Top.kind = "file"
  PROVE  RecordsSound' /\ HistoryNamesPlace'
<1>1. PICK file, target : file \in File /\ file = at[Top.src] /\ target = Top.target
  BY RenameMovesOne
<1>2. PICK rec : rec = Remembered(target)
  OBVIOUS
<1>3. Top \in Frames
  BY RenameMovesOne
<1>4. /\ NextId \in Nat \ {0} /\ \A i \in DOMAIN history : history[i].id < NextId
      /\ \A f \in File : mover[f] < NextId
  BY NextIdIsNew DEF DesktopInv
<1>5. rec \in Record /\ rec.id = NextId /\ rec.current = target
  BY <1>1, <1>2, <1>3, <1>4 DEF Remembered, Record, Frames
<1>6. PICK new \in Nat \ {0} : new = NextId
  BY <1>4
<1>7. /\ history \in Seq(Record) /\ mover \in [File -> Nat]
      /\ \A i, j \in DOMAIN history : history[i].id = history[j].id => i = j
      /\ \A i \in DOMAIN history : history[i].id # 0
  BY DEF DesktopInv, RecordsSound
<1>8. /\ history' = SubSeq(<<rec>> \o history, 1, Min({Len(history) + 1, HistoryMax}))
      /\ mover' = [mover EXCEPT ![file] = rec.id]
  BY <1>1, <1>2 DEF Rename, Recorded
<1>9. /\ history' \in Seq(Record) /\ Len(history') <= HistoryMax /\ history'[1] = rec
      /\ \A i \in DOMAIN history' : i # 1 => i - 1 \in DOMAIN history /\ history'[i] = history[i - 1]
  <2>0. PICK n \in Nat, m \in Nat \ {0} :
          n = Len(history) /\ m = Min({n + 1, HistoryMax}) /\ m <= n + 1 /\ m <= HistoryMax
    <3>1. PICK n \in Nat : n = Len(history)
      BY <1>7
    <3> QED
      BY <3>1, Shorter
  <2>1. PICK longer, u : longer = <<rec>> \o history /\ u = SubSeq(longer, 1, m) /\ u = history'
    BY <1>8, <2>0
  <2>2. u \in Seq(Record) /\ Len(u) <= HistoryMax /\ NewestFirst(u, rec, history)
    <3>1. rec \in Record
      BY <1>5
    <3>2. PICK old \in Seq(Record) : old = history
      BY <1>7
    <3>3. longer = <<rec>> \o old /\ m <= Len(old) + 1 /\ m <= HistoryMax
      BY <2>0, <2>1, <3>2
    <3>4. u = SubSeq(longer, 1, m)
      BY <2>1
    <3>5. u \in Seq(Record) /\ Len(u) <= HistoryMax /\ NewestFirst(u, rec, old)
      BY <3>1, <3>3, <3>4, Added
    <3> QED
      BY <3>2, <3>5
  <2> QED
    BY <2>1, <2>2 DEF NewestFirst
<1>10. /\ mover' \in [File -> Nat] /\ mover'[file] = new
       /\ \A f \in File : f # file => mover'[f] = mover[f]
  BY <1>1, <1>5, <1>6, <1>7, <1>8
<1>11. \A i \in DOMAIN history' : i # 1 => history'[i].id # 0 /\ history'[i].id < new
  BY <1>4, <1>6, <1>7, <1>9
<1>12. DOMAIN history' \subseteq Nat /\ history'[1].id = new
  BY <1>5, <1>6, <1>9
<1>13. \A i \in DOMAIN history' : history'[i].id \in Nat
  <2>1. \A i \in DOMAIN history' : history'[i] \in Record
    BY <1>9
  <2> QED
    BY <2>1 DEF Record
<1>14. ASSUME NEW i \in DOMAIN history', NEW j \in DOMAIN history', history'[i].id = history'[j].id
       PROVE  i = j
  <2>1. CASE i = 1
    BY <1>11, <1>12, <1>13, <1>14, <2>1
  <2>2. CASE j = 1
    BY <1>11, <1>12, <1>13, <1>14, <2>2
  <2>3. CASE i # 1 /\ j # 1
    <3>1. i - 1 \in DOMAIN history /\ j - 1 \in DOMAIN history
          /\ history[i - 1].id = history[j - 1].id
      BY <1>9, <1>14, <2>3
    <3>2. i - 1 = j - 1
      BY <1>7, <3>1
    <3> QED
      BY <1>12, <3>2
  <2> QED
    BY <2>1, <2>2, <2>3
<1>15. IdsUpTo(new)'
  <2>1. \A i \in DOMAIN history' : history'[i].id <= new
    BY <1>6, <1>11, <1>12, <1>13
  <2>2. \A f \in File : mover'[f] <= new
    BY <1>4, <1>6, <1>7, <1>10
  <2> QED
    BY <2>1, <2>2 DEF IdsUpTo
<1>16. RecordsSound'
  <2>1. \A i \in DOMAIN history' : history'[i].id # 0
    BY <1>11, <1>12
  <2>2. \E n \in Nat : IdsUpTo(n)'
    BY <1>6, <1>15
  <2> QED
    BY <1>9, <1>10, <1>14, <2>1, <2>2 DEF RecordsSound
<1>17. HistoryNamesPlace'
  <2> SUFFICES ASSUME NEW i \in DOMAIN history', NEW f \in File,
                      mover'[f] = history'[i].id, f \in Range(at')
               PROVE  history'[i].current \in Taken' /\ at'[history'[i].current] = f
    BY DEF HistoryNamesPlace
  <2>1. target \in Taken' /\ at'[target] = file
    BY <1>1, RenameMovesOne DEF Renamed
  <2>2. CASE i = 1
    <3>1. mover'[f] = new
      BY <1>12, <2>2
    <3>2. f = file
      BY <1>4, <1>6, <1>7, <1>10, <3>1
    <3> QED
      BY <1>5, <1>9, <2>1, <2>2, <3>2
  <2>3. CASE i # 1
    <3>1. i - 1 \in DOMAIN history /\ history'[i] = history[i - 1] /\ history'[i].id # new
      BY <1>6, <1>9, <1>11, <1>13, <2>3
    <3>2. f # file /\ mover[f] = history[i - 1].id
      BY <1>10, <3>1
    <3> QED
      BY <1>1, <3>1, <3>2, OthersStay DEF OthersNamed
  <2> QED
    BY <2>2, <2>3
<1> QED
  BY <1>16, <1>17

\* Undo forgets the record of the move, and the file has none until it moves.
LEMMA UndoRecorded ==
  ASSUME DesktopInv, Rename, Top.kind = "undo"
  PROVE  RecordsSound' /\ HistoryNamesPlace'
<1>1. PICK file, record : file \in File /\ file = at[Top.src] /\ record = Top.record
  BY RenameMovesOne
<1>2. record \in DOMAIN history
  BY <1>1, TopIs, RenameMovesOne DEF DesktopInv, StackSound
<1>3. /\ history \in Seq(Record) /\ mover \in [File -> Nat] /\ Len(history) <= HistoryMax
      /\ \A i, j \in DOMAIN history : history[i].id = history[j].id => i = j
      /\ \A i \in DOMAIN history : history[i].id # 0
  BY DEF DesktopInv, RecordsSound
<1>4. history' = RemoveAt(history, record) /\ mover' = [mover EXCEPT ![file] = 0]
  BY <1>1 DEF Rename, Recorded
<1>5. /\ history' \in Seq(Record) /\ Len(history') <= Len(history)
      /\ \A k \in DOMAIN history' :
           k \in Nat /\ Old(record, k) \in DOMAIN history /\ history'[k] = history[Old(record, k)]
  BY <1>2, <1>3, <1>4, Removed
<1>6. /\ mover' \in [File -> Nat] /\ mover'[file] = 0
      /\ \A f \in File : f # file => mover'[f] = mover[f]
  BY <1>1, <1>3, <1>4
<1>7. \A i \in DOMAIN history' : history'[i].id # 0
  BY <1>3, <1>5
<1>8. ASSUME NEW i \in DOMAIN history', NEW j \in DOMAIN history', history'[i].id = history'[j].id
      PROVE  i = j
  <2>1. Old(record, i) = Old(record, j)
    BY <1>3, <1>5, <1>8
  <2>2. record \in Nat /\ i \in Nat /\ j \in Nat
    BY <1>2, <1>3, <1>5
  <2> QED
    BY <2>1, <2>2 DEF Old
<1>9. PICK n \in Nat : IdsUpTo(n)
  BY DEF DesktopInv, RecordsSound
<1>10. IdsUpTo(n)'
  BY <1>5, <1>6, <1>9 DEF IdsUpTo
<1>11. Len(history') <= HistoryMax
  BY <1>3, <1>5
<1>12. RecordsSound'
  <2>1. \E m \in Nat : IdsUpTo(m)'
    BY <1>10
  <2> QED
    BY <1>5, <1>6, <1>7, <1>8, <1>11, <2>1 DEF RecordsSound
<1>13. HistoryNamesPlace'
  <2> SUFFICES ASSUME NEW i \in DOMAIN history', NEW f \in File,
                      mover'[f] = history'[i].id, f \in Range(at')
               PROVE  history'[i].current \in Taken' /\ at'[history'[i].current] = f
    BY DEF HistoryNamesPlace
  <2>1. PICK j \in DOMAIN history : history'[i] = history[j]
    BY <1>5
  <2>2. f # file /\ mover[f] = history[j].id
    BY <1>6, <1>7, <2>1
  <2> QED
    BY <1>1, <2>1, <2>2, OthersStay DEF OthersNamed
<1> QED
  BY <1>12, <1>13

\* Rollback changes the record of the move, which becomes the file's last.
LEMMA RollbackRecorded ==
  ASSUME DesktopInv, Rename, Top.kind = "rollback"
  PROVE  RecordsSound' /\ HistoryNamesPlace'
<1>1. PICK file, record, target :
        file \in File /\ file = at[Top.src] /\ record = Top.record /\ target = Top.target
  BY RenameMovesOne
<1>2. record \in DOMAIN history /\ history[record].current = Top.src
  BY <1>1, TopIs, RenameMovesOne DEF DesktopInv, StackSound
<1>3. /\ history \in Seq(Record) /\ mover \in [File -> Nat] /\ Len(history) <= HistoryMax
      /\ \A i, j \in DOMAIN history : history[i].id = history[j].id => i = j
      /\ \A i \in DOMAIN history : history[i].id # 0
  BY DEF DesktopInv, RecordsSound
<1>4. target \in Place /\ target \in Taken' /\ at'[target] = file
  BY <1>1, RenameMovesOne DEF Frames, Renamed
<1>5. /\ history' = [history EXCEPT ![record].current = target]
      /\ mover' = [mover EXCEPT ![file] = history[record].id]
  BY <1>1 DEF Rename, Recorded
<1>6. \A i \in DOMAIN history : history[i] \in Record
  BY <1>3
<1>7. /\ history' \in Seq(Record) /\ Len(history') = Len(history)
      /\ DOMAIN history' = DOMAIN history
      /\ \A i \in DOMAIN history : i # record => history'[i] = history[i]
      /\ history'[record].current = target /\ history'[record].id = history[record].id
  <2>1. [history[record] EXCEPT !.current = target] \in Record
        /\ [history[record] EXCEPT !.current = target].id = history[record].id
        /\ [history[record] EXCEPT !.current = target].current = target
    BY <1>2, <1>4, <1>6 DEF Record
  <2>2. PICK changed \in Record : changed = [history[record] EXCEPT !.current = target]
    BY <2>1
  <2>3. history' = [history EXCEPT ![record] = changed]
    BY <1>5, <2>2
  <2>4. PICK n \in Nat : n = Len(history) /\ DOMAIN history = 1..n
    BY <1>3
  <2>5. /\ DOMAIN history' = 1..n /\ history'[record] = changed
        /\ \A i \in 1..n : i # record => history'[i] = history[i]
    BY <1>2, <2>3, <2>4
  <2>6. history' \in [1..n -> Record]
    BY <1>6, <2>2, <2>3, <2>4, <2>5
  <2>7. history' \in Seq(Record) /\ Len(history') = n
    BY <2>4, <2>6
  <2> QED
    BY <2>1, <2>2, <2>4, <2>5, <2>7
<1>8. /\ mover' \in [File -> Nat] /\ mover'[file] = history[record].id
      /\ \A f \in File : f # file => mover'[f] = mover[f]
  <2>1. history[record].id \in Nat
    BY <1>2, <1>6 DEF Record
  <2> QED
    BY <1>1, <1>3, <1>5, <2>1
<1>9. \A i \in DOMAIN history : history'[i].id = history[i].id
  BY <1>7
<1>10. PICK n \in Nat : IdsUpTo(n)
  BY DEF DesktopInv, RecordsSound
<1>11. IdsUpTo(n)'
  BY <1>2, <1>7, <1>8, <1>9, <1>10 DEF IdsUpTo
<1>12. RecordsSound'
  <2>1. \E m \in Nat : IdsUpTo(m)'
    BY <1>11
  <2>2. /\ \A i, j \in DOMAIN history' : history'[i].id = history'[j].id => i = j
        /\ \A i \in DOMAIN history' : history'[i].id # 0
    BY <1>3, <1>7, <1>9
  <2> QED
    BY <1>3, <1>7, <1>8, <2>1, <2>2 DEF RecordsSound
<1>13. HistoryNamesPlace'
  <2> SUFFICES ASSUME NEW i \in DOMAIN history, NEW f \in File,
                      mover'[f] = history[i].id, f \in Range(at')
               PROVE  history'[i].current \in Taken' /\ at'[history'[i].current] = f
    BY <1>7, <1>9 DEF HistoryNamesPlace
  <2>1. CASE f = file
    <3>1. i = record
      BY <1>2, <1>3, <1>8, <2>1
    <3> QED
      BY <1>4, <1>7, <2>1, <3>1
  <2>2. CASE f # file
    <3>1. /\ at[history[i].current] = f
          /\ history[i].current \in Taken' /\ at'[history[i].current] = f
      BY <1>1, <1>8, <2>2, OthersStay DEF OthersNamed
    <3>2. i # record
      BY <1>1, <1>2, <2>2, <3>1
    <3> QED
      BY <1>7, <3>1, <3>2
  <2> QED
    BY <2>1, <2>2
<1> QED
  BY <1>12, <1>13

LEMMA RenameSound ==
  ASSUME DesktopInv, Rename
  PROVE  DesktopInv' /\ FilesStay
<1>1. Top.kind \in {"file", "undo", "rollback"} /\ DiskSound' /\ FilesStay /\ stack # <<>>
  BY RenameMovesOne DEF Frames
<1>2. RecordsSound' /\ HistoryNamesPlace'
  BY <1>1, FileRecorded, UndoRecorded, RollbackRecorded
<1>3. Return /\ UNCHANGED <<screen, excused, late>>
  BY DEF Rename
<1>4. StackSound' /\ TargetSound'
  BY <1>1, <1>3, Returned DEF DesktopInv, TargetSound
<1>5. ScreenSound' /\ (excused \cup late \subseteq File)'
  BY <1>3 DEF DesktopInv, ScreenSound, screen
<1> QED
  BY <1>1, <1>2, <1>4, <1>5 DEF DesktopInv

-----------------------------------------------------------------------------
(* The specification *)

LEMMA DesktopStarts == DesktopInit => DesktopInv
<1> SUFFICES ASSUME DesktopInit PROVE DesktopInv
  OBVIOUS
<1>1. DiskSound
  BY DesktopBudgetAssumption DEF DesktopInit, DiskSound, Taken
<1>2. ScreenSound /\ StackSound /\ TargetSound /\ HistoryNamesPlace /\ excused \cup late \subseteq File
  BY DEF DesktopInit, ScreenSound, StackSound, TargetSound, AtTop, HistoryNamesPlace
<1>3. RecordsSound
  <2>1. history = <<>> /\ mover = [f \in File |-> 0]
    BY DEF DesktopInit
  <2>2. IdsUpTo(0)
    BY <2>1 DEF IdsUpTo
  <2>3. \E n \in Nat : IdsUpTo(n)
    BY <2>2
  <2> QED
    BY <2>1, <2>3 DEF RecordsSound
<1> QED
  BY <1>1, <1>2, <1>3 DEF DesktopInv

LEMMA DesktopStep ==
  ASSUME DesktopInv, [DesktopNext]_desktopVars
  PROVE  DesktopInv' /\ FilesStay
<1>1. CASE UNCHANGED desktopVars
  <2>1. UNCHANGED <<at, stack, history, ghosts, screen>>
    BY <1>1 DEF desktopVars
  <2>2. ScreenSound'
    BY <2>1 DEF DesktopInv, ScreenSound, screen
  <2> QED
    BY <2>1, <2>2, OnlyScreen
<1>2. CASE \E places \in SUBSET Taken : Drop(places)
  BY <1>2, DropSound
<1>3. CASE \E place \in Taken : Notice(place)
  BY <1>3, NoticeSound
<1>4. CASE \E place \in notices : Dismiss(place)
  BY <1>4, DismissSound
<1>5. CASE \E place \in drops : ProcessDrop(place)
  BY <1>5, ProcessDropSound
<1>6. CASE \E place \in notices : Classify(place)
  BY <1>6, ClassifySound
<1>7. CASE Choose
  BY <1>7, ChooseSound
<1>8. CASE Resolve
  BY <1>8, ResolveSound
<1>9. CASE CheckTarget
  BY <1>9, CheckTargetSound
<1>10. CASE Rename
  BY <1>10, RenameSound
<1>11. CASE MoveFails
  BY <1>11, MoveFailsSound
<1>12. CASE \E i \in DOMAIN history : Undo(i) \/ Rollback(i)
  BY <1>12, ButtonsSound
<1>13. CASE \E file \in File, dir \in Folder, s \in Stem :
              Appears(file, [dir |-> dir, name |-> <<s>>])
  <2>1. PICK file \in File, dir \in Folder, s \in Stem :
          Appears(file, [dir |-> dir, name |-> <<s>>])
    BY <1>13
  <2>2. <<s>> \in Seq(Stem \cup Nat)
    OBVIOUS
  <2>3. [dir |-> dir, name |-> <<s>>] \in Place
    BY <2>2 DEF Place
  <2> QED
    BY <2>1, <2>3, AppearsSound
<1>14. CASE \E place \in Taken : Vanishes(place)
  BY <1>14, VanishesSound
<1> QED
  BY <1>1, <1>2, <1>3, <1>4, <1>5, <1>6, <1>7, <1>8, <1>9, <1>10, <1>11, <1>12, <1>13, <1>14
  DEF DesktopNext

\* The inductive invariant holds, whatever is clicked and other programs do.
THEOREM DesktopInvariant == DesktopSpec => []DesktopInv
<1>1. DesktopInv /\ [DesktopNext]_desktopVars => DesktopInv'
  BY DesktopStep
<1> QED
  BY <1>1, DesktopStarts, PTL DEF DesktopSpec

\* No file is lost but one the user chose to overwrite, one another program
\* removed, and one that came to the target between the last check and the
\* move; and the record of a file's last move leads to it (file_mover.py).
THEOREM FilesStayKept == DesktopSpec => FilesAreKept
<1>1. DesktopInv /\ DesktopInv' /\ [DesktopNext]_desktopVars =>
        [/\ Range(at) \subseteq {at'[p] : p \in DOMAIN at'} \cup excused' \cup late
         /\ HistoryNamesPlace']_desktopVars
  <2> SUFFICES ASSUME DesktopInv, DesktopInv', [DesktopNext]_desktopVars
               PROVE  /\ Range(at) \subseteq {at'[p] : p \in DOMAIN at'} \cup excused' \cup late
                      /\ HistoryNamesPlace'
    OBVIOUS
  <2>1. FilesStay
    BY DesktopStep
  <2> QED
    BY <2>1 DEF FilesStay, DesktopInv
<1> QED
  BY <1>1, DesktopInvariant, PTL DEF DesktopSpec, FilesAreKept
=============================================================================
