------------------------------ MODULE PlanProofs ------------------------------
(***************************************************************************)
(* Proofs about PlanProposals.                                             *)
(***************************************************************************)
EXTENDS PlanInvariants, TLAPS

(* One item at a time. *)

LEMMA PathsAreApart ==
  /\ \A p \in PlanPath : p.dir \in Dir /\ p.dir # "quarantine" /\ p \notin QuarantinedPath /\ p # NoPath
  /\ \A p \in QuarantinedPath : p.dir = "quarantine" /\ p \notin PlanPath /\ p # NoPath
BY PathsAssumption DEF PlanPath, QuarantinedPath

\* Links lead from paths of the workspace to paths of the workspace.
LEMMA PlacesArePaths ==
  /\ \A p \in AnyPath : PlaceOf(p) \in AnyPath
  /\ \A p \in PlanPath : PlaceOf(p) \in PlanPath /\ PlaceOf(p).dir = DirAt[p.dir]
  /\ \A p \in QuarantinedPath : PlaceOf(p) = p
  /\ \A p \in PlanPath : p.dir \in RealDir => PlaceOf(p) = p
<1>1. ASSUME NEW p \in PlanPath
      PROVE  PlaceOf(p) \in PlanPath /\ PlaceOf(p).dir = DirAt[p.dir]
  <2>1. p.dir \in Dir /\ DirAt[p.dir] \in Dir
    BY PathsAreApart, LinksAssumption
  <2>2. PlaceOf(p) = [p EXCEPT !.dir = DirAt[p.dir]]
    BY <2>1 DEF PlaceOf
  <2> QED
    BY <2>1, <2>2 DEF PlanPath
<1>2. ASSUME NEW p \in QuarantinedPath PROVE PlaceOf(p) = p
  BY PathsAreApart, PathsAssumption DEF PlaceOf
<1>3. ASSUME NEW p \in PlanPath, p.dir \in RealDir PROVE PlaceOf(p) = p
  <2>1. p.dir \in Dir /\ DirAt[p.dir] = p.dir
    BY <1>3, PathsAreApart, LinksAssumption DEF RealDir
  <2> QED
    BY <2>1 DEF PlaceOf, PlanPath
<1> QED
  BY <1>1, <1>2, <1>3 DEF AnyPath

\* The rename of an item's file leaves the rest of the disk as it is.
LEMMA AfterRename ==
  ASSUME PlanShape, NEW from \in DOMAIN stored, NEW to \in AnyPath, to.dir \in folders \cup {"quarantine"},
         stored' = [p \in (DOMAIN stored \ {from}) \cup {to} |-> IF p = to THEN stored[from] ELSE stored[p]],
         UNCHANGED folders
  PROVE  /\ stored' \in [DOMAIN stored' -> Content] /\ DOMAIN stored' \subseteq AnyPath
         /\ \A p \in DOMAIN stored' \cap PlanPath : p.dir \in folders'
         /\ DOMAIN stored' = (DOMAIN stored \ {from}) \cup {to} /\ stored'[to] = stored[from]
         /\ \A p \in DOMAIN stored \ {from, to} : stored'[p] = stored[p]
<1>1. stored \in [DOMAIN stored -> Content] /\ DOMAIN stored \subseteq AnyPath
  BY DEF PlanShape
<1>2. to \in PlanPath => to.dir \in folders
  BY PathsAreApart
<1> QED
  BY <1>1, <1>2 DEF PlanShape

\* So does the update of its row.
LEMMA AfterRecord ==
  ASSUME PlanShape, NEW o \in Item, NEW from, NEW to \in AnyPath, Recordable(from, to, o),
         listed' = [listed EXCEPT ![o.file] = to]
  PROVE  /\ listed' \in [FileId -> AnyPath \cup {NoPath}]
         /\ \A f, g \in FileId : listed'[f] = listed'[g] /\ listed'[f] # NoPath => f = g
         /\ listed'[o.file] = to /\ \A f \in FileId \ {o.file} : listed'[f] = listed[f]
BY DEF PlanShape, Recordable, Item

\* The items of a plan that passed its validation, and whose paths no link
\* makes the same, name different files at different places, and targets that
\* were free.
LEMMA ItemsAreApart ==
  ASSUME PlanShape, WellFormed(plan.items), Apart(plan.items), Feasible
  PROVE  /\ \A j, k \in DOMAIN plan.items : PlaceOf(plan.items[j].to) = PlaceOf(plan.items[k].to) => j = k
         /\ \A j, k \in DOMAIN plan.items : plan.items[j].file = plan.items[k].file => j = k
         /\ \A j, k \in DOMAIN plan.items : PlaceOf(plan.items[j].from) = PlaceOf(plan.items[k].from) => j = k
         /\ \A j \in DOMAIN plan.items :
              /\ PlaceOf(plan.items[j].from) \in DOMAIN before.disk
              /\ PlaceOf(plan.items[j].to) \notin DOMAIN before.disk
              /\ plan.items[j].file \in FileId
              /\ before.disk[PlaceOf(plan.items[j].from)] = plan.items[j].content
              /\ before.index[plan.items[j].file] = plan.items[j].from
<1>1. /\ \A j, k \in DOMAIN plan.items : plan.items[j].to = plan.items[k].to => j = k
      /\ \A j, k \in DOMAIN plan.items : plan.items[j].file = plan.items[k].file => j = k
  BY DEF WellFormed, IsInjective
<1>2. \A j \in DOMAIN plan.items : plan.items[j] \in Item
  <2>1. plan.items \in Seq(Item)
    BY DEF PlanShape, PlanRecord
  <2> QED
    BY <2>1
<1>3. \A j \in DOMAIN plan.items : plan.items[j].file \in FileId
  BY <1>2 DEF Item
<1>4. ASSUME NEW j \in DOMAIN plan.items
      PROVE  /\ PlaceOf(plan.items[j].from) \in DOMAIN before.disk
             /\ PlaceOf(plan.items[j].to) \notin DOMAIN before.disk
             /\ before.disk[PlaceOf(plan.items[j].from)] = plan.items[j].content
             /\ before.index[plan.items[j].file] = plan.items[j].from
             /\ \A f \in FileId : before.index[f] = plan.items[j].from => f = plan.items[j].file
  BY DEF Feasible
<1>5. \A j, k \in DOMAIN plan.items : plan.items[j].from = plan.items[k].from => j = k
  BY <1>1, <1>3, <1>4
<1>6. /\ \A j, k \in DOMAIN plan.items : PlaceOf(plan.items[j].to) = PlaceOf(plan.items[k].to) => j = k
      /\ \A j, k \in DOMAIN plan.items : PlaceOf(plan.items[j].from) = PlaceOf(plan.items[k].from) => j = k
  BY SMTT(20), <1>1, <1>5 DEF Apart
<1> QED
  BY <1>1, <1>3, <1>4, <1>6

\* What one more item carried out makes of a plan under way ...
LEMMA OneMoreMoved ==
  ASSUME PlanShape, WellFormed(plan.items), Apart(plan.items), Feasible, AsCarriedOut,
         Carried \subseteq DOMAIN plan.items, NEW i \in DOMAIN plan.items, i \notin Carried,
         NEW o \in Item, o = plan.items[i],
         NEW here, here = PlaceOf(o.from), NEW there, there = PlaceOf(o.to),
         plan'.items = plan.items, Carried' = Carried \cup {i}, UNCHANGED <<before, folders>>,
         DOMAIN stored' = (DOMAIN stored \ {here}) \cup {there}, stored'[there] = stored[here],
         \A p \in DOMAIN stored \ {here, there} : stored'[p] = stored[p],
         listed'[o.file] = o.to, \A f \in FileId \ {o.file} : listed'[f] = listed[f]
  PROVE  Feasible' /\ AsCarriedOut'
<1>1. Feasible'
  BY DEF Feasible
<1>2. /\ \A j, k \in DOMAIN plan.items : PlaceOf(plan.items[j].to) = PlaceOf(plan.items[k].to) => j = k
      /\ \A j, k \in DOMAIN plan.items : plan.items[j].file = plan.items[k].file => j = k
      /\ \A j, k \in DOMAIN plan.items : PlaceOf(plan.items[j].from) = PlaceOf(plan.items[k].from) => j = k
  BY ItemsAreApart
<1>4. \A j \in DOMAIN plan.items :
        /\ PlaceOf(plan.items[j].from) \in DOMAIN before.disk /\ PlaceOf(plan.items[j].to) \notin DOMAIN before.disk
        /\ plan.items[j].file \in FileId
        /\ before.disk[PlaceOf(plan.items[j].from)] = plan.items[j].content
        /\ before.index[plan.items[j].file] = plan.items[j].from
  BY ItemsAreApart
<1>6. MovedAway' = MovedAway \cup {here} /\ MovedHere' = MovedHere \cup {there}
  BY DEF MovedAway, MovedHere
<1>7. here \notin MovedAway /\ here \notin MovedHere /\ there \notin MovedHere
  BY <1>2, <1>4 DEF MovedAway, MovedHere
<1>8. DOMAIN stored' = (DOMAIN before.disk' \ MovedAway') \cup MovedHere'
  BY <1>4, <1>6, <1>7 DEF AsCarriedOut
<1>9. \A p \in DOMAIN before.disk' \ MovedAway' : stored'[p] = before.disk'[p]
  BY <1>4, <1>6 DEF AsCarriedOut
<1>10. \A j \in Carried' : stored'[PlaceOf(plan'.items[j].to)] = plan'.items[j].content
  <2>1. SUFFICES ASSUME NEW j \in Carried' PROVE stored'[PlaceOf(plan.items[j].to)] = plan.items[j].content
    OBVIOUS
  <2>2. CASE j = i
    BY <1>4, <1>7, <2>2 DEF AsCarriedOut
  <2>3. CASE j # i
    <3>1. j \in Carried /\ PlaceOf(plan.items[j].to) # there /\ PlaceOf(plan.items[j].to) # here
      BY <1>2, <1>4, <2>3
    <3>2. PlaceOf(plan.items[j].to) \in DOMAIN stored
      BY <3>1 DEF AsCarriedOut, MovedHere
    <3> QED
      BY <3>1, <3>2 DEF AsCarriedOut
  <2> QED
    BY <2>2, <2>3
<1>11. \A j \in Carried' : listed'[plan'.items[j].file] = plan'.items[j].to
  BY <1>2, <1>4 DEF AsCarriedOut
<1>12. \A f \in FileId : (\A j \in Carried' : plan'.items[j].file # f) => listed'[f] = before.index'[f]
  BY SMTT(20) DEF AsCarriedOut
<1> QED
  BY <1>1, <1>8, <1>9, <1>10, <1>11, <1>12 DEF AsCarriedOut

\* ... and one that is taken back.
LEMMA OneMoreRestored ==
  ASSUME PlanShape, WellFormed(plan.items), Apart(plan.items), Feasible, AsCarriedOut,
         Carried \subseteq DOMAIN plan.items, NEW i \in Carried,
         NEW o \in Item, o = plan.items[i],
         NEW here, here = PlaceOf(o.from), NEW there, there = PlaceOf(o.to),
         plan'.items = plan.items, Carried' = Carried \ {i}, UNCHANGED <<before, folders>>,
         DOMAIN stored' = (DOMAIN stored \ {there}) \cup {here}, stored'[here] = stored[there],
         \A p \in DOMAIN stored \ {here, there} : stored'[p] = stored[p],
         listed'[o.file] = o.from, \A f \in FileId \ {o.file} : listed'[f] = listed[f]
  PROVE  Feasible' /\ AsCarriedOut'
<1>1. Feasible'
  BY DEF Feasible
<1>2. /\ \A j, k \in DOMAIN plan.items : PlaceOf(plan.items[j].to) = PlaceOf(plan.items[k].to) => j = k
      /\ \A j, k \in DOMAIN plan.items : plan.items[j].file = plan.items[k].file => j = k
      /\ \A j, k \in DOMAIN plan.items : PlaceOf(plan.items[j].from) = PlaceOf(plan.items[k].from) => j = k
  BY ItemsAreApart
<1>4. \A j \in DOMAIN plan.items :
        /\ PlaceOf(plan.items[j].from) \in DOMAIN before.disk /\ PlaceOf(plan.items[j].to) \notin DOMAIN before.disk
        /\ plan.items[j].file \in FileId
        /\ before.disk[PlaceOf(plan.items[j].from)] = plan.items[j].content
        /\ before.index[plan.items[j].file] = plan.items[j].from
  BY ItemsAreApart
<1>6. MovedAway' = MovedAway \ {here} /\ MovedHere' = MovedHere \ {there}
  BY <1>2 DEF MovedAway, MovedHere
<1>7. here \in MovedAway /\ there \in MovedHere /\ i \in DOMAIN plan.items
  BY DEF MovedAway, MovedHere
<1>8. DOMAIN stored' = (DOMAIN before.disk' \ MovedAway') \cup MovedHere'
  BY <1>4, <1>6, <1>7 DEF AsCarriedOut
<1>9. \A p \in DOMAIN before.disk' \ MovedAway' : stored'[p] = before.disk'[p]
  <2>1. SUFFICES ASSUME NEW p \in DOMAIN before.disk, p \notin MovedAway \/ p = here
                 PROVE  stored'[p] = before.disk[p]
    BY <1>6
  <2>2. p # there
    BY <1>4, <1>7
  <2> QED
    BY <1>4, <1>7, <2>1, <2>2 DEF AsCarriedOut
<1>10. \A j \in Carried' : stored'[PlaceOf(plan'.items[j].to)] = plan'.items[j].content
  <2>1. SUFFICES ASSUME NEW j \in Carried, j # i PROVE stored'[PlaceOf(plan.items[j].to)] = plan.items[j].content
    OBVIOUS
  <2>2. PlaceOf(plan.items[j].to) # there /\ PlaceOf(plan.items[j].to) # here
    BY <1>2, <1>4, <1>7, <2>1
  <2>3. PlaceOf(plan.items[j].to) \in DOMAIN stored
    BY DEF AsCarriedOut, MovedHere
  <2> QED
    BY <2>2, <2>3 DEF AsCarriedOut
<1>11. \A j \in Carried' : listed'[plan'.items[j].file] = plan'.items[j].to
  BY <1>2, <1>4, <1>7 DEF AsCarriedOut
<1>12. \A f \in FileId : (\A j \in Carried' : plan'.items[j].file # f) => listed'[f] = before.index'[f]
  <2>1. SUFFICES ASSUME NEW f \in FileId, \A j \in Carried \ {i} : plan.items[j].file # f
                 PROVE  listed'[f] = before.index[f]
    OBVIOUS
  <2>2. CASE f = o.file
    BY <1>4, <1>7, <2>2
  <2>3. CASE f # o.file
    BY <2>1, <2>3 DEF AsCarriedOut
  <2> QED
    BY <2>2, <2>3
<1> QED
  BY <1>1, <1>8, <1>9, <1>10, <1>11, <1>12 DEF AsCarriedOut


-----------------------------------------------------------------------------
(* Proposals. *)

\* A file the preview accepts, and where it lies.
LEMMA PresentFile ==
  ASSUME PlanShape, NEW f \in FileId, Present(f)
  PROVE  /\ listed[f] \in PlanPath /\ PlaceOf(listed[f]) \in DOMAIN stored
         /\ \A to \in AnyPath :
              /\ ItemFor(f, to) \in Item
              /\ ItemFor(f, to).file = f /\ ItemFor(f, to).from = listed[f] /\ ItemFor(f, to).to = to
<1>1. listed[f] \in PlanPath /\ PlaceOf(listed[f]) \in DOMAIN stored
  BY DEF Present, Occupied
<1>2. stored[PlaceOf(listed[f])] \in Content
  BY <1>1 DEF PlanShape
<1> QED
  BY <1>1, <1>2 DEF ItemFor, Item

\* Selections that pass the preview make moves under the names of the index.
LEMMA MovesAreItems ==
  ASSUME PlanShape, NEW n \in Nat,
         NEW s \in [1..n -> [file : FileId, dir : Dir \cup {"quarantine"}]],
         NEW id \in Nat, Buildable(id, s)
  PROVE  /\ Moves(s) \in Seq(Item) /\ WellFormed(Moves(s)) /\ DOMAIN Moves(s) = 1..n
         /\ \A i \in 1..n : /\ Moves(s)[i].file = s[i].file /\ Moves(s)[i].from = listed[s[i].file]
                            /\ Moves(s)[i].to.name = Moves(s)[i].from.name
<1> DEFINE to(i) == [dir |-> s[i].dir, name |-> listed[s[i].file].name]
<1>1. ASSUME NEW i \in 1..n
      PROVE  s[i].file \in FileId /\ Present(s[i].file) /\ s[i].dir \in Dir
  <2>1. s[i] \in ToSet(s)
    BY DEF ToSet
  <2>2. s[i].file \in {x.file : x \in ToSet(s)} /\ s[i].dir \in {x.dir : x \in ToSet(s)}
    BY <2>1
  <2> QED
    BY <2>2 DEF Buildable, Previewable, Offerable
<1>2. ASSUME NEW i \in 1..n
      PROVE  /\ ItemFor(s[i].file, to(i)) \in Item
             /\ ItemFor(s[i].file, to(i)).file = s[i].file
             /\ ItemFor(s[i].file, to(i)).from = listed[s[i].file]
             /\ ItemFor(s[i].file, to(i)).to = to(i) /\ to(i).name = listed[s[i].file].name
  <2>1. listed[s[i].file] \in PlanPath
    BY <1>1, PresentFile
  <2>2. to(i) \in AnyPath
    BY <1>1, <2>1 DEF AnyPath, PlanPath
  <2> HIDE DEF to
  <2>3. to(i).name = listed[s[i].file].name
    BY DEF to
  <2> QED
    BY <1>1, <2>2, <2>3, PresentFile
<1>3. Moves(s) = [i \in 1..n |-> ItemFor(s[i].file, to(i))]
  BY DEF Moves
<1> HIDE DEF to
<1>4. Moves(s) \in Seq(Item) /\ DOMAIN Moves(s) = 1..n
  BY <1>2, <1>3
<1> QED
  BY <1>2, <1>3, <1>4 DEF Buildable

\* A new plan waits, whatever became of the one before.
LEMMA PlanIsProposed ==
  ASSUME PlanInv, NEW parent \in Nat, NEW kind \in {"move", "rename", "quarantine"},
         NEW items \in Seq(Item), WellFormed(items),
         kind = "move" => \A i \in DOMAIN items : items[i].to.name = items[i].from.name,
         Propose(parent, kind, items)
  PROVE  /\ PlanInv'
         /\ plan'.id = plan.id + 1 /\ plan'.parent = parent /\ plan'.items = items
         /\ plan'.kind = kind /\ plan'.stage = "waiting"
<1>1. /\ PlanShape /\ plan.id \in Nat /\ policyOf.revision \in Nat
      /\ UNCHANGED <<listed, stored, folders, policyOf, before, calm>>
  BY DEF PlanInv, PlanShape, PlanRecord, Propose
<1>2. plan' = [id |-> plan.id + 1, parent |-> parent, kind |-> kind, items |-> items,
               policy |-> policyOf.revision, stage |-> "waiting", aged |-> FALSE, at |-> 0]
  BY DEF Propose, Stored, NoPlan
<1>3. plan' \in PlanRecord
  BY <1>1, <1>2 DEF PlanRecord
<1>4. PlanShape'
  BY <1>1, <1>3 DEF PlanShape
<1>5. ProposalInv'
  BY <1>1, <1>2 DEF ProposalInv
<1>6. ExecutionInv'
  BY <1>2 DEF ExecutionInv, Started
<1> QED
  BY <1>2, <1>4, <1>5, <1>6 DEF PlanInv

LEMMA ProposalsKeep ==
  ASSUME PlanInv, ProposeMove \/ ProposeRename \/ ProposeQuarantine
  PROVE  PlanInv' /\ plan'.parent = 0
<1>1. PlanShape /\ plan.id + 1 \in Nat
  BY DEF PlanInv, PlanShape, PlanRecord
<1>2. CASE ProposeMove
  <2>1. PICK s \in Selections : Buildable(plan.id + 1, s) /\ Propose(0, "move", Moves(s))
    BY <1>2 DEF ProposeMove
  <2>2. PICK n \in Nat : s \in [1..n -> [file : FileId, dir : Dir \cup {"quarantine"}]]
    <3>1. s \in [1..2 -> [file : FileId, dir : Dir \cup {"quarantine"}]] \/
          s \in [1..1 -> [file : FileId, dir : Dir \cup {"quarantine"}]]
      BY DEF Selections, Offerable
    <3> QED
      BY <3>1
  <2> QED
    BY <1>1, <2>1, <2>2, MovesAreItems, PlanIsProposed
<1>3. CASE ProposeRename
  <2>1. PICK f \in FileId, n \in Name :
          /\ Present(f)
          /\ WellFormed(<<ItemFor(f, [listed[f] EXCEPT !.name = n])>>)
          /\ Propose(0, "rename", <<ItemFor(f, [listed[f] EXCEPT !.name = n])>>)
    BY <1>3 DEF ProposeRename
  <2>2. [listed[f] EXCEPT !.name = n] \in AnyPath
    BY <1>1, <2>1, PresentFile DEF AnyPath, PlanPath
  <2>3. <<ItemFor(f, [listed[f] EXCEPT !.name = n])>> \in Seq(Item)
    BY <1>1, <2>1, <2>2, PresentFile
  <2> QED
    BY <2>1, <2>3, PlanIsProposed
<1>4. CASE ProposeQuarantine
  <2>1. PICK f \in FileId :
          /\ Present(f)
          /\ Propose(0, "quarantine", <<ItemFor(f, QuarantinePath(plan.id + 1, f, listed[f].name))>>)
    BY <1>4 DEF ProposeQuarantine
  <2> DEFINE to == QuarantinePath(plan.id + 1, f, listed[f].name)
             items == <<ItemFor(f, to)>>
  <2>2. listed[f] \in PlanPath /\ to \in QuarantinedPath
    BY <1>1, <2>1, PresentFile DEF PlanPath, QuarantinePath, QuarantinedPath
  <2> HIDE DEF to
  <2>3. ItemFor(f, to) \in Item /\ ItemFor(f, to).from # ItemFor(f, to).to
    BY <1>1, <2>1, <2>2, PresentFile, PathsAreApart DEF AnyPath
  <2>4. items \in Seq(Item) /\ WellFormed(items)
    BY <2>3 DEF WellFormed, IsInjective
  <2> QED
    BY <2>1, <2>4, PlanIsProposed DEF to
<1> QED
  BY <1>2, <1>3, <1>4

LEMMA EditKeeps ==
  ASSUME PlanInv, EditPlan
  PROVE  PlanInv' /\ EditKeepsPlan
<1>1. PlanShape /\ ProposalInv /\ plan.id \in Nat /\ plan.stage = "waiting" /\ plan.items \in Seq(Item)
  BY DEF PlanInv, PlanShape, PlanRecord, EditPlan
<1>2. PICK named \in SUBSET {o.file : o \in ToSet(plan.items)} \ {{}} :
        \E changes \in [named -> Offerable] :
          Buildable(plan.id + 1, Merged(changes)) /\ Propose(plan.id, "move", Moves(Merged(changes)))
  BY DEF EditPlan
<1>3. PICK changes \in [named -> Offerable] :
        Buildable(plan.id + 1, Merged(changes)) /\ Propose(plan.id, "move", Moves(Merged(changes)))
  BY <1>2
<1> DEFINE s == Merged(changes)
           n == Len(plan.items)
<1>4. s \in [1..n -> [file : FileId, dir : Dir \cup {"quarantine"}]]
      /\ \A i \in 1..n : s[i].file = plan.items[i].file
  <2>1. DOMAIN plan.items = 1..n /\ \A i \in 1..n : plan.items[i] \in Item
    BY <1>1
  <2>2. \A o \in Item : o.file \in FileId /\ o.to.dir \in Dir \cup {"quarantine"}
    BY DEF Item, AnyPath, PlanPath, QuarantinedPath
  <2>3. \A f \in named : changes[f] \in Dir
    BY DEF Offerable
  <2> QED
    BY <2>1, <2>2, <2>3 DEF Merged
<1>5. n \in Nat /\ plan.id + 1 \in Nat
  BY <1>1
<1> HIDE DEF s, n
<1>6. /\ Moves(s) \in Seq(Item) /\ WellFormed(Moves(s)) /\ DOMAIN Moves(s) = 1..n
      /\ \A i \in 1..n : /\ Moves(s)[i].file = s[i].file /\ Moves(s)[i].from = listed[s[i].file]
                         /\ Moves(s)[i].to.name = Moves(s)[i].from.name
  BY <1>1, <1>3, <1>4, <1>5, MovesAreItems DEF s
<1>7. PlanInv' /\ plan'.items = Moves(s)
  BY <1>1, <1>3, <1>6, PlanIsProposed DEF s
<1>8. EditKeepsPlan
  <2>1. DOMAIN plan.items = 1..n /\ DOMAIN plan'.items = 1..n
    BY <1>1, <1>6, <1>7 DEF n
  <2>2. \A i \in 1..n : plan'.items[i].file = plan.items[i].file
    BY <1>4, <1>6, <1>7
  <2>3. plan # NoPlan /\ plan.kind = "move" =>
          \A i \in 1..n : plan.items[i].to.name = plan.items[i].from.name
    BY <1>1, <2>1 DEF ProposalInv
  <2>4. \A i \in 1..n : plan'.items[i].to.name = plan'.items[i].from.name
    BY <1>6, <1>7
  <2> QED
    BY <2>1, <2>2, <2>3, <2>4 DEF EditKeepsPlan
<1> QED
  BY <1>7, <1>8

-----------------------------------------------------------------------------
(* Execution and undo. *)

\* What there is to know of a plan under way.
LEMMA UnderWay ==
  ASSUME PlanInv, Started
  PROVE  /\ PlanShape /\ WellFormed(plan.items) /\ plan \in PlanRecord /\ plan # NoPlan
         /\ plan.items \in Seq(Item) /\ DOMAIN plan.items = 1..Len(plan.items) /\ Len(plan.items) \in Nat
         /\ plan.at \in 1..Len(plan.items) /\ CurrentItem \in Item
         /\ Carried \subseteq DOMAIN plan.items
         /\ plan.stage = "executing" => calm
         /\ calm /\ Apart(plan.items) => Feasible /\ AsCarriedOut
<1>1. PlanShape /\ plan \in PlanRecord /\ plan # NoPlan /\ WellFormed(plan.items) /\ plan.items \in Seq(Item)
  BY DEF PlanInv, PlanShape, PlanRecord, ProposalInv, NoPlan, Started
<1>2. DOMAIN plan.items = 1..Len(plan.items) /\ Len(plan.items) \in Nat
  BY <1>1
<1>3. /\ plan.at \in 1..Len(plan.items)
      /\ plan.stage = "executing" => calm
      /\ calm /\ Apart(plan.items) => Feasible /\ AsCarriedOut
  BY <1>2 DEF PlanInv, ExecutionInv
<1>4. CurrentItem \in Item
  BY <1>1, <1>2, <1>3 DEF CurrentItem
<1>5. Carried \subseteq DOMAIN plan.items
  BY <1>2, <1>3 DEF Carried
<1> QED
  BY <1>1, <1>2, <1>3, <1>4, <1>5

LEMMA RunsThrough == PlanInv => PlanRunsThrough
<1> SUFFICES ASSUME PlanInv, Apart(plan.items) PROVE PlanRunsThrough
  BY DEF PlanRunsThrough
<1> DEFINE o == CurrentItem
<1>1. ASSUME plan.stage = "executing"
      PROVE  Movable(o.from, o.to, o) /\ listed[o.file] = o.from
  <2>1. Started /\ Carried = 1..(plan.at - 1)
    BY <1>1 DEF Started, Carried
  <2>2. PlanShape /\ WellFormed(plan.items) /\ Feasible /\ AsCarriedOut /\ plan.at \in DOMAIN plan.items
        /\ plan.at \notin Carried /\ Carried \subseteq DOMAIN plan.items
    BY <1>1, <2>1, UnderWay
  <2>3. PlaceOf(o.from) \notin MovedAway /\ PlaceOf(o.to) \notin MovedHere
    BY <2>2, ItemsAreApart DEF MovedAway, MovedHere, CurrentItem
  <2>4. PlaceOf(o.from) \in DOMAIN before.disk /\ before.disk[PlaceOf(o.from)] = o.content
        /\ PlaceOf(o.to) \notin DOMAIN before.disk /\ PlaceOf(o.to).dir \in folders \cup {"quarantine"}
        /\ before.index[o.file] = o.from /\ o.file \in FileId
    BY <2>2, ItemsAreApart DEF Feasible, CurrentItem
  <2>5. Movable(o.from, o.to, o)
    BY <2>2, <2>3, <2>4 DEF Movable, Holds, Occupied, AsCarriedOut
  <2>6. \A i \in Carried : plan.items[i].file # o.file
    BY <2>2, ItemsAreApart DEF CurrentItem
  <2> QED
    BY <2>2, <2>4, <2>5, <2>6 DEF AsCarriedOut
<1>2. ASSUME plan.stage = "undoing", calm
      PROVE  Movable(o.to, o.from, o) /\ Recordable(o.to, o.from, o)
  <2>1. Started /\ Carried = 1..plan.at
    BY <1>2 DEF Started, Carried
  <2>2. PlanShape /\ WellFormed(plan.items) /\ Feasible /\ AsCarriedOut /\ plan.at \in DOMAIN plan.items
        /\ plan.at \in Carried /\ Carried \subseteq DOMAIN plan.items
    BY <1>2, <2>1, UnderWay
  <2>3. PlaceOf(o.from) \in MovedAway /\ PlaceOf(o.from) \notin MovedHere /\ PlaceOf(o.to) \in MovedHere
    BY <2>2, ItemsAreApart DEF MovedAway, MovedHere, CurrentItem
  <2>4. PlaceOf(o.from) \in DOMAIN before.disk /\ PlaceOf(o.from).dir \in folders /\ o.file \in FileId
        /\ \A f \in FileId : before.index[f] = o.from => f = o.file
    BY <2>2, ItemsAreApart DEF Feasible, CurrentItem
  <2>5. Movable(o.to, o.from, o)
    BY <2>2, <2>3, <2>4 DEF Movable, Holds, Occupied, AsCarriedOut, CurrentItem
  <2>6. listed[o.file] = o.to
    BY <2>2 DEF AsCarriedOut, CurrentItem
  <2>7. ASSUME NEW f \in FileId \ {o.file} PROVE listed[f] # o.from
    <3>1. CASE \A i \in Carried : plan.items[i].file # f
      BY <2>2, <2>4, <2>7, <3>1 DEF AsCarriedOut
    <3>2. CASE \E i \in Carried : plan.items[i].file = f
      BY <2>2, <2>4, <3>2, ItemsAreApart DEF AsCarriedOut
    <3> QED
      BY <3>1, <3>2
  <2> QED
    BY <2>5, <2>6, <2>7 DEF Recordable
<1>3. ASSUME plan.stage = "undone", calm
      PROVE  before = [disk |-> stored, index |-> listed]
  <2>1. Started /\ Carried = {}
    BY <1>3 DEF Started, Carried
  <2>2. PlanShape /\ AsCarriedOut /\ MovedAway = {} /\ MovedHere = {}
    BY <1>3, <2>1, UnderWay DEF MovedAway, MovedHere
  <2>3. before \in [disk : {before.disk}, index : [FileId -> AnyPath \cup {NoPath}]]
        /\ before.disk \in [DOMAIN before.disk -> Content]
    BY <2>1 DEF PlanInv, ExecutionInv
  <2>4. stored = before.disk
    BY <2>2, <2>3 DEF AsCarriedOut, PlanShape
  <2>5. listed = before.index
    BY <2>1, <2>2, <2>3 DEF AsCarriedOut, PlanShape
  <2> QED
    BY <2>3, <2>4, <2>5
<1> QED
  BY <1>1, <1>2, <1>3 DEF PlanRunsThrough

\* A validated plan starts with nothing carried out.
LEMMA StartKeeps ==
  ASSUME PlanInv, StartPlan
  PROVE  PlanInv'
<1>1. /\ PlanShape /\ plan \in PlanRecord /\ plan.stage = "waiting" /\ Valid(plan)
      /\ UNCHANGED <<listed, stored, folders, policyOf>> /\ calm' = TRUE
      /\ before' = [disk |-> stored, index |-> listed]
  BY DEF PlanInv, PlanShape, StartPlan
<1>2. /\ plan' \in PlanRecord /\ plan'.items = plan.items /\ plan'.id = plan.id /\ plan'.kind = plan.kind
      /\ plan'.stage = "executing" /\ plan'.at = 1
  BY <1>1 DEF StartPlan, PlanRecord
<1>3. plan # NoPlan /\ plan.id >= 1 /\ WellFormed(plan.items) /\ plan.items \in Seq(Item)
      /\ (plan.kind = "move" => \A i \in DOMAIN plan.items : plan.items[i].to.name = plan.items[i].from.name)
  BY <1>1 DEF PlanInv, ProposalInv, NoPlan, PlanRecord
<1>4. PlanShape'
  BY <1>1, <1>2 DEF PlanShape
<1>5. ProposalInv'
  BY <1>2, <1>3 DEF ProposalInv
<1>6. 1 \in DOMAIN plan.items
  <2>1. plan.items # <<>>
    BY <1>3 DEF WellFormed
  <2> QED
    BY <1>3, <2>1
<1>7. Feasible'
  <2>1. SUFFICES ASSUME NEW i \in DOMAIN plan.items, NEW o \in Item, o = plan.items[i]
                 PROVE  /\ PlaceOf(o.from) \in DOMAIN stored /\ stored[PlaceOf(o.from)] = o.content
                        /\ PlaceOf(o.to) \notin DOMAIN stored
                        /\ PlaceOf(o.from).dir \in folders /\ PlaceOf(o.to).dir \in folders \cup {"quarantine"}
                        /\ listed[o.file] = o.from
                        /\ \A f \in FileId : listed[f] = o.from => f = o.file
    <3>1. \A i \in DOMAIN plan.items : plan.items[i] \in Item
      BY <1>3
    <3> QED
      BY <1>1, <1>2, <3>1 DEF Feasible
  <2>2. /\ listed[o.file] = o.from
        /\ PlaceOf(o.from) \in DOMAIN stored /\ stored[PlaceOf(o.from)] = o.content
        /\ PlaceOf(o.to) \notin DOMAIN stored
        /\ PlaceOf(o.to).dir \in folders \cup {"quarantine"}
    <3>1. ValidItem(plan, o)
      BY <1>1, <2>1 DEF Valid
    <3>2. \A f, n : PlaceOf(QuarantinePath(plan.id, f, n)).dir = "quarantine"
      BY PathsAssumption DEF QuarantinePath, PlaceOf
    <3>3. o.to \in PlanPath \/ (PlaceOf(o.to) = o.to /\ o.to.dir = "quarantine")
      BY PlacesArePaths, PathsAreApart DEF Item, AnyPath
    <3>4. ASSUME o.to \in PlanPath, DirAt[o.to.dir] \in folders
          PROVE  PlaceOf(o.to).dir \in folders
      BY <3>4, PlacesArePaths
    <3>5. PlaceOf(o.to).dir \in folders \cup {"quarantine"}
      BY <3>1, <3>2, <3>3, <3>4 DEF ValidItem
    <3> QED
      BY <3>1, <3>5 DEF ValidItem, Holds, Occupied
  <2>3. o.from \in PlanPath /\ PlaceOf(o.from) \in PlanPath /\ o.from # NoPath /\ o.file \in FileId
    BY PathsAreApart, PlacesArePaths DEF Item
  <2>4. PlaceOf(o.from).dir \in folders
    BY <1>1, <2>2, <2>3 DEF PlanShape
  <2>5. \A f \in FileId : listed[f] = o.from => f = o.file
    BY <1>1, <2>2, <2>3 DEF PlanShape
  <2> QED
    BY <2>2, <2>4, <2>5
<1>8. Carried' = {} /\ MovedAway' = {} /\ MovedHere' = {}
  <2>1. Carried' = {}
    BY <1>2 DEF Carried
  <2> QED
    BY <2>1 DEF MovedAway, MovedHere
<1>9. AsCarriedOut'
  BY <1>1, <1>8 DEF AsCarriedOut
<1>10. ExecutionInv'
  <2>1. /\ before'.disk = stored
        /\ before' \in [disk : {before'.disk}, index : [FileId -> AnyPath \cup {NoPath}]]
        /\ before'.disk \in [DOMAIN before'.disk -> Content]
    BY <1>1 DEF PlanShape
  <2> QED
    BY <1>1, <1>2, <1>6, <1>7, <1>9, <2>1 DEF ExecutionInv
<1> QED
  BY <1>4, <1>5, <1>10 DEF PlanInv

\* A plan goes from stage to stage and from item to item.
LEMMA RecordSteps ==
  ASSUME plan \in PlanRecord
  PROVE  /\ \A st \in {"done", "undoing", "undone", "stuck"} :
              /\ [plan EXCEPT !.stage = st] \in PlanRecord
              /\ [plan EXCEPT !.stage = st].items = plan.items /\ [plan EXCEPT !.stage = st].id = plan.id
              /\ [plan EXCEPT !.stage = st].kind = plan.kind /\ [plan EXCEPT !.stage = st].at = plan.at
              /\ [plan EXCEPT !.stage = st].stage = st
         /\ \A i \in Nat :
              /\ [plan EXCEPT !.at = i] \in PlanRecord
              /\ [plan EXCEPT !.at = i].items = plan.items /\ [plan EXCEPT !.at = i].id = plan.id
              /\ [plan EXCEPT !.at = i].kind = plan.kind /\ [plan EXCEPT !.at = i].at = i
              /\ [plan EXCEPT !.at = i].stage = plan.stage
BY DEF PlanRecord

\* An item moves in one of two directions, and is recorded or not.
LEMMA MoveKeeps ==
  ASSUME PlanInv, Started, NEW o, o = CurrentItem, NEW from \in AnyPath, NEW to \in AnyPath, NEW next \in PlanRecord,
         NEW here, here = PlaceOf(from), NEW there, there = PlaceOf(to),
         Movable(from, to, o),
         stored' = [p \in (DOMAIN stored \ {here}) \cup {there} |-> IF p = there THEN stored[here] ELSE stored[p]],
         IF Recordable(from, to, o) THEN listed' = [listed EXCEPT ![o.file] = to] /\ plan' = next
         ELSE UNCHANGED listed /\ plan' = [plan EXCEPT !.stage = "stuck"],
         UNCHANGED <<folders, policyOf, before, calm>>
  PROVE  /\ plan' \in {next, [plan EXCEPT !.stage = "stuck"]}
         /\ PlanShape'
         /\ DOMAIN stored' = (DOMAIN stored \ {here}) \cup {there} /\ stored'[there] = stored[here]
         /\ \A p \in DOMAIN stored \ {here, there} : stored'[p] = stored[p]
         /\ \/ plan' = [plan EXCEPT !.stage = "stuck"]
            \/ /\ plan' = next /\ Recordable(from, to, o)
               /\ listed'[o.file] = to
               /\ \A f \in FileId \ {o.file} : listed'[f] = listed[f]
<1>1. PlanShape /\ plan \in PlanRecord /\ o \in Item
  BY UnderWay
<1>2. here \in DOMAIN stored /\ there \in AnyPath /\ there.dir \in folders \cup {"quarantine"}
  BY PlacesArePaths DEF Movable, Holds, Occupied
<1>3. /\ stored' \in [DOMAIN stored' -> Content] /\ DOMAIN stored' \subseteq AnyPath
      /\ \A p \in DOMAIN stored' \cap PlanPath : p.dir \in folders'
      /\ DOMAIN stored' = (DOMAIN stored \ {here}) \cup {there} /\ stored'[there] = stored[here]
      /\ \A p \in DOMAIN stored \ {here, there} : stored'[p] = stored[p]
  BY <1>1, <1>2, AfterRename
<1>4. [plan EXCEPT !.stage = "stuck"] \in PlanRecord
  BY <1>1 DEF PlanRecord
<1>5. CASE Recordable(from, to, o)
  <2>1. listed' = [listed EXCEPT ![o.file] = to] /\ plan' = next
    BY <1>5
  <2>4. /\ PlanShape /\ o \in Item /\ to \in AnyPath /\ Recordable(from, to, o)
        /\ listed' = [listed EXCEPT ![o.file] = to]
    BY <1>1, <1>5, <2>1
  <2>2. /\ listed' \in [FileId -> AnyPath \cup {NoPath}]
        /\ \A f, g \in FileId : listed'[f] = listed'[g] /\ listed'[f] # NoPath => f = g
        /\ listed'[o.file] = to
        /\ \A f \in FileId \ {o.file} : listed'[f] = listed[f]
    BY ONLY <2>4, AfterRecord
  <2>3. PlanShape'
    <3>1. folders' \subseteq RealDir /\ policyOf' \in [revision : Nat, proposals : BOOLEAN] /\ calm' \in BOOLEAN
      BY <1>1 DEF PlanShape
    <3>2. plan' \in PlanRecord
      BY <2>1
    <3> QED
      BY <1>3, <2>2, <3>1, <3>2 DEF PlanShape
  <2> QED
    BY <1>3, <1>5, <2>1, <2>2, <2>3
<1>6. CASE ~Recordable(from, to, o)
  <2>1. UNCHANGED listed /\ plan' = [plan EXCEPT !.stage = "stuck"]
    BY <1>6
  <2>2. PlanShape'
    <3>1. folders' \subseteq RealDir /\ policyOf' \in [revision : Nat, proposals : BOOLEAN] /\ calm' \in BOOLEAN
      BY <1>1 DEF PlanShape
    <3>2. plan' \in PlanRecord
      BY <1>4, <2>1
    <3>3. /\ listed' \in [FileId -> AnyPath \cup {NoPath}]
          /\ \A f, g \in FileId : listed'[f] = listed'[g] /\ listed'[f] # NoPath => f = g
      BY <1>1, <2>1 DEF PlanShape
    <3> QED
      BY <1>3, <3>1, <3>2, <3>3 DEF PlanShape
  <2> QED
    BY <1>3, <2>1, <2>2
<1> QED
  BY <1>5, <1>6

\* A plan that only goes from one stage of its execution to another stays the
\* plan that was proposed.
LEMMA StaysProposed ==
  ASSUME PlanInv, Started, plan'.items = plan.items, plan'.id = plan.id, plan'.kind = plan.kind,
         plan'.stage # "none"
  PROVE  ProposalInv'
<1>1. plan.id >= 1 /\ WellFormed(plan.items)
      /\ (plan.kind = "move" => \A i \in DOMAIN plan.items : plan.items[i].to.name = plan.items[i].from.name)
  BY DEF PlanInv, ProposalInv, NoPlan, Started
<1> QED
  BY <1>1 DEF ProposalInv

\* One that is stuck has nothing more to keep.
LEMMA StuckKeeps ==
  ASSUME PlanInv, Started, PlanShape', plan' = [plan EXCEPT !.stage = "stuck"]
  PROVE  PlanInv'
<1>1. plan \in PlanRecord
  BY UnderWay
<1>2. plan'.items = plan.items /\ plan'.id = plan.id /\ plan'.kind = plan.kind /\ plan'.stage = "stuck"
  BY <1>1 DEF PlanRecord
<1>3. ExecutionInv'
  BY <1>2 DEF ExecutionInv, Started
<1> QED
  BY <1>2, <1>3, StaysProposed DEF PlanInv

\* What the history of an execution is, which only StartPlan writes.
LEMMA BeforeStays ==
  ASSUME PlanInv, Started, UNCHANGED before
  PROVE  /\ before' \in [disk : {before'.disk}, index : [FileId -> AnyPath \cup {NoPath}]]
         /\ before'.disk \in [DOMAIN before'.disk -> Content]
BY DEF PlanInv, ExecutionInv

LEMMA ExecuteKeeps ==
  ASSUME PlanInv, ExecuteItem
  PROVE  PlanInv'
<1>1. plan.stage = "executing" /\ Started /\ Carried = 1..(plan.at - 1) /\ UNCHANGED <<folders, policyOf, before, calm>>
  BY DEF ExecuteItem, Started, Carried
<1>2. /\ PlanShape /\ WellFormed(plan.items) /\ plan \in PlanRecord /\ plan.items \in Seq(Item)
      /\ DOMAIN plan.items = 1..Len(plan.items) /\ Len(plan.items) \in Nat
      /\ plan.at \in 1..Len(plan.items)
      /\ Carried \subseteq DOMAIN plan.items /\ calm /\ (Apart(plan.items) => Feasible /\ AsCarriedOut)
  BY <1>1, UnderWay
<1>3. PICK o \in Item : o = CurrentItem /\ o = plan.items[plan.at]
  BY <1>1, UnderWay DEF CurrentItem
<1>10. PICK here, there : here = PlaceOf(o.from) /\ there = PlaceOf(o.to)
  OBVIOUS
<1>4. PICK next \in PlanRecord :
        /\ next = IF plan.at = Len(plan.items) THEN [plan EXCEPT !.stage = "done"]
                                               ELSE [plan EXCEPT !.at = @ + 1]
        /\ next.items = plan.items /\ next.id = plan.id /\ next.kind = plan.kind
        /\ \/ next.stage = "done" /\ next.at = plan.at /\ plan.at = Len(plan.items)
           \/ next.stage = "executing" /\ next.at = plan.at + 1 /\ plan.at # Len(plan.items)
  <2> DEFINE n == IF plan.at = Len(plan.items) THEN [plan EXCEPT !.stage = "done"]
                                            ELSE [plan EXCEPT !.at = @ + 1]
  <2>1. plan.at \in Nat /\ plan.at + 1 \in Nat
    BY <1>2
  <2>2. n \in PlanRecord /\ n.items = plan.items /\ n.id = plan.id /\ n.kind = plan.kind
        /\ \/ n.stage = "done" /\ n.at = plan.at /\ plan.at = Len(plan.items)
           \/ n.stage = "executing" /\ n.at = plan.at + 1 /\ plan.at # Len(plan.items)
    <3>1. CASE plan.at = Len(plan.items)
      <4>1. n = [plan EXCEPT !.stage = "done"]
        BY <3>1
      <4> HIDE DEF n
      <4> QED
        BY <1>2, <3>1, <4>1, RecordSteps
    <3>2. CASE plan.at # Len(plan.items)
      <4>1. n = [plan EXCEPT !.at = plan.at + 1]
        BY <3>2
      <4> HIDE DEF n
      <4> QED
        BY <1>1, <1>2, <2>1, <3>2, <4>1, RecordSteps
    <3> QED
      BY <3>1, <3>2
  <2>3. n = IF plan.at = Len(plan.items) THEN [plan EXCEPT !.stage = "done"]
                                   ELSE [plan EXCEPT !.at = @ + 1]
    OBVIOUS
  <2> HIDE DEF n
  <2> QED
    BY <2>2, <2>3
<1>5. /\ o.from \in AnyPath /\ o.to \in AnyPath
      /\ Movable(o.from, o.to, o) /\ MoveFile(o.from, o.to, o, next)
  BY <1>3, <1>4 DEF ExecuteItem, MoveFile, Movable, Item, AnyPath
<1>6. /\ PlanShape'
      /\ DOMAIN stored' = (DOMAIN stored \ {here}) \cup {there} /\ stored'[there] = stored[here]
      /\ \A p \in DOMAIN stored \ {here, there} : stored'[p] = stored[p]
      /\ \/ plan' = [plan EXCEPT !.stage = "stuck"]
         \/ /\ plan' = next
            /\ listed'[o.file] = o.to
            /\ \A f \in FileId \ {o.file} : listed'[f] = listed[f]
  <2>1. PICK from \in AnyPath, to \in AnyPath : from = o.from /\ to = o.to
    BY <1>5
  <2>2. /\ Movable(from, to, o) /\ MoveFile(from, to, o, next)
        /\ Started /\ o = CurrentItem /\ next \in PlanRecord /\ UNCHANGED <<folders, policyOf, before, calm>>
    BY <1>1, <1>3, <1>4, <1>5, <2>1
  <2>3. /\ PlanShape'
        /\ DOMAIN stored' = (DOMAIN stored \ {here}) \cup {there} /\ stored'[there] = stored[here]
        /\ \A p \in DOMAIN stored \ {here, there} : stored'[p] = stored[p]
        /\ \/ plan' = [plan EXCEPT !.stage = "stuck"]
           \/ /\ plan' = next
              /\ listed'[o.file] = to
              /\ \A f \in FileId \ {o.file} : listed'[f] = listed[f]
    BY <1>10, <2>1, <2>2, MoveKeeps DEF MoveFile
  <2> QED
    BY <2>1, <2>3
<1>7. CASE plan' = [plan EXCEPT !.stage = "stuck"]
  BY <1>1, <1>6, <1>7, StuckKeeps
<1>8. CASE plan' = next /\ listed'[o.file] = o.to /\ \A f \in FileId \ {o.file} : listed'[f] = listed[f]
  <2>1. Carried' = Carried \cup {plan.at} /\ plan.at \notin Carried
    <3>1. Carried' = 1..plan.at
      BY SMTT(20), <1>2, <1>4, <1>8 DEF Carried
    <3> QED
      BY <1>1, <1>2, <3>1
  <2>2. ASSUME Apart(plan.items) PROVE Feasible' /\ AsCarriedOut'
    <3>1. plan'.items = plan.items /\ UNCHANGED <<before, folders>> /\ o \in Item /\ o = plan.items[plan.at]
          /\ plan.at \in DOMAIN plan.items
      BY <1>1, <1>2, <1>3, <1>4, <1>8
    <3>2. PlanShape /\ WellFormed(plan.items) /\ Carried \subseteq DOMAIN plan.items /\ Feasible /\ AsCarriedOut
      BY <1>2, <2>2
    <3>3. /\ DOMAIN stored' = (DOMAIN stored \ {here}) \cup {there} /\ stored'[there] = stored[here]
          /\ \A p \in DOMAIN stored \ {here, there} : stored'[p] = stored[p]
      BY <1>6
    <3> QED
      BY <1>8, <1>10, <2>1, <2>2, <3>1, <3>2, <3>3, OneMoreMoved
  <2>5. plan'.items = plan.items /\ Apart(plan'.items) = Apart(plan.items)
    BY <1>4, <1>8
  <2>3. ProposalInv'
    BY <1>1, <1>4, <1>8, StaysProposed
  <2>4. ExecutionInv'
    BY <1>1, <1>2, <1>4, <1>8, <2>2, <2>5, BeforeStays DEF ExecutionInv
  <2> QED
    BY <1>6, <2>3, <2>4 DEF PlanInv
<1> QED
  BY <1>6, <1>7, <1>8

LEMMA RestoreKeeps ==
  ASSUME PlanInv, RestoreItem
  PROVE  PlanInv'
<1>1. plan.stage = "undoing" /\ Started /\ Carried = 1..plan.at /\ UNCHANGED <<folders, policyOf, before, calm>>
  BY DEF RestoreItem, Started, Carried
<1>2. /\ PlanShape /\ WellFormed(plan.items) /\ plan \in PlanRecord /\ plan.items \in Seq(Item)
      /\ DOMAIN plan.items = 1..Len(plan.items) /\ Len(plan.items) \in Nat
      /\ plan.at \in 1..Len(plan.items)
      /\ Carried \subseteq DOMAIN plan.items /\ (calm /\ Apart(plan.items) => Feasible /\ AsCarriedOut)
  BY <1>1, UnderWay
<1>3. PICK o \in Item : o = CurrentItem /\ o = plan.items[plan.at]
  BY <1>1, UnderWay DEF CurrentItem
<1>10. PICK here, there : here = PlaceOf(o.from) /\ there = PlaceOf(o.to)
  OBVIOUS
<1>4. PICK next \in PlanRecord :
        /\ next = IF plan.at = 1 THEN [plan EXCEPT !.stage = "undone"] ELSE [plan EXCEPT !.at = @ - 1]
        /\ next.items = plan.items /\ next.id = plan.id /\ next.kind = plan.kind
        /\ \/ next.stage = "undone" /\ next.at = plan.at /\ plan.at = 1
           \/ next.stage = "undoing" /\ next.at = plan.at - 1 /\ plan.at # 1
  <2> DEFINE n == IF plan.at = 1 THEN [plan EXCEPT !.stage = "undone"] ELSE [plan EXCEPT !.at = @ - 1]
  <2>1. plan.at \in Nat /\ (plan.at # 1 => plan.at - 1 \in Nat)
    BY <1>2
  <2>2. n \in PlanRecord /\ n.items = plan.items /\ n.id = plan.id /\ n.kind = plan.kind
        /\ \/ n.stage = "undone" /\ n.at = plan.at /\ plan.at = 1
           \/ n.stage = "undoing" /\ n.at = plan.at - 1 /\ plan.at # 1
    <3>1. CASE plan.at = 1
      <4>1. n = [plan EXCEPT !.stage = "undone"]
        BY <3>1
      <4> HIDE DEF n
      <4> QED
        BY <1>2, <3>1, <4>1, RecordSteps
    <3>2. CASE plan.at # 1
      <4>1. n = [plan EXCEPT !.at = plan.at - 1]
        BY <3>2
      <4> HIDE DEF n
      <4> QED
        BY <1>1, <1>2, <2>1, <3>2, <4>1, RecordSteps
    <3> QED
      BY <3>1, <3>2
  <2>3. n = IF plan.at = 1 THEN [plan EXCEPT !.stage = "undone"] ELSE [plan EXCEPT !.at = @ - 1]
    OBVIOUS
  <2> HIDE DEF n
  <2> QED
    BY <2>2, <2>3
<1>5. /\ o.from \in AnyPath /\ o.to \in AnyPath
      /\ Movable(o.to, o.from, o) /\ MoveFile(o.to, o.from, o, next)
  BY <1>3, <1>4 DEF RestoreItem, MoveFile, Movable, Item, AnyPath
<1>6. /\ PlanShape'
      /\ DOMAIN stored' = (DOMAIN stored \ {there}) \cup {here} /\ stored'[here] = stored[there]
      /\ \A p \in DOMAIN stored \ {here, there} : stored'[p] = stored[p]
      /\ \/ plan' = [plan EXCEPT !.stage = "stuck"]
         \/ /\ plan' = next
            /\ listed'[o.file] = o.from
            /\ \A f \in FileId \ {o.file} : listed'[f] = listed[f]
  <2>1. PICK from \in AnyPath, to \in AnyPath : from = o.to /\ to = o.from
    BY <1>5
  <2>2. /\ Movable(from, to, o) /\ MoveFile(from, to, o, next)
        /\ Started /\ o = CurrentItem /\ next \in PlanRecord /\ UNCHANGED <<folders, policyOf, before, calm>>
    BY <1>1, <1>3, <1>4, <1>5, <2>1
  <2>3. /\ PlanShape'
        /\ DOMAIN stored' = (DOMAIN stored \ {there}) \cup {here} /\ stored'[here] = stored[there]
        /\ \A p \in DOMAIN stored \ {here, there} : stored'[p] = stored[p]
        /\ \/ plan' = [plan EXCEPT !.stage = "stuck"]
           \/ /\ plan' = next
              /\ listed'[o.file] = to
              /\ \A f \in FileId \ {o.file} : listed'[f] = listed[f]
    BY <1>10, <2>1, <2>2, MoveKeeps DEF MoveFile
  <2> QED
    BY <2>1, <2>3
<1>7. CASE plan' = [plan EXCEPT !.stage = "stuck"]
  BY <1>1, <1>6, <1>7, StuckKeeps
<1>8. CASE plan' = next /\ listed'[o.file] = o.from /\ \A f \in FileId \ {o.file} : listed'[f] = listed[f]
  <2>1. Carried' = Carried \ {plan.at} /\ plan.at \in Carried
    <3>1. Carried' = 1..(plan.at - 1)
      BY SMTT(20), <1>2, <1>4, <1>8 DEF Carried
    <3> QED
      BY <1>1, <1>2, <3>1
  <2>2. ASSUME calm, Apart(plan.items) PROVE Feasible' /\ AsCarriedOut'
    <3>1. plan'.items = plan.items /\ UNCHANGED <<before, folders>> /\ o \in Item /\ o = plan.items[plan.at]
      BY <1>1, <1>3, <1>4, <1>8
    <3>2. PlanShape /\ WellFormed(plan.items) /\ Carried \subseteq DOMAIN plan.items /\ Feasible /\ AsCarriedOut
      BY <1>2, <2>2
    <3>3. /\ DOMAIN stored' = (DOMAIN stored \ {there}) \cup {here} /\ stored'[here] = stored[there]
          /\ \A p \in DOMAIN stored \ {here, there} : stored'[p] = stored[p]
      BY <1>6
    <3> QED
      BY <1>8, <1>10, <2>1, <2>2, <3>1, <3>2, <3>3, OneMoreRestored
  <2>5. plan'.items = plan.items /\ Apart(plan'.items) = Apart(plan.items)
    BY <1>4, <1>8
  <2>3. ProposalInv'
    BY <1>1, <1>4, <1>8, StaysProposed
  <2>4. ExecutionInv'
    BY <1>1, <1>2, <1>4, <1>8, <2>2, <2>5, BeforeStays DEF ExecutionInv
  <2> QED
    BY <1>6, <2>3, <2>4 DEF PlanInv
<1> QED
  BY <1>6, <1>7, <1>8

\* An undo that begins has everything to take back.
LEMMA UndoKeeps ==
  ASSUME PlanInv, UndoPlan
  PROVE  PlanInv'
<1>1. plan.stage = "done" /\ Started /\ UNCHANGED <<listed, stored, folders, policyOf, before, calm>>
  BY DEF UndoPlan, Started
<1>2. /\ PlanShape /\ plan \in PlanRecord /\ DOMAIN plan.items = 1..Len(plan.items)
      /\ plan.at \in 1..Len(plan.items) /\ (calm /\ Apart(plan.items) => Feasible /\ AsCarriedOut)
  BY <1>1, UnderWay
<1>3. plan.at = Len(plan.items)
  BY <1>1 DEF PlanInv, ExecutionInv
<1>4. plan' \in PlanRecord /\ plan'.items = plan.items /\ plan'.id = plan.id /\ plan'.kind = plan.kind
      /\ plan'.stage = "undoing" /\ plan'.at = plan.at
  BY <1>2 DEF UndoPlan, PlanRecord
<1>5. Carried' = Carried
  BY <1>1, <1>3, <1>4 DEF Carried
<1>6. calm /\ Apart(plan'.items) => Feasible' /\ AsCarriedOut'
  <2>1. MovedAway' = MovedAway /\ MovedHere' = MovedHere
    BY <1>4, <1>5 DEF MovedAway, MovedHere
  <2> QED
    BY <1>1, <1>2, <1>4, <1>5, <2>1 DEF Feasible, AsCarriedOut
<1>7. PlanShape'
  BY <1>1, <1>2, <1>4 DEF PlanShape
<1>8. ExecutionInv'
  BY <1>1, <1>2, <1>4, <1>6, BeforeStays DEF ExecutionInv
<1>9. ProposalInv'
  BY <1>1, <1>4, StaysProposed
<1> QED
  BY <1>7, <1>8, <1>9 DEF PlanInv

LEMMA ConflictKeeps ==
  ASSUME PlanInv, ItemConflicts
  PROVE  PlanInv'
<1>1. Started /\ plan' = [plan EXCEPT !.stage = "stuck"] /\ UNCHANGED <<listed, stored, folders, policyOf, calm>>
  BY DEF ItemConflicts, Started
<1>2. PlanShape /\ plan \in PlanRecord
  BY <1>1, UnderWay
<1>3. plan' \in PlanRecord
  BY <1>1, <1>2, RecordSteps
<1>4. PlanShape'
  BY <1>1, <1>2, <1>3 DEF PlanShape
<1> QED
  BY <1>1, <1>4, StuckKeeps

-----------------------------------------------------------------------------
(* The environment. *)

\* What happens between the requests leaves the plan as it is; when it touches
\* what the plan was carried out on, the history says so.
LEMMA OthersKeep ==
  ASSUME PlanInv, PlanShape', UNCHANGED <<plan, before>>,
         \/ plan.stage \in {"none", "waiting"}
         \/ calm' = FALSE /\ plan.stage # "executing"
         \/ UNCHANGED <<listed, stored, folders, calm>>
  PROVE  PlanInv'
<1>1. ProposalInv'
  BY DEF PlanInv, ProposalInv
<1>2. ExecutionInv'
  <2>1. CASE ~Started
    BY <2>1 DEF ExecutionInv, Started
  <2>2. CASE Started /\ calm' = FALSE /\ plan.stage # "executing"
    BY <2>2, BeforeStays DEF PlanInv, ExecutionInv, Started
  <2>3. CASE Started /\ UNCHANGED <<listed, stored, folders, calm>>
    <3>1. Carried' = Carried
      BY DEF Carried
    <3>2. MovedAway' = MovedAway /\ MovedHere' = MovedHere
      BY <3>1 DEF MovedAway, MovedHere
    <3>3. Feasible' = Feasible /\ AsCarriedOut' = AsCarriedOut
      BY <2>3, <3>1, <3>2 DEF Feasible, AsCarriedOut
    <3> QED
      BY <2>3, <3>3, BeforeStays DEF PlanInv, ExecutionInv, Started
  <2> QED
    BY <2>1, <2>2, <2>3 DEF Started
<1> QED
  BY <1>1, <1>2 DEF PlanInv

LEMMA UserKeeps ==
  ASSUME PlanInv, UserChanges \/ UserFolders
  PROVE  PlanInv'
<1>1. /\ PlanShape /\ stored \in [DOMAIN stored -> Content] /\ DOMAIN stored \subseteq AnyPath
      /\ calm' = FALSE /\ UNCHANGED <<listed, policyOf, plan, before>> /\ plan.stage # "executing"
  BY DEF PlanInv, PlanShape, UserChanges, UserFolders, Between
<1>2. CASE UserFolders
  <2>1. PICK d \in RealDir \ {Root} :
          /\ \A p \in DOMAIN stored : p.dir # d
          /\ folders' = IF d \in folders THEN folders \ {d} ELSE folders \cup {d}
    BY <1>2 DEF UserFolders
  <2>2. PlanShape'
    BY <1>1, <1>2, <2>1 DEF PlanShape, UserFolders
  <2> QED
    BY <1>1, <2>2, OthersKeep
<1>3. CASE UserChanges
  <2>5. \A p \in PlanPath : p.dir \in folders => PlaceOf(p) = p
    BY <1>1, PlacesArePaths DEF PlanShape
  <2>1. PICK p \in PlanPath :
          /\ p.dir \in folders
          /\ \/ /\ p \in DOMAIN stored
                /\ \/ stored' = [stored EXCEPT ![p].changed = @ + 1]
                   \/ stored' = Restrict(stored, DOMAIN stored \ {p})
             \/ \E q \in DOMAIN stored : q \in PlanPath /\ p \notin DOMAIN stored /\
                  stored' = [r \in (DOMAIN stored \ {q}) \cup {p} |-> IF r = p THEN stored[q] ELSE stored[r]]
    BY <1>3, <2>5 DEF UserChanges, Occupied
  <2>2. UNCHANGED folders /\ p \in AnyPath
    BY <1>3 DEF UserChanges, AnyPath
  <2>3. /\ stored' \in [DOMAIN stored' -> Content] /\ DOMAIN stored' \subseteq DOMAIN stored \cup {p}
    <3>1. CASE p \in DOMAIN stored /\ stored' = [stored EXCEPT ![p].changed = @ + 1]
      <4>1. PICK c \in Content : c = stored[p]
        BY <1>1, <3>1
      <4>2. [c EXCEPT !.changed = c.changed + 1] \in Content
        BY DEF Content
      <4>3. stored' = [stored EXCEPT ![p] = [c EXCEPT !.changed = c.changed + 1]]
        BY <3>1, <4>1
      <4> QED
        BY <1>1, <4>2, <4>3
    <3>2. CASE stored' = Restrict(stored, DOMAIN stored \ {p})
      BY <1>1, <3>2 DEF Restrict
    <3>3. CASE \E q \in DOMAIN stored : q \in PlanPath /\ p \notin DOMAIN stored /\
                 stored' = [r \in (DOMAIN stored \ {q}) \cup {p} |-> IF r = p THEN stored[q] ELSE stored[r]]
      BY <1>1, <3>3
    <3> QED
      BY <2>1, <3>1, <3>2, <3>3
  <2>4. PlanShape'
    BY <1>1, <2>1, <2>2, <2>3 DEF PlanShape
  <2> QED
    BY <1>1, <2>4, OthersKeep
<1> QED
  BY <1>2, <1>3

\* A scan gives a row to every file that had none, a row of its own.
LEMMA ScanKeeps ==
  ASSUME PlanInv, ScanFiles
  PROVE  PlanInv'
<1> DEFINE found == DOMAIN stored \cap PlanPath
           kept == {f \in FileId : listed[f] \in found}
           new == found \ {listed[f] : f \in kept}
<1>1. /\ PlanShape /\ calm' = FALSE /\ plan.stage # "executing"
      /\ UNCHANGED <<stored, folders, policyOf, plan, before>>
  BY DEF PlanInv, ScanFiles, Between
<1>2. PICK given \in [new -> FileId \ kept] :
        /\ IsInjective(given)
        /\ listed' = [f \in FileId |->
             IF f \in kept THEN listed[f]
             ELSE IF \E p \in new : given[p] = f THEN CHOOSE p \in new : given[p] = f ELSE NoPath]
  BY DEF ScanFiles
<1>3. ASSUME NEW f \in FileId
      PROVE  \/ f \in kept /\ listed'[f] = listed[f] /\ listed[f] \in found
             \/ f \notin kept /\ listed'[f] \in new /\ given[listed'[f]] = f
             \/ listed'[f] = NoPath
  <2>1. CASE f \in kept
    BY <1>2, <2>1
  <2>2. CASE f \notin kept /\ \E p \in new : given[p] = f
    <3>1. listed'[f] = CHOOSE p \in new : given[p] = f
      BY <1>2, <2>2
    <3> HIDE DEF new, kept
    <3> QED
      BY <2>2, <3>1
  <2>3. CASE f \notin kept /\ ~\E p \in new : given[p] = f
    BY <1>2, <2>3
  <2> QED
    BY <2>1, <2>2, <2>3
<1>4. listed' \in [FileId -> AnyPath \cup {NoPath}]
  <2>1. \A f \in FileId : listed'[f] \in AnyPath \cup {NoPath}
    BY <1>3 DEF AnyPath
  <2> QED
    BY <1>2, <2>1
<1>5. ASSUME NEW f \in FileId, NEW g \in FileId, listed'[f] = listed'[g], listed'[f] # NoPath
      PROVE  f = g
  <2>1. listed'[f] \in found /\ (f \in kept <=> listed'[f] \notin new) /\ (f \in kept => listed[f] = listed'[f])
        /\ (f \notin kept => given[listed'[f]] = f)
    BY <1>3, <1>5
  <2>2. listed'[g] \in found /\ (g \in kept <=> listed'[g] \notin new) /\ (g \in kept => listed[g] = listed'[g])
        /\ (g \notin kept => given[listed'[g]] = g)
    BY <1>3, <1>5
  <2>3. listed'[f] # NoPath
    BY <1>5
  <2> QED
    BY <1>1, <1>5, <2>1, <2>2, <2>3 DEF PlanShape
<1>6. PlanShape'
  BY <1>1, <1>4, <1>5 DEF PlanShape
<1> QED
  BY <1>1, <1>6, OthersKeep

LEMMA PolicyKeeps ==
  ASSUME PlanInv, UpdateProposalPolicy
  PROVE  PlanInv'
<1>1. PlanShape /\ UNCHANGED <<listed, stored, folders, plan, before, calm>>
  BY DEF PlanInv, UpdateProposalPolicy
<1>2. PICK enabled \in BOOLEAN : policyOf' = [revision |-> policyOf.revision + 1, proposals |-> enabled]
  BY DEF UpdateProposalPolicy
<1>3. policyOf' \in [revision : Nat, proposals : BOOLEAN]
  BY <1>1, <1>2 DEF PlanShape
<1>4. PlanShape'
  BY <1>1, <1>3 DEF PlanShape
<1> QED
  BY <1>1, <1>4, OthersKeep

LEMMA ExpiryKeeps ==
  ASSUME PlanInv, Expires
  PROVE  PlanInv'
<1>1. PlanShape /\ plan \in PlanRecord /\ plan.stage = "waiting"
      /\ UNCHANGED <<listed, stored, folders, policyOf, before, calm>>
  BY DEF PlanInv, PlanShape, Expires
<1>2. plan' \in PlanRecord /\ plan'.items = plan.items /\ plan'.id = plan.id /\ plan'.kind = plan.kind
      /\ plan'.stage = "waiting"
  BY <1>1 DEF Expires, PlanRecord
<1>3. PlanShape'
  BY <1>1, <1>2 DEF PlanShape
<1>4. ProposalInv'
  BY <1>1, <1>2 DEF PlanInv, ProposalInv, NoPlan
<1>5. ExecutionInv'
  BY <1>2 DEF ExecutionInv, Started
<1> QED
  BY <1>3, <1>4, <1>5 DEF PlanInv

-----------------------------------------------------------------------------
(* The theorems. *)

LEMMA PlanInitHolds == ProposalInit => PlanInv
<1> SUFFICES ASSUME ProposalInit PROVE PlanInv
  OBVIOUS
<1>1. /\ stored \in [DOMAIN stored -> Content]
      /\ DOMAIN stored \subseteq {p \in PlanPath : p.dir \in RealDir}
      /\ folders = RealDir /\ plan = NoPlan /\ calm = TRUE
  BY ProposalBudgetAssumption DEF ProposalInit, Content
<1>2. ASSUME NEW f \in FileId
      PROVE  \/ listed[f] \in DOMAIN stored /\ stored[listed[f]].of = f
             \/ listed[f] = NoPath
  <2>1. CASE \E p \in DOMAIN stored : stored[p].of = f
    <3>1. listed[f] = CHOOSE p \in DOMAIN stored : stored[p].of = f
      BY <2>1 DEF ProposalInit
    <3> QED
      BY <2>1, <3>1
  <2>2. CASE ~\E p \in DOMAIN stored : stored[p].of = f
    BY <2>2 DEF ProposalInit
  <2> QED
    BY <2>1, <2>2
<1>3. listed \in [FileId -> AnyPath \cup {NoPath}]
  <2>1. \A f \in FileId : listed[f] \in AnyPath \cup {NoPath}
    BY <1>1, <1>2 DEF AnyPath
  <2>2. listed = [f \in FileId |-> listed[f]]
    BY DEF ProposalInit
  <2> QED
    BY <2>1, <2>2
<1>4. \A f, g \in FileId : listed[f] = listed[g] /\ listed[f] # NoPath => f = g
  BY <1>2
<1>5. plan \in PlanRecord
  BY <1>1 DEF NoPlan, PlanRecord
<1>6. \A p \in DOMAIN stored \cap PlanPath : p.dir \in folders
  BY <1>1
<1>7. policyOf \in [revision : Nat, proposals : BOOLEAN]
  BY DEF ProposalInit
<1>8. PlanShape
  BY <1>1, <1>3, <1>4, <1>5, <1>6, <1>7 DEF PlanShape, AnyPath
<1>9. ProposalInv /\ ExecutionInv
  BY <1>1 DEF ProposalInv, ExecutionInv, Started, NoPlan
<1> QED
  BY <1>8, <1>9 DEF PlanInv

\* A step that proposes nothing makes no version of another plan.
LEMMA SameIdKeepsPlan == plan'.id = plan.id => EditKeepsPlan
BY DEF EditKeepsPlan

LEMMA PlanNextKeeps ==
  ASSUME PlanInv, [ProposalNext]_proposalVars
  PROVE  PlanInv' /\ EditKeepsPlan
<1>1. plan \in PlanRecord /\ (plan = NoPlan \/ plan.id >= 1)
  BY DEF PlanInv, PlanShape, ProposalInv
<1>2. CASE ProposeMove \/ ProposeRename \/ ProposeQuarantine
  <2>1. PlanInv' /\ plan'.parent = 0
    BY <1>2, ProposalsKeep
  <2> QED
    BY <1>1, <2>1 DEF EditKeepsPlan, PlanRecord
<1>3. CASE EditPlan
  BY <1>3, EditKeeps
<1>4. CASE StartPlan
  BY <1>1, <1>4, StartKeeps, SameIdKeepsPlan DEF StartPlan, PlanRecord
<1>5. CASE ExecuteItem
  <2>1. plan'.id = plan.id
    BY <1>1, <1>5 DEF ExecuteItem, MoveFile, PlanRecord
  <2> QED
    BY <1>5, <2>1, ExecuteKeeps, SameIdKeepsPlan
<1>6. CASE UndoPlan
  BY <1>1, <1>6, UndoKeeps, SameIdKeepsPlan DEF UndoPlan, PlanRecord
<1>7. CASE RestoreItem
  <2>1. plan'.id = plan.id
    BY <1>1, <1>7 DEF RestoreItem, MoveFile, PlanRecord
  <2> QED
    BY <1>7, <2>1, RestoreKeeps, SameIdKeepsPlan
<1>13. CASE ItemConflicts
  BY <1>1, <1>13, ConflictKeeps, SameIdKeepsPlan DEF ItemConflicts, PlanRecord
<1>8. CASE UserChanges \/ UserFolders
  BY <1>8, UserKeeps, SameIdKeepsPlan DEF UserChanges, UserFolders
<1>9. CASE ScanFiles
  BY <1>9, ScanKeeps, SameIdKeepsPlan DEF ScanFiles
<1>10. CASE UpdateProposalPolicy
  BY <1>10, PolicyKeeps, SameIdKeepsPlan DEF UpdateProposalPolicy
<1>11. CASE Expires
  BY <1>1, <1>11, ExpiryKeeps, SameIdKeepsPlan DEF Expires, PlanRecord
<1>12. CASE UNCHANGED proposalVars
  <2>1. PlanShape'
    BY <1>12 DEF PlanInv, PlanShape, proposalVars
  <2> QED
    BY <1>12, <2>1, OthersKeep, SameIdKeepsPlan DEF proposalVars
<1> QED
  BY <1>2, <1>3, <1>4, <1>5, <1>6, <1>7, <1>8, <1>9, <1>10, <1>11, <1>12, <1>13 DEF ProposalNext

\* Disk and index are, at every moment of an execution and of an undo nothing
\* else disturbs, those at its start with the moved files of the plan in their
\* places, of which no two are the same (safe_execution.py:512, services.py:1061).
THEOREM PlanInvariant == ProposalSpec => []PlanInv
<1>1. ProposalInit => PlanInv
  BY PlanInitHolds
<1>2. PlanInv /\ [ProposalNext]_proposalVars => PlanInv'
  BY PlanNextKeeps
<1> QED
  BY <1>1, <1>2, PTL DEF ProposalSpec

\* PlanProposals' PlansHold: whatever was proposed and edited, a plan that passes
\* its validation can be carried out item by item and taken back in reverse,
\* which leaves everything as it was, unless a link makes two of its paths the
\* same, and an edit plans for all of its files
\* again under their names (operation_preview.py:209, organization_planning.py:208).
THEOREM PlansCarryThrough == ProposalSpec => PlansHold
<1>1. PlanInv /\ [ProposalNext]_proposalVars => PlanInv' /\ EditKeepsPlan
  BY PlanNextKeeps
<1>2. PlanInv => PlanRunsThrough
  BY RunsThrough
<1> QED
  BY <1>1, <1>2, PlanInvariant, PTL DEF ProposalSpec, PlansHold
=============================================================================
