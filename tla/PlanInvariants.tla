---------------------------- MODULE PlanInvariants ----------------------------
(***************************************************************************)
(* What makes the property of PlanProposals inductive: how far the plan is *)
(* carried out, item by item, compared with the disk and the index its     *)
(* execution started from.                                                 *)
(***************************************************************************)
EXTENDS PlanProposals

AnyPath == PlanPath \cup QuarantinedPath
Content == [of : FileId, changed : Nat]
Item == [file : FileId, from : PlanPath, to : AnyPath, content : Content]

PlanRecord ==
  [id : Nat, parent : Nat, kind : {"none", "move", "rename", "quarantine"}, items : Seq(Item),
   policy : Nat, stage : {"none", "waiting", "executing", "done", "undoing", "undone", "stuck"},
   aged : BOOLEAN, at : Nat]

\* The types of the state; what lies in the workspace lies in a directory that
\* exists, and no path is listed twice.
PlanShape ==
  /\ stored \in [DOMAIN stored -> Content] /\ DOMAIN stored \subseteq AnyPath
  /\ listed \in [FileId -> AnyPath \cup {NoPath}]
  /\ folders \subseteq RealDir /\ \A p \in DOMAIN stored \cap PlanPath : p.dir \in folders
  /\ \A f, g \in FileId : listed[f] = listed[g] /\ listed[f] # NoPath => f = g
  /\ policyOf \in [revision : Nat, proposals : BOOLEAN] /\ calm \in BOOLEAN
  /\ plan \in PlanRecord

\* A move keeps the name of its file.
ProposalInv ==
  plan = NoPlan \/
    /\ plan.id >= 1 /\ plan.stage # "none" /\ WellFormed(plan.items)
    /\ plan.kind = "move" => \A i \in DOMAIN plan.items : plan.items[i].to.name = plan.items[i].from.name

Started == plan.stage \in {"executing", "done", "undoing", "undone"}
Carried ==
  CASE plan.stage = "executing" -> 1..(plan.at - 1)
    [] plan.stage = "done" -> 1..Len(plan.items)
    [] plan.stage = "undoing" -> 1..plan.at
    [] OTHER -> {}

\* What the validation has found out about disk and index at the start.
Feasible ==
  \A i \in DOMAIN plan.items :
    LET o == plan.items[i] IN
    /\ PlaceOf(o.from) \in DOMAIN before.disk /\ before.disk[PlaceOf(o.from)] = o.content
    /\ PlaceOf(o.to) \notin DOMAIN before.disk
    /\ PlaceOf(o.from).dir \in folders /\ PlaceOf(o.to).dir \in folders \cup {"quarantine"}
    /\ before.index[o.file] = o.from
    /\ \A f \in FileId : before.index[f] = o.from => f = o.file

\* The items that are carried out have moved, on the disk and in the index,
\* and nothing else has.
MovedAway == {PlaceOf(plan.items[i].from) : i \in Carried}
MovedHere == {PlaceOf(plan.items[i].to) : i \in Carried}
AsCarriedOut ==
  /\ DOMAIN stored = (DOMAIN before.disk \ MovedAway) \cup MovedHere
  /\ \A p \in DOMAIN before.disk \ MovedAway : stored[p] = before.disk[p]
  /\ \A i \in Carried : stored[PlaceOf(plan.items[i].to)] = plan.items[i].content
  /\ \A i \in Carried : listed[plan.items[i].file] = plan.items[i].to
  /\ \A f \in FileId : (\A i \in Carried : plan.items[i].file # f) => listed[f] = before.index[f]

ExecutionInv ==
  Started =>
    /\ plan.at \in DOMAIN plan.items
    /\ plan.stage = "executing" => calm
    /\ plan.stage = "done" => plan.at = Len(plan.items)
    /\ before \in [disk : {before.disk}, index : [FileId -> AnyPath \cup {NoPath}]]
    /\ before.disk \in [DOMAIN before.disk -> Content]
    /\ calm /\ Apart(plan.items) => Feasible /\ AsCarriedOut

\* The conjunction the proofs carry from step to step.
PlanInv == PlanShape /\ ProposalInv /\ ExecutionInv
=============================================================================
