----------------------------- MODULE PlanProposals -----------------------------
(***************************************************************************)
(* How an operation plan comes about and what it promises: the three       *)
(* proposal tools, the edit of a pending plan, the validation before its   *)
(* execution (organization_planning.py, proposal_tools.py,                 *)
(* operation_preview.py, services.py), and its items moved in plan order   *)
(* and restored in reverse.                                                *)
(*                                                                         *)
(* One workspace and its latest plan.  While items move, nothing else      *)
(* touches the files: what crashes, other requests and the user do then is *)
(* SafeExecution's; between the requests users, scans and policy updates   *)
(* change what the plan was built from.                                    *)
(*                                                                         *)
(* A directory has several paths when links inside the workspace lead to   *)
(* it.  Plan and index compare paths as they are written; the disk has one *)
(* place for all of them.                                                  *)
(***************************************************************************)
EXTENDS Integers, Sequences, FiniteSets, SequencesExt, Functions

CONSTANTS
  Root,          \* the workspace's root directory
  Dir,           \* paths of directories, Root among them
  DirAt,         \* the directory a path reaches, itself or through a link
  Name,          \* file names
  FileId,        \* ids of FileEntry rows
  NoPath,       \* no path: a FileEntry that does not exist
  ProposalBudgets  \* bounds: proposals, edits, changes, scans, policies

VARIABLES
  listed,   \* FileEntry.relative_path by id
  stored,   \* what is on the disk: content by place
  folders,  \* the directories that exist
  policyOf, \* WorkspacePolicy: revision and proposal_enabled
  plan,     \* the current plan with its record
  before,   \* history: disk and index when its execution started
  calm,     \* history: nothing else has changed them since
  proposalBudget
proposalVars == <<listed, stored, folders, policyOf, plan, before, calm, proposalBudget>>

\* _validate_relative_path: paths are normalized, below the root, and the root
\* itself is no directory a request can name.
PlanPath == [dir : Dir, name : Name]
Offerable == Dir \ {Root}

\* Where a path leads on the disk, links followed.
PlaceOf(path) == IF path.dir \in Dir THEN [path EXCEPT !.dir = DirAt[@]] ELSE path
RealDir == {DirAt[d] : d \in Dir}

\* A path in the quarantine, which is outside the workspace.
QuarantinedPath == [dir : {"quarantine"}, plan : Nat, file : FileId, name : Name]

ASSUME PathsAssumption == Root \in Dir /\ "quarantine" \notin Dir /\ NoPath \notin PlanPath \cup QuarantinedPath
ASSUME LinksAssumption == DirAt \in [Dir -> Dir] /\ DirAt[Root] = Root /\ \A d \in Dir : DirAt[DirAt[d]] = DirAt[d]
\* The files at the start, one at a place, and none of them twice.
ASSUME ProposalBudgetAssumption == \A b \in ProposalBudgets :
  /\ b \in [files : {b.files}, proposals : Nat, edits : Nat, changes : Nat, scans : Nat, policies : Nat]
  /\ DOMAIN b.files \subseteq {p \in PlanPath : p.dir \in RealDir}
  /\ b.files \in [DOMAIN b.files -> [of : FileId, changed : Nat]]

\* A file's content stands for size, mtime and digest; a change makes another.
Original(f) == [of |-> f, changed |-> 0]
Occupied(path) == PlaceOf(path) \in DOMAIN stored
Holds(path, content) == Occupied(path) /\ stored[PlaceOf(path)] = content
Known(f) == listed[f] # NoPath
\* A quarantined file is not below the root.
Present(f) == Known(f) /\ listed[f] \in PlanPath /\ Occupied(listed[f])

NoPlan == [id |-> 0, parent |-> 0, kind |-> "none", items |-> <<>>, policy |-> 0,
           stage |-> "none", aged |-> FALSE, at |-> 0]

ProposalInit ==
  /\ proposalBudget \in ProposalBudgets
  /\ stored = proposalBudget.files
  /\ listed = [f \in FileId |->
       IF \E p \in DOMAIN stored : stored[p].of = f
       THEN CHOOSE p \in DOMAIN stored : stored[p].of = f ELSE NoPath]
  /\ folders = RealDir
  /\ policyOf = [revision |-> 1, proposals |-> TRUE]
  /\ plan = NoPlan
  /\ before = [disk |-> <<>>, index |-> <<>>] /\ calm = TRUE

SpendOn(what) ==
  /\ proposalBudget[what] > 0
  /\ proposalBudget' = [proposalBudget EXCEPT ![what] = @ - 1]

-----------------------------------------------------------------------------
(* The contract of a plan and its validation *)

\* build_quarantine_relative_path: the path outside the workspace names the
\* plan and the file.
QuarantinePath(id, f, name) == [dir |-> "quarantine", plan |-> id, file |-> f, name |-> name]

ItemFor(f, to) ==
  [file |-> f, from |-> listed[f], to |-> to, content |-> stored[PlaceOf(listed[f])]]

\* Mutant: the targets of a plan may coincide.
WellFormedSources(items) ==
  /\ items # <<>>
  /\ IsInjective([i \in DOMAIN items |-> items[i].file])
  /\ \A i \in DOMAIN items : items[i].from # items[i].to

\* OperationPlanItem and OperationPlan
WellFormed(items) ==
  /\ items # <<>>
  /\ IsInjective([i \in DOMAIN items |-> items[i].file])
  /\ IsInjective([i \in DOMAIN items |-> items[i].to])
  /\ \A i \in DOMAIN items : items[i].from # items[i].to

ValidItem(p, o) ==
  /\ listed[o.file] = o.from
  /\ Holds(o.from, o.content)
  /\ IF p.kind = "quarantine"
     THEN o.to = QuarantinePath(p.id, o.file, o.from.name)
     ELSE DirAt[o.to.dir] \in folders
  /\ ~Occupied(o.to)

\* validate_operation_plan; a plan expires fifteen minutes after its creation.
Valid(p) == ~p.aged /\ \A i \in DOMAIN p.items : ValidItem(p, p.items[i])

\* build_operation_plan_record keeps the plan, its items numbered from 1, and
\* the policy it was made under; the record restores to the same plan.
Stored(id, kind, items) ==
  [NoPlan EXCEPT !.id = id, !.kind = kind, !.items = items,
                 !.policy = policyOf.revision, !.stage = "waiting"]

-----------------------------------------------------------------------------
(* Proposals *)

\* generate_operation_preview: every offered directory exists and every file is
\* there; its ranking of the directories only explains the choice.
Previewable(files, offered) ==
  /\ policyOf.proposals
  /\ offered \subseteq {d \in Offerable : DirAt[d] \in folders}
  /\ \A f \in files : Present(f)

\* build_organization_plan: the selections, a sequence of files with their
\* directories, become moves under the names the index has.
Moves(selections) ==
  [i \in DOMAIN selections |->
     ItemFor(selections[i].file,
             [dir |-> selections[i].dir, name |-> listed[selections[i].file].name])]

Buildable(id, selections) ==
  /\ Previewable({s.file : s \in ToSet(selections)}, {s.dir : s \in ToSet(selections)})
  /\ WellFormed(Moves(selections))
  /\ Valid(Stored(id, "move", Moves(selections)))

\* Between the moves of a plan, requests of the user and of scans come in.
Between == plan.stage \notin {"executing", "undoing"}

\* A new workflow or, with a parent, the next version of its plan.  From here on
\* it is the plan looked at; a former one stays as it is.
Propose(parent, kind, items) ==
  /\ Between
  /\ plan' = [Stored(plan.id + 1, kind, items) EXCEPT !.parent = parent]
  /\ UNCHANGED <<listed, stored, folders, policyOf, before, calm>>

Selections == [1..2 -> [file : FileId, dir : Offerable]] \cup [1..1 -> [file : FileId, dir : Offerable]]

\* propose_move, and the route that creates a workflow for several files.
ProposeMove ==
  /\ SpendOn("proposals")
  /\ \E s \in Selections :
       /\ Buildable(plan.id + 1, s)
       /\ Propose(0, "move", Moves(s))

\* propose_rename: the same directory, the root included, under another name.
ProposeRename ==
  /\ SpendOn("proposals")
  /\ policyOf.proposals
  /\ \E f \in FileId, n \in Name :
       /\ Present(f)
       /\ LET items == <<ItemFor(f, [listed[f] EXCEPT !.name = n])>> IN
          /\ WellFormed(items) /\ Valid(Stored(plan.id + 1, "rename", items))
          /\ Propose(0, "rename", items)

\* propose_quarantine: only source and target are looked at.
ProposeQuarantine ==
  /\ SpendOn("proposals")
  /\ policyOf.proposals
  /\ \E f \in FileId :
       /\ Present(f)
       /\ LET to == QuarantinePath(plan.id + 1, f, listed[f].name) IN
          /\ ~Occupied(to)
          /\ Propose(0, "quarantine", <<ItemFor(f, to)>>)

\* Mutant: only the files the human has named are planned again.
MergedNamed(changes) ==
  SelectSeq([i \in DOMAIN plan.items |->
               [file |-> plan.items[i].file,
                dir |-> IF plan.items[i].file \in DOMAIN changes THEN changes[plan.items[i].file] ELSE Root]],
            LAMBDA s : s.file \in DOMAIN changes)

\* merge_edit_request: the directories the human has named, and for the other
\* files the directories of their present targets.
Merged(changes) ==
  [i \in DOMAIN plan.items |->
     LET o == plan.items[i] IN
     [file |-> o.file, dir |-> IF o.file \in DOMAIN changes THEN changes[o.file] ELSE o.to.dir]]

\* apply_organization_plan_edit: the replacement is built like a new request,
\* out of moves, whatever the plan's items were.
EditPlan ==
  /\ plan.stage = "waiting" /\ SpendOn("edits")
  /\ \E named \in SUBSET {o.file : o \in ToSet(plan.items)} \ {{}} :
       \E changes \in [named -> Offerable] :
         /\ Buildable(plan.id + 1, Merged(changes))
         /\ Propose(plan.id, "move", Moves(Merged(changes)))

-----------------------------------------------------------------------------
(* Execution and undo *)

\* The approved plan is validated once more, under an unchanged policy.
StartPlan ==
  /\ plan.stage = "waiting"
  /\ policyOf.revision = plan.policy
  /\ Valid(plan)
  /\ plan' = [plan EXCEPT !.stage = "executing", !.at = 1]
  /\ before' = [disk |-> stored, index |-> listed]
  /\ calm' = TRUE
  /\ UNCHANGED <<listed, stored, folders, policyOf, proposalBudget>>

CurrentItem == plan.items[plan.at]

\* The checks before an item's rename: its source as planned, its target free.
Movable(from, to, o) ==
  /\ Holds(from, o.content)
  /\ ~Occupied(to)
  /\ PlaceOf(to).dir \in folders \cup {"quarantine"}

\* compare_and_set_file_entry_location, and uq_file_entries_workspace_relative_path:
\* a row that still lists a path keeps it from others.
Recordable(from, to, o) ==
  listed[o.file] = from /\ \A f \in FileId \ {o.file} : listed[f] # to

\* Item and index are recorded after the rename; when that fails the file is
\* where it is, and the plan stays as it is until a recovery looks at it.
MoveFile(from, to, o, next) ==
  /\ stored' = [p \in (DOMAIN stored \ {PlaceOf(from)}) \cup {PlaceOf(to)} |->
                  IF p = PlaceOf(to) THEN stored[PlaceOf(from)] ELSE stored[p]]
  /\ IF Recordable(from, to, o)
     THEN listed' = [listed EXCEPT ![o.file] = to] /\ plan' = next
     ELSE UNCHANGED listed /\ plan' = [plan EXCEPT !.stage = "stuck"]

ExecuteItem ==
  /\ plan.stage = "executing"
  /\ Movable(CurrentItem.from, CurrentItem.to, CurrentItem)
  /\ MoveFile(CurrentItem.from, CurrentItem.to, CurrentItem,
              IF plan.at = Len(plan.items) THEN [plan EXCEPT !.stage = "done"]
                                           ELSE [plan EXCEPT !.at = @ + 1])
  /\ UNCHANGED <<folders, policyOf, before, calm, proposalBudget>>

\* An undo first looks at every moved file and at every former path, not at the
\* index.
UndoPlan ==
  /\ plan.stage = "done"
  /\ policyOf.revision = plan.policy
  /\ \A o \in ToSet(plan.items) : Holds(o.to, o.content) /\ ~Occupied(o.from)
  /\ plan' = [plan EXCEPT !.stage = "undoing"]
  /\ UNCHANGED <<listed, stored, folders, policyOf, before, calm, proposalBudget>>

RestoreItem ==
  /\ plan.stage = "undoing"
  /\ Movable(CurrentItem.to, CurrentItem.from, CurrentItem)
  /\ MoveFile(CurrentItem.to, CurrentItem.from, CurrentItem,
              IF plan.at = 1 THEN [plan EXCEPT !.stage = "undone"] ELSE [plan EXCEPT !.at = @ - 1])
  /\ UNCHANGED <<folders, policyOf, before, calm, proposalBudget>>

\* An item that cannot be moved is marked FAILED by the execution, which goes on
\* with the next, and ends an undo; what follows is SafeExecution's.
ItemConflicts ==
  /\ \/ plan.stage = "executing" /\ ~Movable(CurrentItem.from, CurrentItem.to, CurrentItem)
     \/ plan.stage = "undoing" /\ ~Movable(CurrentItem.to, CurrentItem.from, CurrentItem)
  /\ plan' = [plan EXCEPT !.stage = "stuck"]
  /\ UNCHANGED <<listed, stored, folders, policyOf, before, calm, proposalBudget>>

-----------------------------------------------------------------------------
(* The environment, between requests *)

UserChanges ==
  /\ Between /\ SpendOn("changes")
  /\ \E p \in PlanPath :
       /\ p.dir \in folders
       /\ \/ /\ Occupied(p)
             /\ \/ stored' = [stored EXCEPT ![p].changed = @ + 1]
                \/ stored' = Restrict(stored, DOMAIN stored \ {p})
          \/ \E q \in DOMAIN stored : q \in PlanPath /\ ~Occupied(p) /\
               stored' = [r \in (DOMAIN stored \ {q}) \cup {p} |-> IF r = p THEN stored[q] ELSE stored[r]]
  /\ calm' = FALSE
  /\ UNCHANGED <<listed, folders, policyOf, plan, before>>

UserFolders ==
  /\ Between /\ SpendOn("changes")
  /\ \E d \in RealDir \ {Root} :
       /\ \A p \in DOMAIN stored : p.dir # d
       /\ folders' = IF d \in folders THEN folders \ {d} ELSE folders \cup {d}
  /\ calm' = FALSE
  /\ UNCHANGED <<listed, stored, policyOf, plan, before>>

\* scan_workspace: rows without a file go, files without a row get an id.  A
\* file is found at its place only, so that a row with a path through a link
\* gives way to a new one.
ScanFiles ==
  /\ Between /\ SpendOn("scans")
  /\ LET found == DOMAIN stored \cap PlanPath
         kept == {f \in FileId : listed[f] \in found}
         new == found \ {listed[f] : f \in kept} IN
     \E given \in [new -> FileId \ kept] :
       /\ IsInjective(given)
       /\ listed' = [f \in FileId |->
            IF f \in kept THEN listed[f]
            ELSE IF \E p \in new : given[p] = f THEN CHOOSE p \in new : given[p] = f ELSE NoPath]
  /\ calm' = FALSE
  /\ UNCHANGED <<stored, folders, policyOf, plan, before>>

UpdateProposalPolicy ==
  /\ Between /\ SpendOn("policies")
  /\ \E enabled \in BOOLEAN :
       policyOf' = [revision |-> policyOf.revision + 1, proposals |-> enabled]
  /\ UNCHANGED <<listed, stored, folders, plan, before, calm>>

Expires ==
  /\ plan.stage = "waiting" /\ ~plan.aged
  /\ plan' = [plan EXCEPT !.aged = TRUE]
  /\ UNCHANGED <<listed, stored, folders, policyOf, before, calm, proposalBudget>>

ProposalNext ==
  \/ ProposeMove \/ ProposeRename \/ ProposeQuarantine \/ EditPlan
  \/ StartPlan \/ ExecuteItem \/ UndoPlan \/ RestoreItem \/ ItemConflicts
  \/ UserChanges \/ UserFolders \/ ScanFiles \/ UpdateProposalPolicy \/ Expires

ProposalSpec == ProposalInit /\ [][ProposalNext]_proposalVars

-----------------------------------------------------------------------------
(* Properties *)

\* No two files of a plan, and no two targets, are the same one under paths
\* that differ by a link: plan and validation compare the paths as written.
Apart(items) ==
  \A i, j \in DOMAIN items :
    /\ PlaceOf(items[i].from) = PlaceOf(items[j].from) => items[i].from = items[j].from
    /\ PlaceOf(items[i].to) = PlaceOf(items[j].to) => items[i].to = items[j].to

\* Whatever was proposed and edited, the items of a plan that passes its
\* validation do not stand in each other's way, unless two of its paths lead
\* through links to the same place: each passes the mover's check when its turn
\* comes, in plan order, with its row of the index as planned; and when nothing
\* else happens it is undone in reverse, row by row, which leaves disk and index
\* as they were (services.py:1061, SafeExecution's Init).
PlanRunsThrough == Apart(plan.items) =>
  /\ plan.stage = "executing" =>
       /\ Movable(CurrentItem.from, CurrentItem.to, CurrentItem)
       /\ listed[CurrentItem.file] = CurrentItem.from
  /\ plan.stage = "undoing" /\ calm =>
       /\ Movable(CurrentItem.to, CurrentItem.from, CurrentItem)
       /\ Recordable(CurrentItem.to, CurrentItem.from, CurrentItem)
  /\ plan.stage = "undone" /\ calm => before = [disk |-> stored, index |-> listed]

\* An edit plans for the files of the plan it replaces, in their order, and a
\* move keeps the file's name unless the index has another path for it.  (It
\* makes moves of a rename and of a quarantine, too: what they were proposed
\* for is lost.  organization_planning.py:208)
EditKeepsPlan ==
  plan # NoPlan /\ plan'.id # plan.id /\ plan'.parent = plan.id =>
    /\ [i \in DOMAIN plan'.items |-> plan'.items[i].file] = [i \in DOMAIN plan.items |-> plan.items[i].file]
    /\ plan.kind = "move" =>
         \A i \in DOMAIN plan.items :
           LET was == plan.items[i]
               is == plan'.items[i] IN
           was.from = is.from => was.to.name = is.to.name

\* A valid plan whose paths lead to different places can be carried out as a
\* whole and undone, and an edit plans for all of its files again.
PlansHold == [][PlanRunsThrough' /\ EditKeepsPlan]_proposalVars
=============================================================================
