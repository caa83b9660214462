--------------------------- MODULE WorkspacePolicies ---------------------------
(***************************************************************************)
(* The creation of workspaces, the updates of their policies with the      *)
(* audit trail (services.py, repositories.py), and the use that plans make *)
(* of a policy: it is looked at while a plan is built, recorded with the   *)
(* plan, compared when an execution begins, and held by it from then on.   *)
(* Several requests do these things at once, each in a session of its own, *)
(* over one SQLite database that lets one of them write at a time.         *)
(*                                                                         *)
(* A rule of a policy stands for the target directory it denies or         *)
(* ignores; what rules match is the subject of WorkspacePaths.             *)
(***************************************************************************)
EXTENDS Naturals, Sequences, FiniteSets, SequencesExt, Functions

CONSTANTS
  Clerk,         \* sessions of requests
  NoClerk,
  LeadsTo,       \* where the names of directories lead: RootName -> directory or "missing"
  RuleName,      \* rules, and the target directories they match
  PolicyBudgets  \* roots: workspaces there are; bounds: creates, updates, plans, failures, damages

ASSUME NoClerkAssumption == NoClerk \notin Clerk
\* The workspaces at the start have roots of their own.
Directory == Range(LeadsTo) \ {"missing"}
ASSUME PolicyBudgetAssumption ==
  \A b \in PolicyBudgets : b.roots \in Seq(Directory) /\ IsInjective(b.roots)

VARIABLES
  spaceRows,    \* Workspace by id: its root_path
  policyRows,   \* WorkspacePolicyRecord by workspace; absent when missing or damaged
  policyAudits, \* WorkspacePolicyAuditEvent by workspace, in order
  plansMade,    \* OperationPlanRecord: its target, its policy snapshot, its stage
  clerk,        \* what a request is at, and what it has read
  policyLock,   \* the session with an open write transaction
  policyBudget
policyVars == <<spaceRows, policyRows, policyAudits, plansMade, clerk, policyLock, policyBudget>>

Switches == {"read", "proposal", "execution"}
\* _create_default_workspace_policy
DefaultPolicy == [revision |-> 0, enabled |-> Switches, rules |-> <<>>]
Resting == [pc |-> "idle"]

PolicyInit ==
  /\ policyBudget \in PolicyBudgets
  /\ spaceRows = policyBudget.roots
  /\ policyRows = [w \in DOMAIN spaceRows |-> DefaultPolicy]
  /\ policyAudits = [w \in DOMAIN spaceRows |-> <<>>]
  /\ plansMade = <<>>
  /\ clerk = [c \in Clerk |-> Resting]
  /\ policyLock = NoClerk

PolicyAllows(what) == policyBudget[what] > 0 /\ policyBudget' = [policyBudget EXCEPT ![what] = @ - 1]
Goes(c, work) == clerk' = [clerk EXCEPT ![c] = work]
Rests(c) == Goes(c, Resting)
Rows == <<spaceRows, policyRows, policyAudits, plansMade>>
CanWrite == policyLock = NoClerk
\* load_workspace_policy: a policy that is missing or damaged allows nothing.
Loaded(w) == w \in DOMAIN policyRows
-----------------------------------------------------------------------------
(* Workspaces *)

\* validate_workspace_root: an existing directory, under its resolved name.
Rooted(name) == LeadsTo[name] # "missing"
\* The look of create_workspace at the roots there are.
RootTaken(root) == root \in Range(spaceRows)

RequestWorkspace(c) ==
  /\ clerk[c] = Resting /\ PolicyAllows("creates")
  /\ \E name \in DOMAIN LeadsTo :
       /\ Rooted(name) /\ ~RootTaken(LeadsTo[name])
       /\ Goes(c, [pc |-> "insert", root |-> LeadsTo[name]])
  /\ UNCHANGED <<Rows, policyLock>>

\* The insert, refused by uq of root_path when another has been faster; the default
\* policy comes in the same transaction.
InsertWorkspace(c) ==
  /\ clerk[c].pc = "insert" /\ CanWrite
  /\ IF RootTaken(clerk[c].root) THEN UNCHANGED Rows
     ELSE /\ spaceRows' = Append(spaceRows, clerk[c].root)
          /\ policyRows' = [w \in DOMAIN policyRows \cup {Len(spaceRows) + 1} |->
                              IF Loaded(w) THEN policyRows[w] ELSE DefaultPolicy]
          /\ policyAudits' = Append(policyAudits, <<>>)
          /\ UNCHANGED plansMade
  /\ Rests(c)
  /\ UNCHANGED <<policyLock, policyBudget>>
-----------------------------------------------------------------------------
(* Updates *)

\* _normalize_workspace_relative_values: no rule twice.
ValidRules(rules) == IsInjective(rules)
Asked == [enabled : SUBSET Switches, rules : SeqOf(RuleName, 2)]

\* The caller's policy must be the next revision of the one that is read.
ReadForUpdate(c) ==
  /\ clerk[c] = Resting /\ PolicyAllows("updates")
  /\ \E w \in DOMAIN spaceRows, asked \in Asked :
       /\ Loaded(w) /\ ValidRules(asked.rules)
       /\ Goes(c, [pc |-> "set", space |-> w, seen |-> policyRows[w],
                   next |-> [revision |-> policyRows[w].revision + 1,
                             enabled |-> asked.enabled, rules |-> asked.rules]])
  /\ UNCHANGED <<Rows, policyLock>>

\* Mutant: the update names the workspace and not the revision it replaces.
ReplacesAny(w, seen) == Loaded(w)
\* The WHERE of compare_and_set_workspace_policy.
Replaces(w, seen) == Loaded(w) /\ policyRows[w].revision = seen.revision

\* compare_and_set_workspace_policy, in a transaction that is not committed yet.
SetPolicy(c) ==
  /\ clerk[c].pc = "set" /\ CanWrite
  /\ IF Replaces(clerk[c].space, clerk[c].seen)
     THEN Goes(c, [clerk[c] EXCEPT !.pc = "audit"]) /\ policyLock' = c
     ELSE Rests(c) /\ UNCHANGED policyLock
  /\ UNCHANGED <<Rows, policyBudget>>

\* The differences are told of the rules, not of the switches.
AuditEvent(before, after) ==
  [from |-> before.revision, to |-> after.revision,
   added |-> Range(after.rules) \ Range(before.rules),
   removed |-> Range(before.rules) \ Range(after.rules)]

\* Row and audit event are committed together ...
CommitUpdate(c) ==
  LET w == clerk[c].space IN
  /\ clerk[c].pc = "audit"
  /\ policyRows' = [policyRows EXCEPT ![w] = clerk[c].next]
  /\ policyAudits' = [policyAudits EXCEPT ![w] = Append(@, AuditEvent(clerk[c].seen, clerk[c].next))]
  /\ Rests(c) /\ policyLock' = NoClerk
  /\ UNCHANGED <<spaceRows, plansMade, policyBudget>>

\* ... or rolled back together.
AuditFails(c) ==
  /\ clerk[c].pc = "audit" /\ PolicyAllows("failures")
  /\ Rests(c) /\ policyLock' = NoClerk
  /\ UNCHANGED Rows
-----------------------------------------------------------------------------
(* Plans *)

\* require_workspace_proposal_policy
MayPropose(w) == Loaded(w) /\ {"read", "proposal"} \subseteq policyRows[w].enabled
MayUse(policy, target) == target \notin Range(policy.rules)

\* build_organization_plan, under the policy as it is now.
BuildPlan(c) ==
  /\ clerk[c] = Resting /\ PolicyAllows("plans")
  /\ \E w \in DOMAIN spaceRows, target \in RuleName :
       /\ MayPropose(w) /\ MayUse(policyRows[w], target)
       /\ Goes(c, [pc |-> "snapshot", space |-> w, target |-> target])
  /\ UNCHANGED <<Rows, policyLock>>

\* create_waiting_approval_workflow_for_plan reads the policy again, for the snapshot;
\* made is where the trail stands at this reading.
SnapshotPolicy(c) ==
  LET w == clerk[c].space IN
  /\ clerk[c].pc = "snapshot"
  /\ IF MayPropose(w)
     THEN Goes(c, [pc |-> "record", space |-> w, target |-> clerk[c].target,
                   snapshot |-> policyRows[w], made |-> Len(policyAudits[w])])
     ELSE Rests(c)
  /\ UNCHANGED <<Rows, policyLock, policyBudget>>

\* The insert of the plan, with the policy as it was read.
RecordPlan(c) ==
  /\ clerk[c].pc = "record" /\ CanWrite
  /\ plansMade' = Append(plansMade,
       [space |-> clerk[c].space, target |-> clerk[c].target, snapshot |-> clerk[c].snapshot,
        stage |-> "waiting", made |-> clerk[c].made, checked |-> 0])
  /\ Rests(c)
  /\ UNCHANGED <<spaceRows, policyRows, policyAudits, policyLock, policyBudget>>

\* _load_valid_execution_policy: the policy is the snapshot, its revision included.
MayExecute(p) ==
  /\ Loaded(p.space)
  /\ "execution" \in policyRows[p.space].enabled
  /\ policyRows[p.space] = p.snapshot

CheckPlan(c) ==
  /\ clerk[c] = Resting
  /\ \E i \in DOMAIN plansMade :
       /\ plansMade[i].stage # "moved" /\ MayExecute(plansMade[i])
       /\ plansMade' = [plansMade EXCEPT ![i].stage = "checked",
                                         ![i].checked = Len(policyAudits[plansMade[i].space])]
       /\ Goes(c, [pc |-> "validate", plan |-> i, held |-> policyRows[plansMade[i].space]])
  /\ UNCHANGED <<spaceRows, policyRows, policyAudits, policyLock, policyBudget>>

\* validate_operation_plan loads the policy once more.
ValidatePlan(c) ==
  LET p == plansMade[clerk[c].plan] IN
  /\ clerk[c].pc = "validate"
  /\ IF Loaded(p.space) /\ MayUse(policyRows[p.space], p.target)
     THEN Goes(c, [clerk[c] EXCEPT !.pc = "move"]) ELSE Rests(c)
  /\ UNCHANGED <<Rows, policyLock, policyBudget>>

\* The mover's adapter has the policy that was compared.  Of two requests for one
\* plan the first moves; SafeExecution has their race.
MovePlan(c) ==
  LET i == clerk[c].plan IN
  /\ clerk[c].pc = "move"
  /\ IF MayUse(clerk[c].held, plansMade[i].target)
     THEN plansMade' = [plansMade EXCEPT ![i].stage = "moved"] ELSE UNCHANGED plansMade
  /\ Rests(c)
  /\ UNCHANGED <<spaceRows, policyRows, policyAudits, policyLock, policyBudget>>
-----------------------------------------------------------------------------
(* The environment *)

\* A session waits five seconds for another one's transaction.
Busy(c) ==
  /\ clerk[c].pc \in {"insert", "set", "record"} /\ ~CanWrite
  /\ Rests(c)
  /\ UNCHANGED <<Rows, policyLock, policyBudget>>

\* The row is lost or made unreadable by another program.
Damaged ==
  /\ CanWrite /\ PolicyAllows("damages")
  /\ \E w \in DOMAIN policyRows : policyRows' = Restrict(policyRows, DOMAIN policyRows \ {w})
  /\ UNCHANGED <<spaceRows, policyAudits, plansMade, clerk, policyLock>>

PolicyNext ==
  \/ Damaged
  \/ \E c \in Clerk :
       \/ RequestWorkspace(c) \/ InsertWorkspace(c)
       \/ ReadForUpdate(c) \/ SetPolicy(c) \/ CommitUpdate(c) \/ AuditFails(c)
       \/ BuildPlan(c) \/ SnapshotPolicy(c) \/ RecordPlan(c) \/ CheckPlan(c) \/ ValidatePlan(c) \/ MovePlan(c)
       \/ Busy(c)

PolicySpec == PolicyInit /\ [][PolicyNext]_policyVars
-----------------------------------------------------------------------------
(* Properties *)

\* One directory is one workspace, however it is named and whoever asks at once
\* (services.py:905).
RootsAreApart == IsInjective(spaceRows)

\* The rules that were added and not removed since.
Told(trail) ==
  {r \in RuleName : \E i \in DOMAIN trail :
     r \in trail[i].added /\ \A j \in DOMAIN trail : j >= i => r \notin trail[j].removed}

\* The trail tells every update once and in order, and what it tells of the rules
\* is what the policy in force says: no update is lost (services.py:797).
TrailExplainsPolicy ==
  \A w \in DOMAIN spaceRows :
    LET trail == policyAudits[w] IN
    /\ \A i \in DOMAIN trail : trail[i].from = i - 1 /\ trail[i].to = i
    /\ Loaded(w) => policyRows[w].revision = Len(trail) /\ Range(policyRows[w].rules) = Told(trail)

\* A plan begins to be executed only if no update, not even one that a second has
\* taken back, came between its snapshot and the check, and it moves nothing that its
\* snapshot forbids (safe_execution.py:282).
PlansKeepPolicy ==
  /\ \A p \in ToSet(plansMade) :
       p.stage \in {"checked", "moved"} => p.checked = p.made /\ "execution" \in p.snapshot.enabled
  /\ \A p \in ToSet(plansMade) : p.stage = "moved" => MayUse(p.snapshot, p.target)

\* Policies are accounted for: by their trail, and by the plans made under them.
PoliciesAccounted == RootsAreApart /\ TrailExplainsPolicy /\ PlansKeepPolicy
=============================================================================
