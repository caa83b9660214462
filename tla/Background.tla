------------------------------ MODULE Background ------------------------------
(***************************************************************************)
(* The parts of FileNest beside a plan's execution under failures: the job *)
(* runner, an agent run and its records, the document index with its       *)
(* chunks, the desktop application, the way of a plan from its proposal to *)
(* its undo, paths, pages and workspace policies.  They share no state     *)
(* that their modules name, so each behaviour lets one of them run on a    *)
(* small instance, and the others, given nothing to do, stay as they are.  *)
(***************************************************************************)
EXTENDS JobProperties, AgentRunProperties, KnowledgeProperties, DocumentChunks,
        DesktopProperties, FolderChoice, PlanProposals, WorkspacePaths, ReadPages, AgentRecords, WorkspacePolicies

CONSTANTS
  j1, j2, j3, d1, d2, r1, r2,  \* jobs, drivers, requesters
  a, b,                        \* texts
  x, f1, f2, f3,               \* the stem of all names, files
  c1, c2                       \* clerks

Attempts == [j \in Job |-> IF j = j3 THEN 2 ELSE 1]
NoJobs == [keys |-> {}, units |-> 0, saves |-> 0, starts |-> 0]
SomeJobs ==
  {[keys |-> {j3}, units |-> 1, saves |-> 2, starts |-> 2],
   [keys |-> {j1, j2}, units |-> 0, saves |-> 1, starts |-> 1],
   [keys |-> {j2, j3}, units |-> 0, saves |-> 0, starts |-> 2]}
AllJobs == SomeJobs \cup {NoJobs}

NoRuns == [resumes |-> 0, interrupts |-> 0, faults |-> 0, starts |-> 0]
SomeRuns ==
  {[resumes |-> 2, interrupts |-> 0, faults |-> 0, starts |-> 2],
   [resumes |-> 1, interrupts |-> 1, faults |-> 1, starts |-> 1],
   [resumes |-> 1, interrupts |-> 1, faults |-> 0, starts |-> 2]}
AllRuns == SomeRuns \cup {NoRuns}

Records(runs, resumes, interrupts, faults, silent) ==
  [runs |-> runs, resumes |-> resumes, interrupts |-> interrupts, faults |-> faults, silent |-> silent]
NoRecords == Records(FALSE, 0, 0, 0, 0)
SomeRecords == {Records(TRUE, 1, 0, 1, 1), Records(TRUE, 1, 1, 0, 1)}
AllRecords == SomeRecords \cup {NoRecords}

Index(files, tasks, changes, deletes, searches, failures) ==
  [disk |-> files, tasks |-> tasks, changes |-> changes, deletes |-> deletes,
   searches |-> searches, failures |-> failures]
NoIndex == Index(<<Nothing, Nothing>>, 0, 0, 0, 0, 0)
SomeIndex ==
  {Index(<<a, Nothing>>, 5, 2, 0, 0, 0),
   Index(<<a, b>>, 4, 1, 0, 0, 1),
   Index(<<a, Nothing>>, 2, 1, 1, 1, 0)}
AllIndex == SomeIndex \cup {NoIndex}

MCParent == [d \in {"sub"} |-> "root"]
In(dir) == [dir |-> dir, name |-> <<x>>]
OneFile == In("in") :> f1
TwoFiles == In("in") :> f1 @@ In("sub") :> f2
Clicks(files, dropped, noticed, changes, undos, failures) ==
  [files |-> files,
   budget |-> [drops |-> dropped, notices |-> noticed, changes |-> changes,
               undos |-> undos, failures |-> failures]]
NoClicks == Clicks(<<>>, 0, 0, 0, 0, 0)
SomeClicks ==
  {Clicks(TwoFiles, 2, 0, 0, 1, 0), Clicks(OneFile, 1, 0, 1, 1, 1),
   Clicks(TwoFiles, 1, 1, 0, 1, 0)}
AllClicks == SomeClicks \cup {NoClicks}

MCDirAt == [d \in Dir |-> IF d = "link" THEN "right" ELSE d]
FileAt(dir, name) == [dir |-> dir, name |-> name]
Plans(files, proposals, edits, changes, scans, policies) ==
  [files |-> files, proposals |-> proposals, edits |-> edits, changes |-> changes,
   scans |-> scans, policies |-> policies]
NoPlans == Plans(<<>>, 0, 0, 0, 0, 0)
OneName == FileAt("left", "m") :> Original(1) @@ FileAt("top", "m") :> Original(2)
TwoNames == FileAt("left", "m") :> Original(1) @@ FileAt("top", "n") :> Original(2)
SomePlans ==
  {Plans(OneName, 1, 1, 1, 1, 0), Plans(TwoNames, 2, 0, 1, 0, 1), Plans(TwoNames, 1, 2, 0, 0, 0)}
AllPlans == SomePlans \cup {NoPlans}

MCLinks ==
  {Link(to) : to \in {<<>>, <<"a">>, <<"a", "f">>, <<"a", "b">>, <<"a", "b", "c">>, <<".h">>,
                      <<"l">>, <<"a", "k">>, <<"x">>, <<"..">>}}
Solid ==
  <<"a">> :> DirNode @@ <<"a", "f">> :> FileNode @@ <<"a", "s">> :> FileNode
  @@ <<"a", "b">> :> DirNode @@ <<"a", "b", "f">> :> FileNode
  @@ <<"a", "b", "c">> :> DirNode @@ <<"a", "b", "c", "f">> :> FileNode
  @@ <<".h">> :> DirNode @@ <<".h", "f">> :> FileNode
SomeTrees ==
  {<<"l">> :> l @@ Solid : l \in MCLinks}
  \cup {<<"l">> :> l @@ <<"a", "k">> :> k @@ Solid : l, k \in MCLinks}
Rule(denied, names, paths, suffixed) ==
  [denied |-> denied, names |-> names, paths |-> paths, suffixed |-> suffixed]
SomeRules ==
  {Rule({<<"a", "b">>}, {}, {}, {}), Rule({<<".h">>, <<"l">>}, {}, {}, {}), Rule({}, {"b"}, {}, {}),
   Rule({}, {}, {<<"a", "b">>, <<".h", "f">>}, {}), Rule({}, {"k"}, {}, {"c"}),
   Rule({<<"a", "f">>}, {}, {<<"l">>}, {"b"})}
NoSite == [node |-> <<>>, rules |-> Rule({}, {}, {}, {})]

E(fold, form) == [fold |-> fold, form |-> form]
SomeEntries == {E(1, 1), E(2, 1), E(2, 2), E(3, 1), E(4, 1)}
Reads(kind, present, dangling, changes) ==
  [kind |-> kind, there |-> present, dangling |-> dangling, changes |-> changes]
NoReads == Reads("none", {}, {}, 0)
SomeReads ==
  {Reads("directory", SomeEntries \ {E(4, 1)}, {}, 3),
   Reads("directory", {E(1, 1), E(3, 1)}, {E(2, 1)}, 3),
   Reads("search", SomeEntries \ {E(3, 1)}, {}, 3)}
AllReads == SomeReads \cup {NoReads}

MCLeadsTo == [name \in {"docs", "link", "gone"} |-> IF name = "gone" THEN "missing" ELSE "docs"]
Policies(roots, creates, updates, plans, failures, damages) ==
  [roots |-> roots, creates |-> creates, updates |-> updates, plans |-> plans,
   failures |-> failures, damages |-> damages]
NoPolicies == Policies(<<>>, 0, 0, 0, 0, 0)
SomePolicies ==
  {Policies(<<"docs">>, 0, 2, 1, 0, 0), Policies(<<"docs">>, 0, 2, 0, 1, 1),
   Policies(<<>>, 2, 1, 0, 0, 0)}
AllPolicies == SomePolicies \cup {NoPolicies}

MCScans ==
  {<<>>, << <<"a">>, <<"a", "b">>, <<"a", "b", "c">>, <<"d">> >>,
   << <<"a">>, <<"a", "b">>, <<"a", "b">> >>, << <<"a">>, <<"b">>, <<"c">> >>}
NoChoice == [scanned |-> <<>>, score |-> <<>>, short |-> FALSE, threshold |-> 85, midRangeAuto |-> FALSE]

NoDocument == [lines |-> <<>>, pages |-> <<>>, max |-> 1]

Idle == [jobs |-> NoJobs, run |-> NoRuns, index |-> NoIndex,
         clicks |-> NoClicks.budget, plans |-> NoPlans, site |-> NoSite,
         reads |-> NoReads, records |-> NoRecords, policies |-> NoPolicies, text |-> NoDocument,
         choice |-> NoChoice]
Turns ==
  {[Idle EXCEPT !.jobs = w] : w \in SomeJobs} \cup
  {[Idle EXCEPT !.run = w] : w \in SomeRuns} \cup
  {[Idle EXCEPT !.index = w] : w \in SomeIndex} \cup
  {[Idle EXCEPT !.clicks = w.budget] : w \in SomeClicks} \cup
  {[Idle EXCEPT !.plans = w] : w \in SomePlans} \cup
  {[Idle EXCEPT !.site = w] : w \in Site} \cup
  {[Idle EXCEPT !.reads = w] : w \in SomeReads} \cup
  {[Idle EXCEPT !.records = w] : w \in SomeRecords} \cup
  {[Idle EXCEPT !.policies = w] : w \in SomePolicies} \cup
  {[Idle EXCEPT !.text = w] : w \in Document} \cup
  {[Idle EXCEPT !.choice = w] : w \in Choice}

Init ==
  /\ \E turn \in Turns :
       /\ budget = turn.jobs /\ runBudget = turn.run /\ indexBudget = turn.index
       /\ desktopBudget = turn.clicks /\ proposalBudget = turn.plans /\ document = turn.text /\ site = turn.site
       /\ choice = turn.choice
       /\ readBudget = turn.reads /\ recordBudget = turn.records /\ policyBudget = turn.policies
  /\ JobInit /\ RunInit /\ KnowledgeInit /\ DesktopInit /\ ProposalInit /\ ReadInit /\ RecordInit /\ PolicyInit

\* The text, the tree and the folders of a behaviour are its input.
Input == <<document, site, choice>>

Next ==
  \/ /\ JobNext
     /\ UNCHANGED <<Input, runVars, knowledgeVars, desktopVars, proposalVars, readVars, recordVars, policyVars>>
  \/ /\ RunNext
     /\ UNCHANGED <<Input, jobVars, knowledgeVars, desktopVars, proposalVars, readVars, recordVars, policyVars>>
  \/ /\ KnowledgeNext
     /\ UNCHANGED <<Input, jobVars, runVars, desktopVars, proposalVars, readVars, recordVars, policyVars>>
  \/ /\ DesktopNext
     /\ UNCHANGED <<Input, jobVars, runVars, knowledgeVars, proposalVars, readVars, recordVars, policyVars>>
  \/ /\ ProposalNext
     /\ UNCHANGED <<Input, jobVars, runVars, knowledgeVars, desktopVars, readVars, recordVars, policyVars>>
  \/ /\ ReadNext
     /\ UNCHANGED <<Input, jobVars, runVars, knowledgeVars, desktopVars, proposalVars, recordVars, policyVars>>
  \/ /\ RecordNext
     /\ UNCHANGED <<Input, jobVars, runVars, knowledgeVars, desktopVars, proposalVars, readVars, policyVars>>
  \/ /\ PolicyNext
     /\ UNCHANGED <<Input, jobVars, runVars, knowledgeVars, desktopVars, proposalVars, readVars, recordVars>>

vars == <<Input, jobVars, runVars, knowledgeVars, desktopVars, proposalVars, readVars, recordVars, policyVars>>
Spec == Init /\ [][Next]_vars /\ JobFairness /\ RunFairness

\* The state of every part has its types.  The rows of jobs satisfy the rules
\* JobState validates (job_system.py:238), steps and tool calls of a run
\* stay within its limits, and the index has no path and no version twice.
TypesOK == JobTypeOK /\ RunTypeOK /\ KnowledgeTypeOK /\ DesktopTypeOK
=============================================================================
