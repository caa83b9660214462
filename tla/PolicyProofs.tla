------------------------------ MODULE PolicyProofs ------------------------------
(***************************************************************************)
(* Proofs about WorkspacePolicies, for any number of workspaces, requests, *)
(* rules and updates.                                                      *)
(***************************************************************************)
EXTENDS WorkspacePolicies, TLAPS

-----------------------------------------------------------------------------
(* The inductive invariant: what the rows are at any time, and what a request *)
(* remembers of them                                                          *)

Policy == [revision : Nat, enabled : SUBSET Switches, rules : Seq(RuleName)]
Event == [from : Nat, to : Nat, added : SUBSET RuleName, removed : SUBSET RuleName]
PlanRow ==
  [space : Nat, target : RuleName, snapshot : Policy, stage : {"waiting", "checked", "moved"},
   made : Nat, checked : Nat]
Work ==
  {Resting} \cup [pc : {"insert"}, root : Directory]
  \cup [pc : {"set", "audit"}, space : Nat, seen : Policy, next : Policy]
  \cup [pc : {"snapshot"}, space : Nat, target : RuleName]
  \cup [pc : {"record"}, space : Nat, target : RuleName, snapshot : Policy, made : Nat]
  \cup [pc : {"validate", "move"}, plan : Nat, held : Policy]

\* The types of the rows and of what a request remembers.
PolicyTypeOK ==
  /\ spaceRows \in Seq(Directory)
  /\ policyRows \in [DOMAIN policyRows -> Policy] /\ DOMAIN policyRows \subseteq DOMAIN spaceRows
  /\ policyAudits \in Seq(Seq(Event)) /\ Len(policyAudits) = Len(spaceRows)
  /\ plansMade \in Seq(PlanRow)
  /\ clerk \in [Clerk -> Work]
  /\ policyLock \in Clerk \cup {NoClerk}

\* What an update has read is older than the policy in force, or is that policy;
\* from its statement to its commit it is that policy, under the lock.
UpdateSound(c) ==
  clerk[c].pc \in {"set", "audit"} =>
    LET w == clerk[c].space
        seen == clerk[c].seen
    IN
    /\ w \in DOMAIN spaceRows
    /\ clerk[c].next.revision = seen.revision + 1
    /\ seen.revision <= Len(policyAudits[w])
    /\ Loaded(w) /\ policyRows[w].revision = seen.revision => seen = policyRows[w]
    /\ clerk[c].pc = "audit" =>
         policyLock = c /\ Loaded(w) /\ policyRows[w].revision = seen.revision

\* A request for a plan has a workspace, and its snapshot has the revision that the
\* trail had reached; one that executes a plan holds the plan's snapshot.
PlanSound(c) ==
  /\ clerk[c].pc \in {"snapshot", "record"} => clerk[c].space \in DOMAIN spaceRows
  /\ clerk[c].pc = "record" => clerk[c].snapshot.revision = clerk[c].made
  /\ clerk[c].pc \in {"validate", "move"} =>
       /\ clerk[c].plan \in DOMAIN plansMade
       /\ clerk[c].held = plansMade[clerk[c].plan].snapshot
       /\ plansMade[clerk[c].plan].stage # "waiting"

\* A snapshot has the revision that the trail had reached when it was taken.
SnapshotsDated ==
  \A i \in DOMAIN plansMade :
    plansMade[i].space \in DOMAIN spaceRows /\ plansMade[i].snapshot.revision = plansMade[i].made

\* The inductive invariant: with it, no update is lost and no plan is executed
\* under a policy other than its own (services.py, safe_execution.py).
PolicyInv ==
  /\ PolicyTypeOK /\ PoliciesAccounted /\ SnapshotsDated
  /\ \A c \in Clerk : UpdateSound(c) /\ PlanSound(c)

USE NoClerkAssumption, PolicyBudgetAssumption

-----------------------------------------------------------------------------
(* What the trail tells *)

\* One more event adds its rules to what the trail tells, and takes its removed
\* ones away.
LEMMA ToldStep ==
  ASSUME NEW trail \in Seq(Event), NEW e \in Event
  PROVE  Told(Append(trail, e)) = (Told(trail) \cup e.added) \ e.removed
<1> DEFINE k == Len(trail)
           longer == Append(trail, e)
<1>1. /\ k \in Nat /\ DOMAIN trail = 1..k /\ DOMAIN longer = 1..(k + 1)
      /\ longer[k + 1] = e /\ \A i \in 1..k : longer[i] = trail[i]
  OBVIOUS
<1>2. e.added \subseteq RuleName
  BY DEF Event
<1> HIDE DEF k, longer
<1>3. ASSUME NEW r \in Told(longer) PROVE r \in (Told(trail) \cup e.added) \ e.removed
  <2>1. PICK i \in 1..(k + 1) :
          r \in longer[i].added /\ \A j \in 1..(k + 1) : j >= i => r \notin longer[j].removed
    BY <1>1, <1>3 DEF Told
  <2>2. r \in RuleName /\ r \notin e.removed
    BY <1>1, <1>3, <2>1 DEF Told
  <2>3. CASE i = k + 1
    BY <1>1, <2>1, <2>2, <2>3
  <2>4. CASE i \in 1..k
    <3>1. r \in trail[i].added /\ \A j \in 1..k : j >= i => r \notin trail[j].removed
      BY <1>1, <2>1, <2>4
    <3> QED
      BY <1>1, <2>2, <2>4, <3>1 DEF Told
  <2> QED
    BY <1>1, <2>3, <2>4
<1>4. ASSUME NEW r \in (Told(trail) \cup e.added) \ e.removed PROVE r \in Told(longer)
  <2>1. CASE r \in e.added
    <3>1. k + 1 \in 1..(k + 1) /\ \A j \in 1..(k + 1) : j >= k + 1 => j = k + 1
      BY <1>1
    <3> QED
      BY <1>1, <1>2, <1>4, <2>1, <3>1 DEF Told
  <2>2. CASE r \in Told(trail)
    <3>1. PICK i \in 1..k : r \in trail[i].added /\ \A j \in 1..k : j >= i => r \notin trail[j].removed
      BY <1>1, <2>2 DEF Told
    <3>2. r \in longer[i].added /\ \A j \in 1..(k + 1) : j >= i => r \notin longer[j].removed
      BY <1>1, <1>4, <3>1
    <3>3. i \in DOMAIN longer /\ \A j \in DOMAIN longer : j >= i => r \notin longer[j].removed
      BY <1>1, <3>2
    <3>4. r \in RuleName
      BY <2>2 DEF Told
    <3> QED
      BY <3>2, <3>3, <3>4 DEF Told
  <2> QED
    BY <1>4, <2>1, <2>2
<1> QED
  BY <1>3, <1>4 DEF longer

\* An audit event tells the difference of two policies.
LEMMA EventTells ==
  ASSUME NEW before \in Policy, NEW after \in Policy, after.revision = before.revision + 1
  PROVE  /\ AuditEvent(before, after) \in Event
         /\ AuditEvent(before, after).from = before.revision
         /\ AuditEvent(before, after).to = before.revision + 1
         /\ (Range(before.rules) \cup AuditEvent(before, after).added) \ AuditEvent(before, after).removed
              = Range(after.rules)
<1>1. Range(before.rules) \subseteq RuleName /\ Range(after.rules) \subseteq RuleName
  BY DEF Policy, Range
<1>2. before.revision \in Nat /\ after.revision \in Nat
  BY DEF Policy
<1> QED
  BY <1>1, <1>2 DEF AuditEvent, Event

-----------------------------------------------------------------------------
(* Init *)

LEMMA InvInit == PolicyInit => PolicyInv
<1> SUFFICES ASSUME PolicyInit PROVE PolicyInv
  OBVIOUS
<1>1. spaceRows \in Seq(Directory) /\ IsInjective(spaceRows)
  BY DEF PolicyInit
<1>2. DefaultPolicy \in Policy /\ DefaultPolicy.revision = 0 /\ DefaultPolicy.rules = <<>>
  BY DEF DefaultPolicy, Policy
<1>3. /\ policyRows \in [DOMAIN spaceRows -> Policy] /\ DOMAIN policyRows = DOMAIN spaceRows
      /\ \A w \in DOMAIN spaceRows : policyRows[w] = DefaultPolicy
  BY <1>2 DEF PolicyInit
<1>4. /\ policyAudits \in Seq(Seq(Event)) /\ Len(policyAudits) = Len(spaceRows)
      /\ \A w \in DOMAIN spaceRows : policyAudits[w] = <<>>
  <2>1. PICK n \in Nat : Len(spaceRows) = n /\ DOMAIN spaceRows = 1..n
    BY <1>1
  <2>2. policyAudits = [w \in 1..n |-> <<>>]
    BY <2>1 DEF PolicyInit
  <2>3. <<>> \in Seq(Event)
    OBVIOUS
  <2>4. policyAudits \in Seq(Seq(Event)) /\ Len(policyAudits) = n
    BY <2>2, <2>3
  <2> QED
    BY <2>1, <2>2, <2>4
<1>5. plansMade = <<>> /\ clerk \in [Clerk -> Work] /\ \A c \in Clerk : clerk[c].pc = "idle"
  BY DEF PolicyInit, Work, Resting
<1>6. PolicyTypeOK
  BY <1>1, <1>3, <1>4, <1>5 DEF PolicyTypeOK, PolicyInit
<1>7. TrailExplainsPolicy
  BY <1>2, <1>3, <1>4 DEF TrailExplainsPolicy, Told, Range
<1>8. PlansKeepPolicy /\ SnapshotsDated
  BY <1>5 DEF PlansKeepPolicy, SnapshotsDated, ToSet
<1>9. \A c \in Clerk : UpdateSound(c) /\ PlanSound(c)
  BY <1>5 DEF UpdateSound, PlanSound
<1> QED
  BY <1>1, <1>6, <1>7, <1>8, <1>9 DEF PolicyInv, PoliciesAccounted, RootsAreApart

-----------------------------------------------------------------------------
(* Steps that change no row *)

\* A request goes on with work that is sound, and the lock stays with an update
\* that waits for its commit.
LEMMA QuietStep ==
  ASSUME PolicyInv, UNCHANGED Rows, NEW c \in Clerk, NEW work \in Work, Goes(c, work),
         policyLock' \in Clerk \cup {NoClerk},
         \A d \in Clerk \ {c} : clerk[d].pc = "audit" => policyLock' = policyLock,
         UpdateSound(c)', PlanSound(c)'
  PROVE  PolicyInv'
<1>1. clerk' = [clerk EXCEPT ![c] = work] /\ clerk \in [Clerk -> Work]
  BY DEF Goes, PolicyInv, PolicyTypeOK
<1>2. clerk' \in [Clerk -> Work] /\ clerk'[c] = work /\ \A d \in Clerk \ {c} : clerk'[d] = clerk[d]
  BY <1>1
<1>3. PolicyTypeOK'
  BY <1>2 DEF PolicyInv, PolicyTypeOK, Rows
<1>4. PoliciesAccounted' /\ SnapshotsDated'
  BY DEF PolicyInv, PoliciesAccounted, RootsAreApart, TrailExplainsPolicy, PlansKeepPolicy,
         SnapshotsDated, Rows, Loaded
<1>5. ASSUME NEW d \in Clerk \ {c} PROVE UpdateSound(d)' /\ PlanSound(d)'
  <2>1. UpdateSound(d) /\ PlanSound(d)
    BY DEF PolicyInv
  <2>2. clerk'[d] = clerk[d]
    BY <1>2
  <2> QED
    BY <2>1, <2>2 DEF UpdateSound, PlanSound, Rows, Loaded
<1> QED
  BY <1>3, <1>4, <1>5 DEF PolicyInv

\* A request that ends is sound.
LEMMA Ended ==
  ASSUME PolicyTypeOK, NEW c \in Clerk, Rests(c)
  PROVE  /\ clerk' \in [Clerk -> Work] /\ \A d \in Clerk \ {c} : clerk'[d] = clerk[d]
         /\ Resting \in Work /\ Goes(c, Resting) /\ UpdateSound(c)' /\ PlanSound(c)'
<1>1. clerk' = [clerk EXCEPT ![c] = Resting] /\ clerk \in [Clerk -> Work] /\ Resting \in Work
  BY DEF Rests, Goes, PolicyTypeOK, Work
<1>2. clerk'[c].pc = "idle"
  BY <1>1 DEF Resting
<1> QED
  BY <1>1, <1>2 DEF UpdateSound, PlanSound, Rests

\* The fields of the work that is under way.
LEMMA WorkFields ==
  ASSUME NEW work \in Work
  PROVE  /\ work.pc = "insert" => work.root \in Directory
         /\ work.pc \in {"set", "audit"} => work.space \in Nat /\ work.seen \in Policy /\ work.next \in Policy
         /\ work.pc = "snapshot" => work.space \in Nat /\ work.target \in RuleName
         /\ work.pc = "record" =>
              /\ work.space \in Nat /\ work.target \in RuleName
              /\ work.snapshot \in Policy /\ work.made \in Nat
         /\ work.pc \in {"validate", "move"} => work.plan \in Nat /\ work.held \in Policy
  BY DEF Work, Resting

LEMMA QuietActions ==
  ASSUME PolicyInv, NEW c \in Clerk,
         \/ RequestWorkspace(c) \/ ReadForUpdate(c) \/ SetPolicy(c) \/ AuditFails(c)
         \/ BuildPlan(c) \/ SnapshotPolicy(c) \/ ValidatePlan(c) \/ Busy(c)
  PROVE  PolicyInv'
<1>t. PolicyTypeOK /\ clerk[c] \in Work /\ UpdateSound(c) /\ PlanSound(c) /\ policyLock \in Clerk \cup {NoClerk}
  BY DEF PolicyInv, PolicyTypeOK
<1>1. CASE RequestWorkspace(c)
  <2>1. PICK name \in DOMAIN LeadsTo :
          /\ LeadsTo[name] # "missing"
          /\ Goes(c, [pc |-> "insert", root |-> LeadsTo[name]])
    BY <1>1 DEF RequestWorkspace, Rooted
  <2>2. PICK work : work = [pc |-> "insert", root |-> LeadsTo[name]]
    OBVIOUS
  <2>3. work \in Work /\ work.pc = "insert"
    BY <2>1, <2>2 DEF Work, Directory, Range
  <2>4. clerk'[c] = work
    BY <1>t, <2>1, <2>2 DEF Goes, PolicyTypeOK
  <2>5. UpdateSound(c)' /\ PlanSound(c)'
    BY <2>3, <2>4 DEF UpdateSound, PlanSound
  <2> QED
    BY <1>1, <1>t, <2>1, <2>2, <2>3, <2>5, QuietStep DEF RequestWorkspace
<1>2. CASE ReadForUpdate(c)
  <2>1. PICK w \in DOMAIN spaceRows, asked \in Asked :
          /\ Loaded(w)
          /\ Goes(c, [pc |-> "set", space |-> w, seen |-> policyRows[w],
                      next |-> [revision |-> policyRows[w].revision + 1,
                                enabled |-> asked.enabled, rules |-> asked.rules]])
    BY <1>2 DEF ReadForUpdate
  <2>2. PICK seen, next, work :
          /\ seen = policyRows[w]
          /\ next = [revision |-> policyRows[w].revision + 1, enabled |-> asked.enabled, rules |-> asked.rules]
          /\ work = [pc |-> "set", space |-> w, seen |-> seen, next |-> next]
    OBVIOUS
  <2>3. seen \in Policy
    BY <1>t, <2>1, <2>2 DEF PolicyTypeOK, Loaded
  <2>4. next \in Policy
    <3>1. asked.enabled \in SUBSET Switches /\ asked.rules \in SeqOf(RuleName, 2)
      BY <2>1 DEF Asked
    <3>2. asked.rules \in Seq(RuleName)
      <4>1. PICK m \in 0..2 : asked.rules \in [1..m -> RuleName]
        BY <3>1 DEF SeqOf
      <4>2. m \in Nat
        OBVIOUS
      <4> QED
        BY <4>1, <4>2
    <3>3. policyRows[w].revision + 1 \in Nat
      BY <2>2, <2>3 DEF Policy
    <3> QED
      BY <2>2, <3>1, <3>2, <3>3 DEF Policy
  <2>5. w \in Nat
    BY <1>t DEF PolicyTypeOK
  <2>6. work \in Work
    BY <2>2, <2>3, <2>4, <2>5 DEF Work
  <2>7. clerk'[c] = work /\ Goes(c, work)
    BY <1>t, <2>1, <2>2 DEF Goes, PolicyTypeOK
  <2>8. UNCHANGED Rows /\ UNCHANGED policyLock
    BY <1>2 DEF ReadForUpdate
  <2>9. seen.revision = Len(policyAudits[w]) /\ next.revision = seen.revision + 1 /\ seen.revision \in Nat
    BY <2>1, <2>2, <2>3 DEF PolicyInv, PoliciesAccounted, TrailExplainsPolicy, Policy
  <2>10. UpdateSound(c)' /\ PlanSound(c)'
    <3>1. work.pc = "set" /\ work.space = w /\ work.seen = seen /\ work.next = next
      BY <2>2
    <3> QED
      BY <2>1, <2>2, <2>7, <2>8, <2>9, <3>1 DEF UpdateSound, PlanSound, Rows, Loaded
  <2> QED
    BY <1>t, <2>6, <2>7, <2>8, <2>10, QuietStep
<1>3. CASE SetPolicy(c)
  <2>1. clerk[c].pc = "set" /\ policyLock = NoClerk /\ UNCHANGED Rows
    BY <1>3 DEF SetPolicy, CanWrite
  <2>2. \A d \in Clerk : clerk[d].pc # "audit"
    BY <2>1 DEF PolicyInv, UpdateSound
  <2>3. CASE Replaces(clerk[c].space, clerk[c].seen)
    <3>1. Goes(c, [clerk[c] EXCEPT !.pc = "audit"]) /\ policyLock' = c
      BY <1>3, <2>3 DEF SetPolicy
    <3>2. PICK work : work = [clerk[c] EXCEPT !.pc = "audit"]
      OBVIOUS
    <3>3. work \in Work /\ work.pc = "audit" /\ work.space = clerk[c].space
          /\ work.seen = clerk[c].seen /\ work.next = clerk[c].next
      BY <1>t, <2>1, <3>2 DEF Work, Resting
    <3>4. clerk'[c] = work
      BY <1>t, <3>1, <3>2 DEF Goes, PolicyTypeOK
    <3>5. Loaded(clerk[c].space) /\ policyRows[clerk[c].space].revision = clerk[c].seen.revision
      BY <2>3 DEF Replaces
    <3>6. UpdateSound(c)' /\ PlanSound(c)'
      BY <1>t, <2>1, <3>1, <3>3, <3>4, <3>5 DEF UpdateSound, PlanSound, Rows, Loaded
    <3> QED
      BY <2>1, <2>2, <3>1, <3>2, <3>3, <3>6, QuietStep
  <2>4. CASE ~Replaces(clerk[c].space, clerk[c].seen)
    <3>1. Rests(c) /\ UNCHANGED policyLock
      BY <1>3, <2>4 DEF SetPolicy
    <3> QED
      BY <1>t, <2>1, <3>1, Ended, QuietStep
  <2> QED
    BY <2>3, <2>4
<1>4. CASE AuditFails(c)
  <2>1. Rests(c) /\ UNCHANGED Rows /\ policyLock' = NoClerk /\ clerk[c].pc = "audit"
    BY <1>4 DEF AuditFails
  <2>2. \A d \in Clerk \ {c} : clerk[d].pc # "audit"
    BY <2>1 DEF PolicyInv, UpdateSound
  <2> QED
    BY <1>t, <2>1, <2>2, Ended, QuietStep
<1>5. CASE BuildPlan(c)
  <2>1. PICK w \in DOMAIN spaceRows, target \in RuleName :
          Goes(c, [pc |-> "snapshot", space |-> w, target |-> target])
    BY <1>5 DEF BuildPlan
  <2>2. PICK work : work = [pc |-> "snapshot", space |-> w, target |-> target]
    OBVIOUS
  <2>3. work \in Work /\ work.pc = "snapshot" /\ work.space = w
    <3>1. w \in Nat
      BY <1>t DEF PolicyTypeOK
    <3> QED
      BY <2>2, <3>1 DEF Work
  <2>4. clerk'[c] = work
    BY <1>t, <2>1, <2>2 DEF Goes, PolicyTypeOK
  <2>5. UNCHANGED Rows /\ UNCHANGED policyLock
    BY <1>5 DEF BuildPlan
  <2>6. UpdateSound(c)' /\ PlanSound(c)'
    BY <2>3, <2>4, <2>5 DEF UpdateSound, PlanSound, Rows
  <2> QED
    BY <1>t, <2>1, <2>2, <2>3, <2>5, <2>6, QuietStep
<1>6. CASE ValidatePlan(c)
  <2>1. clerk[c].pc = "validate" /\ UNCHANGED Rows /\ UNCHANGED policyLock
    BY <1>6 DEF ValidatePlan
  <2>2. CASE Rests(c)
    BY <1>t, <2>1, <2>2, Ended, QuietStep
  <2>3. CASE Goes(c, [clerk[c] EXCEPT !.pc = "move"])
    <3>1. PICK work : work = [clerk[c] EXCEPT !.pc = "move"]
      OBVIOUS
    <3>2. work \in Work /\ work.pc = "move" /\ work.plan = clerk[c].plan /\ work.held = clerk[c].held
      BY <1>t, <2>1, <3>1 DEF Work, Resting
    <3>3. clerk'[c] = work
      BY <1>t, <2>3, <3>1 DEF Goes, PolicyTypeOK
    <3>4. UpdateSound(c)' /\ PlanSound(c)'
      BY <1>t, <2>1, <3>2, <3>3 DEF UpdateSound, PlanSound, Rows
    <3> QED
      BY <1>t, <2>1, <2>3, <3>1, <3>2, <3>4, QuietStep
  <2> QED
    BY <1>6, <2>2, <2>3 DEF ValidatePlan
<1>7. CASE Busy(c)
  BY <1>7, <1>t, Ended, QuietStep DEF Busy
<1>8. CASE SnapshotPolicy(c)
  <2>1. clerk[c].pc = "snapshot" /\ UNCHANGED Rows /\ UNCHANGED policyLock
    BY <1>8 DEF SnapshotPolicy
  <2>2. CASE ~MayPropose(clerk[c].space)
    <3>1. Rests(c)
      BY <1>8, <2>2 DEF SnapshotPolicy
    <3> QED
      BY <1>t, <2>1, <3>1, Ended, QuietStep
  <2>3. CASE MayPropose(clerk[c].space)
    <3>1. PICK w \in DOMAIN policyRows, target \in RuleName : w = clerk[c].space /\ target = clerk[c].target
      BY <1>t, <2>1, <2>3, WorkFields DEF MayPropose, Loaded
    <3>2. PICK snapshot, made, work :
            /\ snapshot = policyRows[w] /\ made = Len(policyAudits[w])
            /\ work = [pc |-> "record", space |-> w, target |-> target, snapshot |-> snapshot, made |-> made]
      OBVIOUS
    <3>3. w \in DOMAIN spaceRows /\ w \in Nat /\ snapshot \in Policy /\ made \in Nat
      <4>1. w \in DOMAIN spaceRows /\ snapshot \in Policy /\ w \in Nat
        BY <1>t, <3>2 DEF PolicyTypeOK
      <4>2. policyAudits[w] \in Seq(Event)
        BY <1>t, <4>1 DEF PolicyTypeOK
      <4> QED
        BY <3>2, <4>1, <4>2
    <3>4. snapshot.revision = made
      BY <3>1, <3>2, <3>3 DEF PolicyInv, PoliciesAccounted, TrailExplainsPolicy, Loaded
    <3>5. /\ work \in Work /\ work.pc = "record" /\ work.space = w
          /\ work.snapshot = snapshot /\ work.made = made
      BY <3>2, <3>3 DEF Work
    <3>6. Goes(c, work) /\ clerk'[c] = work
      BY <1>8, <1>t, <2>3, <3>1, <3>2 DEF SnapshotPolicy, Goes, PolicyTypeOK
    <3>7. UpdateSound(c)' /\ PlanSound(c)'
      BY <2>1, <3>3, <3>4, <3>5, <3>6 DEF UpdateSound, PlanSound, Rows
    <3> QED
      BY <1>t, <2>1, <3>5, <3>6, <3>7, QuietStep
  <2> QED
    BY <2>2, <2>3
<1> QED
  BY <1>1, <1>2, <1>3, <1>4, <1>5, <1>6, <1>7, <1>8

-----------------------------------------------------------------------------
(* Steps that change rows *)

\* A workspace is inserted with the default policy and an empty trail.
LEMMA InsertStep ==
  ASSUME PolicyInv, NEW c \in Clerk, InsertWorkspace(c)
  PROVE  PolicyInv'
<1>t. PolicyTypeOK /\ clerk[c] \in Work
  BY DEF PolicyInv, PolicyTypeOK
<1>0. clerk[c].pc = "insert" /\ policyLock = NoClerk /\ Rests(c) /\ UNCHANGED policyLock
  BY DEF InsertWorkspace, CanWrite
<1>1. CASE RootTaken(clerk[c].root)
  BY <1>t, <1>0, <1>1, Ended, QuietStep DEF InsertWorkspace, PolicyTypeOK
<1>2. CASE ~RootTaken(clerk[c].root)
  <2>1. PICK root \in Directory, n \in Nat : root = clerk[c].root /\ n = Len(spaceRows)
    <3>1. clerk[c].root \in Directory
      BY <1>t, <1>0, WorkFields
    <3>2. Len(spaceRows) \in Nat
      BY <1>t DEF PolicyTypeOK
    <3> QED
      BY <3>1, <3>2
  <2>2. /\ spaceRows' = Append(spaceRows, root) /\ policyAudits' = Append(policyAudits, <<>>)
        /\ policyRows' = [w \in DOMAIN policyRows \cup {n + 1} |->
                            IF Loaded(w) THEN policyRows[w] ELSE DefaultPolicy]
        /\ UNCHANGED plansMade
    BY <1>2, <2>1 DEF InsertWorkspace
  <2>3. /\ spaceRows \in Seq(Directory) /\ DOMAIN spaceRows = 1..n
        /\ policyAudits \in Seq(Seq(Event)) /\ Len(policyAudits) = n
        /\ DOMAIN policyRows \subseteq 1..n /\ n + 1 \notin DOMAIN policyRows
    BY <1>t, <2>1 DEF PolicyTypeOK
  <2>4. /\ spaceRows' \in Seq(Directory) /\ DOMAIN spaceRows' = 1..(n + 1) /\ Len(spaceRows') = n + 1
        /\ spaceRows'[n + 1] = root /\ \A w \in 1..n : spaceRows'[w] = spaceRows[w]
    BY <2>1, <2>2, <2>3
  <2>5. /\ policyAudits' \in Seq(Seq(Event)) /\ Len(policyAudits') = n + 1
        /\ policyAudits'[n + 1] = <<>> /\ \A w \in 1..n : policyAudits'[w] = policyAudits[w]
    BY <2>2, <2>3
  <2>6. DefaultPolicy \in Policy /\ DefaultPolicy.revision = 0 /\ DefaultPolicy.rules = <<>>
    BY DEF DefaultPolicy, Policy
  <2>7. /\ policyRows' \in [DOMAIN policyRows' -> Policy]
        /\ DOMAIN policyRows' = DOMAIN policyRows \cup {n + 1}
        /\ policyRows'[n + 1] = DefaultPolicy /\ \A w \in DOMAIN policyRows : policyRows'[w] = policyRows[w]
    BY <1>t, <2>2, <2>3, <2>6 DEF PolicyTypeOK, Loaded
  <2>8. \A w \in 1..n : Loaded(w)' <=> Loaded(w)
    BY <2>3, <2>7 DEF Loaded
  <2>9. /\ clerk' \in [Clerk -> Work] /\ \A d \in Clerk \ {c} : clerk'[d] = clerk[d]
        /\ UpdateSound(c)' /\ PlanSound(c)'
    BY <1>t, <1>0, Ended
  <2>10. PolicyTypeOK'
    BY <1>t, <1>0, <2>2, <2>3, <2>4, <2>5, <2>7, <2>9 DEF PolicyTypeOK
  <2>11. RootsAreApart'
    <3>1. \A w \in 1..n : spaceRows[w] # root
      BY <1>2, <2>1, <2>3 DEF RootTaken, Range
    <3>2. \A v, w \in 1..n : spaceRows[v] = spaceRows[w] => v = w
      BY <2>3 DEF PolicyInv, PoliciesAccounted, RootsAreApart, IsInjective
    <3> QED
      BY <2>1, <2>4, <3>1, <3>2 DEF RootsAreApart, IsInjective
  <2>12. TrailExplainsPolicy'
    <3> SUFFICES ASSUME NEW w \in 1..(n + 1)
                 PROVE  /\ \A i \in DOMAIN policyAudits'[w] :
                             policyAudits'[w][i].from = i - 1 /\ policyAudits'[w][i].to = i
                        /\ w \in DOMAIN policyRows' =>
                             /\ policyRows'[w].revision = Len(policyAudits'[w])
                             /\ Range(policyRows'[w].rules) = Told(policyAudits'[w])
      BY <2>4 DEF TrailExplainsPolicy, Loaded
    <3>1. CASE w = n + 1
      BY <2>5, <2>6, <2>7, <3>1 DEF Told, Range
    <3>2. CASE w \in 1..n
      <4>1. w \in DOMAIN spaceRows /\ policyAudits'[w] = policyAudits[w]
            /\ (w \in DOMAIN policyRows' => w \in DOMAIN policyRows /\ policyRows'[w] = policyRows[w])
        BY <2>3, <2>5, <2>7, <3>2
      <4> QED
        BY <4>1 DEF PolicyInv, PoliciesAccounted, TrailExplainsPolicy, Loaded
    <3> QED
      BY <2>1, <3>1, <3>2
  <2>13. PlansKeepPolicy' /\ SnapshotsDated'
    BY <2>1, <2>2, <2>3, <2>4 DEF PolicyInv, PoliciesAccounted, PlansKeepPolicy, SnapshotsDated
  <2>14. ASSUME NEW d \in Clerk \ {c} PROVE UpdateSound(d)' /\ PlanSound(d)'
    <3>1. UpdateSound(d) /\ PlanSound(d) /\ clerk'[d] = clerk[d]
      BY <2>9 DEF PolicyInv
    <3>2. PlanSound(d)'
      BY <2>1, <2>2, <2>3, <2>4, <3>1 DEF PlanSound
    <3>3. UpdateSound(d)'
      <4>1. CASE clerk[d].pc \in {"set", "audit"}
        <5>1. PICK w \in 1..n : w = clerk[d].space
          BY <2>3, <3>1, <4>1 DEF UpdateSound
        <5>2. /\ w \in DOMAIN spaceRows' /\ policyAudits'[w] = policyAudits[w] /\ (Loaded(w)' <=> Loaded(w))
              /\ (Loaded(w) => policyRows'[w] = policyRows[w])
          BY <2>1, <2>4, <2>5, <2>7, <2>8 DEF Loaded
        <5> QED
          BY <1>0, <3>1, <5>1, <5>2 DEF UpdateSound
      <4>2. CASE clerk[d].pc \notin {"set", "audit"}
        BY <3>1, <4>2 DEF UpdateSound
      <4> QED
        BY <4>1, <4>2
    <3> QED
      BY <3>2, <3>3
  <2> QED
    BY <2>9, <2>10, <2>11, <2>12, <2>13, <2>14 DEF PolicyInv, PoliciesAccounted
<1> QED
  BY <1>1, <1>2

\* A policy that is lost is not replaced.
LEMMA DamagedStep ==
  ASSUME PolicyInv, Damaged
  PROVE  PolicyInv'
<1>t. PolicyTypeOK
  BY DEF PolicyInv
<1>1. PICK w \in DOMAIN policyRows : policyRows' = Restrict(policyRows, DOMAIN policyRows \ {w})
  BY DEF Damaged
<1>2. /\ policyLock = NoClerk
      /\ UNCHANGED <<spaceRows, policyAudits, plansMade, clerk, policyLock>>
  BY DEF Damaged, CanWrite
<1>3. /\ DOMAIN policyRows' = DOMAIN policyRows \ {w}
      /\ \A v \in DOMAIN policyRows \ {w} : policyRows'[v] = policyRows[v]
      /\ policyRows' \in [DOMAIN policyRows' -> Policy]
  BY <1>t, <1>1 DEF Restrict, PolicyTypeOK
<1>4. PolicyTypeOK'
  BY <1>t, <1>2, <1>3 DEF PolicyTypeOK
<1>5. PoliciesAccounted' /\ SnapshotsDated'
  BY <1>2, <1>3 DEF PolicyInv, PoliciesAccounted, RootsAreApart, TrailExplainsPolicy, PlansKeepPolicy,
     SnapshotsDated, Loaded
<1>6. ASSUME NEW d \in Clerk PROVE UpdateSound(d)' /\ PlanSound(d)'
  <2>1. UpdateSound(d) /\ PlanSound(d) /\ clerk[d].pc # "audit"
    BY <1>2 DEF PolicyInv, UpdateSound
  <2> QED
    BY <1>2, <1>3, <2>1 DEF UpdateSound, PlanSound, Loaded
<1> QED
  BY <1>4, <1>5, <1>6 DEF PolicyInv

\* An update commits its policy and its event: it replaces the policy it has read.
LEMMA CommitStep ==
  ASSUME PolicyInv, NEW c \in Clerk, CommitUpdate(c)
  PROVE  PolicyInv'
<1>t. PolicyTypeOK /\ clerk[c] \in Work /\ UpdateSound(c) /\ clerk[c].pc = "audit"
  BY DEF PolicyInv, PolicyTypeOK, CommitUpdate
<1>1. PICK w \in DOMAIN spaceRows, seen \in Policy, next \in Policy :
        w = clerk[c].space /\ seen = clerk[c].seen /\ next = clerk[c].next
  <2>1. clerk[c].seen \in Policy /\ clerk[c].next \in Policy
    BY <1>t, WorkFields
  <2> QED
    BY <1>t, <2>1 DEF UpdateSound
<1>2. /\ policyLock = c /\ w \in DOMAIN policyRows /\ seen = policyRows[w]
      /\ next.revision = seen.revision + 1
  BY <1>t, <1>1 DEF UpdateSound, Loaded
<1>3. PICK e : e = AuditEvent(seen, next)
  OBVIOUS
<1>4. /\ policyRows' = [policyRows EXCEPT ![w] = next]
      /\ policyAudits' = [policyAudits EXCEPT ![w] = Append(@, e)]
      /\ UNCHANGED <<spaceRows, plansMade>> /\ Rests(c) /\ policyLock' = NoClerk
  BY <1>1, <1>3 DEF CommitUpdate
<1>5. PICK trail \in Seq(Event) : trail = policyAudits[w]
  BY <1>t DEF PolicyTypeOK
<1>6. /\ e \in Event /\ e.from = seen.revision /\ e.to = seen.revision + 1
      /\ (Range(seen.rules) \cup e.added) \ e.removed = Range(next.rules)
  BY <1>2, <1>3, EventTells
<1>7. /\ seen.revision = Len(trail) /\ Range(seen.rules) = Told(trail)
      /\ \A i \in DOMAIN trail : trail[i].from = i - 1 /\ trail[i].to = i
  BY <1>2, <1>5 DEF PolicyInv, PoliciesAccounted, TrailExplainsPolicy, Loaded
<1>8. /\ policyRows' \in [DOMAIN policyRows' -> Policy] /\ DOMAIN policyRows' = DOMAIN policyRows
      /\ policyRows'[w] = next /\ \A v \in DOMAIN policyRows \ {w} : policyRows'[v] = policyRows[v]
  BY <1>t, <1>2, <1>4 DEF PolicyTypeOK
<1>9. PICK longer \in Seq(Event) : longer = Append(trail, e)
  <2>1. e \in Event
    BY <1>6
  <2>2. Append(trail, e) \in Seq(Event)
    BY <2>1
  <2> QED
    BY <2>2
<1>10. /\ policyAudits' \in Seq(Seq(Event)) /\ Len(policyAudits') = Len(policyAudits)
       /\ policyAudits'[w] = longer /\ \A v \in DOMAIN spaceRows \ {w} : policyAudits'[v] = policyAudits[v]
  BY <1>t, <1>4, <1>5, <1>9 DEF PolicyTypeOK
<1>11. /\ Len(longer) = Len(trail) + 1 /\ Len(trail) \in Nat
       /\ DOMAIN longer = 1..(Len(trail) + 1) /\ DOMAIN trail = 1..Len(trail)
       /\ longer[Len(trail) + 1] = e /\ \A i \in 1..Len(trail) : longer[i] = trail[i]
  BY <1>9
<1>12. /\ clerk' \in [Clerk -> Work] /\ \A d \in Clerk \ {c} : clerk'[d] = clerk[d]
       /\ UpdateSound(c)' /\ PlanSound(c)'
  BY <1>t, <1>4, Ended
<1>13. PolicyTypeOK'
  BY <1>t, <1>4, <1>8, <1>10, <1>12 DEF PolicyTypeOK
<1>14. RootsAreApart' /\ PlansKeepPolicy' /\ SnapshotsDated'
  BY <1>4 DEF PolicyInv, PoliciesAccounted, RootsAreApart, PlansKeepPolicy, SnapshotsDated
<1>15. TrailExplainsPolicy'
  <2> SUFFICES ASSUME NEW v \in DOMAIN spaceRows
               PROVE  /\ \A i \in DOMAIN policyAudits'[v] :
                           policyAudits'[v][i].from = i - 1 /\ policyAudits'[v][i].to = i
                      /\ v \in DOMAIN policyRows' =>
                           /\ policyRows'[v].revision = Len(policyAudits'[v])
                           /\ Range(policyRows'[v].rules) = Told(policyAudits'[v])
    BY <1>4 DEF TrailExplainsPolicy, Loaded
  <2>1. CASE v = w
    <3>1. next.revision = Len(longer)
      BY <1>2, <1>7, <1>11
    <3>2. Range(next.rules) = Told(longer)
      BY <1>6, <1>7, <1>9, ToldStep
    <3>3. \A i \in 1..(Len(trail) + 1) : longer[i].from = i - 1 /\ longer[i].to = i
      BY <1>6, <1>7, <1>11
    <3> QED
      BY <1>8, <1>10, <1>11, <2>1, <3>1, <3>2, <3>3
  <2>2. CASE v # w
    <3>1. policyAudits'[v] = policyAudits[v] /\ (v \in DOMAIN policyRows' => policyRows'[v] = policyRows[v])
      BY <1>8, <1>10, <2>2
    <3> QED
      BY <1>8, <3>1 DEF PolicyInv, PoliciesAccounted, TrailExplainsPolicy, Loaded
  <2> QED
    BY <2>1, <2>2
<1>16. ASSUME NEW d \in Clerk \ {c} PROVE UpdateSound(d)' /\ PlanSound(d)'
  <2>1. UpdateSound(d) /\ PlanSound(d) /\ clerk'[d] = clerk[d] /\ clerk[d].pc # "audit" /\ clerk[d] \in Work
    BY <1>2, <1>12 DEF PolicyInv, UpdateSound, PolicyTypeOK
  <2>2. PlanSound(d)'
    BY <1>4, <2>1 DEF PlanSound
  <2>3. UpdateSound(d)'
    <3>1. CASE clerk[d].pc = "set"
      <4>1. PICK v \in DOMAIN spaceRows, read \in Policy : v = clerk[d].space /\ read = clerk[d].seen
        BY <2>1, <3>1, WorkFields DEF UpdateSound
      <4>2. CASE v = w
        <5>1. read.revision \in Nat /\ read.revision <= Len(trail)
          BY <1>5, <2>1, <3>1, <4>1, <4>2 DEF UpdateSound, Policy
        <5>2. next.revision = Len(trail) + 1
          BY <1>2, <1>7
        <5>3. read.revision <= Len(longer) /\ read.revision # next.revision
          BY <1>11, <5>1, <5>2
        <5> QED
          BY <1>4, <1>8, <1>10, <2>1, <3>1, <4>1, <4>2, <5>3 DEF UpdateSound, Loaded
      <4>3. CASE v # w
        BY <1>4, <1>8, <1>10, <2>1, <3>1, <4>1, <4>3 DEF UpdateSound, Loaded
      <4> QED
        BY <4>2, <4>3
    <3>2. CASE clerk[d].pc # "set"
      BY <2>1, <3>2 DEF UpdateSound
    <3> QED
      BY <3>1, <3>2
  <2> QED
    BY <2>2, <2>3
<1> QED
  BY <1>12, <1>13, <1>14, <1>15, <1>16 DEF PolicyInv, PoliciesAccounted

\* Plans are recorded, checked and moved while every policy stays: what the other
\* requests know of policies and of their own plans' snapshots stays true.
LEMMA PlansStep ==
  ASSUME PolicyInv, NEW c \in Clerk, NEW work \in Work, Goes(c, work),
         UNCHANGED <<spaceRows, policyRows, policyAudits, policyLock>>,
         plansMade' \in Seq(PlanRow), PlansKeepPolicy', SnapshotsDated',
         \A i \in DOMAIN plansMade :
           /\ i \in DOMAIN plansMade' /\ plansMade'[i].snapshot = plansMade[i].snapshot
           /\ plansMade[i].stage # "waiting" => plansMade'[i].stage # "waiting",
         UpdateSound(c)', PlanSound(c)'
  PROVE  PolicyInv'
<1>1. clerk' = [clerk EXCEPT ![c] = work] /\ clerk \in [Clerk -> Work]
  BY DEF Goes, PolicyInv, PolicyTypeOK
<1>2. clerk' \in [Clerk -> Work] /\ \A d \in Clerk \ {c} : clerk'[d] = clerk[d]
  BY <1>1
<1>3. PolicyTypeOK'
  BY <1>2 DEF PolicyInv, PolicyTypeOK
<1>4. RootsAreApart' /\ TrailExplainsPolicy'
  BY DEF PolicyInv, PoliciesAccounted, RootsAreApart, TrailExplainsPolicy, Loaded
<1>5. ASSUME NEW d \in Clerk \ {c} PROVE UpdateSound(d)' /\ PlanSound(d)'
  <2>1. UpdateSound(d) /\ PlanSound(d) /\ clerk'[d] = clerk[d]
    BY <1>2 DEF PolicyInv
  <2> QED
    BY <2>1 DEF UpdateSound, PlanSound, Loaded
<1> QED
  BY <1>3, <1>4, <1>5 DEF PolicyInv, PoliciesAccounted

\* A plan is recorded with the policy that was read for it, and the length the trail
\* had then.
LEMMA RecordStep ==
  ASSUME PolicyInv, NEW c \in Clerk, RecordPlan(c)
  PROVE  PolicyInv'
<1>t. PolicyTypeOK /\ clerk[c] \in Work /\ PlanSound(c) /\ clerk[c].pc = "record" /\ Rests(c)
      /\ UNCHANGED <<spaceRows, policyRows, policyAudits, policyLock>>
  BY DEF PolicyInv, PolicyTypeOK, RecordPlan
<1>0. /\ Resting \in Work /\ Goes(c, Resting) /\ UpdateSound(c)' /\ PlanSound(c)'
  BY <1>t, Ended
<1>1. PICK w \in DOMAIN spaceRows, target \in RuleName, snapshot \in Policy, made \in Nat :
        /\ w = clerk[c].space /\ target = clerk[c].target
        /\ snapshot = clerk[c].snapshot /\ made = clerk[c].made /\ snapshot.revision = made
  <2>1. clerk[c].target \in RuleName /\ clerk[c].snapshot \in Policy /\ clerk[c].made \in Nat
    BY <1>t, WorkFields
  <2> QED
    BY <1>t, <2>1 DEF PlanSound
<1>2. PICK p : p = [space |-> w, target |-> target, snapshot |-> snapshot, stage |-> "waiting",
                    made |-> made, checked |-> 0]
  OBVIOUS
<1>3. plansMade' = Append(plansMade, p)
  BY <1>1, <1>2 DEF RecordPlan
<1>4. p \in PlanRow /\ p.stage = "waiting" /\ p.space = w /\ p.snapshot.revision = p.made
  <2>1. w \in Nat
    BY <1>t DEF PolicyTypeOK
  <2> QED
    BY <1>1, <1>2, <2>1 DEF PlanRow
<1>5. PICK n \in Nat : n = Len(plansMade) /\ DOMAIN plansMade = 1..n /\ plansMade \in Seq(PlanRow)
  <2>1. plansMade \in Seq(PlanRow)
    BY <1>t DEF PolicyTypeOK
  <2>2. Len(plansMade) \in Nat /\ DOMAIN plansMade = 1..Len(plansMade)
    BY <2>1
  <2> QED
    BY <2>1, <2>2
<1>6. /\ plansMade' \in Seq(PlanRow) /\ DOMAIN plansMade' = 1..(n + 1)
      /\ plansMade'[n + 1] = p /\ \A i \in 1..n : plansMade'[i] = plansMade[i]
  BY <1>3, <1>4, <1>5
<1>7. PlansKeepPolicy' /\ SnapshotsDated'
  <2>1. \A i \in 1..(n + 1) : i = n + 1 \/ i \in 1..n
    BY <1>5
  <2>2. SnapshotsDated'
    BY <1>t, <1>1, <1>4, <1>5, <1>6, <2>1 DEF PolicyInv, SnapshotsDated
  <2>3. \A q \in ToSet(plansMade') : q = p \/ q \in ToSet(plansMade)
    BY <1>5, <1>6, <2>1 DEF ToSet
  <2> QED
    BY <1>4, <2>2, <2>3 DEF PolicyInv, PoliciesAccounted, PlansKeepPolicy
<1>8. \A i \in DOMAIN plansMade : i \in DOMAIN plansMade' /\ plansMade'[i] = plansMade[i]
  BY <1>5, <1>6
<1> QED
  BY <1>0, <1>t, <1>6, <1>7, <1>8, PlansStep

\* A plan's execution begins when the policy is its snapshot, the revision
\* included: so nothing has been added to the trail since.
LEMMA CheckStep ==
  ASSUME PolicyInv, NEW c \in Clerk, CheckPlan(c)
  PROVE  PolicyInv'
<1>t. PolicyTypeOK /\ UNCHANGED <<spaceRows, policyRows, policyAudits, policyLock>>
  BY DEF PolicyInv, CheckPlan
<1>1. PICK i \in DOMAIN plansMade :
        /\ plansMade[i].stage # "moved" /\ MayExecute(plansMade[i])
        /\ plansMade' = [plansMade EXCEPT ![i].stage = "checked",
                                          ![i].checked = Len(policyAudits[plansMade[i].space])]
        /\ Goes(c, [pc |-> "validate", plan |-> i, held |-> policyRows[plansMade[i].space]])
  BY DEF CheckPlan
<1>2. PICK p \in PlanRow : p = plansMade[i] /\ i \in Nat /\ p.space \in DOMAIN spaceRows
  BY <1>t DEF PolicyTypeOK, PolicyInv, SnapshotsDated
<1>3. /\ p.space \in DOMAIN policyRows /\ policyRows[p.space] = p.snapshot
      /\ "execution" \in p.snapshot.enabled /\ p.snapshot \in Policy
  BY <1>1, <1>2 DEF MayExecute, Loaded, PlanRow
<1>4. PICK k \in Nat : k = Len(policyAudits[p.space])
  <2>1. policyAudits[p.space] \in Seq(Event)
    BY <1>t, <1>2 DEF PolicyTypeOK
  <2> QED
    BY <2>1
<1>5. k = p.made
  <2>1. p.snapshot.revision = p.made
    BY <1>2 DEF PolicyInv, SnapshotsDated
  <2>2. policyRows[p.space].revision = k
    BY <1>2, <1>3, <1>4 DEF PolicyInv, PoliciesAccounted, TrailExplainsPolicy, Loaded
  <2> QED
    BY <1>3, <2>1, <2>2
<1>6. PICK q : q = [p EXCEPT !.stage = "checked", !.checked = k]
  OBVIOUS
<1>7. /\ q \in PlanRow /\ q.stage = "checked" /\ q.checked = k /\ q.made = p.made
      /\ q.snapshot = p.snapshot /\ q.space = p.space /\ q.target = p.target
  BY <1>4, <1>6 DEF PlanRow
<1>8. plansMade' = [plansMade EXCEPT ![i] = q]
  BY <1>1, <1>2, <1>4, <1>6
<1>9. /\ plansMade' \in Seq(PlanRow) /\ DOMAIN plansMade' = DOMAIN plansMade
      /\ plansMade'[i] = q /\ \A j \in DOMAIN plansMade \ {i} : plansMade'[j] = plansMade[j]
  BY <1>t, <1>7, <1>8 DEF PolicyTypeOK
<1>10. PlansKeepPolicy' /\ SnapshotsDated'
  <2>1. SnapshotsDated'
    BY <1>t, <1>2, <1>7, <1>9 DEF PolicyInv, SnapshotsDated
  <2>2. \A r \in ToSet(plansMade') : r = q \/ r \in ToSet(plansMade)
    BY <1>9 DEF ToSet
  <2> QED
    BY <1>3, <1>5, <1>7, <2>1, <2>2 DEF PolicyInv, PoliciesAccounted, PlansKeepPolicy
<1>11. \A j \in DOMAIN plansMade :
         /\ j \in DOMAIN plansMade' /\ plansMade'[j].snapshot = plansMade[j].snapshot
         /\ plansMade[j].stage # "waiting" => plansMade'[j].stage # "waiting"
  BY <1>2, <1>7, <1>9
<1>12. PICK work : work = [pc |-> "validate", plan |-> i, held |-> policyRows[p.space]]
  OBVIOUS
<1>13. work \in Work /\ work.pc = "validate" /\ work.plan = i /\ work.held = p.snapshot
  BY <1>2, <1>3, <1>12 DEF Work
<1>14. Goes(c, work) /\ clerk'[c] = work
  BY <1>t, <1>1, <1>2, <1>12 DEF Goes, PolicyTypeOK
<1>15. UpdateSound(c)' /\ PlanSound(c)'
  BY <1>7, <1>9, <1>13, <1>14 DEF UpdateSound, PlanSound
<1> QED
  BY <1>t, <1>9, <1>10, <1>11, <1>13, <1>14, <1>15, PlansStep

\* A plan moves its file only where its snapshot lets it.
LEMMA MoveStep ==
  ASSUME PolicyInv, NEW c \in Clerk, MovePlan(c)
  PROVE  PolicyInv'
<1>t. PolicyTypeOK /\ PlanSound(c) /\ clerk[c].pc = "move" /\ Rests(c)
      /\ UNCHANGED <<spaceRows, policyRows, policyAudits, policyLock>>
  BY DEF PolicyInv, MovePlan
<1>0. Resting \in Work /\ Goes(c, Resting) /\ UpdateSound(c)' /\ PlanSound(c)'
  BY <1>t, Ended
<1>1. PICK i \in DOMAIN plansMade, p \in PlanRow :
        /\ i = clerk[c].plan /\ p = plansMade[i] /\ clerk[c].held = p.snapshot /\ p.stage # "waiting"
  BY <1>t DEF PlanSound, PolicyTypeOK
<1>2. CASE ~MayUse(clerk[c].held, p.target)
  BY <1>0, <1>1, <1>2, <1>t, QuietStep DEF MovePlan, PolicyTypeOK, PolicyInv, Rows
<1>3. CASE MayUse(clerk[c].held, p.target)
  <2>1. plansMade' = [plansMade EXCEPT ![i].stage = "moved"]
    BY <1>1, <1>3 DEF MovePlan
  <2>2. PICK q : q = [p EXCEPT !.stage = "moved"]
    OBVIOUS
  <2>3. /\ q \in PlanRow /\ q.stage = "moved" /\ q.checked = p.checked /\ q.made = p.made
        /\ q.snapshot = p.snapshot /\ q.space = p.space /\ q.target = p.target
    BY <2>2 DEF PlanRow
  <2>4. plansMade' = [plansMade EXCEPT ![i] = q]
    BY <1>1, <2>1, <2>2
  <2>5. /\ plansMade' \in Seq(PlanRow) /\ DOMAIN plansMade' = DOMAIN plansMade
        /\ plansMade'[i] = q /\ \A j \in DOMAIN plansMade \ {i} : plansMade'[j] = plansMade[j]
    BY <1>t, <2>3, <2>4 DEF PolicyTypeOK
  <2>6. p \in ToSet(plansMade) /\ p.stage \in {"checked", "moved"}
    BY <1>1 DEF ToSet, PlanRow
  <2>7. PlansKeepPolicy' /\ SnapshotsDated'
    <3>1. SnapshotsDated'
      BY <1>t, <1>1, <2>3, <2>5 DEF PolicyInv, SnapshotsDated
    <3>2. \A r \in ToSet(plansMade') : r = q \/ r \in ToSet(plansMade)
      BY <2>5 DEF ToSet
    <3> QED
      BY <1>1, <1>3, <2>3, <2>6, <3>1, <3>2 DEF PolicyInv, PoliciesAccounted, PlansKeepPolicy
  <2>8. \A j \in DOMAIN plansMade :
          /\ j \in DOMAIN plansMade' /\ plansMade'[j].snapshot = plansMade[j].snapshot
          /\ plansMade[j].stage # "waiting" => plansMade'[j].stage # "waiting"
    BY <1>1, <2>3, <2>5
  <2> QED
    BY <1>0, <1>t, <2>5, <2>7, <2>8, PlansStep
<1> QED
  BY <1>2, <1>3

-----------------------------------------------------------------------------
(* The theorems *)

LEMMA InvStep == PolicyInv /\ [PolicyNext]_policyVars => PolicyInv'
<1> SUFFICES ASSUME PolicyInv, [PolicyNext]_policyVars PROVE PolicyInv'
  OBVIOUS
<1>1. CASE UNCHANGED policyVars
  BY <1>1 DEF policyVars, PolicyInv, PolicyTypeOK, PoliciesAccounted, RootsAreApart, TrailExplainsPolicy,
     PlansKeepPolicy, SnapshotsDated, UpdateSound, PlanSound, Loaded
<1>2. CASE Damaged
  BY <1>2, DamagedStep
<1>3. ASSUME NEW c \in Clerk,
             \/ RequestWorkspace(c) \/ ReadForUpdate(c) \/ SetPolicy(c) \/ AuditFails(c)
             \/ BuildPlan(c) \/ SnapshotPolicy(c) \/ ValidatePlan(c) \/ Busy(c)
      PROVE  PolicyInv'
  BY <1>3, QuietActions
<1>4. ASSUME NEW c \in Clerk, InsertWorkspace(c) PROVE PolicyInv'
  BY <1>4, InsertStep
<1>5. ASSUME NEW c \in Clerk, CommitUpdate(c) PROVE PolicyInv'
  BY <1>5, CommitStep
<1>6. ASSUME NEW c \in Clerk, RecordPlan(c) PROVE PolicyInv'
  BY <1>6, RecordStep
<1>7. ASSUME NEW c \in Clerk, CheckPlan(c) PROVE PolicyInv'
  BY <1>7, CheckStep
<1>8. ASSUME NEW c \in Clerk, MovePlan(c) PROVE PolicyInv'
  BY <1>8, MoveStep
<1> QED
  BY <1>1, <1>2, <1>3, <1>4, <1>5, <1>6, <1>7, <1>8 DEF PolicyNext

\* The inductive invariant of the policies holds in every reachable state.
THEOREM PolicyInvariant == PolicySpec => []PolicyInv
<1> QED
  BY InvInit, InvStep, PTL DEF PolicySpec

\* One directory is one workspace; the trail tells every update once and what it
\* tells is in force; and plans move only what their snapshot lets them, with no
\* update between their snapshot and the check (services.py, safe_execution.py:282).
THEOREM PoliciesStayAccounted == PolicySpec => []PoliciesAccounted
<1>1. PolicyInv => PoliciesAccounted
  BY DEF PolicyInv
<1> QED
  BY <1>1, PolicyInvariant, PTL
=============================================================================
