---------------------------- MODULE KnowledgeProofs ----------------------------
(***************************************************************************)
(* Proofs about KnowledgeIndex, the reads of ReadPages, the chunks of      *)
(* DocumentChunks and the paths of WorkspacePaths.                         *)
(***************************************************************************)
EXTENDS KnowledgeInvariants, FiniteSetTheorems, WellFoundedInduction, TLAPS

(* Numbers: the next file of a task and the next id of a row exist. *)

LEMMA LeastNumber ==
  ASSUME NEW S \in SUBSET Nat, S # {}
  PROVE  \E n \in S : \A k \in S : n <= k
<1>1. PICK n \in S : \A k \in S : ~(<<k, n>> \in OpToRel(<, Nat))
  BY NatLessThanWellFounded, WFMin
<1>2. \A k \in S : ~(k < n)
  BY <1>1 DEF OpToRel
<1> QED
  BY <1>2

\* Induction over the first numbers.
LEMMA CountedOn ==
  ASSUME NEW N \in Nat, NEW G, 0 \in G, \A k \in 1..N : k - 1 \in G => k \in G
  PROVE  \A k \in 0..N : k \in G
<1> DEFINE bad == {i \in 0..N : i \notin G}
<1>1. SUFFICES ASSUME bad # {} PROVE FALSE
  OBVIOUS
<1>2. bad \in SUBSET Nat
  OBVIOUS
<1>3. PICK k \in bad : \A i \in bad : k <= i
  BY <1>1, <1>2, LeastNumber
<1>4. k \in 1..N /\ k - 1 \in 0..N /\ k - 1 \notin bad
  BY <1>3
<1> QED
  BY <1>3, <1>4

LEMMA GreatestNumber ==
  ASSUME NEW S \in SUBSET Nat, S # {}, NEW top \in Nat, \A n \in S : n <= top
  PROVE  Max(S) \in S /\ \A n \in S : n <= Max(S)
<1> DEFINE bounds == {u \in Nat : \A n \in S : n <= u}
<1>1. PICK least \in bounds : \A u \in bounds : least <= u
  BY LeastNumber
<1>2. least \in S
  <2>1. SUFFICES ASSUME least \notin S PROVE FALSE
    OBVIOUS
  <2>2. \A n \in S : n <= least /\ n # least
    BY <2>1
  <2>3. PICK m \in S : m \in Nat
    OBVIOUS
  <2>4. m <= least /\ m # least /\ least \in Nat
    BY <2>2
  <2>5. least # 0
    BY <2>3, <2>4
  <2>6. least - 1 \in Nat /\ \A n \in S : n <= least - 1
    BY <2>2, <2>5
  <2> QED
    BY <2>6, <1>1
<1>3. \E m \in S : \A n \in S : m >= n
  BY <1>2
<1>4. Max(S) \in S /\ \A n \in S : Max(S) >= n
  BY <1>3 DEF Max
<1> QED
  BY <1>4

LEMMA NextIsThere ==
  ASSUME task.todo \in SUBSET File, task.todo # {}
  PROVE  NextFile \in task.todo
<1> DEFINE paths == {f.path : f \in task.todo}
<1>1. paths \in SUBSET Nat /\ paths # {}
  BY DEF File
<1>2. PICK n \in paths : \A k \in paths : n <= k
  BY <1>1, LeastNumber
<1>3. \E f \in task.todo : \A g \in task.todo : f.path <= g.path
  BY <1>2
<1> QED
  BY <1>3 DEF NextFile

-----------------------------------------------------------------------------
(* The entries after a scan. *)

\* Of two new paths, the later one has the larger id.
LEMMA IdsAreOrdered ==
  ASSUME NEW new \in SUBSET Path, NEW last \in Nat,
         \A p \in new : NewId(new, p) = last + Cardinality({q \in new : q <= p})
  PROVE  /\ \A p \in new : NewId(new, p) \in (last + 1)..(last + Cardinality(new))
         /\ \A p, q \in new : NewId(new, p) = NewId(new, q) => p = q
         /\ Cardinality(new) \in Nat
<1> DEFINE upto(p) == {q \in new : q <= p}
<1>0. LastPath \in Nat /\ Path \subseteq Nat
  BY PathAssumption DEF Path
<1>1. IsFiniteSet(new) /\ Cardinality(new) \in Nat
  <2>1. IsFiniteSet(1..LastPath)
    BY <1>0, FS_Interval
  <2>2. new \in SUBSET (1..LastPath)
    BY DEF Path
  <2> QED
    BY <2>1, <2>2, FS_Subset, FS_CardinalityType
<1>2. ASSUME NEW p \in new
      PROVE  /\ IsFiniteSet(upto(p)) /\ Cardinality(upto(p)) \in Nat
             /\ Cardinality(upto(p)) >= 1 /\ Cardinality(upto(p)) <= Cardinality(new)
  <2>1. upto(p) \in SUBSET new
    OBVIOUS
  <2>2. IsFiniteSet(upto(p)) /\ Cardinality(upto(p)) <= Cardinality(new)
    BY <1>1, <2>1, FS_Subset
  <2>3. Cardinality(upto(p)) \in Nat
    BY <2>2, FS_CardinalityType
  <2>4. upto(p) # {}
    BY <1>0
  <2>5. Cardinality(upto(p)) # 0
    BY <2>2, <2>4, FS_EmptySet
  <2> QED
    BY <2>2, <2>3, <2>5
<1>3. ASSUME NEW p \in new, NEW q \in new, p < q
      PROVE  Cardinality(upto(p)) # Cardinality(upto(q))
  <2>1. upto(p) \in SUBSET upto(q) /\ q \in upto(q) /\ q \notin upto(p)
    <3>1. p \in Nat /\ q \in Nat /\ \A n \in new : n \in Nat
      BY <1>0
    <3>2. p <= q /\ q <= q /\ ~(q <= p) /\ \A n \in new : n <= p => n <= q
      BY <3>1, <1>3
    <3>3. upto(p) \in SUBSET upto(q)
      BY <3>2
    <3> QED
      BY <3>2, <3>3
  <2>2. upto(p) # upto(q)
    BY <2>1
  <2> HIDE DEF upto
  <2> QED
    BY <1>2, <2>1, <2>2, FS_Subset
<1>4. \A p \in new : NewId(new, p) = last + Cardinality(upto(p))
  OBVIOUS
<1> HIDE DEF upto
<1>5. \A p \in new : NewId(new, p) \in (last + 1)..(last + Cardinality(new))
  BY <1>1, <1>2, <1>4
<1>6. ASSUME NEW p \in new, NEW q \in new, NewId(new, p) = NewId(new, q)
      PROVE  p = q
  <2>1. Cardinality(upto(p)) = Cardinality(upto(q))
    BY <1>2, <1>4, <1>6
  <2>2. ~(p < q) /\ ~(q < p)
    BY <1>3, <2>1
  <2> QED
    BY <1>0, <2>2
<1> QED
  BY <1>1, <1>5, <1>6

\* sync_file_index keeps the ids of the files it has seen again, and every new
\* file has an id that no entry had before.
LEMMA SyncedKeeps ==
  ASSUME entries \in [DOMAIN entries -> Path],
         NEW top \in Nat, DOMAIN entries \subseteq 1..top,
         NEW kept \in SUBSET DOMAIN entries, NEW new \in SUBSET Path
  PROVE  LET s == Synced(kept, new) IN
         /\ s \in [DOMAIN s -> Path]
         /\ \E last \in Nat : DOMAIN s \subseteq 1..last
         /\ \A e \in kept : e \in DOMAIN s /\ s[e] = entries[e]
         /\ \A e \in DOMAIN s \ kept : s[e] \in new
         /\ \A p \in new : \E e \in DOMAIN s : s[e] = p
         /\ \A e, f \in DOMAIN s \ kept : s[e] = s[f] => e = f
<1> DEFINE last == Max(DOMAIN entries \cup {0})
           s == Synced(kept, new)
           fresh == {NewId(new, p) : p \in new}
<1>1. last \in Nat /\ \A e \in DOMAIN entries : e <= last
  <2> DEFINE S == DOMAIN entries \cup {0}
  <2>1. S \in SUBSET Nat /\ S # {} /\ \A n \in S : n <= top
    OBVIOUS
  <2> HIDE DEF S
  <2>2. Max(S) \in S /\ \A n \in S : n <= Max(S)
    BY <2>1, GreatestNumber
  <2> QED
    BY <2>1, <2>2 DEF S
<1>2. \A p \in new : NewId(new, p) = last + Cardinality({q \in new : q <= p})
  BY DEF NewId
<1> HIDE DEF last
<1>3. /\ \A p \in new : NewId(new, p) \in (last + 1)..(last + Cardinality(new))
      /\ \A p, q \in new : NewId(new, p) = NewId(new, q) => p = q
      /\ Cardinality(new) \in Nat
  BY <1>1, <1>2, IdsAreOrdered
<1>4. DOMAIN s = kept \cup fresh /\ \A e \in kept : s[e] = entries[e]
  BY DEF Synced
<1>5. \A p \in new : NewId(new, p) \notin kept
  BY <1>1, <1>3
<1>6. ASSUME NEW p \in new
      PROVE  NewId(new, p) \in DOMAIN s /\ s[NewId(new, p)] = p
  <2>1. s[NewId(new, p)] = CHOOSE q \in new : NewId(new, q) = NewId(new, p)
    BY <1>5 DEF Synced
  <2> QED
    BY <1>3, <1>4, <2>1
<1>7. \A e \in DOMAIN s : e \in kept \/ \E p \in new : e = NewId(new, p)
  BY <1>4
<1>8. s \in [DOMAIN s -> Path]
  <2>1. \A e \in DOMAIN s : s[e] \in Path
    BY <1>4, <1>6, <1>7
  <2>2. s = [e \in DOMAIN s |-> s[e]]
    BY <1>4 DEF Synced
  <2> QED
    BY <2>1, <2>2
<1>9. last + Cardinality(new) \in Nat /\ DOMAIN s \subseteq 1..(last + Cardinality(new))
  BY <1>1, <1>3, <1>4
<1> HIDE DEF s
<1> QED
  BY <1>4, <1>6, <1>7, <1>8, <1>9 DEF s


-----------------------------------------------------------------------------
(* The parts of a step that actions share. *)

\* What an action uses is one less, and never negative.
LEMMA BudgetIsSpent ==
  ASSUME indexBudget \in IndexBudget,
         NEW b \in {"tasks", "changes", "deletes", "searches", "failures"}, Use(b)
  PROVE  indexBudget' \in IndexBudget /\ indexBudget' # indexBudget
<1>1. PICK n \in Nat : n = indexBudget[b]
  BY DEF IndexBudget
<1>2. n > 0 /\ indexBudget' = [indexBudget EXCEPT ![b] = n - 1]
  BY <1>1 DEF Use
<1>3. n - 1 \in Nat /\ n - 1 # n
  BY <1>2
<1>4. indexBudget' \in IndexBudget
  BY <1>2, <1>3 DEF IndexBudget
<1>5. indexBudget'[b] = n - 1
  BY <1>2 DEF IndexBudget
<1> QED
  BY <1>1, <1>3, <1>4, <1>5

\* The task is over, its batch with it.
LEMMA AfterTask ==
  ASSUME task' = NoTask
  PROVE  /\ TaskInv' /\ Stored' = documents'
         /\ task' \in [pc : {"idle", "walk", "read", "version"}, todo : SUBSET File,
                       paths : SUBSET Path, at : File, text : Contents, batch : SUBSET StoredDocument]
<1>1. NoFile \in File
  BY DEF NoFile, File
<1>2. /\ task'.pc = "idle" /\ task'.batch = {} /\ task'.at = NoFile
      /\ task' \in [pc : {"idle", "walk", "read", "version"}, todo : SUBSET File,
                    paths : SUBSET Path, at : File, text : Contents, batch : SUBSET StoredDocument]
  BY <1>1 DEF NoTask, Contents
<1> QED
  BY <1>2 DEF TaskInv, WalkInv, IndexingInv, Doing, Stored

\* Fewer documents satisfy what is required of all of them.
LEMMA FewerDocuments ==
  ASSUME NothingTwice, HitsHold, Stored' \subseteq Stored,
         UNCHANGED <<entries, serial, contexts>>
  PROVE  NothingTwice' /\ HitsHold'
BY DEF NothingTwice, HitsHold, Hits, Retrieved

\* _record_failed_ingest leaves at most one record of a failure to a file and
\* every document of a version as it is.
LEMMA FailureIsRecorded ==
  ASSUME KnowledgeInv, NEW file \in File, file.path \in Path, RecordFailed(file),
         task' = NoTask, UNCHANGED <<entries, contexts>>
  PROVE  /\ documents' \subseteq StoredDocument /\ serial' \in Nat
         /\ NothingTwice' /\ HitsHold'
         /\ \A d \in documents : \E o \in documents' : o.entry = d.entry /\ o.version = d.version
<1> DEFINE failed == FailedRecords(file.entry)
           moved(d) == [d EXCEPT !.path = file.path]
           new == [id |-> serial + 1, entry |-> file.entry, path |-> file.path,
                   text |-> Nothing, version |-> Nothing]
<1>1. /\ documents \subseteq StoredDocument /\ serial \in Nat /\ NothingTwice /\ HitsHold
      /\ Stored' = documents' /\ documents \subseteq Stored /\ failed \subseteq documents
      /\ contexts \in Seq(SUBSET Hit) /\ file.entry \in Nat
  BY AfterTask DEF KnowledgeInv, IndexShape, Stored, FailedRecords, File
<1>2. CASE failed # {}
  <2>1. documents' = (documents \ failed) \cup {moved(d) : d \in failed} /\ serial' = serial
    BY <1>2 DEF RecordFailed
  <2>2. ASSUME NEW d \in documents
        PROVE  /\ moved(d) \in StoredDocument
               /\ moved(d).id = d.id /\ moved(d).entry = d.entry
               /\ moved(d).version = d.version /\ moved(d).path = file.path
    BY <1>1 DEF StoredDocument
  <2> HIDE DEF moved
  <2>3. \A o \in documents' : \E d \in documents :
          /\ o.id = d.id /\ o.entry = d.entry /\ o.version = d.version
          /\ o = d \/ (o = moved(d) /\ d.version = Nothing)
          /\ d \in failed => o = moved(d)
          /\ d \notin failed => o = d
    BY <1>1, <2>1, <2>2 DEF FailedRecords
  <2>4. \A d \in documents : \E o \in documents' : o.entry = d.entry /\ o.version = d.version
    BY <1>1, <2>1, <2>2
  <2>5. documents' \subseteq StoredDocument
    BY <1>1, <2>1, <2>2
  <2>6. NothingTwice'
    <3>1. \A o \in Stored' : o.id <= serial'
      BY <1>1, <2>1, <2>3 DEF NothingTwice
    <3>2. ASSUME NEW o \in Stored', NEW q \in Stored',
                 o.id = q.id \/ (o.entry = q.entry /\ o.version = q.version)
          PROVE  o = q
      <4>1. PICK d \in documents :
              /\ o.id = d.id /\ o.entry = d.entry /\ o.version = d.version
              /\ d \in failed => o = moved(d)
              /\ d \notin failed => o = d
        BY <1>1, <2>3
      <4>2. PICK r \in documents :
              /\ q.id = r.id /\ q.entry = r.entry /\ q.version = r.version
              /\ r \in failed => q = moved(r)
              /\ r \notin failed => q = r
        BY <1>1, <2>3
      <4>3. d = r
        BY <1>1, <3>2, <4>1, <4>2 DEF NothingTwice
      <4> QED
        BY <4>1, <4>2, <4>3
    <3> QED
      BY <1>1, <3>1, <3>2 DEF NothingTwice
  <2>7. HitsHold'
    <3>1. ASSUME NEW r \in Hits, NEW o \in documents', o.id = r.id, r.version # Nothing
          PROVE  Retrieved(o) = r
      <4>1. PICK d \in documents : o.id = d.id /\ (o = d \/ (o = moved(d) /\ d.version = Nothing))
        BY <2>3
      <4>2. Retrieved(d) = r
        BY <1>1, <3>1, <4>1 DEF HitsHold
      <4>3. d.version = r.version
        BY <4>2 DEF Retrieved
      <4> QED
        BY <3>1, <4>1, <4>2, <4>3
    <3> QED
      BY <1>1, <2>1, <3>1 DEF HitsHold, Hits
  <2> QED
    BY <1>1, <2>1, <2>4, <2>5, <2>6, <2>7
<1>3. CASE failed = {}
  <2>1. documents' = documents \cup {new} /\ serial' = serial + 1
    BY <1>3 DEF RecordFailed
  <2>2. new \in StoredDocument
    BY <1>1 DEF StoredDocument, Contents
  <2>3. \A d \in documents : d.id <= serial /\ ~(d.entry = file.entry /\ d.version = Nothing)
    BY <1>1, <1>3 DEF NothingTwice, FailedRecords
  <2>4. \A d \in documents : d.id \in Nat
    BY <1>1 DEF StoredDocument
  <2>5. NothingTwice'
    BY <1>1, <2>1, <2>3, <2>4 DEF NothingTwice
  <2>6. \A r \in Hits : r.id \in Nat
    BY <1>1 DEF Hits, Hit, Range
  <2>7. HitsHold'
    BY <1>1, <2>1, <2>6 DEF HitsHold, Hits
  <2> QED
    BY <1>1, <2>1, <2>2, <2>5, <2>7
<1> QED
  BY <1>2, <1>3


-----------------------------------------------------------------------------
(* Every action of a scan keeps the invariant. *)

LEMMA ScanBegins ==
  ASSUME KnowledgeInv, StartScan
  PROVE  KnowledgeInv'
<1> DEFINE file(p) == [NoFile EXCEPT !.path = p]
           files == {file(p) : p \in Path}
<1>1. /\ IndexShape /\ NothingTwice /\ TaskInv /\ HitsHold /\ IndexedIsCurrent
      /\ task.batch = {} /\ touched' = {} /\ UNCHANGED <<disk, index, agentVars, covered>>
      /\ task' = [NoTask EXCEPT !.pc = "walk", !.todo = files]
  BY DEF KnowledgeInv, StartScan, TaskInv, Doing
<1>2. \A p \in Path : file(p) \in File /\ file(p).entry = 0 /\ file(p).path = p
  BY PathAssumption DEF NoFile, File, Path
<1> HIDE DEF file
<1>3. /\ task'.pc = "walk" /\ task'.todo = files /\ task'.paths = {} /\ task'.batch = {}
      /\ task'.at = NoFile /\ files \subseteq File /\ Stored' = documents' /\ Stored' = Stored
      /\ task' \in [pc : {"idle", "walk", "read", "version"}, todo : SUBSET File,
                    paths : SUBSET Path, at : File, text : Contents, batch : SUBSET StoredDocument]
  <2>1. NoFile \in File /\ files \in SUBSET File
    BY <1>2 DEF NoFile, File
  <2> HIDE DEF files
  <2>2. /\ task'.pc = "walk" /\ task'.todo = files /\ task'.paths = {} /\ task'.batch = {}
        /\ task'.at = NoFile
        /\ task' \in [pc : {"idle", "walk", "read", "version"}, todo : SUBSET File,
                    paths : SUBSET Path, at : File, text : Contents, batch : SUBSET StoredDocument]
    BY <1>1, <2>1 DEF NoTask, Contents
  <2> QED
    BY <1>1, <2>1, <2>2 DEF Stored, index
<1>4. IndexShape'
  BY <1>1, <1>3, BudgetIsSpent DEF IndexShape, StartScan, index, agentVars
<1>5. NothingTwice' /\ HitsHold'
  BY <1>1, <1>3, FewerDocuments DEF index, agentVars
<1>6. TaskInv'
  <2>1. \A p \in Path : \E f \in files : f.path = p
    BY <1>2
  <2>2. \A f \in files : f.entry = 0 /\ f.path \in Path
    BY <1>2
  <2> QED
    BY <1>3, <2>1, <2>2 DEF TaskInv, WalkInv, IndexingInv, Doing, Waiting
<1>7. IndexedIsCurrent'
  BY <1>1 DEF IndexedIsCurrent, index
<1> QED
  BY <1>4, <1>5, <1>6, <1>7 DEF KnowledgeInv

LEMMA WalkGoesOn ==
  ASSUME KnowledgeInv, Look \/ LookFails
  PROVE  KnowledgeInv'
<1> DEFINE p == NextFile.path
           seen == IF Look THEN {p} \cap {q \in Path : disk[q] # Nothing} ELSE {}
<1>1. /\ IndexShape /\ NothingTwice /\ TaskInv /\ HitsHold /\ IndexedIsCurrent
      /\ task.pc = "walk" /\ task.todo # {} /\ UNCHANGED <<disk, index, agentVars, covered>>
  BY DEF KnowledgeInv, Look, LookFails, Doing, NothingLeft
<1>2. NextFile \in task.todo /\ NextFile.path \in Path /\ NextFile.entry = 0
  BY <1>1, NextIsThere DEF IndexShape, TaskInv, WalkInv, Doing
<1>3. /\ (touched' = touched /\ Look) \/ touched' = touched \cup {p}
      /\ seen \in SUBSET Path /\ task' = [task EXCEPT !.todo = @ \ {NextFile}, !.paths = @ \cup seen]
  BY DEF Look, LookFails, Walked
<1>4. /\ task'.pc = "walk" /\ task'.todo = task.todo \ {NextFile} /\ task'.paths = task.paths \cup seen
      /\ task'.at = task.at /\ task'.batch = task.batch /\ Stored' = Stored
      /\ task' \in [pc : {"idle", "walk", "read", "version"}, todo : SUBSET File,
                    paths : SUBSET Path, at : File, text : Contents, batch : SUBSET StoredDocument]
  BY <1>1, <1>3 DEF IndexShape, Stored, index
<1>5. IndexShape'
  <2>1. indexBudget' \in IndexBudget
    BY <1>1, BudgetIsSpent DEF Look, LookFails, IndexShape
  <2>2. touched' \subseteq Path
    BY <1>1, <1>2, <1>3 DEF IndexShape
  <2> QED
    BY <1>1, <1>4, <2>1, <2>2 DEF IndexShape, index, agentVars
<1>6. NothingTwice' /\ HitsHold'
  BY <1>1, <1>4, FewerDocuments DEF index, agentVars
<1>7. TaskInv'
  <2>1. ASSUME NEW q \in Path \ touched'
        PROVE  q \in task'.paths <=> disk'[q] # Nothing /\ ~Waiting(q)'
    <3>1. CASE q = p
      <4>1. Look /\ touched' = touched
        BY <1>3, <2>1, <3>1
      <4>2. \A f \in task'.todo : f.path # q
        BY <1>1, <1>2, <1>4, <3>1 DEF TaskInv, WalkInv, Doing, IndexShape, File
      <4>3. q \notin task.paths
        BY <1>1, <1>2, <2>1, <3>1, <4>1 DEF TaskInv, WalkInv, Doing, Waiting
      <4> QED
        BY <1>1, <1>4, <2>1, <3>1, <4>1, <4>2, <4>3 DEF Waiting
    <3>2. CASE q # p
      <4>1. Waiting(q)' <=> Waiting(q)
        BY <1>2, <1>4, <3>2 DEF Waiting
      <4>2. q \in task'.paths <=> q \in task.paths
        BY <1>4, <3>2
      <4>3. q \in Path \ touched
        BY <1>3, <2>1
      <4> QED
        BY <1>1, <4>1, <4>2, <4>3 DEF TaskInv, WalkInv, Doing
    <3> QED
      BY <3>1, <3>2
  <2> QED
    BY <1>1, <1>4, <2>1 DEF TaskInv, WalkInv, IndexingInv, Doing
<1>8. IndexedIsCurrent'
  BY <1>1 DEF IndexedIsCurrent, index
<1> QED
  BY <1>5, <1>6, <1>7, <1>8 DEF KnowledgeInv

\* What sync_file_index makes of the entries.
LEMMA SyncedEntries ==
  ASSUME KnowledgeInv, SyncIndex
  PROVE  /\ entries' \in [DOMAIN entries' -> Path]
         /\ \E last \in Nat : DOMAIN entries' \subseteq 1..last
         /\ \A e \in DOMAIN entries : entries[e] \in task.paths =>
              e \in DOMAIN entries' /\ entries'[e] = entries[e]
         /\ \A p \in Path : p \in task.paths <=> \E e \in DOMAIN entries' : entries'[e] = p
         /\ \A e, f \in DOMAIN entries' : entries'[e] = entries'[f] => e = f
<1> DEFINE kept == {e \in DOMAIN entries : entries[e] \in task.paths}
           new == task.paths \ Listed
<1>1. PICK top \in Nat : DOMAIN entries \subseteq 1..top
  BY DEF KnowledgeInv, IndexShape
<1>2. /\ entries \in [DOMAIN entries -> Path] /\ task.paths \subseteq Path
      /\ entries' = Synced(kept, new)
  BY DEF KnowledgeInv, IndexShape, SyncIndex
<1>3. /\ entries' \in [DOMAIN entries' -> Path]
      /\ \E last \in Nat : DOMAIN entries' \subseteq 1..last
      /\ \A e \in kept : e \in DOMAIN entries' /\ entries'[e] = entries[e]
      /\ \A e \in DOMAIN entries' \ kept : entries'[e] \in new
      /\ \A p \in new : \E e \in DOMAIN entries' : entries'[e] = p
      /\ \A e, f \in DOMAIN entries' \ kept : entries'[e] = entries'[f] => e = f
  <2>1. kept \in SUBSET DOMAIN entries /\ new \in SUBSET Path
    BY <1>2
  <2> HIDE DEF kept, new
  <2> DEFINE s == Synced(kept, new)
  <2>2. /\ s \in [DOMAIN s -> Path]
        /\ \E last \in Nat : DOMAIN s \subseteq 1..last
        /\ \A e \in kept : e \in DOMAIN s /\ s[e] = entries[e]
        /\ \A e \in DOMAIN s \ kept : s[e] \in new
        /\ \A p \in new : \E e \in DOMAIN s : s[e] = p
        /\ \A e, f \in DOMAIN s \ kept : s[e] = s[f] => e = f
    <3> HIDE DEF s
    <3> QED
      BY <1>1, <1>2, <2>1, SyncedKeeps DEF s
  <2> QED
    BY <1>2, <2>2
<1>4. \A p \in task.paths : p \in new \/ \E e \in kept : entries[e] = p
  BY DEF Listed, Range
<1>5. \A e \in kept : entries[e] \in task.paths /\ entries[e] \notin new
  BY DEF Listed, Range
<1>6. \A e, f \in kept : entries[e] = entries[f] => e = f
  BY DEF KnowledgeInv, NothingTwice
<1>7. \A e \in DOMAIN entries : entries[e] \in task.paths => e \in kept
  OBVIOUS
<1>8. \A p \in new : p \in task.paths
  OBVIOUS
<1> HIDE DEF kept, new
<1>9. ASSUME NEW e \in DOMAIN entries', NEW f \in DOMAIN entries', entries'[e] = entries'[f]
      PROVE  e = f
  BY <1>3, <1>5, <1>6, <1>9
<1>10. \A p \in Path : p \in task.paths <=> \E e \in DOMAIN entries' : entries'[e] = p
  BY <1>3, <1>4, <1>5, <1>8
<1> QED
  BY <1>3, <1>7, <1>9, <1>10

LEMMA ScanEnds ==
  ASSUME KnowledgeInv, SyncIndex
  PROVE  KnowledgeInv'
<1>1. /\ IndexShape /\ NothingTwice /\ TaskInv /\ HitsHold /\ IndexedIsCurrent
      /\ task' = NoTask /\ task.pc = "walk" /\ covered' = covered \cap task.paths
      /\ UNCHANGED <<disk, documents, serial, agentVars, touched, indexBudget>>
  BY DEF KnowledgeInv, SyncIndex, Doing
<1>2. Stored' = documents' /\ Stored = documents /\ TaskInv'
  BY <1>1, AfterTask DEF TaskInv, WalkInv, Doing, Stored
<1>3. IndexShape'
  BY <1>1, SyncedEntries, AfterTask DEF IndexShape, agentVars
<1>4. NothingTwice'
  BY <1>1, <1>2, SyncedEntries DEF NothingTwice
<1>5. HitsHold'
  BY <1>1, <1>2 DEF HitsHold, Hits, Retrieved, agentVars
<1>6. IndexedIsCurrent'
  <2>1. SUFFICES ASSUME NEW p \in covered'
                 PROVE  \E d \in documents' :
                          /\ d.version = disk'[p]
                          /\ d.entry \in DOMAIN entries' /\ entries'[d.entry] = p
    BY DEF IndexedIsCurrent
  <2>2. p \in covered /\ p \in task.paths
    BY <1>1
  <2>3. PICK d \in documents :
          d.version = disk[p] /\ d.entry \in DOMAIN entries /\ entries[d.entry] = p
    BY <1>1, <2>2 DEF IndexedIsCurrent
  <2> QED
    BY <1>1, <2>2, <2>3, SyncedEntries
<1> QED
  BY <1>2, <1>3, <1>4, <1>5, <1>6 DEF KnowledgeInv

LEMMA LostTask ==
  ASSUME KnowledgeInv, TaskLost
  PROVE  KnowledgeInv'
<1>1. /\ IndexShape /\ NothingTwice /\ TaskInv /\ HitsHold /\ IndexedIsCurrent
      /\ task' = NoTask /\ UNCHANGED <<disk, index, agentVars, touched, covered>>
  BY DEF KnowledgeInv, TaskLost
<1>2. IndexShape' /\ TaskInv'
  BY <1>1, AfterTask, BudgetIsSpent DEF IndexShape, TaskLost, index, agentVars
<1>3. NothingTwice' /\ HitsHold'
  BY <1>1, AfterTask, FewerDocuments DEF Stored, index, agentVars
<1>4. IndexedIsCurrent'
  BY <1>1 DEF IndexedIsCurrent, index
<1> QED
  BY <1>2, <1>3, <1>4 DEF KnowledgeInv


-----------------------------------------------------------------------------
(* Every action of an index task keeps the invariant. *)

LEMMA IndexingBegins ==
  ASSUME KnowledgeInv, StartIndex
  PROVE  KnowledgeInv'
<1> DEFINE files == {[entry |-> e, path |-> entries[e]] : e \in DOMAIN entries}
<1>1. /\ IndexShape /\ NothingTwice /\ TaskInv /\ HitsHold /\ IndexedIsCurrent
      /\ task.batch = {} /\ touched' = {} /\ UNCHANGED <<disk, index, agentVars, covered>>
      /\ task' = [NoTask EXCEPT !.pc = "read", !.paths = Listed, !.todo = files]
  BY DEF KnowledgeInv, StartIndex, TaskInv, Doing
<1>2. /\ \A f \in files : f.path \in Path /\ f.entry \in DOMAIN entries /\ entries[f.entry] = f.path
      /\ \A p \in Listed : \E f \in files : f.path = p
      /\ files \in SUBSET File /\ Listed \in SUBSET Path
  <2>1. /\ entries \in [DOMAIN entries -> Path] /\ DOMAIN entries \subseteq Nat
        /\ Path \subseteq Nat
    BY <1>1, PathAssumption DEF IndexShape, Path
  <2>3. Listed = {entries[e] : e \in DOMAIN entries}
    BY DEF Listed, Range
  <2> DEFINE f(e) == [entry |-> e, path |-> entries[e]]
  <2>2. ASSUME NEW e \in DOMAIN entries
        PROVE  f(e) \in File /\ f(e).entry = e /\ f(e).path = entries[e] /\ f(e).path \in Path
    BY <2>1 DEF File
  <2> HIDE DEF f
  <2>4. files = {f(e) : e \in DOMAIN entries}
    BY DEF f
  <2> HIDE DEF files
  <2>5. files \in SUBSET File /\ Listed \in SUBSET Path
    BY <2>1, <2>2, <2>3, <2>4
  <2> QED
    BY <2>1, <2>2, <2>3, <2>4, <2>5
<1> HIDE DEF files
<1>3. /\ task'.pc = "read" /\ task'.todo = files /\ task'.paths = Listed /\ task'.batch = {}
      /\ task'.at = NoFile
      /\ task' \in [pc : {"idle", "walk", "read", "version"}, todo : SUBSET File,
                    paths : SUBSET Path, at : File, text : Contents, batch : SUBSET StoredDocument]
  <2>1. NoFile \in File
    BY DEF NoFile, File
  <2> QED
    BY <1>1, <1>2, <2>1 DEF NoTask, Contents
<1>4. IndexShape'
  BY <1>1, <1>3, BudgetIsSpent DEF IndexShape, StartIndex, index, agentVars
<1>5. NothingTwice' /\ HitsHold'
  BY <1>1, <1>3, FewerDocuments DEF Stored, index, agentVars
<1>6. TaskInv'
  BY <1>1, <1>2, <1>3 DEF TaskInv, WalkInv, IndexingInv, Doing, Waiting, index
<1>7. IndexedIsCurrent'
  BY <1>1 DEF IndexedIsCurrent, index
<1> QED
  BY <1>4, <1>5, <1>6, <1>7 DEF KnowledgeInv

\* A file that is passed over is not among those the task indexes.
LEMMA FileIsSkipped ==
  ASSUME KnowledgeInv, SkipExcluded
  PROVE  KnowledgeInv'
<1>1. /\ IndexShape /\ NothingTwice /\ TaskInv /\ HitsHold /\ IndexedIsCurrent
      /\ task.pc = "read" /\ task.todo # {}
      /\ UNCHANGED <<disk, index, agentVars, touched, covered, indexBudget>>
      /\ task' = [task EXCEPT !.todo = @ \ {NextFile}, !.paths = @ \ {NextFile.path}, !.at = NoFile]
  BY DEF KnowledgeInv, SkipExcluded, Doing, NothingLeft
<1>2. PICK f \in File : f = NextFile /\ f \in task.todo
  BY <1>1, NextIsThere DEF IndexShape
<1>3. /\ task'.pc = "read" /\ task'.todo = task.todo \ {f} /\ task'.paths = task.paths \ {f.path}
      /\ task'.batch = task.batch /\ task'.at = NoFile
      /\ task' \in [pc : {"idle", "walk", "read", "version"}, todo : SUBSET File,
                    paths : SUBSET Path, at : File, text : Contents, batch : SUBSET StoredDocument]
  <2>1. NoFile \in File
    BY DEF NoFile, File
  <2> QED
    BY <1>1, <1>2, <2>1 DEF IndexShape
<1>4. IndexShape'
  BY <1>1, <1>3 DEF IndexShape, index, agentVars
<1>5. Stored' = Stored /\ NothingTwice' /\ HitsHold'
  BY <1>1, <1>3, FewerDocuments DEF Stored, index, agentVars
<1>6. TaskInv'
  <2>1. ASSUME NEW p \in task'.paths \ touched'
        PROVE  (Waiting(p) \/ IndexedAs(p, Stored))'
    <3>1. p \in task.paths \ touched /\ p # f.path
      BY <1>1, <1>3, <2>1
    <3>2. Waiting(p) \/ IndexedAs(p, Stored)
      BY <1>1, <3>1 DEF TaskInv, IndexingInv
    <3> QED
      BY <1>1, <1>3, <1>5, <3>1, <3>2 DEF Waiting, IndexedAs, index
  <2>2. \A g \in task'.todo :
          /\ g.path \in Path
          /\ g.path \notin touched' => g.entry \in DOMAIN entries' /\ entries'[g.entry] = g.path
    BY <1>1, <1>3 DEF TaskInv, IndexingInv, index
  <2>3. IndexingInv' /\ WalkInv'
    BY <1>3, <2>1, <2>2 DEF IndexingInv, WalkInv, Doing
  <2> QED
    BY <1>3, <2>3 DEF TaskInv, Doing
<1>7. IndexedIsCurrent'
  BY <1>1 DEF IndexedIsCurrent, index
<1> QED
  BY <1>4, <1>5, <1>6, <1>7 DEF KnowledgeInv

LEMMA TextIsRead ==
  ASSUME KnowledgeInv, ReadText
  PROVE  KnowledgeInv'
<1>1. /\ IndexShape /\ NothingTwice /\ TaskInv /\ HitsHold /\ IndexedIsCurrent
      /\ task.pc = "read" /\ task.todo # {}
      /\ UNCHANGED <<disk, index, agentVars, touched, covered, indexBudget>>
  BY DEF KnowledgeInv, ReadText, Doing, NothingLeft
<1>2. NextFile \in task.todo /\ NextFile \in File /\ NextFile.path \in Path
  BY <1>1, NextIsThere DEF IndexShape, TaskInv, IndexingInv, Doing
<1>3. /\ task'.pc = "version" /\ task'.todo = task.todo /\ task'.paths = task.paths
      /\ task'.batch = task.batch /\ task'.at = NextFile
      /\ task' \in [pc : {"idle", "walk", "read", "version"}, todo : SUBSET File,
                    paths : SUBSET Path, at : File, text : Contents, batch : SUBSET StoredDocument]
  BY <1>1, <1>2 DEF IndexShape, ReadText
<1>4. IndexShape'
  BY <1>1, <1>3 DEF IndexShape, index, agentVars
<1>5. Stored' = Stored /\ NothingTwice' /\ HitsHold'
  BY <1>1, <1>3, FewerDocuments DEF Stored, index, agentVars
<1>6. TaskInv'
  BY <1>1, <1>2, <1>3, <1>5 DEF TaskInv, WalkInv, IndexingInv, Doing, Waiting, IndexedAs, index
<1>7. IndexedIsCurrent'
  BY <1>1 DEF IndexedIsCurrent, index
<1> QED
  BY <1>4, <1>5, <1>6, <1>7 DEF KnowledgeInv

LEMMA VersionIsRead ==
  ASSUME KnowledgeInv, ReadVersion
  PROVE  KnowledgeInv'
<1> DEFINE file == task.at
           version == disk[file.path]
           new == [id |-> serial + 1, entry |-> file.entry, path |-> file.path,
                   text |-> task.text, version |-> version]
           added == IF VersionExists(file.entry, version) THEN {} ELSE {new}
<1>1. /\ IndexShape /\ NothingTwice /\ TaskInv /\ HitsHold /\ IndexedIsCurrent
      /\ task.pc = "version"
      /\ UNCHANGED <<disk, entries, documents, agentVars, touched, covered, indexBudget>>
  BY DEF KnowledgeInv, ReadVersion, Doing
<1>2. /\ file \in task.todo /\ file \in File /\ file.path \in Path /\ file.entry \in Nat
      /\ version \in Contents /\ serial \in Nat
  BY <1>1 DEF IndexShape, TaskInv, IndexingInv, Doing, File
<1>3. /\ new \in StoredDocument /\ new.id = serial + 1 /\ new.entry = file.entry
      /\ new.version = version
  BY <1>1, <1>2 DEF IndexShape, StoredDocument
<1>4. /\ task' = [task EXCEPT !.pc = "read", !.todo = @ \ {file}, !.text = Nothing,
                             !.batch = @ \cup added]
      /\ serial' = IF added = {} THEN serial ELSE serial + 1
      /\ added = {} \/ added = {new}
  <2>1. task.batch \cup {} = task.batch
    OBVIOUS
  <2>2. CASE VersionExists(file.entry, version)
    <3>1. added = {} /\ serial' = serial
          /\ task' = [task EXCEPT !.pc = "read", !.todo = @ \ {file}, !.text = Nothing]
      BY <2>2 DEF ReadVersion
    <3>2. task = [task EXCEPT !.batch = @ \cup {}]
      BY <1>1, <2>1 DEF IndexShape
    <3> QED
      BY <1>1, <2>1, <3>1, <3>2 DEF IndexShape
  <2>3. CASE ~VersionExists(file.entry, version)
    BY <1>1, <2>3 DEF ReadVersion, IndexShape
  <2> QED
    BY <2>2, <2>3
<1>5. \E d \in Stored \cup added : d.entry = file.entry /\ d.version = version
  BY <1>3 DEF VersionExists, Stored
<1>6. added = {new} => ~ \E d \in Stored : d.entry = file.entry /\ d.version = version
  BY DEF VersionExists, Stored
<1> HIDE DEF added, new
<1>7. /\ task'.pc = "read" /\ task'.todo = task.todo \ {file} /\ task'.paths = task.paths
      /\ task'.at = file /\ task'.batch = task.batch \cup added
      /\ task' \in [pc : {"idle", "walk", "read", "version"}, todo : SUBSET File,
                    paths : SUBSET Path, at : File, text : Contents, batch : SUBSET StoredDocument]
  BY <1>1, <1>2, <1>3, <1>4 DEF IndexShape, Contents
<1>8. Stored' = Stored \cup added
  BY <1>1, <1>7 DEF Stored
<1>9. IndexShape'
  BY <1>1, <1>2, <1>4, <1>7 DEF IndexShape, agentVars
<1>10. \A d \in Stored : d.id \in Nat /\ d.id <= serial
  BY <1>1 DEF IndexShape, NothingTwice, Stored, StoredDocument
<1>11. NothingTwice'
  BY <1>1, <1>2, <1>3, <1>4, <1>6, <1>8, <1>10 DEF NothingTwice
<1>12. HitsHold'
  <2>1. \A r \in Hits : r.id \in Nat /\ r.id <= serial
    BY <1>1 DEF IndexShape, Hits, Hit, Range, HitsHold
  <2>2. Hits' = Hits
    BY <1>1 DEF Hits, agentVars
  <2> QED
    BY <1>1, <1>2, <1>3, <1>4, <1>8, <2>1, <2>2 DEF HitsHold, Retrieved
<1>13. TaskInv'
  <2>1. ASSUME NEW p \in task'.paths \ touched'
        PROVE  (Waiting(p) \/ IndexedAs(p, Stored))'
    <3>1. p \in task.paths \ touched
      BY <1>1, <1>7, <2>1
    <3>2. CASE p = file.path
      <4>1. file.entry \in DOMAIN entries /\ entries[file.entry] = p
        BY <1>1, <1>2, <3>1, <3>2 DEF TaskInv, IndexingInv
      <4> QED
        BY <1>1, <1>5, <1>8, <3>2, <4>1 DEF IndexedAs
    <3>3. CASE p # file.path
      <4>1. Waiting(p) \/ IndexedAs(p, Stored)
        BY <1>1, <3>1 DEF TaskInv, IndexingInv
      <4> QED
        BY <1>1, <1>7, <1>8, <3>3, <4>1 DEF Waiting, IndexedAs
    <3> QED
      BY <3>2, <3>3
  <2>2. \A f \in task'.todo :
          /\ f.path \in Path
          /\ f.path \notin touched' => f.entry \in DOMAIN entries' /\ entries'[f.entry] = f.path
    BY <1>1, <1>7 DEF TaskInv, IndexingInv
  <2>3. IndexingInv'
    BY <1>7, <2>1, <2>2 DEF IndexingInv, Doing
  <2>4. WalkInv'
    BY <1>7 DEF WalkInv, Doing
  <2> QED
    BY <1>2, <1>7, <2>3, <2>4 DEF TaskInv, Doing
<1>14. IndexedIsCurrent'
  BY <1>1 DEF IndexedIsCurrent
<1> QED
  BY <1>9, <1>11, <1>12, <1>13, <1>14 DEF KnowledgeInv

\* A file is recorded as failed, and the task is over.
LEMMA FailureEnds ==
  ASSUME KnowledgeInv, NEW file \in File, file.path \in Path, RecordFailed(file),
         task' = NoTask, indexBudget' \in IndexBudget,
         UNCHANGED <<disk, entries, agentVars, touched, covered>>
  PROVE  KnowledgeInv'
<1>1. /\ documents' \subseteq StoredDocument /\ serial' \in Nat /\ NothingTwice' /\ HitsHold'
      /\ \A d \in documents : \E o \in documents' : o.entry = d.entry /\ o.version = d.version
  BY FailureIsRecorded DEF agentVars
<1>2. IndexShape'
  BY <1>1, AfterTask DEF KnowledgeInv, IndexShape, agentVars
<1>3. IndexedIsCurrent'
  <2>1. SUFFICES ASSUME NEW p \in covered'
                 PROVE  \E d \in documents' :
                          /\ d.version = disk'[p]
                          /\ d.entry \in DOMAIN entries' /\ entries'[d.entry] = p
    BY DEF IndexedIsCurrent
  <2>2. PICK d \in documents :
          d.version = disk[p] /\ d.entry \in DOMAIN entries /\ entries[d.entry] = p
    BY <2>1 DEF KnowledgeInv, IndexedIsCurrent
  <2> QED
    BY <1>1, <2>2
<1> QED
  BY <1>1, <1>2, <1>3, AfterTask DEF KnowledgeInv

LEMMA IndexingFails ==
  ASSUME KnowledgeInv, IngestFails \/ CommitFails
  PROVE  KnowledgeInv'
<1>1. IndexShape /\ TaskInv
  BY DEF KnowledgeInv
<1>2. CASE IngestFails
  <2>1. /\ NextFile \in File /\ NextFile.path \in Path
    BY <1>1, <1>2, NextIsThere DEF IngestFails, NothingLeft, IndexShape, TaskInv, IndexingInv
  <2>2. indexBudget' \in IndexBudget
    BY <1>1, <1>2, BudgetIsSpent DEF IngestFails, IndexShape
  <2> QED
    BY <1>2, <2>1, <2>2, FailureEnds DEF IngestFails
<1>3. CASE CommitFails
  <2>1. task.at \in File /\ task.at.path \in Path
    BY <1>1, <1>3 DEF CommitFails, IndexShape, TaskInv
  <2>2. indexBudget' \in IndexBudget
    BY <1>1, <1>3, BudgetIsSpent DEF CommitFails, IndexShape
  <2> QED
    BY <1>3, <2>1, <2>2, FailureEnds DEF CommitFails
<1> QED
  BY <1>2, <1>3

LEMMA IndexIsCommitted ==
  ASSUME KnowledgeInv, CommitIndex
  PROVE  KnowledgeInv'
<1>1. /\ IndexShape /\ NothingTwice /\ TaskInv /\ HitsHold
      /\ task.pc = "read" /\ task.todo = {} /\ task' = NoTask
      /\ documents' = Stored /\ covered' = task.paths \ touched
      /\ UNCHANGED <<disk, entries, serial, agentVars, touched, indexBudget>>
  BY DEF KnowledgeInv, CommitIndex, Doing, NothingLeft, Stored
<1>2. Stored' = Stored /\ TaskInv'
  BY <1>1, AfterTask
<1>3. IndexShape'
  BY <1>1, AfterTask DEF IndexShape, Stored, agentVars
<1>4. NothingTwice' /\ HitsHold'
  BY <1>1, <1>2, FewerDocuments DEF agentVars
<1>5. IndexedIsCurrent'
  BY <1>1 DEF TaskInv, IndexingInv, IndexedIsCurrent, IndexedAs, Waiting
<1> QED
  BY <1>2, <1>3, <1>4, <1>5 DEF KnowledgeInv


-----------------------------------------------------------------------------
(* Every other action keeps the invariant. *)

\* Whoever changes the files at some paths, or what is listed there, touches
\* those paths; the task and the covered paths know nothing else.
LEMMA OthersAreUntouched ==
  ASSUME KnowledgeInv, NEW paths \in SUBSET Path, Touch(paths),
         UNCHANGED <<task, serial, contexts>>,
         documents' \subseteq documents, documents' = documents \/ task.batch = {},
         \A p \in Path \ paths : disk'[p] = disk[p],
         \A e \in DOMAIN entries : entries[e] \notin paths =>
           e \in DOMAIN entries' /\ entries'[e] = entries[e],
         \A d \in documents : d.entry \in DOMAIN entries /\ entries[d.entry] \notin paths =>
           d \in documents'
  PROVE  TaskInv' /\ HitsHold' /\ IndexedIsCurrent'
<1>1. /\ IndexShape /\ NothingTwice /\ TaskInv /\ HitsHold /\ IndexedIsCurrent
      /\ touched' = touched \cup paths /\ covered' = covered \ paths
  BY DEF KnowledgeInv, Touch
<1>2. task.paths \subseteq Path /\ covered \subseteq Path
  BY <1>1 DEF IndexShape
<1>3. Stored' \subseteq Stored
  BY DEF Stored
<1>4. HitsHold'
  BY <1>1, <1>3 DEF HitsHold, Hits, Retrieved
<1>5. ASSUME NEW p \in Path \ paths, NEW d \in Stored,
             d.version = disk[p], d.entry \in DOMAIN entries, entries[d.entry] = p
      PROVE  /\ d \in Stored'
             /\ d \in documents => d \in documents'
             /\ d.version = disk'[p] /\ d.entry \in DOMAIN entries' /\ entries'[d.entry] = p
  BY <1>5 DEF Stored
<1>6. IndexedIsCurrent'
  <2>1. SUFFICES ASSUME NEW p \in covered'
                 PROVE  \E d \in documents' :
                          /\ d.version = disk'[p]
                          /\ d.entry \in DOMAIN entries' /\ entries'[d.entry] = p
    BY DEF IndexedIsCurrent
  <2>2. p \in covered /\ p \in Path \ paths
    BY <1>1, <1>2
  <2>3. PICK d \in documents :
          d.version = disk[p] /\ d.entry \in DOMAIN entries /\ entries[d.entry] = p
    BY <1>1, <2>2 DEF IndexedIsCurrent
  <2>4. d \in Stored
    BY DEF Stored
  <2> QED
    BY <1>5, <2>2, <2>3, <2>4
<1>7. WalkInv'
  BY <1>1 DEF TaskInv, WalkInv, Doing, Waiting
<1>8. IndexingInv'
  <2>1. SUFFICES ASSUME task.pc \in {"read", "version"}
                 PROVE  IndexingInv'
    BY DEF IndexingInv
  <2>2. ASSUME NEW p \in task.paths \ touched'
        PROVE  Waiting(p) \/ IndexedAs(p, Stored)'
    <3>1. p \in Path \ paths /\ p \in task.paths \ touched
      BY <1>1, <1>2
    <3>2. Waiting(p) \/ IndexedAs(p, Stored)
      BY <1>1, <2>1, <3>1 DEF TaskInv, IndexingInv
    <3>3. CASE IndexedAs(p, Stored)
      <4>1. PICK d \in Stored :
              d.version = disk[p] /\ d.entry \in DOMAIN entries /\ entries[d.entry] = p
        BY <3>3 DEF IndexedAs
      <4>2. /\ d \in Stored' /\ d.version = disk'[p]
            /\ d.entry \in DOMAIN entries' /\ entries'[d.entry] = p
        BY <1>5, <3>1, <4>1
      <4> QED
        BY <4>2 DEF IndexedAs
    <3> QED
      BY <3>2, <3>3
  <2>3. ASSUME NEW f \in task.todo, f.path \notin touched'
        PROVE  f.entry \in DOMAIN entries' /\ entries'[f.entry] = f.path
    BY <1>1, <2>1, <2>3 DEF TaskInv, IndexingInv
  <2>4. (\A f \in task.todo : f.path \in Path) /\ (Doing("version") => task.at \in task.todo)
    BY <1>1, <2>1 DEF TaskInv, IndexingInv
  <2> QED
    BY <2>2, <2>3, <2>4 DEF IndexingInv, Waiting, Doing
<1> QED
  BY <1>1, <1>4, <1>6, <1>7, <1>8 DEF TaskInv, Doing

LEMMA UserChanges ==
  ASSUME KnowledgeInv, NEW p \in Path, NEW content \in Contents, FileChanges(p, content)
  PROVE  KnowledgeInv'
<1>1. /\ IndexShape /\ NothingTwice /\ UNCHANGED <<index, task, agentVars>>
      /\ disk' = [disk EXCEPT ![p] = content] /\ Touch({p})
  BY DEF KnowledgeInv, FileChanges
<1>2. \A q \in Path \ {p} : disk'[q] = disk[q]
  BY <1>1 DEF IndexShape
<1>3. TaskInv' /\ HitsHold' /\ IndexedIsCurrent'
  BY <1>1, <1>2, OthersAreUntouched DEF index, agentVars
<1>4. IndexShape'
  <2>1. indexBudget' \in IndexBudget
    BY <1>1, BudgetIsSpent DEF FileChanges, IndexShape
  <2>2. disk' \in [Path -> Contents] /\ touched' \subseteq Path /\ covered' \subseteq Path
    BY <1>1 DEF IndexShape, Touch
  <2> QED
    BY <1>1, <2>1, <2>2 DEF IndexShape, index, agentVars
<1>5. NothingTwice'
  BY <1>1 DEF NothingTwice, Stored, index
<1> QED
  BY <1>3, <1>4, <1>5 DEF KnowledgeInv

LEMMA FileIsMoved ==
  ASSUME KnowledgeInv, NEW e \in DOMAIN entries, NEW to \in Path, FileMoved(e, to)
  PROVE  KnowledgeInv'
<1> DEFINE from == entries[e]
<1>1. /\ IndexShape /\ NothingTwice /\ UNCHANGED <<documents, serial, task, agentVars>>
      /\ disk' = [disk EXCEPT ![to] = disk[from], ![from] = Nothing]
      /\ entries' = [entries EXCEPT ![e] = to] /\ Touch({from, to}) /\ to \notin Listed
  BY DEF KnowledgeInv, FileMoved
<1>2. from \in Path /\ disk[from] \in Contents /\ Nothing \in Contents
  BY <1>1 DEF IndexShape, Contents
<1>3. \A q \in Path \ {from, to} : disk'[q] = disk[q]
  BY <1>1, <1>2 DEF IndexShape
<1>4. /\ DOMAIN entries' = DOMAIN entries /\ entries'[e] = to
      /\ \A f \in DOMAIN entries : f # e => entries'[f] = entries[f]
      /\ \A f \in DOMAIN entries : entries[f] # to
  BY <1>1 DEF Listed, Range
<1>5. TaskInv' /\ HitsHold' /\ IndexedIsCurrent'
  BY <1>1, <1>2, <1>3, <1>4, OthersAreUntouched DEF agentVars
<1>6. IndexShape'
  <2>1. indexBudget' \in IndexBudget
    BY <1>1, BudgetIsSpent DEF FileMoved, IndexShape
  <2>2. /\ disk' \in [Path -> Contents] /\ touched' \subseteq Path /\ covered' \subseteq Path
        /\ entries' \in [DOMAIN entries' -> Path]
    BY <1>1, <1>2, <1>4 DEF IndexShape, Touch
  <2> QED
    BY <1>1, <1>4, <2>1, <2>2 DEF IndexShape, agentVars
<1>7. NothingTwice'
  BY <1>1, <1>4 DEF NothingTwice, Stored
<1> QED
  BY <1>5, <1>6, <1>7 DEF KnowledgeInv

LEMMA DocumentIsDeleted ==
  ASSUME KnowledgeInv, NEW d \in documents, DeleteDocument(d)
  PROVE  KnowledgeInv'
<1> DEFINE paths == {entries[e] : e \in {d.entry} \cap DOMAIN entries}
<1>1. /\ IndexShape /\ NothingTwice /\ HitsHold /\ UNCHANGED <<disk, entries, serial, task, agentVars>>
      /\ documents' = documents \ {d} /\ Touch(paths) /\ task.batch = {}
  BY DEF KnowledgeInv, DeleteDocument, WriteLockFree
<1>2. paths \in SUBSET Path /\ (d.entry \in DOMAIN entries => entries[d.entry] \in paths)
  BY <1>1 DEF IndexShape
<1> HIDE DEF paths
<1>3. TaskInv' /\ HitsHold' /\ IndexedIsCurrent'
  BY <1>1, <1>2, OthersAreUntouched DEF agentVars
<1>4. IndexShape'
  <2>1. indexBudget' \in IndexBudget
    BY <1>1, BudgetIsSpent DEF DeleteDocument, IndexShape
  <2>2. touched' \subseteq Path /\ covered' \subseteq Path
    BY <1>1, <1>2 DEF IndexShape, Touch
  <2> QED
    BY <1>1, <2>1, <2>2 DEF IndexShape, agentVars
<1>5. NothingTwice'
  BY <1>1, FewerDocuments DEF Stored, agentVars
<1> QED
  BY <1>3, <1>4, <1>5 DEF KnowledgeInv

\* A result shows its document as it is; only documents with a text are found.
LEMMA SearchFinds ==
  ASSUME KnowledgeInv, NEW texts \in SUBSET Text, Search(texts)
  PROVE  KnowledgeInv'
<1>1. /\ IndexShape /\ NothingTwice /\ TaskInv /\ HitsHold /\ IndexedIsCurrent
      /\ UNCHANGED <<disk, index, task, answer, touched, covered>>
  BY DEF KnowledgeInv, Search
<1>2. PICK found \in SUBSET documents :
        contexts' = Append(contexts, {Retrieved(d) : d \in found})
  BY DEF Search, Matches
<1> DEFINE new == {Retrieved(d) : d \in found}
<1>3. new \in SUBSET Hit
  BY <1>1 DEF IndexShape, StoredDocument, Retrieved, Hit
<1>4. contexts' \in Seq(SUBSET Hit) /\ Hits' = Hits \cup new
  <2> HIDE DEF new
  <2>1. contexts \in Seq(SUBSET Hit)
    BY <1>1 DEF IndexShape
  <2>2. /\ contexts' \in Seq(SUBSET Hit) /\ DOMAIN contexts' = 1..(Len(contexts) + 1)
        /\ contexts'[Len(contexts) + 1] = new
        /\ \A i \in DOMAIN contexts : contexts'[i] = contexts[i]
        /\ DOMAIN contexts = 1..Len(contexts) /\ Len(contexts) \in Nat
    BY <1>2, <1>3, <2>1 DEF new
  <2>3. Range(contexts') = Range(contexts) \cup {new}
    BY <2>2 DEF Range
  <2> QED
    BY <2>2, <2>3 DEF Hits
<1>5. IndexShape'
  <2>1. indexBudget' \in IndexBudget
    BY <1>1, BudgetIsSpent DEF Search, IndexShape
  <2> QED
    BY <1>1, <1>4, <2>1 DEF IndexShape, index
<1>6. Stored' = Stored /\ NothingTwice'
  BY <1>1 DEF NothingTwice, Stored, index
<1>7. HitsHold'
  <2>1. ASSUME NEW d \in found
        PROVE  /\ Retrieved(d).id = d.id /\ d.id <= serial
               /\ \A o \in Stored : o.id = d.id => o = d
    BY <1>1 DEF NothingTwice, Stored, Retrieved
  <2> QED
    BY <1>1, <1>4, <1>6, <2>1 DEF HitsHold, index
<1>8. TaskInv'
  BY <1>1, <1>6 DEF TaskInv, WalkInv, IndexingInv, Doing, Waiting, IndexedAs, index
<1>9. IndexedIsCurrent'
  BY <1>1 DEF IndexedIsCurrent, index
<1> QED
  BY <1>5, <1>6, <1>7, <1>8, <1>9 DEF KnowledgeInv

LEMMA AnswerIsGiven ==
  ASSUME KnowledgeInv, NEW cited \in SUBSET (0..serial), GiveAnswer(cited)
  PROVE  KnowledgeInv'
<1>1. /\ IndexShape /\ NothingTwice /\ TaskInv /\ HitsHold /\ IndexedIsCurrent
      /\ UNCHANGED <<disk, index, task, contexts, touched, covered, indexBudget>>
      /\ answer' = [cited |-> cited, given |-> Bound(cited), sources |-> Sources]
  BY DEF KnowledgeInv, GiveAnswer
<1>2. cited \in SUBSET Nat /\ Bound(cited) \in BOOLEAN /\ Sources \in SUBSET Hit
  BY <1>1 DEF IndexShape, Bound, Sources, Range
<1>3. IndexShape'
  BY <1>1, <1>2 DEF IndexShape, index
<1>4. NothingTwice' /\ HitsHold' /\ IndexedIsCurrent'
  BY <1>1 DEF NothingTwice, HitsHold, Hits, Stored, Retrieved, IndexedIsCurrent, index
<1>5. TaskInv'
  BY <1>1 DEF TaskInv, WalkInv, IndexingInv, Doing, Waiting, IndexedAs, Stored, index
<1> QED
  BY <1>1, <1>3, <1>4, <1>5 DEF KnowledgeInv


-----------------------------------------------------------------------------
(* The theorems. *)

LEMMA InvInitially ==
  ASSUME KnowledgeInit
  PROVE  KnowledgeInv
<1>1. /\ indexBudget \in IndexBudget /\ disk \in [Path -> Contents]
      /\ entries = <<>> /\ documents = {} /\ serial = 0 /\ task = NoTask
      /\ contexts = <<>> /\ answer = NoAnswer /\ touched = {} /\ covered = {}
  BY IndexBudgetAssumption DEF KnowledgeInit, IndexBudget, Contents
<1>2. /\ task.pc = "idle" /\ task.batch = {} /\ task.at = NoFile
      /\ task \in [pc : {"idle", "walk", "read", "version"}, todo : SUBSET File,
                   paths : SUBSET Path, at : File, text : Contents, batch : SUBSET StoredDocument]
  <2>1. NoFile \in File
    BY DEF NoFile, File
  <2> QED
    BY <1>1, <2>1 DEF NoTask, Contents
<1>3. /\ DOMAIN entries = {} /\ entries \in [DOMAIN entries -> Path]
      /\ contexts \in Seq(SUBSET Hit) /\ Hits = {}
  BY <1>1 DEF Hits, Range
<1>4. answer \in [cited : SUBSET Nat, given : BOOLEAN, sources : SUBSET Hit]
  BY <1>1 DEF NoAnswer
<1>5. IndexShape
  <2>1. \E last \in Nat : DOMAIN entries \subseteq 1..last
    BY <1>3
  <2> QED
    BY <1>1, <1>2, <1>3, <1>4, <2>1 DEF IndexShape
<1>6. NothingTwice /\ HitsHold /\ TaskInv /\ IndexedIsCurrent
  BY <1>1, <1>2, <1>3 DEF NothingTwice, HitsHold, TaskInv, WalkInv, IndexingInv, Doing,
                          Stored, IndexedIsCurrent
<1> QED
  BY <1>5, <1>6 DEF KnowledgeInv

LEMMA InvStuttering ==
  ASSUME KnowledgeInv, UNCHANGED knowledgeVars
  PROVE  KnowledgeInv'
BY DEF KnowledgeInv, IndexShape, NothingTwice, TaskInv, WalkInv, IndexingInv, Doing, Waiting,
       IndexedAs, Stored, HitsHold, Hits, Retrieved, IndexedIsCurrent, knowledgeVars, index, agentVars

LEMMA InvInductive ==
  ASSUME KnowledgeInv, [KnowledgeNext]_knowledgeVars
  PROVE  KnowledgeInv'
<1>1. CASE StartScan \/ Look \/ LookFails \/ SyncIndex \/ TaskLost
  BY <1>1, ScanBegins, WalkGoesOn, ScanEnds, LostTask
<1>2. CASE StartIndex \/ SkipExcluded \/ ReadText \/ ReadVersion \/ IngestFails \/ CommitIndex \/ CommitFails
  BY <1>2, IndexingBegins, FileIsSkipped, TextIsRead, VersionIsRead, IndexingFails, IndexIsCommitted
<1>3. CASE \E p \in Path, content \in Text \cup {Nothing} : FileChanges(p, content)
  BY <1>3, UserChanges DEF Contents
<1>4. CASE \E e \in DOMAIN entries, to \in Path : FileMoved(e, to)
  BY <1>4, FileIsMoved
<1>5. CASE \E d \in documents : DeleteDocument(d)
  BY <1>5, DocumentIsDeleted
<1>6. CASE \E texts \in (SUBSET Text) \ {{}} : Search(texts)
  BY <1>6, SearchFinds
<1>7. CASE \E cited \in SUBSET (0..serial) : GiveAnswer(cited)
  BY <1>7, AnswerIsGiven
<1>8. CASE UNCHANGED knowledgeVars
  BY <1>8, InvStuttering
<1> QED
  BY <1>1, <1>2, <1>3, <1>4, <1>5, <1>6, <1>7, <1>8 DEF KnowledgeNext

\* The invariant of the document index, in every state.
THEOREM KnowledgeInvariant == KnowledgeSpec => []KnowledgeInv
<1>1. KnowledgeInit => KnowledgeInv
  BY InvInitially
<1>2. KnowledgeInv /\ [KnowledgeNext]_knowledgeVars => KnowledgeInv'
  BY InvInductive
<1> QED
  BY <1>1, <1>2, PTL DEF KnowledgeSpec

\* No path is listed twice, no version of a file is stored twice and no id of
\* a document is given twice, whatever tasks, moves, deletions and failures
\* do; the state has its types (models.py:239, :283).
THEOREM IndexTypesCorrect == KnowledgeSpec => []KnowledgeTypeOK
<1>1. KnowledgeInv => KnowledgeTypeOK
  <2>1. SUFFICES ASSUME KnowledgeInv PROVE KnowledgeTypeOK
    OBVIOUS
  <2>2. IndexShape /\ NothingTwice
    BY <2>1 DEF KnowledgeInv
  <2>3. Listed \subseteq Path /\ \A e, f \in DOMAIN entries : entries[e] = entries[f] => e = f
    BY <2>2 DEF IndexShape, NothingTwice, Listed, Range
  <2>4. /\ documents \cup task.batch \subseteq StoredDocument
        /\ \A d, o \in documents \cup task.batch :
             d.id = o.id \/ (d.entry = o.entry /\ d.version = o.version) => d = o
    BY <2>2 DEF IndexShape, NothingTwice, Stored
  <2>5. UNION Range(contexts) \subseteq Hit
    BY <2>2 DEF IndexShape, Range
  <2>6. (UNION Range(contexts)) \cup answer.sources \subseteq [id : Nat, path : Path, version : Contents]
    BY <2>2, <2>5 DEF IndexShape, Hit
  <2>7. /\ disk \in [Path -> Contents] /\ task.pc \in {"idle", "walk", "read", "version"}
        /\ task.text \in Contents /\ task.paths \cup touched \cup covered \subseteq Path
        /\ answer.cited \subseteq Nat /\ answer.given \in BOOLEAN /\ indexBudget \in IndexBudget
    BY <2>2 DEF IndexShape
  <2> QED
    BY <2>3, <2>4, <2>6, <2>7 DEF KnowledgeTypeOK
<1> QED
  BY <1>1, KnowledgeInvariant, PTL

\* A file that nobody has touched since an index task that was successful
\* began is indexed with the content it has, after any number of failed,
\* repeated and interrupted tasks.
THEOREM IndexTellsTheTruth == KnowledgeSpec => []IndexedIsCurrent
<1>1. KnowledgeInv => IndexedIsCurrent
  BY DEF KnowledgeInv
<1> QED
  BY <1>1, KnowledgeInvariant, PTL

\* A scan lists the files that were left alone while it ran, under the ids
\* they had, and no others.
THEOREM ScansKeepIdentity == KnowledgeSpec => ScanKeepsIdentity
<1> DEFINE Kept ==
      Doing("walk") /\ NothingLeft /\ task' = NoTask /\ indexBudget' = indexBudget =>
        \A p \in Path \ touched :
          /\ (disk[p] # Nothing) = (p \in {entries'[e] : e \in DOMAIN entries'})
          /\ \A e \in DOMAIN entries : entries[e] = p /\ disk[p] # Nothing =>
               e \in DOMAIN entries' /\ entries'[e] = p
<1>1. KnowledgeInv /\ [KnowledgeNext]_knowledgeVars => [Kept]_knowledgeVars
  <2> SUFFICES ASSUME KnowledgeInv, KnowledgeNext, Doing("walk"), NothingLeft,
                      task' = NoTask, indexBudget' = indexBudget
               PROVE  Kept
    OBVIOUS
  <2>1. indexBudget \in IndexBudget /\ task.pc = "walk" /\ task'.pc = "idle" /\ task.todo = {}
    BY DEF KnowledgeInv, IndexShape, Doing, NothingLeft, NoTask
  <2>2. SyncIndex
    <3>1. ~TaskLost
      BY <2>1, BudgetIsSpent DEF TaskLost
    <3>2. ~(StartScan \/ Look \/ LookFails \/ StartIndex \/ SkipExcluded \/ ReadText \/ ReadVersion
            \/ IngestFails \/ CommitIndex \/ CommitFails)
      BY <2>1 DEF StartScan, Look, LookFails, StartIndex, SkipExcluded, ReadText, ReadVersion,
                  IngestFails, CommitIndex, CommitFails, Doing, NothingLeft
    <3>3. task' # task
      BY <2>1
    <3> QED
      BY <3>1, <3>2, <3>3 DEF KnowledgeNext, FileChanges, FileMoved, DeleteDocument, Search, GiveAnswer
  <2>3. \A p \in Path \ touched : p \in task.paths <=> disk[p] # Nothing
    BY <2>1 DEF KnowledgeInv, TaskInv, WalkInv, Doing, Waiting
  <2> QED
    BY <2>2, <2>3, SyncedEntries
<1> QED
  BY <1>1, KnowledgeInvariant, PTL DEF KnowledgeSpec, ScanKeepsIdentity

\* An answer is given to the client only when every document it cites is, at
\* that moment, the one a search of its run has found, and is shown with it.
THEOREM AnswersRestOnDocuments == KnowledgeSpec => AnswersAreGrounded
<1> DEFINE Grounded ==
      answer'.given /\ ~answer.given =>
        /\ answer'.cited # {}
        /\ \A c \in answer'.cited : \E d \in documents :
             /\ d.id = c /\ d.version # Nothing
             /\ \E i \in DOMAIN contexts : Retrieved(d) \in contexts[i] \cap answer'.sources
<1>1. KnowledgeInv /\ [KnowledgeNext]_knowledgeVars => [Grounded]_knowledgeVars
  <2> SUFFICES ASSUME KnowledgeInv, KnowledgeNext, answer'.given, ~answer.given
               PROVE  Grounded
    OBVIOUS
  <2>1. PICK cited \in SUBSET (0..serial) : GiveAnswer(cited)
    <3>1. answer' # answer
      OBVIOUS
    <3> QED
      BY <3>1 DEF KnowledgeNext, StartScan, Look, LookFails, SyncIndex, TaskLost, StartIndex,
                  SkipExcluded, ReadText, ReadVersion, IngestFails, CommitIndex, CommitFails, FileChanges,
                  FileMoved, DeleteDocument, Search, agentVars
  <2>2. answer'.cited = cited /\ answer'.sources = Sources /\ Bound(cited)
    BY <2>1 DEF GiveAnswer
  <2>3. ASSUME NEW c \in cited
        PROVE  \E d \in documents :
                 /\ d.id = c /\ d.version # Nothing
                 /\ \E i \in DOMAIN contexts : Retrieved(d) \in contexts[i] \cap Sources
    <3>1. PICK i \in DOMAIN contexts : \E r \in contexts[i] :
            r.id = c /\ r.version # Nothing /\ CurrentVersion(c) = r.version
      BY <2>2 DEF Bound
    <3>2. PICK r \in contexts[i] : r.id = c /\ r.version # Nothing /\ CurrentVersion(c) = r.version
      BY <3>1
    <3>3. PICK d \in documents : d.id = c
      BY <3>2 DEF CurrentVersion
    <3>4. r \in Hits /\ r \in Sources
      BY DEF Hits, Sources, Range
    <3>5. Retrieved(d) = r
      BY <3>2, <3>3, <3>4 DEF KnowledgeInv, HitsHold, Stored
    <3>6. d.version # Nothing
      BY <3>2, <3>5 DEF Retrieved
    <3> QED
      BY <3>3, <3>4, <3>5, <3>6
  <2>4. cited # {}
    BY <2>2 DEF Bound
  <2> QED
    BY <2>2, <2>3, <2>4
<1> QED
  BY <1>1, KnowledgeInvariant, PTL DEF KnowledgeSpec, AnswersAreGrounded

-----------------------------------------------------------------------------
(* Pages: the order of entries. *)

LEMMA EntriesOrdered ==
  ASSUME NEW e \in Entry, NEW f \in Entry
  PROVE  /\ ~Before(e, e) /\ (e # f => Before(e, f) \/ Before(f, e))
         /\ Before(e, f) => e # f /\ e.fold <= f.fold /\ ~Before(f, e)
         /\ \A g \in Entry : Before(e, f) /\ Before(f, g) => Before(e, g)
<1>1. \A x \in Entry : x = [fold |-> x.fold, form |-> x.form] /\ x.fold \in Nat /\ x.form \in Nat
  BY EntryAssumption
<1>2. e # f => e.fold # f.fold \/ e.form # f.form
  BY <1>1
<1> QED
  BY <1>1, <1>2 DEF Before

\* A finite set of entries that is not empty has a last one.
LEMMA LastEntry ==
  ASSUME NEW S \in SUBSET Entry, IsFiniteSet(S), S # {}
  PROVE  \E m \in S : \A e \in S \ {m} : Before(e, m)
<1> DEFINE HasLast(T) == \E m \in T : \A e \in T \ {m} : Before(e, m)
           bad == {n \in Nat : \E T \in SUBSET Entry : IsFiniteSet(T) /\ T # {} /\ Cardinality(T) = n /\ ~HasLast(T)}
<1>1. SUFFICES ASSUME bad # {} PROVE FALSE
  BY FS_CardinalityType
<1>2. PICK n \in bad : \A k \in bad : n <= k
  BY <1>1, LeastNumber
<1>3. PICK T \in SUBSET Entry : IsFiniteSet(T) /\ T # {} /\ Cardinality(T) = n /\ ~HasLast(T)
  BY <1>2
<1>4. PICK x \in T : TRUE
  BY <1>3
<1>5. PICK R : R = T \ {x}
  OBVIOUS
<1>6. R \in SUBSET Entry /\ IsFiniteSet(R) /\ Cardinality(R) = n - 1 /\ n - 1 \in Nat /\ n \in Nat
  <2>1. IsFiniteSet(T) /\ x \in T /\ Cardinality(T) = n /\ n \in Nat
    BY <1>2, <1>3, <1>4
  <2>2. IsFiniteSet(R) /\ Cardinality(R) = n - 1
    BY <1>5, <2>1, FS_RemoveElement
  <2>3. Cardinality(R) \in Nat
    BY <2>2, FS_CardinalityType
  <2> QED
    BY <1>5, <2>1, <2>2, <2>3
<1>7. R # {}
  BY <1>3, <1>4, <1>5
<1>8. HasLast(R)
  <2>1. n - 1 \notin bad
    BY <1>2, <1>6
  <2> QED
    BY <1>6, <1>7, <2>1
<1>9. PICK m \in R : \A e \in R \ {m} : Before(e, m)
  BY <1>8
<1>10. CASE Before(m, x)
  <2>1. \A e \in T \ {x} : Before(e, x)
    BY <1>3, <1>4, <1>5, <1>9, <1>10, EntriesOrdered
  <2> QED
    BY <1>3, <1>4, <2>1
<1>11. CASE Before(x, m)
  <2>1. m \in T /\ \A e \in T \ {m} : Before(e, m)
    BY <1>3, <1>4, <1>5, <1>9, <1>11, EntriesOrdered
  <2> QED
    BY <1>3, <2>1
<1> QED
  BY <1>3, <1>4, <1>5, <1>9, <1>10, <1>11, EntriesOrdered

\* A finite set of entries can be listed in order.
LEMMA OrderExists ==
  ASSUME NEW S \in SUBSET Entry, IsFiniteSet(S)
  PROVE  \E list \in [1..Cardinality(S) -> S] : Climbs(list)
<1> DEFINE InOrder(T) == \E list \in [1..Cardinality(T) -> T] : Climbs(list)
           bad == {n \in Nat : \E T \in SUBSET Entry : IsFiniteSet(T) /\ Cardinality(T) = n /\ ~InOrder(T)}
<1>1. SUFFICES ASSUME bad # {} PROVE FALSE
  BY FS_CardinalityType
<1>2. PICK n \in bad : \A k \in bad : n <= k
  BY <1>1, LeastNumber
<1>3. PICK T \in SUBSET Entry : IsFiniteSet(T) /\ Cardinality(T) = n /\ ~InOrder(T)
  BY <1>2
<1>4. T # {}
  <2>1. SUFFICES ASSUME T = {} PROVE FALSE
    OBVIOUS
  <2>2. n = 0
    BY <1>3, <2>1, FS_EmptySet
  <2>3. <<>> \in [1..n -> T] /\ Climbs(<<>>)
    BY <2>2 DEF Climbs
  <2> QED
    BY <1>3, <2>3
<1>5. PICK m \in T : \A e \in T \ {m} : Before(e, m)
  BY <1>3, <1>4, LastEntry
<1>6. PICK R : R = T \ {m}
  OBVIOUS
<1>7. R \in SUBSET Entry /\ IsFiniteSet(R) /\ Cardinality(R) = n - 1 /\ n - 1 \in Nat /\ n \in Nat
  <2>1. IsFiniteSet(T) /\ m \in T /\ Cardinality(T) = n /\ n \in Nat
    BY <1>2, <1>3, <1>5
  <2>2. IsFiniteSet(R) /\ Cardinality(R) = n - 1
    BY <1>6, <2>1, FS_RemoveElement
  <2>3. Cardinality(R) \in Nat
    BY <2>2, FS_CardinalityType
  <2> QED
    BY <1>6, <2>1, <2>2, <2>3
<1>8. PICK s \in [1..(n - 1) -> R] : Climbs(s)
  <2>1. n - 1 \notin bad
    BY <1>2, <1>7
  <2> QED
    BY <1>7, <2>1
<1>9. PICK t : t = [i \in 1..n |-> IF i = n THEN m ELSE s[i]]
  OBVIOUS
<1>10. t \in [1..n -> T]
  BY <1>5, <1>6, <1>7, <1>8, <1>9
<1>11. Climbs(t)
  <2>1. \A i, j \in 1..n : i < j => Before(t[i], t[j])
    <3> SUFFICES ASSUME NEW i \in 1..n, NEW j \in 1..n, i < j PROVE Before(t[i], t[j])
      OBVIOUS
    <3>1. i \in 1..(n - 1) /\ t[i] = s[i] /\ s[i] \in R
      BY <1>7, <1>8, <1>9
    <3>2. CASE j = n
      BY <1>5, <1>6, <1>9, <3>1, <3>2
    <3>3. CASE j # n
      <4>1. j \in 1..(n - 1) /\ t[j] = s[j]
        BY <1>7, <1>9, <3>3
      <4> QED
        BY <1>8, <3>1, <4>1 DEF Climbs
    <3> QED
      BY <3>2, <3>3
  <2> QED
    BY <1>10, <2>1 DEF Climbs
<1> QED
  BY <1>3, <1>10, <1>11

\* Sorted is what it is named: all entries, each once, in order.
LEMMA SortedIs ==
  ASSUME NEW S \in SUBSET Entry, IsFiniteSet(S)
  PROVE  /\ Sorted(S) \in [1..Cardinality(S) -> S] /\ Cardinality(S) \in Nat
         /\ \A e \in S : \E i \in 1..Cardinality(S) : Sorted(S)[i] = e
         /\ \A i, j \in 1..Cardinality(S) : i < j => Before(Sorted(S)[i], Sorted(S)[j])
<1>1. PICK n : n = Cardinality(S)
  OBVIOUS
<1>2. PICK s : s = Sorted(S)
  OBVIOUS
<1>3. s \in [1..n -> S] /\ Climbs(s)
  BY <1>1, <1>2, OrderExists DEF Sorted
<1>4. n \in Nat /\ IsFiniteSet(1..n) /\ Cardinality(1..n) = n
  BY <1>1, FS_CardinalityType, FS_Interval
<1>5. \A i, j \in 1..n : i < j => Before(s[i], s[j])
  BY <1>3 DEF Climbs
<1>6. \A i, j \in 1..n : i # j => s[i] # s[j]
  <2> SUFFICES ASSUME NEW i \in 1..n, NEW j \in 1..n, i # j PROVE s[i] # s[j]
    OBVIOUS
  <2>1. i < j \/ j < i
    BY <1>4
  <2>2. s[i] \in Entry /\ s[j] \in Entry
    BY <1>3
  <2> QED
    BY <1>5, <2>1, <2>2, EntriesOrdered
<1>7. s \in Injection(1..n, S)
  BY <1>3, <1>6 DEF Injection, IsInjective
<1>8. s \in Surjection(1..n, S)
  BY <1>1, <1>4, <1>7, FS_Injection
<1>9. \A e \in S : \E i \in 1..n : s[i] = e
  BY <1>8 DEF Surjection
<1> QED
  BY <1>1, <1>2, <1>3, <1>4, <1>5, <1>9

\* As many entries are before one as its place says.
LEMMA PlaceCounts ==
  ASSUME NEW S \in SUBSET Entry, IsFiniteSet(S), NEW i \in 1..Cardinality(S)
  PROVE  Cardinality(Earlier(S, Sorted(S)[i])) = i - 1
<1>1. PICK n, s : n = Cardinality(S) /\ s = Sorted(S)
  OBVIOUS
<1>2. /\ s \in [1..n -> S] /\ n \in Nat /\ i \in 1..n
      /\ \A e \in S : \E k \in 1..n : s[k] = e
      /\ \A k, j \in 1..n : k < j => Before(s[k], s[j])
  BY <1>1, SortedIs
<1>3. PICK E : E = Earlier(S, s[i])
  OBVIOUS
<1>4. \A k \in 1..n : s[k] \in Entry
  BY <1>2
<1>5. \A k \in 1..n : Before(s[k], s[i]) <=> k < i
  <2> SUFFICES ASSUME NEW k \in 1..n PROVE Before(s[k], s[i]) <=> k < i
    OBVIOUS
  <2>1. k < i \/ k = i \/ i < k
    BY <1>2
  <2> QED
    BY <1>2, <1>4, <2>1, EntriesOrdered
<1>6. PICK t : t = [k \in 1..(i - 1) |-> s[k]]
  OBVIOUS
<1>7. i - 1 \in Nat /\ \A k \in 1..(i - 1) : k \in 1..n /\ k < i
  BY <1>2
<1>8. t \in [1..(i - 1) -> E]
  BY <1>2, <1>3, <1>5, <1>6, <1>7 DEF Earlier
<1>9. \A k, j \in 1..(i - 1) : k # j => t[k] # t[j]
  <2> SUFFICES ASSUME NEW k \in 1..(i - 1), NEW j \in 1..(i - 1), k # j PROVE t[k] # t[j]
    OBVIOUS
  <2>1. t[k] = s[k] /\ t[j] = s[j] /\ k \in 1..n /\ j \in 1..n
    BY <1>6, <1>7
  <2>2. k < j \/ j < k
    BY <1>7
  <2> QED
    BY <1>2, <1>4, <2>1, <2>2, EntriesOrdered
<1>10. \A e \in E : \E k \in 1..(i - 1) : t[k] = e
  <2> SUFFICES ASSUME NEW e \in E PROVE \E k \in 1..(i - 1) : t[k] = e
    OBVIOUS
  <2>1. e \in S /\ Before(e, s[i])
    BY <1>3 DEF Earlier
  <2>2. PICK k \in 1..n : s[k] = e
    BY <1>2, <2>1
  <2>3. k < i
    BY <1>5, <2>1, <2>2
  <2>4. k \in 1..(i - 1)
    BY <1>2, <2>3
  <2> QED
    BY <1>6, <2>2, <2>4
<1>11. t \in Bijection(1..(i - 1), E)
  BY <1>8, <1>9, <1>10 DEF Bijection, Injection, Surjection, IsInjective
<1>12. Cardinality(E) = i - 1
  BY <1>7, <1>11, FS_CountingElements DEF ExistsBijection
<1> QED
  BY <1>1, <1>3, <1>12
\* The part of the ordered entries that a page shows.
LEMMA PartIs ==
  ASSUME NEW S \in SUBSET Entry, IsFiniteSet(S), NEW a \in Nat, NEW b \in Nat, b <= Cardinality(S)
  PROVE  /\ SubSeq(Sorted(S), a + 1, b) \in Seq(S)
         /\ \A i \in (a + 1)..b : Sorted(S)[i] \in ToSet(SubSeq(Sorted(S), a + 1, b))
         /\ \A f \in ToSet(SubSeq(Sorted(S), a + 1, b)) : \E i \in (a + 1)..b : f = Sorted(S)[i]
         /\ Climbs(SubSeq(Sorted(S), a + 1, b))
         /\ a < b => SubSeq(Sorted(S), a + 1, b) # <<>>
         /\ a <= b => Len(SubSeq(Sorted(S), a + 1, b)) = b - a
<1>1. PICK n, s : n = Cardinality(S) /\ s = Sorted(S)
  OBVIOUS
<1>2. s \in [1..n -> S] /\ n \in Nat /\ \A i, j \in 1..n : i < j => Before(s[i], s[j])
  BY <1>1, SortedIs
<1>3. s \in Seq(S) /\ Len(s) = n
  BY <1>2
<1>4. PICK p : p = SubSeq(s, a + 1, b)
  OBVIOUS
<1>5. p \in Seq(S) /\ Len(p) = (IF a < b THEN b - a ELSE 0) /\ DOMAIN p = 1..Len(p)
  BY <1>1, <1>3, <1>4
<1>6. \A i \in DOMAIN p : p[i] = s[a + i] /\ a + i \in (a + 1)..b
  BY <1>1, <1>3, <1>4, <1>5
<1>7. \A i \in (a + 1)..b : s[i] \in ToSet(p)
  <2> SUFFICES ASSUME NEW i \in (a + 1)..b PROVE s[i] \in ToSet(p)
    OBVIOUS
  <2>1. i - a \in DOMAIN p /\ a + (i - a) = i
    BY <1>5
  <2> QED
    BY <1>6, <2>1 DEF ToSet
<1>8. \A f \in ToSet(p) : \E i \in (a + 1)..b : f = s[i]
  BY <1>6 DEF ToSet
<1>9. Climbs(p)
  <2> SUFFICES ASSUME NEW i \in DOMAIN p, NEW j \in DOMAIN p, i < j PROVE Before(p[i], p[j])
    BY DEF Climbs
  <2>1. a + i \in 1..n /\ a + j \in 1..n /\ a + i < a + j
    BY <1>1, <1>2, <1>5, <1>6
  <2> QED
    BY <1>2, <1>6, <2>1
<1>10. a < b => p # <<>>
  BY <1>5
<1>11. a <= b => Len(p) = b - a
  BY <1>5
<1> QED
  BY <1>1, <1>4, <1>5, <1>7, <1>8, <1>9, <1>10, <1>11

LEMMA WalkBegins ==
  ASSUME ReadInit
  PROVE  ReadInv
<1>1. readBudget \in ReadBudget /\ IsFiniteSet(readBudget.there) /\ there = readBudget.there /\ refused = {}
  BY ReadBudgetAssumption DEF ReadInit
<1>2. there \in SUBSET Entry /\ readBudget.kind \in {"none", "directory", "search"}
  BY <1>1 DEF ReadBudget
<1>3. walk = NewWalk(readBudget.kind)
  BY DEF ReadInit
<1>4. walk \in WalkRow /\ walk.staying \subseteq there /\ walk.staying \cap refused = {}
  BY <1>1, <1>2, <1>3 DEF NewWalk, WalkRow
<1>5. walk.stage = "asking" /\ walk.cursor = 0 /\ walk.returned = <<>> /\ walk.staying \subseteq Entry
  BY <1>2, <1>3, <1>4 DEF NewWalk
<1>6. Seen = {} /\ Climbs(walk.returned)
  BY <1>5 DEF Seen, ToSet, Climbs
<1>7. \A e \in walk.staying : ~(e.fold <= 0)
  BY <1>5, EntryAssumption
<1>8. DirectoryInv
  BY <1>5, <1>6, <1>7 DEF DirectoryInv, SeenUpTo
<1>9. \A e \in walk.staying : Cardinality(Earlier(Visible, e)) \in Nat
  <2> SUFFICES ASSUME NEW e \in walk.staying PROVE Cardinality(Earlier(Visible, e)) \in Nat
    OBVIOUS
  <2>1. Earlier(Visible, e) \in SUBSET there
    BY DEF Earlier, Visible
  <2> QED
    BY <1>1, <2>1, FS_Subset, FS_CardinalityType
<1>10. SearchInv
  <2>1. walk.cursor * PageSize = 0
    BY <1>5, PageAssumption
  <2> QED
    BY <1>4, <1>5, <1>9, <2>1 DEF SearchInv
<1> QED
  BY <1>1, <1>2, <1>4, <1>8, <1>10 DEF ReadInv, ReadTypeOK

LEMMA ListEntriesKeeps ==
  ASSUME ReadInv, ListEntries
  PROVE  ReadInv'
<1>1. ReadTypeOK /\ DirectoryInv /\ walk.kind = "directory" /\ walk.stage = "asking" /\ UNCHANGED <<there, refused>>
  BY DEF ReadInv, ListEntries
<1>2. PICK rest : rest = After(walk.cursor)
  OBVIOUS
<1>3. PICK n : n = Cardinality(rest)
  OBVIOUS
<1>4. PICK m : m = IF PageSize < n THEN PageSize ELSE n
  OBVIOUS
<1>5. PICK page : page = SubSeq(Sorted(rest), 1, m)
  OBVIOUS
<1>6. walk' = [walk EXCEPT !.stage = "reading", !.chosen = page,
                           !.ignored = refused \cap ToSet(page), !.more = n > Len(page)]
  BY <1>2, <1>3, <1>4, <1>5 DEF ListEntries
<1>7. rest \in SUBSET Entry /\ IsFiniteSet(rest) /\ n \in Nat
  <2>1. rest \in SUBSET there /\ there \in SUBSET Entry /\ IsFiniteSet(there)
    BY <1>1, <1>2 DEF After, ReadTypeOK
  <2>2. IsFiniteSet(rest)
    BY <2>1, FS_Subset
  <2> QED
    BY <1>3, <2>1, <2>2, FS_CardinalityType
<1>8. m \in Nat /\ m <= n /\ (n > m => m > 0)
  BY <1>4, <1>7, PageAssumption
<1>9. /\ page \in Seq(rest) /\ Climbs(page) /\ Len(page) = m /\ (0 < m => page # <<>>)
      /\ \A i \in 1..m : Sorted(rest)[i] \in ToSet(page)
      /\ \A f \in ToSet(page) : \E i \in 1..m : f = Sorted(rest)[i]
  <2>1. 0 + 1 = 1 /\ 0 \in Nat /\ m - 0 = m
    BY <1>8
  <2> QED
    <3>1. SubSeq(Sorted(rest), 0 + 1, m) = page /\ (0 + 1)..m = 1..m /\ 0 <= m
      BY <1>5, <1>8, <2>1
    <3>2. IsFiniteSet(rest) /\ rest \in SUBSET Entry /\ m <= Cardinality(rest) /\ m \in Nat
      BY <1>3, <1>7, <1>8
    <3>3. \A i \in (0 + 1)..m : Sorted(rest)[i] \in ToSet(SubSeq(Sorted(rest), 0 + 1, m))
      BY <2>1, <3>2, PartIs
    <3>4. \A f \in ToSet(SubSeq(Sorted(rest), 0 + 1, m)) : \E i \in (0 + 1)..m : f = Sorted(rest)[i]
      BY <2>1, <3>2, PartIs
    <3>5. /\ SubSeq(Sorted(rest), 0 + 1, m) \in Seq(rest) /\ Climbs(SubSeq(Sorted(rest), 0 + 1, m))
          /\ Len(SubSeq(Sorted(rest), 0 + 1, m)) = m - 0
          /\ 0 < m => SubSeq(Sorted(rest), 0 + 1, m) # <<>>
      BY <2>1, <3>1, <3>2, PartIs
    <3> QED
      BY <2>1, <3>1, <3>3, <3>4, <3>5
<1>10. ToSet(page) \subseteq rest
  BY <1>9 DEF ToSet
<1>11. /\ walk.staying \subseteq there /\ walk.staying \subseteq Entry
       /\ walk \in WalkRow
  BY <1>1 DEF ReadTypeOK
<1>12. walk' \in WalkRow
  <2>1. page \in Seq(Entry)
    BY <1>7, <1>9
  <2>2. refused \cap ToSet(page) \in SUBSET Entry /\ (n > Len(page)) \in BOOLEAN
    BY <1>7, <1>10
  <2> QED
    BY <1>6, <1>11, <2>1, <2>2 DEF WalkRow
<1>13. /\ walk'.kind = "directory" /\ walk'.stage = "reading" /\ walk'.cursor = walk.cursor
       /\ walk'.chosen = page /\ walk'.returned = walk.returned /\ walk'.staying = walk.staying
       /\ walk'.more = (n > m)
  BY <1>1, <1>6, <1>9, <1>11 DEF WalkRow
<1>14. \A e \in walk.staying : e.fold > walk.cursor =>
         e \in ToSet(page) \/ (n > m /\ \A f \in ToSet(page) : Before(f, e))
  <2> SUFFICES ASSUME NEW e \in walk.staying, e.fold > walk.cursor, e \notin ToSet(page)
               PROVE  n > m /\ \A f \in ToSet(page) : Before(f, e)
    OBVIOUS
  <2>1. e \in rest
    BY <1>2, <1>11 DEF After
  <2>2. PICK i \in 1..n : Sorted(rest)[i] = e
    BY <1>3, <1>7, <2>1, SortedIs
  <2>3. i > m
    BY <1>8, <1>9, <2>2
  <2>4. \A k \in 1..m : Before(Sorted(rest)[k], Sorted(rest)[i])
    <3>1. \A k \in 1..m : k \in 1..n /\ k < i
      BY <1>7, <1>8, <2>3
    <3> QED
      BY <1>3, <1>7, <3>1, SortedIs
  <2> QED
    <3>1. n > m
      BY <1>7, <1>8, <2>2, <2>3
    <3>2. \A f \in ToSet(page) : Before(f, e)
      BY <1>9, <2>2, <2>4
    <3> QED
      BY <3>1, <3>2
<1>15. ChosenInv'
  <2>1. \A f \in ToSet(page) : f.fold > walk.cursor
    BY <1>2, <1>10 DEF After
  <2>2. (n > m) => page # <<>>
    BY <1>8, <1>9
  <2> QED
    BY <1>9, <1>13, <1>14, <2>1, <2>2 DEF ChosenInv
<1>16. DirectoryInv'
  <2>1. Climbs(walk.returned) /\ SeenUpTo(walk.cursor) /\ \A f \in Seen : f.fold <= walk.cursor
    BY <1>1 DEF DirectoryInv
  <2>2. Seen' = Seen
    BY <1>13 DEF Seen
  <2>3. SeenUpTo(walk.cursor)' /\ \A f \in Seen' : f.fold <= walk'.cursor
    BY <1>13, <2>1, <2>2 DEF SeenUpTo
  <2> QED
    BY <1>13, <1>15, <2>1, <2>3 DEF DirectoryInv
<1>17. SearchInv'
  BY <1>13 DEF SearchInv
<1>18. ReadTypeOK'
  BY <1>1, <1>12, <1>13 DEF ReadTypeOK
<1> QED
  BY <1>16, <1>17, <1>18 DEF ReadInv

\* What two pages show together.
LEMMA ShownTogether ==
  ASSUME NEW s \in Seq(Entry), NEW page \in Seq(Entry)
  PROVE  ToSet(s \o page) = ToSet(s) \cup ToSet(page) /\ s \o page \in Seq(Entry)
<1>1. PICK m, n : m = Len(s) /\ n = Len(page)
  OBVIOUS
<1>2. PICK t : t = s \o page
  OBVIOUS
<1>3. /\ m \in Nat /\ n \in Nat /\ t \in Seq(Entry) /\ Len(t) = m + n
      /\ \A i \in 1..m : t[i] = s[i] /\ s[i] \in Entry
      /\ \A i \in 1..n : t[m + i] = page[i] /\ page[i] \in Entry
      /\ DOMAIN s = 1..m /\ DOMAIN page = 1..n /\ DOMAIN t = 1..(m + n)
  BY <1>1, <1>2
<1>4. \A i \in 1..(m + n) : i \in 1..m \/ (i - m \in 1..n /\ m + (i - m) = i)
  BY <1>3
<1>5. ToSet(t) = ToSet(s) \cup ToSet(page)
  <2>1. ToSet(t) \subseteq ToSet(s) \cup ToSet(page)
    <3> SUFFICES ASSUME NEW i \in 1..(m + n) PROVE t[i] \in ToSet(s) \cup ToSet(page)
      BY <1>3 DEF ToSet
    <3>1. CASE i \in 1..m
      BY <1>3, <3>1 DEF ToSet
    <3>2. CASE i - m \in 1..n /\ m + (i - m) = i
      <4>1. t[i] = page[i - m]
        BY <1>3, <3>2
      <4> QED
        BY <1>3, <3>2, <4>1 DEF ToSet
    <3> QED
      BY <1>4, <3>1, <3>2
  <2>2. ToSet(s) \subseteq ToSet(t)
    <3> SUFFICES ASSUME NEW i \in 1..m PROVE s[i] \in ToSet(t)
      BY <1>3 DEF ToSet
    <3>1. i \in 1..(m + n) /\ t[i] = s[i]
      BY <1>3
    <3> QED
      BY <1>3, <3>1 DEF ToSet
  <2>3. ToSet(page) \subseteq ToSet(t)
    <3> SUFFICES ASSUME NEW i \in 1..n PROVE page[i] \in ToSet(t)
      BY <1>3 DEF ToSet
    <3>1. m + i \in 1..(m + n) /\ t[m + i] = page[i]
      BY <1>3
    <3> QED
      BY <1>3, <3>1 DEF ToSet
  <2> QED
    BY <2>1, <2>2, <2>3
<1> QED
  BY <1>2, <1>3, <1>5

\* What the caller has seen climbs on when a page above its cursor is added.
LEMMA PageAdded ==
  ASSUME NEW s \in Seq(Entry), NEW page \in Seq(Entry), NEW c \in Nat, Climbs(s), Climbs(page),
         \A f \in ToSet(s) : f.fold <= c, \A f \in ToSet(page) : f.fold > c
  PROVE  /\ Climbs(s \o page) /\ ToSet(s \o page) = ToSet(s) \cup ToSet(page)
         /\ page # <<>> => /\ Last(page) \in Entry /\ Last(page).fold > c
                           /\ \A f \in ToSet(s \o page) : f.fold <= Last(page).fold
                           /\ \A e \in Entry : (\A f \in ToSet(page) : Before(f, e)) => Last(page).fold <= e.fold
<1>1. PICK m, n : m = Len(s) /\ n = Len(page)
  OBVIOUS
<1>2. PICK t : t = s \o page
  OBVIOUS
<1>3. /\ m \in Nat /\ n \in Nat /\ t \in Seq(Entry) /\ Len(t) = m + n
      /\ \A i \in 1..m : t[i] = s[i] /\ s[i] \in Entry
      /\ \A i \in 1..n : t[m + i] = page[i] /\ page[i] \in Entry
      /\ DOMAIN s = 1..m /\ DOMAIN page = 1..n /\ DOMAIN t = 1..(m + n)
  BY <1>1, <1>2
<1>4. \A i \in 1..m : s[i].fold <= c /\ s[i].fold \in Nat
  BY <1>3, EntryAssumption DEF ToSet
<1>5. \A i \in 1..n : page[i].fold > c /\ page[i].fold \in Nat
  BY <1>3, EntryAssumption DEF ToSet
<1>6. \A i \in 1..(m + n) : i \in 1..m \/ (i - m \in 1..n /\ m + (i - m) = i)
  BY <1>3
<1>7. Climbs(t)
  <2> SUFFICES ASSUME NEW i \in 1..(m + n), NEW j \in 1..(m + n), i < j PROVE Before(t[i], t[j])
    BY <1>3 DEF Climbs
  <2>1. CASE j \in 1..m
    <3>1. i \in 1..m
      BY <1>3, <2>1
    <3> QED
      BY <1>3, <2>1, <3>1 DEF Climbs
  <2>2. CASE i \in 1..m /\ j \notin 1..m
    <3>1. j - m \in 1..n /\ t[j] = page[j - m]
      BY <1>3, <1>6, <2>2
    <3>2. t[i] = s[i]
      BY <1>3, <2>2
    <3> QED
      BY <1>4, <1>5, <2>2, <3>1, <3>2 DEF Before
  <2>3. CASE i \notin 1..m /\ j \notin 1..m
    <3>1. i - m \in 1..n /\ j - m \in 1..n /\ t[i] = page[i - m] /\ t[j] = page[j - m] /\ i - m < j - m
      <4>1. i - m \in 1..n /\ m + (i - m) = i /\ j - m \in 1..n /\ m + (j - m) = j
        BY <1>6, <2>3
      <4>2. t[m + (i - m)] = page[i - m] /\ t[m + (j - m)] = page[j - m]
        BY <1>3, <4>1
      <4> QED
        BY <1>3, <4>1, <4>2
    <3> QED
      BY <1>3, <3>1 DEF Climbs
  <2> QED
    BY <2>1, <2>2, <2>3, <1>3
<1>8. ToSet(t) = ToSet(s) \cup ToSet(page)
  BY <1>2, ShownTogether
<1>9. ASSUME page # <<>>
      PROVE  /\ Last(page) \in Entry /\ Last(page).fold > c
             /\ \A f \in ToSet(t) : f.fold <= Last(page).fold
             /\ \A e \in Entry : (\A f \in ToSet(page) : Before(f, e)) => Last(page).fold <= e.fold
  <2>1. n \in 1..n /\ Last(page) = page[n]
    BY <1>1, <1>3, <1>9 DEF Last
  <2>2. page[n] \in Entry /\ page[n].fold > c /\ page[n].fold \in Nat
    BY <1>3, <1>5, <2>1
  <2>3. \A i \in 1..n : page[i].fold <= page[n].fold
    <3> SUFFICES ASSUME NEW i \in 1..n PROVE page[i].fold <= page[n].fold
      OBVIOUS
    <3>1. CASE i = n
      BY <2>2, <3>1
    <3>2. CASE i < n
      <4>1. Before(page[i], page[n])
        BY <1>3, <2>1, <3>2 DEF Climbs
      <4> QED
        BY <1>3, <2>2, <4>1, EntriesOrdered
    <3> QED
      BY <1>3, <3>1, <3>2
  <2>4. \A f \in ToSet(page) : f.fold <= page[n].fold
    BY <1>3, <2>3 DEF ToSet
  <2>5. \A f \in ToSet(s) : f.fold <= page[n].fold
    <3>1. \A i \in 1..m : s[i].fold <= page[n].fold
      BY <1>4, <2>2
    <3> QED
      BY <1>3, <3>1 DEF ToSet
  <2>6. \A e \in Entry : (\A f \in ToSet(page) : Before(f, e)) => page[n].fold <= e.fold
    <3>1. page[n] \in ToSet(page)
      BY <1>3, <2>1 DEF ToSet
    <3> QED
      BY <2>2, <3>1, EntriesOrdered
  <2> QED
    BY <1>8, <2>1, <2>2, <2>4, <2>5, <2>6
<1> QED
  BY <1>2, <1>7, <1>8, <1>9

LEMMA ReadEntriesKeeps ==
  ASSUME ReadInv, ReadEntries
  PROVE  ReadInv'
<1>1. /\ ReadTypeOK /\ DirectoryInv /\ walk.kind = "directory" /\ walk.stage = "reading"
      /\ UNCHANGED <<there, refused>>
  BY DEF ReadInv, ReadEntries
<1>2. /\ walk \in WalkRow /\ walk.staying \subseteq there /\ walk.staying \subseteq Entry
      /\ walk.returned \in Seq(Entry) /\ walk.chosen \in Seq(Entry) /\ walk.cursor \in Nat
  BY <1>1 DEF ReadTypeOK, WalkRow
<1>3. /\ Climbs(walk.returned) /\ SeenUpTo(walk.cursor) /\ ChosenInv
      /\ \A f \in ToSet(walk.returned) : f.fold <= walk.cursor
  BY <1>1 DEF DirectoryInv, Seen
<1>4. CASE walk' = [walk EXCEPT !.stage = "asking"]
  <2>1. walk' \in WalkRow
    BY <1>2, <1>4 DEF WalkRow
  <2>2. /\ walk'.kind = "directory" /\ walk'.stage = "asking" /\ walk'.cursor = walk.cursor
        /\ walk'.returned = walk.returned /\ walk'.staying = walk.staying
    BY <1>1, <1>2, <1>4 DEF WalkRow
  <2>3. Seen' = ToSet(walk.returned) /\ Seen' = Seen
    BY <2>2 DEF Seen
  <2>4. SeenUpTo(walk.cursor)'
    BY <1>3, <2>2, <2>3 DEF SeenUpTo
  <2>5. DirectoryInv'
    BY <1>3, <2>2, <2>3, <2>4 DEF DirectoryInv
  <2>6. SearchInv'
    BY <2>2 DEF SearchInv
  <2>7. ReadTypeOK'
    BY <1>1, <2>1, <2>2 DEF ReadTypeOK
  <2> QED
    BY <2>5, <2>6, <2>7 DEF ReadInv
<1>5. CASE walk' = [walk EXCEPT !.stage = IF walk.more THEN "asking" ELSE "done",
                                !.cursor = IF walk.more THEN Last(walk.chosen).fold ELSE @,
                                !.returned = @ \o walk.chosen]
  <2>1. PICK page, s : page = walk.chosen /\ s = walk.returned
    OBVIOUS
  <2>2. /\ Climbs(s \o page) /\ ToSet(s \o page) = ToSet(s) \cup ToSet(page) /\ s \o page \in Seq(Entry)
        /\ page # <<>> => /\ Last(page) \in Entry /\ Last(page).fold > walk.cursor
                          /\ \A f \in ToSet(s \o page) : f.fold <= Last(page).fold
                          /\ \A e \in Entry : (\A f \in ToSet(page) : Before(f, e)) => Last(page).fold <= e.fold
    <3>1. \A f \in ToSet(page) : f.fold > walk.cursor
      BY <1>3, <2>1 DEF ChosenInv
    <3>2. Climbs(page)
      BY <1>3, <2>1 DEF ChosenInv
    <3> QED
      BY <1>2, <1>3, <2>1, <3>1, <3>2, PageAdded
  <2>3. /\ walk'.kind = "directory" /\ walk'.staying = walk.staying
        /\ walk'.stage = IF walk.more THEN "asking" ELSE "done"
        /\ walk'.cursor = IF walk.more THEN Last(page).fold ELSE walk.cursor
        /\ walk'.returned = s \o page
    BY <1>1, <1>2, <1>5, <2>1 DEF WalkRow
  <2>4. walk.more => page # <<>> /\ Last(page).fold \in Nat
    BY <1>3, <2>1, <2>2, EntryAssumption DEF ChosenInv
  <2>5. walk' \in WalkRow
    BY <1>2, <1>5, <2>1, <2>2, <2>4 DEF WalkRow
  <2>6. Seen' = Seen \cup ToSet(page) /\ Seen' = ToSet(s \o page)
    BY <2>1, <2>2, <2>3 DEF Seen
  <2>11. Climbs(walk.returned)'
    BY <2>2, <2>3 DEF Climbs
  <2>7. ASSUME walk.more PROVE DirectoryInv'
    <3>1. walk'.stage = "asking" /\ walk'.cursor = Last(page).fold
      BY <2>3, <2>7
    <3>2. \A f \in Seen' : f.fold <= walk'.cursor
      BY <2>2, <2>4, <2>6, <2>7, <3>1
    <3>3. SeenUpTo(walk.cursor)'
      <4> SUFFICES ASSUME NEW e \in walk.staying, e.fold <= Last(page).fold
                   PROVE  \E f \in Seen' : f.fold = e.fold
        BY <2>3, <3>1 DEF SeenUpTo
      <4>1. e \in Entry /\ e.fold \in Nat
        BY <1>2, EntryAssumption
      <4>2. CASE e.fold <= walk.cursor
        BY <1>3, <2>6, <4>2 DEF SeenUpTo
      <4>3. CASE e \in ToSet(page)
        BY <2>6, <4>3
      <4>4. CASE \A f \in ToSet(page) : Before(f, e)
        <5>1. Last(page).fold = e.fold
          BY <2>2, <2>4, <2>7, <4>1, <4>4
        <5>2. Last(page) \in ToSet(page)
          <6>1. Len(page) \in DOMAIN page
            BY <1>2, <2>1, <2>4, <2>7
          <6> QED
            BY <6>1 DEF Last, ToSet
        <5> QED
          BY <2>6, <5>1, <5>2
      <4> QED
        BY <1>2, <1>3, <2>1, <4>1, <4>2, <4>3, <4>4 DEF ChosenInv
    <3> QED
      <4>1. walk'.stage # "done" /\ walk'.stage # "reading"
        BY <3>1
      <4> QED
        BY <2>11, <3>2, <3>3, <4>1 DEF DirectoryInv
  <2>8. ASSUME ~walk.more PROVE DirectoryInv'
    <3>1. walk'.stage = "done"
      BY <2>3, <2>8
    <3>2. \A e \in walk.staying : \E f \in Seen' : f.fold = e.fold
      <4> SUFFICES ASSUME NEW e \in walk.staying PROVE \E f \in Seen' : f.fold = e.fold
        OBVIOUS
      <4>1. e.fold \in Nat
        BY <1>2, EntryAssumption
      <4>2. CASE e.fold <= walk.cursor
        BY <1>3, <2>6, <4>2 DEF SeenUpTo
      <4>3. CASE e.fold > walk.cursor
        BY <1>3, <2>1, <2>6, <2>8, <4>3 DEF ChosenInv
      <4> QED
        BY <1>2, <4>1, <4>2, <4>3
    <3> QED
      <4>1. walk'.stage # "reading" /\ \A e \in walk'.staying : \E f \in Seen' : f.fold = e.fold
        BY <2>3, <3>1, <3>2
      <4> QED
        BY <2>11, <3>1, <4>1 DEF DirectoryInv
  <2>9. SearchInv'
    BY <2>3 DEF SearchInv
  <2>10. ReadTypeOK'
    BY <1>1, <1>2, <2>3, <2>5 DEF ReadTypeOK
  <2> QED
    BY <2>7, <2>8, <2>9, <2>10 DEF ReadInv
<1> QED
  BY <1>4, <1>5 DEF ReadEntries

LEMMA EarlierCounted ==
  ASSUME NEW S \in SUBSET Entry, IsFiniteSet(S), NEW T \in SUBSET S, NEW e
  PROVE  /\ Cardinality(Earlier(T, e)) \in Nat /\ Cardinality(Earlier(S, e)) \in Nat
         /\ Cardinality(Earlier(T, e)) <= Cardinality(Earlier(S, e))
<1>1. Earlier(S, e) \in SUBSET S /\ Earlier(T, e) \in SUBSET Earlier(S, e)
  BY DEF Earlier
<1>2. IsFiniteSet(Earlier(S, e)) /\ IsFiniteSet(Earlier(T, e))
  BY <1>1, FS_Subset
<1> QED
  BY <1>1, <1>2, FS_Subset, FS_CardinalityType

LEMMA SearchPageKeeps ==
  ASSUME ReadInv, SearchPage
  PROVE  ReadInv'
<1>1. /\ ReadTypeOK /\ SearchInv /\ walk.kind = "search" /\ walk.stage = "asking"
      /\ UNCHANGED <<there, refused>>
  BY DEF ReadInv, SearchPage
<1>2. /\ walk \in WalkRow /\ walk.staying \subseteq there /\ walk.staying \subseteq Entry
      /\ walk.returned \in Seq(Entry) /\ walk.cursor \in Nat
  BY <1>1 DEF ReadTypeOK, WalkRow
<1>3. Visible \in SUBSET Entry /\ IsFiniteSet(Visible)
  <2>1. Visible \in SUBSET there
    BY DEF Visible
  <2> QED
    BY <1>1, <2>1, FS_Subset DEF ReadTypeOK
<1>4. PICK n, list : n = Cardinality(Visible) /\ list = Sorted(Visible)
  OBVIOUS
<1>5. /\ list \in [1..n -> Visible] /\ n \in Nat /\ list \in Seq(Visible) /\ Len(list) = n
      /\ \A e \in Visible : \E i \in 1..n : list[i] = e
  BY <1>3, <1>4, SortedIs
<1>6. PICK from : from = walk.cursor * PageSize
  OBVIOUS
<1>7. PICK until : until = IF from + PageSize < n THEN from + PageSize ELSE n
  OBVIOUS
<1>8. /\ from \in Nat /\ until \in Nat /\ until <= n /\ PageSize \in Nat
      /\ (walk.cursor + 1) * PageSize = from + PageSize
  BY <1>2, <1>5, <1>6, <1>7, PageAssumption
<1>9. PICK page : page = SubSeq(list, from + 1, until)
  OBVIOUS
<1>10. /\ page \in Seq(Visible)
       /\ \A i \in (from + 1)..until : list[i] \in ToSet(page)
  BY <1>3, <1>4, <1>8, <1>9, PartIs
<1>11. walk' = [walk EXCEPT !.stage = IF from + PageSize < n THEN "asking" ELSE "done", !.cursor = @ + 1,
                            !.returned = @ \o page]
  <2>1. Visible = there \ refused
    BY DEF Visible
  <2>2. /\ Sorted(there \ refused) = list
        /\ Len(list) = n
    BY <1>4, <1>5, <2>1
  <2>3. walk' = [walk EXCEPT !.stage = IF (walk.cursor + 1) * PageSize < n THEN "asking" ELSE "done",
                             !.cursor = @ + 1,
                             !.returned = @ \o SubSeq(list, from + 1, until)]
    BY <1>6, <1>7, <2>2 DEF SearchPage
  <2> QED
    BY <1>8, <1>9, <2>3
<1>12. PICK seen : seen = walk.returned
  OBVIOUS
<1>13. PICK all : all = seen \o page
  OBVIOUS
<1>14. all \in Seq(Entry) /\ ToSet(all) = ToSet(seen) \cup ToSet(page) /\ Seen = ToSet(seen)
  <2>1. page \in Seq(Entry) /\ seen \in Seq(Entry)
    BY <1>2, <1>3, <1>10, <1>12
  <2>2. ToSet(seen \o page) = ToSet(seen) \cup ToSet(page) /\ seen \o page \in Seq(Entry)
    BY <2>1, ShownTogether
  <2>3. Seen = ToSet(seen)
    BY <1>12 DEF Seen
  <2> QED
    <3>1. all \in Seq(Entry)
      BY <1>13, <2>2
    <3>2. ToSet(all) = ToSet(seen \o page)
      BY <1>13 DEF ToSet
    <3> QED
      BY <2>2, <2>3, <3>1, <3>2
<1>15. /\ walk' \in WalkRow /\ walk'.kind = "search" /\ walk'.staying = walk.staying /\ walk'.lost = walk.lost
       /\ walk'.stage = (IF from + PageSize < n THEN "asking" ELSE "done")
       /\ walk'.cursor = walk.cursor + 1 /\ walk'.returned = all
  <2>1. walk' = [walk EXCEPT !.stage = IF from + PageSize < n THEN "asking" ELSE "done", !.cursor = @ + 1,
                             !.returned = all]
    BY <1>11, <1>12, <1>13
  <2>2. all \in Seq(Entry) /\ walk.cursor + 1 \in Nat
    BY <1>2, <1>14
  <2> QED
    BY <1>1, <1>2, <2>1, <2>2 DEF WalkRow
<1>16. Seen' = Seen \cup ToSet(page)
  BY <1>15, <1>14 DEF Seen
<1>17. ASSUME ~walk.lost, NEW e \in walk.staying,
              walk'.stage = "done" \/ Cardinality(Earlier(Visible, e)) < from + PageSize
       PROVE  e \in Seen'
  <2>1. e \in Visible
    BY <1>1, <1>2 DEF SearchInv, Visible
  <2>2. PICK i \in 1..n : list[i] = e
    BY <1>5, <2>1
  <2>3. Cardinality(Earlier(Visible, e)) = i - 1
    BY <1>3, <1>4, <2>2, PlaceCounts
  <2>4. CASE i - 1 < from
    BY <1>1, <1>6, <1>16, <1>17, <2>3, <2>4 DEF SearchInv
  <2>5. CASE i - 1 >= from
    <3>1. i <= from + PageSize
      BY <1>5, <1>8, <1>15, <1>17, <2>2, <2>3
    <3>2. i \in (from + 1)..until
      BY <1>5, <1>7, <1>8, <2>2, <2>5, <3>1
    <3> QED
      BY <1>10, <1>16, <2>2, <3>2
  <2> QED
    BY <1>5, <1>8, <2>2, <2>4, <2>5
<1>18. Visible' = Visible /\ Seen' = Seen'
  BY <1>1 DEF Visible
<1>19. walk'.cursor * PageSize = from + PageSize
  BY <1>8, <1>15
<1>20. walk'.stage # "reading" /\ walk'.staying \cap refused' = {}
  BY <1>1, <1>15 DEF SearchInv
<1>21. SearchInv'
  <2>1. ASSUME ~walk'.lost, NEW e \in walk'.staying,
               walk'.stage = "done" \/ Cardinality(Earlier(Visible', e)) < walk'.cursor * PageSize
        PROVE  e \in Seen'
    <3>1. /\ ~walk.lost /\ e \in walk.staying
          /\ walk'.stage = "done" \/ Cardinality(Earlier(Visible, e)) < from + PageSize
      BY <1>15, <1>18, <1>19, <2>1 DEF Earlier
    <3> QED
      BY <1>17, <3>1
  <2> QED
    BY <1>20, <2>1 DEF SearchInv, Earlier
<1>22. DirectoryInv'
  BY <1>15 DEF DirectoryInv
<1>23. ReadTypeOK'
  BY <1>1, <1>15 DEF ReadTypeOK
<1> QED
  BY <1>21, <1>22, <1>23 DEF ReadInv

\* Something vanishes, from the directory or from what may be seen.
LEMMA LossKeeps ==
  ASSUME ReadInv, there' \in SUBSET there, refused' \in SUBSET Entry, NEW e,
         walk' = [walk EXCEPT !.staying = @ \ {e}, !.lost = TRUE],
         walk.staying \ {e} \subseteq there',
         walk.kind = "search" => refused' \subseteq refused \cup {e}
  PROVE  ReadInv'
<1>1. ReadTypeOK /\ DirectoryInv /\ SearchInv /\ walk \in WalkRow
  BY DEF ReadInv, ReadTypeOK
<1>2. /\ walk' \in WalkRow /\ walk'.kind = walk.kind /\ walk'.stage = walk.stage /\ walk'.cursor = walk.cursor
      /\ walk'.chosen = walk.chosen /\ walk'.more = walk.more /\ walk'.returned = walk.returned
      /\ walk'.staying = walk.staying \ {e} /\ walk'.lost
  BY <1>1 DEF WalkRow
<1>3. ReadTypeOK'
  <2>1. there' \in SUBSET Entry /\ IsFiniteSet(there')
    BY <1>1, FS_Subset DEF ReadTypeOK
  <2> QED
    BY <1>2, <2>1 DEF ReadTypeOK
<1>4. Seen' = Seen
  BY <1>2 DEF Seen
<1>5. SearchInv'
  BY <1>1, <1>2 DEF SearchInv
<1>6. ASSUME walk.kind = "directory" PROVE DirectoryInv'
  <2>1. Climbs(walk.returned)'
    BY <1>1, <1>2, <1>6 DEF DirectoryInv
  <2>2. walk.stage = "done" => \A f \in walk'.staying : \E g \in Seen' : g.fold = f.fold
    BY <1>1, <1>2, <1>4, <1>6 DEF DirectoryInv
  <2>3. walk.stage # "done" => SeenUpTo(walk.cursor)' /\ \A f \in Seen' : f.fold <= walk'.cursor
    BY <1>1, <1>2, <1>4, <1>6 DEF DirectoryInv, SeenUpTo
  <2>4. walk.stage = "reading" => ChosenInv'
    BY <1>1, <1>2, <1>6 DEF DirectoryInv, ChosenInv
  <2> QED
    BY <1>2, <2>1, <2>2, <2>3, <2>4 DEF DirectoryInv
<1>7. DirectoryInv'
  BY <1>2, <1>6 DEF DirectoryInv
<1> QED
  BY <1>3, <1>5, <1>7 DEF ReadInv

\* Something is added, or nothing changes for a walk over the directory.
LEMMA AdditionKeeps ==
  ASSUME ReadInv, walk' = walk, there' \in SUBSET Entry, IsFiniteSet(there'), there \subseteq there',
         refused' \in SUBSET Entry, walk.kind = "search" => refused' = refused
  PROVE  ReadInv'
<1>1. ReadTypeOK' /\ Seen' = Seen
  BY DEF ReadInv, ReadTypeOK, Seen
<1>2. DirectoryInv'
  BY <1>1 DEF ReadInv, DirectoryInv, SeenUpTo, ChosenInv
<1>3. ASSUME walk.kind = "search", ~walk.lost, NEW e \in walk.staying,
             walk.stage = "done" \/ Cardinality(Earlier(Visible', e)) < walk.cursor * PageSize
      PROVE  e \in Seen
  <2>1. Visible \in SUBSET Visible' /\ Visible' \in SUBSET Entry /\ Visible' \in SUBSET there'
    BY <1>3 DEF Visible
  <2>2. IsFiniteSet(Visible')
    BY <2>1, FS_Subset
  <2>3. PICK V, W : V = Visible /\ W = Visible'
    OBVIOUS
  <2>4. /\ Cardinality(Earlier(V, e)) \in Nat /\ Cardinality(Earlier(W, e)) \in Nat
        /\ Cardinality(Earlier(V, e)) <= Cardinality(Earlier(W, e))
    BY <2>1, <2>2, <2>3, EarlierCounted
  <2>5. PICK bound : bound = walk.cursor * PageSize
    OBVIOUS
  <2>6. bound \in Nat
    BY <2>5, PageAssumption DEF ReadInv, ReadTypeOK, WalkRow
  <2>7. walk.stage = "done" \/ Cardinality(Earlier(W, e)) < bound
    BY <1>3, <2>3, <2>5
  <2>8. walk.stage = "done" \/ Cardinality(Earlier(V, e)) < bound
    BY <2>4, <2>6, <2>7
  <2> QED
    BY <1>3, <2>3, <2>5, <2>8 DEF ReadInv, SearchInv
<1>4. SearchInv'
  <2>1. walk.kind = "search" => walk.stage # "reading" /\ walk.staying \cap refused' = {}
    BY DEF ReadInv, SearchInv
  <2> QED
    BY <1>1, <1>3, <2>1 DEF SearchInv, Earlier
<1> QED
  BY <1>1, <1>2, <1>4 DEF ReadInv

LEMMA ReadInvariant == ReadSpec => []ReadInv
<1>1. ReadInit => ReadInv
  BY WalkBegins
<1>2. ReadInv /\ [ReadNext]_readVars => ReadInv'
  <2> SUFFICES ASSUME ReadInv, [ReadNext]_readVars PROVE ReadInv'
    OBVIOUS
  <2>1. ReadTypeOK
    BY DEF ReadInv
  <2>2. CASE ListEntries \/ ReadEntries \/ SearchPage
    BY <2>2, ListEntriesKeeps, ReadEntriesKeeps, SearchPageKeeps
  <2>3. CASE EntryAppears
    <3>1. PICK e \in Entry : there' = there \cup {e}
      BY <2>3 DEF EntryAppears
    <3>2. there' \in SUBSET Entry /\ IsFiniteSet(there')
      BY <2>1, <3>1, FS_AddElement DEF ReadTypeOK
    <3>3. walk' = walk /\ refused' = refused /\ refused' \in SUBSET Entry
      BY <2>1, <2>3 DEF EntryAppears, ReadTypeOK
    <3> QED
      BY <3>1, <3>2, <3>3, AdditionKeeps
  <2>4. CASE EntryVanishes
    <3>1. PICK e \in there : there' = there \ {e} /\ walk' = [walk EXCEPT !.staying = @ \ {e}, !.lost = TRUE]
      BY <2>4 DEF EntryVanishes
    <3>2. refused' = refused /\ refused' \in SUBSET Entry
      BY <2>1, <2>4 DEF EntryVanishes, ReadTypeOK
    <3>3. walk.staying \ {e} \subseteq there' /\ there' \in SUBSET there
      BY <2>1, <3>1 DEF ReadTypeOK
    <3> QED
      BY <3>1, <3>2, <3>3, LossKeeps
  <2>5. CASE PolicyRefuses
    <3>1. PICK e \in Entry : /\ refused' = refused \cup {e}
                             /\ walk' = IF walk.kind = "search" THEN [walk EXCEPT !.staying = @ \ {e}, !.lost = TRUE]
                                        ELSE walk
      BY <2>5 DEF PolicyRefuses
    <3>2. /\ there' = there /\ refused' \in SUBSET Entry /\ there' \in SUBSET Entry /\ IsFiniteSet(there')
          /\ walk.staying \ {e} \subseteq there'
      BY <2>1, <2>5, <3>1 DEF PolicyRefuses, ReadTypeOK
    <3>3. CASE walk.kind = "search"
      BY <3>1, <3>2, <3>3, LossKeeps
    <3>4. CASE walk.kind # "search"
      BY <3>1, <3>2, <3>4, AdditionKeeps
    <3> QED
      BY <3>3, <3>4
  <2>6. CASE UNCHANGED readVars
    <3>1. walk' = walk /\ there' = there /\ refused' = refused
      BY <2>6 DEF readVars
    <3> QED
      BY <2>1, <3>1, AdditionKeeps DEF ReadTypeOK
  <2> QED
    BY <2>2, <2>3, <2>4, <2>5, <2>6 DEF ReadNext
<1> QED
  BY <1>1, <1>2, PTL DEF ReadSpec

\* Whoever follows the pages to the last one, while entries appear and vanish and
\* the policy changes, has seen what stayed, and of a directory nothing twice.
THEOREM PagesReach == ReadSpec => []PagesReachStaying
<1>1. ReadInv => PagesReachStaying
  <2> SUFFICES ASSUME ReadInv PROVE PagesReachStaying
    OBVIOUS
  <2>1. ASSUME walk.kind = "directory", NEW i \in DOMAIN walk.returned, NEW j \in DOMAIN walk.returned, i < j
        PROVE  walk.returned[i] # walk.returned[j]
    <3>1. walk.returned \in Seq(Entry)
      BY DEF ReadInv, ReadTypeOK, WalkRow
    <3>2. Before(walk.returned[i], walk.returned[j])
      BY <2>1 DEF ReadInv, DirectoryInv, Climbs
    <3>3. walk.returned[i] \in Entry /\ walk.returned[j] \in Entry
      BY <3>1
    <3> QED
      BY <3>2, <3>3, EntriesOrdered
  <2>2. walk.kind = "directory" /\ walk.stage = "done" => \A e \in walk.staying : \E f \in Seen : f.fold = e.fold
    BY DEF ReadInv, DirectoryInv
  <2>3. SearchWalk
    BY DEF ReadInv, SearchInv, SearchWalk
  <2> QED
    BY <2>1, <2>2, <2>3 DEF PagesReachStaying, DirectoryWalk
<1> QED
  BY <1>1, ReadInvariant, PTL

-----------------------------------------------------------------------------
(* Chunks: what is computed line by line. *)

\* A function of the lines so far, each value from the one before, exists.
LEMMA StepByStep ==
  ASSUME NEW V, NEW base \in V, NEW n \in Nat, NEW g \in [1..n -> [V -> V]]
  PROVE  \E f \in [0..n -> V] : GoesOn(f, base, g, n)
<1> DEFINE bad == {k \in 0..n : ~\E f \in [0..k -> V] : GoesOn(f, base, g, k)}
<1>1. SUFFICES ASSUME n \in bad PROVE FALSE
  OBVIOUS
<1>2. bad \in SUBSET Nat /\ bad # {}
  <2>1. 0..n \in SUBSET Nat
    OBVIOUS
  <2> QED
    BY <1>1, <2>1
<1>3. PICK k \in bad : \A i \in bad : k <= i
  BY <1>2, LeastNumber
<1>4. k # 0
  <2>1. [i \in 0..0 |-> base] \in [0..0 -> V] /\ \A i \in 0..0 : [j \in 0..0 |-> base][i] = base /\ i = 0
    OBVIOUS
  <2>2. GoesOn([i \in 0..0 |-> base], base, g, 0)
    BY <2>1 DEF GoesOn
  <2> QED
    BY <1>3, <2>1, <2>2
<1>5. k - 1 \in 0..n /\ k - 1 \notin bad /\ k \in 1..n
  <2>1. k \in 0..n
    BY <1>3
  <2>2. k - 1 \in 0..n /\ k \in 1..n /\ ~(k <= k - 1)
    BY <1>4, <2>1
  <2> QED
    BY <1>3, <2>2
<1>6. PICK f \in [0..(k - 1) -> V] : GoesOn(f, base, g, k - 1)
  BY <1>5
<1>7. PICK h : h = [i \in 0..k |-> IF i = k THEN g[k][f[k - 1]] ELSE f[i]]
  OBVIOUS
<1>8. g[k][f[k - 1]] \in V
  BY <1>5, <1>6
<1>9. h \in [0..k -> V]
  BY <1>5, <1>6, <1>7, <1>8
<1>10. ASSUME NEW i \in 0..k PROVE h[i] = IF i = 0 THEN base ELSE g[i][h[i - 1]]
  <2>1. CASE i = k
    <3>1. h[i] = g[k][f[k - 1]] /\ h[k - 1] = f[k - 1] /\ i # 0
      BY <1>5, <1>7, <2>1
    <3> QED
      BY <2>1, <3>1
  <2>2. CASE i # k
    <3>1. i \in 0..(k - 1) /\ h[i] = f[i] /\ (i # 0 => h[i - 1] = f[i - 1])
      BY <1>5, <1>7, <2>2
    <3> QED
      BY <1>6, <3>1 DEF GoesOn
  <2> QED
    BY <2>1, <2>2
<1> QED
  <2>1. GoesOn(h, base, g, k)
    BY <1>10 DEF GoesOn
  <2> QED
    BY <1>3, <1>9, <2>1

LEMMA EndsOfLines ==
  ASSUME NEW lines \in Seq(Nat \ {0})
  PROVE  \E e : LineEnds(e, Len(lines)) /\ \A n \in 0..Len(lines) : EndOfLine(lines, n) = e[n]
<1>1. PICK N : N = Len(lines)
  OBVIOUS
<1>2. N \in Nat /\ \A i \in 1..N : lines[i] \in Nat \ {0}
  BY <1>1
<1>3. PICK g : g = [i \in 1..N |-> [k \in Nat |-> k + lines[i]]]
  OBVIOUS
<1>4. g \in [1..N -> [Nat -> Nat]] /\ \A k \in Nat, i \in 1..N : g[i][k] = k + lines[i]
  <2>1. \A i \in 1..N : [k \in Nat |-> k + lines[i]] \in [Nat -> Nat]
    BY <1>2
  <2> QED
    BY <1>3, <2>1
<1>5. PICK f \in [0..N -> Nat] : \A i \in 0..N : f[i] = IF i = 0 THEN 0 ELSE g[i][f[i - 1]]
  <2>1. PICK V, base : V = Nat /\ base = 0
    OBVIOUS
  <2>2. base \in V /\ g \in [1..N -> [V -> V]]
    BY <1>4, <2>1
  <2>3. \E f \in [0..N -> V] : GoesOn(f, base, g, N)
    BY <1>2, <2>2, StepByStep
  <2> QED
    BY <2>1, <2>3 DEF GoesOn
<1>6. f = [i \in 0..N |-> IF i = 0 THEN 0 ELSE f[i - 1] + lines[i]]
  <2>1. \A i \in 0..N : i # 0 => f[i - 1] \in Nat /\ i \in 1..N
    BY <1>2, <1>5
  <2>2. \A i \in 0..N : i # 0 => g[i][f[i - 1]] = f[i - 1] + lines[i]
    BY <1>4, <2>1
  <2>3. \A i \in 0..N : f[i] = IF i = 0 THEN 0 ELSE f[i - 1] + lines[i]
    BY <1>5, <2>2
  <2> QED
    BY <1>5, <2>3
<1> DEFINE end == CHOOSE h : h = [i \in 0..Len(lines) |-> IF i = 0 THEN 0 ELSE h[i - 1] + lines[i]]
<1>7. end = [i \in 0..N |-> IF i = 0 THEN 0 ELSE end[i - 1] + lines[i]]
  BY <1>1, <1>6
<1>8. PICK e : e = end
  OBVIOUS
<1>9. e = [i \in 0..N |-> IF i = 0 THEN 0 ELSE e[i - 1] + lines[i]]
  BY <1>7, <1>8
<1>10. \A n : EndOfLine(lines, n) = e[n]
  BY <1>8 DEF EndOfLine
<1> HIDE DEF end
<1>11. e[0] = 0 /\ \A i \in 1..N : e[i] = e[i - 1] + lines[i]
  BY <1>2, <1>9
<1>12. \A i \in 0..N : e[i] \in Nat
  <2> DEFINE bad == {i \in 0..N : e[i] \notin Nat}
  <2>1. SUFFICES ASSUME bad # {} PROVE FALSE
    OBVIOUS
  <2>4. bad \in SUBSET Nat
    BY <1>2
  <2>2. PICK k \in bad : \A i \in bad : k <= i
    BY <2>1, <2>4, LeastNumber
  <2>3. k # 0 /\ k - 1 \in 0..N /\ k - 1 \notin bad /\ k \in 1..N
    BY <1>2, <1>11, <2>2
  <2>5. e[k] = e[k - 1] + lines[k] /\ lines[k] \in Nat /\ e[k - 1] \in Nat
    BY <1>2, <1>11, <2>3
  <2>6. e[k] \in Nat
    BY <2>5
  <2> QED
    BY <2>2, <2>6
<1>13. \A i \in 1..N : e[i - 1] < e[i]
  <2> SUFFICES ASSUME NEW i \in 1..N PROVE e[i - 1] < e[i]
    OBVIOUS
  <2>1. i - 1 \in 0..N /\ i \in 0..N
    BY <1>2
  <2>2. e[i] = e[i - 1] + lines[i] /\ lines[i] \in Nat \ {0} /\ e[i - 1] \in Nat
    BY <1>2, <1>11, <1>12, <2>1
  <2> QED
    BY <2>2
<1>14. LineEnds(e, N)
  <2>1. e \in [0..N -> Nat]
    BY <1>9, <1>12
  <2> QED
    BY <1>2, <1>11, <1>13, <2>1 DEF LineEnds
<1> QED
  BY <1>1, <1>10, <1>14

LEMMA EndsClimb ==
  ASSUME NEW N, NEW e, LineEnds(e, N), NEW m \in 0..N, NEW n \in 0..N, m < n
  PROVE  e[m] < e[n]
<1>1. N \in Nat /\ (\A i \in 0..N : e[i] \in Nat) /\ \A i \in 1..N : e[i - 1] < e[i]
  BY DEF LineEnds
<1> DEFINE bad == {i \in (m + 1)..N : ~(e[m] < e[i])}
<1>2. SUFFICES ASSUME n \in bad PROVE FALSE
  BY <1>1
<1>7. bad \in SUBSET Nat /\ bad # {}
  BY <1>1, <1>2
<1>3. PICK k \in bad : \A i \in bad : k <= i
  BY <1>7, LeastNumber
<1>4. k \in 1..N /\ k - 1 \in 0..N /\ e[k - 1] < e[k]
  BY <1>1, <1>3
<1>5. CASE k = m + 1
  BY <1>1, <1>3, <1>4, <1>5
<1>6. CASE k # m + 1
  <2>1. k - 1 \in (m + 1)..N /\ k - 1 \notin bad
    BY <1>1, <1>3, <1>6
  <2> QED
    BY <1>1, <1>3, <1>4, <2>1
<1> QED
  BY <1>5, <1>6

-----------------------------------------------------------------------------
(* Chunks: what is filled after n lines. *)

LEMMA TilesStay ==
  ASSUME NEW e, NEW n \in Nat, NEW max, NEW done, NEW begin, Tiles(e, n, max, done, begin)
  PROVE  Tiles(e, n + 1, max, done, begin)
<1>1. \A k \in 1..n : k \in 1..(n + 1)
  OBVIOUS
<1> QED
  BY <1>1 DEF Tiles, Tile

\* A list of chunks goes on with another that begins where it ends.
LEMMA TilesJoin ==
  ASSUME NEW e, NEW n, NEW max, NEW done \in Seq(Row), NEW more \in Seq(Row), Len(more) > 0,
         NEW all, Joined(all, done, more), Tiles(e, n, max, done, 0), Tiles(e, n, max, more, Reached(done))
  PROVE  all \in Seq(Row) /\ Tiles(e, n, max, all, 0) /\ Reached(all) = Reached(more)
<1>1. PICK a, b : a = Len(done) /\ b = Len(more)
  OBVIOUS
<1>3. /\ a \in Nat /\ b \in Nat \ {0} /\ all \in Seq(Row) /\ Len(all) = a + b
      /\ \A i \in 1..a : all[i] = done[i]
      /\ \A i \in 1..b : all[a + i] = more[i]
  BY <1>1 DEF Joined
<1>4. all # <<>> /\ all[Len(all)] = more[b]
  BY <1>3
<1>5. a > 0 => Reached(done) = done[a].end
  BY <1>1, <1>3 DEF Reached
<1>6. a = 0 => Reached(done) = 0
  <2>1. Len(done) = 0 => done = <<>>
    OBVIOUS
  <2> QED
    BY <1>1, <2>1 DEF Reached
<1>7. ASSUME NEW i \in 1..(a + b) PROVE Tile(e, n, max, all[i], From(all, i, 0))
  <2>1. CASE i \in 1..a
    <3>1. all[i] = done[i] /\ (i # 1 => all[i - 1] = done[i - 1])
      <4>1. i # 1 => i - 1 \in 1..a
        BY <1>3, <2>1
      <4> QED
        BY <1>3, <2>1, <4>1
    <3>2. From(all, i, 0) = From(done, i, 0)
      BY <3>1 DEF From
    <3> QED
      BY <1>1, <2>1, <3>1, <3>2 DEF Tiles
  <2>2. CASE i \notin 1..a
    <3>1. PICK k : k = i - a
      OBVIOUS
    <3>2. k \in 1..b /\ i = a + k
      BY <1>3, <2>2, <3>1
    <3>3. all[i] = more[k]
      BY <1>3, <3>2
    <3>4. From(all, i, 0) = From(more, k, Reached(done))
      <4>1. CASE k = 1 /\ a = 0
        BY <1>6, <3>2, <4>1 DEF From
      <4>2. CASE k = 1 /\ a > 0
        <5>1. i # 1 /\ i - 1 = a /\ all[a] = done[a]
          BY <1>3, <3>2, <4>2
        <5> QED
          BY <1>5, <4>2, <5>1 DEF From
      <4>3. CASE k # 1
        <5>1. k - 1 \in 1..b /\ i - 1 = a + (k - 1) /\ i # 1
          BY <1>3, <3>2, <4>3
        <5>2. all[i - 1] = more[k - 1]
          BY <1>3, <5>1
        <5> QED
          BY <4>3, <5>1, <5>2 DEF From
      <4> QED
        BY <1>3, <4>1, <4>2, <4>3
    <3> QED
      BY <1>1, <3>2, <3>3, <3>4 DEF Tiles
  <2> QED
    BY <2>1, <2>2
<1>8. Tiles(e, n, max, all, 0)
  BY <1>3, <1>7 DEF Tiles
<1>9. Reached(all) = Reached(more)
  <2>1. more # <<>> /\ Len(more) = b
    BY <1>1, <1>3
  <2> QED
    BY <1>4, <2>1 DEF Reached
<1> QED
  BY <1>1, <1>3, <1>8, <1>9

LEMMA OneMore ==
  ASSUME NEW e, NEW n, NEW max, NEW done \in Seq(Row), NEW c \in Row,
         Tiles(e, n, max, done, 0), Tile(e, n, max, c, Reached(done))
  PROVE  /\ Append(done, c) \in Seq(Row) /\ Tiles(e, n, max, Append(done, c), 0)
         /\ Reached(Append(done, c)) = c.end
<1>1. PICK one : one = <<c>>
  OBVIOUS
<1>2. one \in Seq(Row) /\ Len(one) = 1 /\ one[1] = c
  BY <1>1
<1>3. Tiles(e, n, max, one, Reached(done))
  BY <1>2 DEF Tiles, From
<1>4. PICK all : all = Append(done, c)
  OBVIOUS
<1>5. Joined(all, done, one)
  BY <1>1, <1>4 DEF Joined
<1>6. Len(one) > 0
  BY <1>2
<1>7. all \in Seq(Row) /\ Tiles(e, n, max, all, 0) /\ Reached(all) = Reached(one)
  <2>1. one \in Seq(Row)
    BY <1>2
  <2>2. all \in Seq(Row) /\ Tiles(e, n, max, all, 0)
    BY <2>1, <1>3, <1>5, <1>6, TilesJoin
  <2>3. Reached(all) = Reached(one)
    BY <2>1, <2>2, <1>3, <1>5, <1>6, TilesJoin
  <2> QED
    BY <2>2, <2>3
<1>8. Reached(one) = c.end
  BY <1>2 DEF Reached
<1> QED
  BY <1>4, <1>7, <1>8

LEMMA ClosedIs ==
  ASSUME NEW e, NEW n, NEW max, NEW c, FillInv(e, n, max, c)
  PROVE  /\ Close(c) \in Filling /\ Close(c).open.last = 0 /\ Tiles(e, n, max, Close(c).done, 0)
         /\ Reached(Close(c).done) = e[n]
<1>1. c \in Filling /\ c.done \in Seq(Row) /\ c.open \in Row /\ NoChunk \in Row /\ NoChunk.last = 0
  BY DEF FillInv, Filling, NoChunk, Row
<1>2. CASE c.open.last = 0
  BY <1>1, <1>2 DEF FillInv, Close
<1>3. CASE c.open.last # 0
  <2>1. Close(c) = [done |-> Append(c.done, c.open), open |-> NoChunk]
    BY <1>3 DEF Close
  <2>2. PICK more : more = Append(c.done, c.open)
    OBVIOUS
  <2>3. more \in Seq(Row) /\ Tiles(e, n, max, more, 0) /\ Reached(more) = c.open.end
    BY <1>1, <1>3, <2>2, OneMore DEF FillInv
  <2>4. Close(c).done = more /\ Close(c).open = NoChunk /\ Close(c) \in Filling
    BY <1>1, <2>1, <2>2, <2>3 DEF Filling
  <2> QED
    BY <1>1, <1>3, <2>3, <2>4 DEF FillInv
<1> QED
  BY <1>2, <1>3

LEMMA Products ==
  ASSUME NEW a \in Nat, NEW b \in Nat, NEW m \in Nat, a <= b
  PROVE  a * m <= b * m /\ a * m \in Nat /\ b * m \in Nat /\ (a + 1) * m = a * m + m
OBVIOUS

LEMMA RoundedUp ==
  ASSUME NEW length \in Nat \ {0}, NEW max \in Nat \ {0}, NEW k, k = (length + max - 1) \div max
  PROVE  k \in Nat \ {0} /\ (k - 1) * max < length /\ length <= k * max
<1>1. PICK a : a = length + max - 1
  OBVIOUS
<1>2. a \in Nat /\ a >= max /\ k = a \div max
  BY <1>1
<1>3. PICK r : r = a % max
  OBVIOUS
<1>4. k \in Int /\ r \in 0..(max - 1) /\ a = max * k + r
  BY <1>2, <1>3
<1>5. k \in Nat \ {0}
  BY <1>2, <1>4
<1>6. (k - 1) * max = k * max - max /\ k * max = max * k /\ k * max \in Int
  BY <1>5
<1> QED
  BY <1>1, <1>4, <1>5, <1>6
LEMMA LeastOf ==
  ASSUME NEW S \in SUBSET Nat, S # {}
  PROVE  Min(S) \in S /\ \A k \in S : Min(S) <= k
BY LeastNumber DEF Min

LEMMA SegmentsTile ==
  ASSUME NEW e, NEW N, LineEnds(e, N), NEW n \in 1..N, NEW max \in Nat \ {0},
         NEW line, line = [start |-> e[n - 1], end |-> e[n]],
         NEW done \in Seq(Row), Reached(done) = e[n - 1]
  PROVE  /\ Segments(line, n, max) \in Seq(Row) /\ Len(Segments(line, n, max)) > 0
         /\ Tiles(e, n, max, Segments(line, n, max), Reached(done))
         /\ Reached(Segments(line, n, max)) = e[n]
<1>1. PICK a, b : a = e[n - 1] /\ b = e[n]
  OBVIOUS
<1>2. a \in Nat /\ b \in Nat /\ a < b /\ n \in Nat /\ n \in 1..n
  <2>1. n - 1 \in 0..N /\ n \in 0..N /\ N \in Nat
    BY DEF LineEnds
  <2> QED
    BY <1>1, <2>1 DEF LineEnds
<1>3. PICK length : length = b - a
  OBVIOUS
<1>4. length \in Nat \ {0} /\ b = a + length
  BY <1>2, <1>3
<1>5. PICK k : k = (length + max - 1) \div max
  OBVIOUS
<1>6. k \in Nat \ {0} /\ (k - 1) * max < length /\ length <= k * max
  BY <1>4, <1>5, RoundedUp
<1>7. PICK s : s = Segments(line, n, max)
  OBVIOUS
<1>8. s = [i \in 1..k |-> [start |-> a + (i - 1) * max, end |-> Min({a + i * max, b}),
                           first |-> n, last |-> n]]
  BY <1>1, <1>3, <1>5, <1>7 DEF Segments
<1>9. ASSUME NEW i \in 1..k
      PROVE  /\ s[i].start = a + (i - 1) * max /\ s[i].first = n /\ s[i].last = n
             /\ s[i] \in Row /\ s[i].start \in Nat /\ s[i].end \in Nat
             /\ a <= s[i].start /\ s[i].start < s[i].end /\ s[i].end <= s[i].start + max /\ s[i].end <= b
             /\ s[i].end = IF i = k THEN b ELSE a + i * max
  <2>1. PICK p, q : p = (i - 1) * max /\ q = i * max
    OBVIOUS
  <2>2. p \in Nat /\ q \in Nat /\ q = p + max
    <3>1. i - 1 \in Nat /\ i \in Nat /\ i - 1 <= i /\ (i - 1) + 1 = i
      BY <1>6
    <3>2. p \in Nat /\ q \in Nat
      BY <2>1, <3>1, Products
    <3>3. ((i - 1) + 1) * max = (i - 1) * max + max
      BY <3>1, Products
    <3> QED
      BY <2>1, <3>1, <3>2, <3>3
  <2>3. p < length
    <3>1. i - 1 \in Nat /\ k - 1 \in Nat /\ i - 1 <= k - 1
      BY <1>6
    <3>2. (i - 1) * max <= (k - 1) * max /\ (k - 1) * max \in Nat
      BY <3>1, Products
    <3> QED
      BY <1>4, <1>6, <2>1, <2>2, <3>2
  <2>4. i = k => length <= q
    BY <1>6, <2>1
  <2>5. i # k => q < length
    <3>1. i # k => i \in Nat /\ k - 1 \in Nat /\ i <= k - 1
      BY <1>6
    <3>2. i # k => i * max <= (k - 1) * max /\ (k - 1) * max \in Nat
      BY <3>1, Products
    <3> QED
      BY <1>4, <1>6, <2>1, <2>2, <3>2
  <2>6. PICK m : m = Min({a + q, b})
    OBVIOUS
  <2>7. m \in {a + q, b} /\ m <= a + q /\ m <= b
    <3>1. {a + q, b} \in SUBSET Nat /\ {a + q, b} # {}
      BY <1>2, <2>2
    <3> QED
      BY <2>6, <3>1, LeastOf
  <2>8. m \in Nat /\ a + p < m /\ m <= a + p + max /\ m <= b /\ m = IF i = k THEN b ELSE a + q
    BY <1>2, <1>4, <2>2, <2>3, <2>4, <2>5, <2>7
  <2>9. s[i] = [start |-> a + p, end |-> m, first |-> n, last |-> n]
    BY <1>8, <2>1, <2>6
  <2>10. s[i] \in Row
    BY <1>2, <2>2, <2>8, <2>9 DEF Row
  <2>11. s[i].start = a + p /\ s[i].end = m /\ s[i].first = n /\ s[i].last = n
    BY <2>9
  <2>12. a + p \in Nat /\ a <= a + p
    BY <1>2, <2>2
  <2>13. /\ s[i].start \in Nat /\ s[i].end \in Nat
         /\ a <= s[i].start /\ s[i].start < s[i].end /\ s[i].end <= s[i].start + max /\ s[i].end <= b
         /\ s[i].end = IF i = k THEN b ELSE a + q
    BY ONLY <2>8, <2>11, <2>12
  <2>14. s[i].start = a + (i - 1) * max /\ (s[i].end = IF i = k THEN b ELSE a + i * max)
    BY ONLY <2>1, <2>11, <2>13
  <2> QED
    BY <2>10, <2>11, <2>13, <2>14
<1>10. s \in Seq(Row) /\ Len(s) = k
  <2>1. s \in [1..k -> Row]
    BY <1>8, <1>9
  <2> QED
    BY <1>6, <2>1
<1>11. ASSUME NEW i \in 1..k PROVE Tile(e, n, max, s[i], From(s, i, a))
  <2>1. s[i].start = From(s, i, a)
    <3>1. CASE i = 1
      <4>1. (i - 1) * max = 0
        BY <3>1
      <4> QED
        BY <1>2, <1>9, <3>1, <4>1 DEF From
    <3>2. CASE i # 1
      <4>1. i - 1 \in 1..k /\ i - 1 # k
        BY <1>6, <3>2
      <4>2. s[i - 1].end = a + (i - 1) * max
        BY <1>9, <4>1
      <4> QED
        BY <1>9, <3>2, <4>2 DEF From
    <3> QED
      BY <3>1, <3>2
  <2>2. /\ s[i].first = n /\ s[i].last = n /\ s[i].start \in Nat /\ s[i].end \in Nat
        /\ a <= s[i].start /\ s[i].start < s[i].end /\ s[i].end <= s[i].start + max /\ s[i].end <= b
    BY <1>9
  <2>3. a < s[i].end /\ s[i].start < b
    BY <1>2, <2>2
  <2> QED
    BY <1>1, <1>2, <2>1, <2>2, <2>3 DEF Tile
<1>12. Tiles(e, n, max, s, Reached(done))
  BY <1>1, <1>10, <1>11 DEF Tiles
<1>13. Reached(s) = b
  <2>1. k \in 1..k /\ s # <<>>
    BY <1>6, <1>10
  <2>2. s[k].end = b
    BY <1>9, <2>1
  <2> QED
    BY <1>10, <2>1, <2>2 DEF Reached
<1> QED
  BY <1>1, <1>6, <1>7, <1>10, <1>12, <1>13

LEMMA TileStays ==
  ASSUME NEW e, NEW m \in Nat, NEW n, n = m + 1, NEW max, NEW c, NEW from, Tile(e, m, max, c, from)
  PROVE  Tile(e, n, max, c, from)
<1>1. \A k \in 1..m : k \in 1..n
  OBVIOUS
<1> QED
  BY <1>1 DEF Tile

LEMMA OneLineMore ==
  ASSUME NEW e, NEW N, LineEnds(e, N), NEW n \in 1..N, NEW max \in Nat \ {0},
         NEW line, line = [start |-> e[n - 1], end |-> e[n]],
         NEW m, m = n - 1, NEW c, FillInv(e, m, max, c)
  PROVE  FillInv(e, n, max, AddLine(c, line, n, max))
<1>1. /\ e[m] \in Nat /\ e[n] \in Nat /\ e[m] < e[n] /\ m \in Nat /\ n = m + 1 /\ n \in Nat \ {0}
      /\ line.start = e[m] /\ line.end = e[n]
  <2>1. m \in 0..N /\ n \in 0..N /\ N \in Nat
    BY DEF LineEnds
  <2>2. n = m + 1 /\ e[m] < e[n]
    BY DEF LineEnds
  <2> QED
    BY <2>1, <2>2 DEF LineEnds
<1>2. PICK d : d = Close(c)
  OBVIOUS
<1>3. /\ d \in Filling /\ d.open.last = 0 /\ Reached(d.done) = e[m]
      /\ d.done \in Seq(Row) /\ d.open \in Row /\ d = [done |-> d.done, open |-> d.open]
      /\ Tiles(e, n, max, d.done, 0)
  <2>1. d \in Filling /\ d.open.last = 0 /\ Tiles(e, m, max, d.done, 0) /\ Reached(d.done) = e[m]
    BY <1>2, ClosedIs
  <2>2. Tiles(e, n, max, d.done, 0)
    BY <1>1, <2>1, TilesStay
  <2> QED
    BY <2>1, <2>2 DEF Filling
<1>4. PICK r : r = AddLine(c, line, n, max)
  OBVIOUS
<1>5. CASE line.end - line.start > max
  <2>1. PICK s : s = Segments(line, n, max)
    OBVIOUS
  <2>2. /\ s \in Seq(Row) /\ Len(s) > 0 /\ Tiles(e, n, max, s, Reached(d.done)) /\ Reached(s) = e[n]
    BY <1>3, <2>1, SegmentsTile
  <2>3. PICK all : all = d.done \o s
    OBVIOUS
  <2>4. Joined(all, d.done, s)
    BY <2>3 DEF Joined
  <2>5. all \in Seq(Row) /\ Tiles(e, n, max, all, 0) /\ Reached(all) = Reached(s)
    <3>1. PICK done : done = d.done
      OBVIOUS
    <3>2. done \in Seq(Row) /\ Joined(all, done, s) /\ Tiles(e, n, max, done, 0) /\ Tiles(e, n, max, s, Reached(done))
      BY <1>3, <2>2, <2>4, <3>1
    <3> QED
      BY <2>2, <3>2, TilesJoin
  <2>6. r = [done |-> all, open |-> d.open]
    BY <1>2, <1>3, <1>4, <1>5, <2>1, <2>3 DEF AddLine
  <2>7. r \in Filling
    BY <1>3, <2>5, <2>6 DEF Filling
  <2> QED
    BY <1>3, <1>4, <2>2, <2>5, <2>6, <2>7 DEF FillInv
<1>6. CASE ~(line.end - line.start > max) /\ c.open.last # 0 /\ line.end - c.open.start <= max
  <2>1. /\ c = [done |-> c.done, open |-> c.open] /\ c.done \in Seq(Row) /\ c.open \in Row
        /\ Tiles(e, m, max, c.done, 0) /\ Tile(e, m, max, c.open, Reached(c.done))
        /\ c.open.end = e[m] /\ c.open.last = m
    BY <1>6 DEF FillInv, Filling
  <2>2. PICK start, first : start = c.open.start /\ first = c.open.first
    OBVIOUS
  <2>3. start \in Nat /\ first \in Nat
    BY <2>1, <2>2 DEF Row
  <2>4. PICK o : o = [start |-> start, end |-> e[n], first |-> first, last |-> n]
    OBVIOUS
  <2>5. r = [done |-> c.done, open |-> o]
    <3>1. c.open = [start |-> start, end |-> c.open.end, first |-> first, last |-> c.open.last]
      BY <2>1, <2>2 DEF Row
    <3>2. [[c.open EXCEPT !.end = e[n]] EXCEPT !.last = n] = o
      <4>1. PICK end, last : end = c.open.end /\ last = c.open.last
        OBVIOUS
      <4>2. c.open = [start |-> start, end |-> end, first |-> first, last |-> last]
        BY <3>1, <4>1
      <4>3. PICK p, x : p = c.open /\ x = e[n]
        OBVIOUS
      <4>4. p = [start |-> start, end |-> end, first |-> first, last |-> last]
        BY <4>2, <4>3
      <4>5. [[p EXCEPT !.end = x] EXCEPT !.last = n] = [start |-> start, end |-> x, first |-> first, last |-> n]
        <5>1. PICK mid : mid = [start |-> start, end |-> x, first |-> first, last |-> last]
          OBVIOUS
        <5>2. [p EXCEPT !.end = x] = mid
          BY <4>4, <5>1
        <5>3. [mid EXCEPT !.last = n] = [start |-> start, end |-> x, first |-> first, last |-> n]
          BY <5>1
        <5> QED
          BY <5>2, <5>3
      <4> QED
        BY <2>4, <4>3, <4>5
    <3>3. r = [c EXCEPT !.open.end = line.end, !.open.last = n]
      BY <1>4, <1>6 DEF AddLine
    <3> QED
      BY <1>1, <2>1, <3>1, <3>2, <3>3
  <2>6. o \in Row
    BY <1>1, <2>3, <2>4 DEF Row
  <2>7. Tile(e, n, max, o, Reached(c.done))
    <3>1. /\ start = Reached(c.done) /\ start < e[m] /\ first \in 1..m /\ e[first - 1] <= start /\ start < e[first]
      BY <2>1, <2>2 DEF Tile
    <3>2. start < e[n] /\ e[n] <= start + max /\ first \in 1..n /\ n \in 1..n /\ first <= n /\ e[n - 1] < e[n]
      BY <1>1, <1>6, <2>2, <2>3, <3>1
    <3> QED
      BY <1>1, <2>4, <3>1, <3>2 DEF Tile
  <2>8. Tiles(e, n, max, c.done, 0)
    BY <1>1, <2>1, TilesStay
  <2>9. r \in Filling
    BY <2>1, <2>5, <2>6 DEF Filling
  <2>10. r.done = c.done /\ r.open = o /\ o.end = e[n] /\ o.last = n /\ o.last # 0
    BY <1>1, <2>4, <2>5
  <2>11. Tiles(e, n, max, r.done, 0) /\ Tile(e, n, max, r.open, Reached(r.done))
    BY <2>7, <2>8, <2>10
  <2> QED
    BY <1>4, <2>9, <2>10, <2>11 DEF FillInv
<1>7. CASE ~(line.end - line.start > max) /\ ~(c.open.last # 0 /\ line.end - c.open.start <= max)
  <2>1. PICK o : o = [start |-> e[m], end |-> e[n], first |-> n, last |-> n]
    OBVIOUS
  <2>2. r = [done |-> d.done, open |-> o]
    BY <1>1, <1>2, <1>3, <1>4, <1>7, <2>1 DEF AddLine
  <2>3. o \in Row
    BY <1>1, <2>1 DEF Row
  <2>4. Tile(e, n, max, o, Reached(d.done))
    <3>1. e[n] <= e[m] + max /\ n \in 1..n /\ e[n - 1] = e[m]
      BY <1>1, <1>7
    <3>2. o.start = e[m] /\ o.end = e[n] /\ o.first = n /\ o.last = n
      BY <2>1
    <3>3. o.start = Reached(d.done) /\ o.start < o.end /\ o.end <= o.start + max
      BY <1>1, <1>3, <3>1, <3>2
    <3>4. e[o.first - 1] <= o.start /\ o.start < e[o.first] /\ e[o.last - 1] < o.end /\ o.end <= e[o.last]
      BY <1>1, <3>1, <3>2
    <3> QED
      BY <1>1, <3>1, <3>2, <3>3, <3>4 DEF Tile
  <2>5. r \in Filling
    BY <1>3, <2>2, <2>3 DEF Filling
  <2> QED
    BY <1>1, <1>3, <1>4, <2>1, <2>2, <2>4, <2>5 DEF FillInv
<1> QED
  BY <1>5, <1>6, <1>7
LEMMA FilledWell ==
  ASSUME NEW e, NEW N, LineEnds(e, N), NEW max \in Nat \ {0},
         NEW at, AreLines(at, e, N), NEW f, FillsUp(f, e, N, max, at)
  PROVE  \A i \in 0..N : FillInv(e, i, max, f[i])
<1> DEFINE bad == {i \in 0..N : ~FillInv(e, i, max, f[i])}
<1>1. SUFFICES ASSUME bad # {} PROVE FALSE
  OBVIOUS
<1>2. bad \in SUBSET Nat /\ N \in Nat
  BY DEF LineEnds
<1>3. PICK k \in bad : \A i \in bad : k <= i
  BY <1>1, <1>2, LeastNumber
<1>4. k # 0
  <2>1. Begun \in Filling /\ Begun.done = <<>> /\ Begun.open.last = 0
    BY DEF Begun, NoChunk, Filling, Row
  <2>2. Tiles(e, 0, max, Begun.done, 0)
    BY <2>1 DEF Tiles
  <2>3. Reached(Begun.done) = e[0]
    BY <2>1 DEF Reached, LineEnds
  <2>4. FillInv(e, 0, max, Begun)
    BY <2>1, <2>2, <2>3 DEF FillInv
  <2> QED
    BY <1>3, <2>4 DEF FillsUp
<1>5. PICK m : m = k - 1
  OBVIOUS
<1>6. m \in 0..N /\ m \notin bad /\ k \in 1..N
  BY <1>2, <1>3, <1>4, <1>5
<1>7. FillInv(e, m, max, f[m])
  BY <1>6
<1>8. PICK c, line : c = f[m] /\ line = at[k]
  OBVIOUS
<1>9. line = [start |-> e[k - 1], end |-> e[k]] /\ FillInv(e, m, max, c)
  BY <1>6, <1>7, <1>8 DEF AreLines
<1>10. FillInv(e, k, max, AddLine(c, line, k, max))
  BY <1>5, <1>6, <1>9, OneLineMore
<1>11. f[k] = AddLine(c, line, k, max)
  BY <1>5, <1>6, <1>7, <1>8 DEF FillsUp
<1> QED
  BY <1>3, <1>10, <1>11

LEMMA ChunksAreFilled ==
  ASSUME NEW d, d.lines \in Seq(Nat \ {0}), d.max \in Nat \ {0},
         NEW e, LineEnds(e, Len(d.lines)), \A n \in 0..Len(d.lines) : EndOfLine(d.lines, n) = e[n]
  PROVE  \E c : FillInv(e, Len(d.lines), d.max, c) /\ Chunks(d) = Close(c).done
<1>1. PICK N, max, at : /\ N = Len(d.lines) /\ max = d.max
                        /\ at = [i \in 1..N |-> LineAt(d.lines, i)]
  OBVIOUS
<1>2. N \in Nat /\ max \in Nat \ {0} /\ LineEnds(e, N)
  BY <1>1
<1>3. AreLines(at, e, N)
  <2>1. \A i \in 1..N : i - 1 \in 0..N /\ i \in 0..N
    BY <1>2
  <2> QED
    BY <1>1, <2>1 DEF LineAt, AreLines
<1> DEFINE next(i, c) == AddLine(c, at[i], i, max)
<1>4. PICK g : g = [i \in 1..N |-> [c \in Filling |-> IF next(i, c) \in Filling THEN next(i, c) ELSE Begun]]
  OBVIOUS
<1>5. Begun \in Filling
  BY DEF Begun, NoChunk, Filling, Row
<1>6. g \in [1..N -> [Filling -> Filling]]
  <2> HIDE DEF next
  <2> QED
    BY <1>4, <1>5
<1>7. PICK f \in [0..N -> Filling] : GoesOn(f, Begun, g, N)
  BY <1>2, <1>5, <1>6, StepByStep
<1>8. f[0] = Begun /\ \A i \in 1..N : f[i] = IF next(i, f[i - 1]) \in Filling THEN next(i, f[i - 1]) ELSE Begun
  <2> HIDE DEF next
  <2>1. \A i \in 1..N : i # 0 /\ i \in 0..N /\ i - 1 \in 0..N
    BY <1>2
  <2>2. 0 \in 0..N
    BY <1>2
  <2> QED
    BY <1>4, <1>7, <2>1, <2>2 DEF GoesOn
<1>9. ASSUME NEW i \in 1..N, FillInv(e, i - 1, max, f[i - 1])
      PROVE  f[i] = AddLine(f[i - 1], at[i], i, max)
  <2>1. PICK c, line, m : c = f[i - 1] /\ line = at[i] /\ m = i - 1
    OBVIOUS
  <2>2. FillInv(e, i, max, AddLine(c, line, i, max))
    <3>1. line = [start |-> e[i - 1], end |-> e[i]] /\ FillInv(e, m, max, c)
      BY <1>3, <1>9, <2>1 DEF AreLines
    <3> QED
      BY <1>2, <2>1, <3>1, OneLineMore
  <2>3. AddLine(c, line, i, max) \in Filling
    BY <2>2 DEF FillInv
  <2> QED
    BY <1>8, <2>1, <2>3
<1>10. \A i \in 0..N : FillInv(e, i, max, f[i])
  <2>1. FillsUp(f, e, N, max, at)
    BY <1>8, <1>9 DEF FillsUp
  <2> QED
    BY <1>2, <1>3, <2>1, FilledWell
<1>11. f = [n \in 0..Len(d.lines) |-> IF n = 0 THEN Begun ELSE AddLine(f[n - 1], LineAt(d.lines, n), n, d.max)]
  <2>1. ASSUME NEW n \in 0..N, n # 0
        PROVE  f[n] = AddLine(f[n - 1], LineAt(d.lines, n), n, d.max)
    <3>1. n \in 1..N /\ n - 1 \in 0..N
      BY <1>2, <2>1
    <3>2. f[n] = AddLine(f[n - 1], at[n], n, max) /\ at[n] = LineAt(d.lines, n)
      BY <1>1, <1>9, <1>10, <3>1
    <3> QED
      BY <1>1, <3>2
  <2>2. \A n \in 0..N : f[n] = IF n = 0 THEN Begun ELSE AddLine(f[n - 1], LineAt(d.lines, n), n, d.max)
    BY <1>8, <2>1
  <2> QED
    BY <1>1, <1>7, <2>2
<1> HIDE DEF next
<1> DEFINE filled == CHOOSE h : h = [n \in 0..Len(d.lines) |->
                       IF n = 0 THEN Begun ELSE AddLine(h[n - 1], LineAt(d.lines, n), n, d.max)]
<1>12. PICK h : h = filled
  OBVIOUS
<1>13. h = [n \in 0..Len(d.lines) |-> IF n = 0 THEN Begun ELSE AddLine(h[n - 1], LineAt(d.lines, n), n, d.max)]
  BY <1>11, <1>12
<1>14. Chunks(d) = Close(h[Len(d.lines)]).done
  BY <1>12 DEF Chunks
<1> HIDE DEF filled
<1>15. h[0] = Begun /\ \A i \in 1..N : h[i] = AddLine(h[i - 1], at[i], i, max)
  <2>1. 0 \in 0..N /\ \A i \in 1..N : i \in 0..N /\ i # 0
    BY <1>2
  <2> QED
    BY <1>1, <1>13, <2>1
<1>16. \A i \in 0..N : FillInv(e, i, max, h[i])
  <2>1. FillsUp(h, e, N, max, at)
    BY <1>15 DEF FillsUp
  <2> QED
    BY <1>2, <1>3, <2>1, FilledWell
<1>17. FillInv(e, N, max, h[N])
  BY <1>2, <1>16
<1> QED
  BY <1>1, <1>14, <1>17
\* A chunk has exactly the lines it overlaps.
LEMMA LinesOfTile ==
  ASSUME NEW e, NEW N, LineEnds(e, N), NEW max, NEW c \in Row, NEW from, Tile(e, N, max, c, from),
         NEW lines, DOMAIN lines = 1..N, \A n \in 1..N : lines[n] = [start |-> e[n - 1], end |-> e[n]]
  PROVE  {n \in DOMAIN lines : Overlap(lines[n], c)} = c.first..c.last /\ c.end <= e[N]
<1>1. PICK a, b, p, q : a = c.first /\ b = c.last /\ p = c.start /\ q = c.end
  OBVIOUS
<1>2. N \in Nat /\ \A n \in 0..N : e[n] \in Nat
  BY DEF LineEnds
<1>3. /\ a \in 1..N /\ b \in 1..N /\ a <= b /\ p \in Nat /\ q \in Nat
      /\ e[a - 1] <= p /\ p < e[a] /\ e[b - 1] < q /\ q <= e[b]
  BY <1>1 DEF Tile, Row
<1>4. ASSUME NEW m \in 0..N, NEW n \in 0..N, m <= n PROVE e[m] <= e[n]
  <2>1. m < n => e[m] < e[n]
    BY EndsClimb
  <2> QED
    BY <1>2, <1>4, <2>1
<1>5. ASSUME NEW n \in 1..N PROVE Overlap(lines[n], c) <=> n \in a..b
  <2>1. n - 1 \in 0..N /\ n \in 0..N /\ a \in 0..N /\ b \in 0..N /\ a - 1 \in 0..N /\ b - 1 \in 0..N
    BY <1>2, <1>3
  <2>2. e[n] \in Nat /\ e[n - 1] \in Nat /\ e[a] \in Nat /\ e[b] \in Nat /\ e[a - 1] \in Nat /\ e[b - 1] \in Nat
    BY <1>2, <2>1
  <2>3. Overlap(lines[n], c) <=> e[n - 1] < q /\ p < e[n]
    BY <1>1 DEF Overlap
  <2>4. CASE n < a
    <3>1. n <= a - 1
      BY <1>2, <1>3, <2>1, <2>4
    <3>2. e[n] <= e[a - 1]
      BY <1>4, <2>1, <3>1
    <3> QED
      BY <1>3, <2>2, <2>3, <2>4, <3>2
  <2>5. CASE n > b
    <3>1. b <= n - 1
      BY <1>2, <1>3, <2>1, <2>5
    <3>2. e[b] <= e[n - 1]
      BY <1>4, <2>1, <3>1
    <3> QED
      BY <1>3, <2>2, <2>3, <2>5, <3>2
  <2>6. CASE a <= n /\ n <= b
    <3>1. n - 1 <= b - 1
      BY <1>3, <2>6
    <3>2. e[a] <= e[n] /\ e[n - 1] <= e[b - 1]
      <4>1. e[a] <= e[n]
        BY <1>4, <2>1, <2>6
      <4>2. e[n - 1] <= e[b - 1]
        BY <1>4, <2>1, <3>1
      <4> QED
        BY <4>1, <4>2
    <3>3. e[n - 1] < q /\ p < e[n]
      <4>1. p \in Nat /\ q \in Nat /\ p < e[a] /\ e[b - 1] < q
        BY <1>3
      <4>2. e[n - 1] < q
        BY <2>2, <3>2, <4>1
      <4>3. p < e[n]
        BY <2>2, <3>2, <4>1
      <4> QED
        BY <4>2, <4>3
    <3>4. n \in a..b
      BY <1>2, <1>3, <2>6
    <3> QED
      BY <2>3, <3>3, <3>4
  <2> QED
    BY <1>3, <2>4, <2>5, <2>6
<1>6. c.end <= e[N]
  <2>1. b \in 0..N /\ N \in 0..N /\ b <= N
    BY <1>2, <1>3
  <2>2. e[b] <= e[N]
    BY <1>4, <2>1
  <2> QED
    BY <1>1, <1>2, <1>3, <2>1, <2>2
<1>7. a..b \subseteq 1..N
  BY <1>2, <1>3
<1> QED
  BY <1>1, <1>5, <1>6, <1>7

\* The pages of a chunk, where the pages begin and end with the text.
LEMMA PagesOfTile ==
  ASSUME NEW pages, NEW k \in Nat \ {0}, DOMAIN pages = 1..k, NEW c \in Row, NEW top \in Nat,
         pages[1].start = 0, pages[k].end = top, c.start < c.end, c.end <= top
  PROVE  /\ 1 <= PageRange(c, pages)[1] /\ PageRange(c, pages)[1] <= PageRange(c, pages)[2]
         /\ PageRange(c, pages)[2] <= k
         /\ \A p \in DOMAIN pages :
              Overlap(pages[p], c) => p \in PageRange(c, pages)[1]..PageRange(c, pages)[2]
<1>1. c.start \in Nat /\ c.end \in Nat /\ 1 \in 1..k /\ k \in 1..k
  BY DEF Row
<1>2. ASSUME NEW S \in SUBSET (1..k), S # {}
      PROVE  Min(S) \in 1..k /\ Max(S) \in 1..k /\ \A p \in S : Min(S) <= p /\ p <= Max(S)
  <2>1. S \in SUBSET Nat /\ k \in Nat /\ \A p \in S : p <= k
    OBVIOUS
  <2>2. Min(S) \in S /\ \A p \in S : Min(S) <= p
    BY <1>2, <2>1, LeastOf
  <2>3. Max(S) \in S /\ \A p \in S : p <= Max(S)
    BY <1>2, <2>1, GreatestNumber
  <2> QED
    BY <2>2, <2>3
<1>3. PICK over, later, earlier :
        /\ over = {p \in DOMAIN pages : Overlap(pages[p], c)}
        /\ later = {p \in DOMAIN pages : pages[p].end > c.start}
        /\ earlier = {p \in DOMAIN pages : pages[p].start < c.end}
  OBVIOUS
<1>4. PICK after, before : after = Min(later) /\ before = Max(earlier)
  OBVIOUS
<1>5. PICK range : range = PageRange(c, pages)
  OBVIOUS
<1>6. range = IF over # {} THEN <<Min(over), Max(over)>>
              ELSE <<Min({after, before}), Max({after, before})>>
  BY <1>3, <1>4, <1>5 DEF PageRange
<1>7. CASE over # {}
  <2>1. Min(over) \in 1..k /\ Max(over) \in 1..k /\ \A p \in over : Min(over) <= p /\ p <= Max(over)
    BY <1>2, <1>3, <1>7
  <2>2. range[1] = Min(over) /\ range[2] = Max(over)
    BY <1>6, <1>7
  <2>3. Min(over) <= Max(over)
    <3>1. PICK p \in over : p \in 1..k
      BY <1>3, <1>7
    <3> QED
      BY <2>1, <3>1
  <2>4. \A p \in DOMAIN pages : Overlap(pages[p], c) => p \in range[1]..range[2]
    <3> SUFFICES ASSUME NEW p \in DOMAIN pages, Overlap(pages[p], c) PROVE p \in range[1]..range[2]
      OBVIOUS
    <3>1. p \in over /\ p \in 1..k
      BY <1>3
    <3> QED
      BY <2>1, <2>2, <3>1
  <2> QED
    BY <1>5, <2>1, <2>2, <2>3, <2>4
<1>8. CASE over = {}
  <2>1. 1 \in earlier /\ k \in later
    BY <1>1, <1>3
  <2>2. after \in 1..k /\ before \in 1..k
    <3>1. later \in SUBSET (1..k) /\ earlier \in SUBSET (1..k) /\ later # {} /\ earlier # {}
      BY <1>3, <2>1
    <3> QED
      BY <1>2, <1>4, <3>1
  <2>3. PICK both : both = {after, before}
    OBVIOUS
  <2>4. Min(both) \in 1..k /\ Max(both) \in 1..k /\ Min(both) <= after /\ after <= Max(both)
    <3>1. both \in SUBSET (1..k) /\ both # {} /\ after \in both
      BY <2>2, <2>3
    <3> QED
      BY <1>2, <3>1
  <2>5. range[1] = Min(both) /\ range[2] = Max(both)
    BY <1>6, <1>8, <2>3
  <2>6. \A p \in DOMAIN pages : ~Overlap(pages[p], c)
    BY <1>3, <1>8
  <2> QED
    BY <1>5, <2>2, <2>4, <2>5, <2>6
<1> QED
  BY <1>7, <1>8

LEMMA PagesBeginAndEnd ==
  ASSUME NEW lines, NEW gaps \in Gaps(lines), NEW top \in Nat, Length(lines) = top, NEW pages, pages = Pages(lines, gaps)
  PROVE  /\ Len(pages) \in Nat \ {0} /\ DOMAIN pages = 1..Len(pages)
         /\ pages[1].start = 0 /\ pages[Len(pages)].end = top
<1>1. IsFiniteSet(gaps)
  <2>1. gaps \subseteq 0..top
    BY DEF Gaps
  <2>2. IsFiniteSet(0..top)
    BY FS_Interval
  <2> QED
    BY <2>1, <2>2, FS_Subset
<1>2. PICK count : count = Cardinality(gaps)
  OBVIOUS
<1>3. count \in Nat
  BY <1>1, <1>2, FS_CardinalityType
<1> DEFINE list == CHOOSE list \in [1..count -> gaps] : \A i, j \in 1..count : i < j => list[i] < list[j]
<1>4. PICK at : at = list
  OBVIOUS
<1>5. pages = [p \in 1..(count + 1) |->
                 [start |-> IF p = 1 THEN 0 ELSE at[p - 1] + 2,
                  end |-> IF p > count THEN top ELSE at[p]]]
  BY <1>2, <1>4 DEF Pages
<1> HIDE DEF list
<1>6. DOMAIN pages = 1..(count + 1) /\ pages[1].start = 0 /\ pages[count + 1].end = top
  <2>1. 1 \in 1..(count + 1) /\ count + 1 \in 1..(count + 1) /\ count + 1 > count
    BY <1>3
  <2> QED
    BY <1>5, <2>1
<1>7. Len(pages) = count + 1
  <2>1. PICK S : S = {pages[p] : p \in 1..(count + 1)}
    OBVIOUS
  <2>2. pages \in [1..(count + 1) -> S]
    BY <1>5, <2>1
  <2> QED
    BY <1>3, <2>2
<1> QED
  BY <1>3, <1>6, <1>7

\* What a document is.
LEMMA DocumentIs ==
  ASSUME document \in Document
  PROVE  /\ document.lines \in Seq(Nat \ {0}) /\ document.max \in Nat \ {0}
         /\ document.pages = <<>> \/ \E g \in Gaps(document.lines) : document.pages = Pages(document.lines, g)
<1>1. PICK lines, pages, max :
        /\ document = [lines |-> lines, pages |-> pages, max |-> max]
        /\ lines \in BoundedSeq(1..MaxLength, MaxLength) /\ max \in 1..MaxChars
        /\ pages \in {<<>>} \cup {Pages(lines, g) : g \in Gaps(lines)}
  BY DEF Document
<1>2. PICK m \in 0..MaxLength : lines \in [1..m -> 1..MaxLength]
  BY <1>1 DEF BoundedSeq, SeqOf
<1>3. lines \in Seq(Nat \ {0}) /\ max \in Nat \ {0}
  <2>1. m \in Nat /\ 1..MaxLength \subseteq Nat \ {0} /\ 1..MaxChars \subseteq Nat \ {0}
    BY TextAssumption
  <2>2. lines \in [1..m -> Nat \ {0}]
    BY <1>2, <2>1
  <2> QED
    BY <1>1, <2>1, <2>2
<1> QED
  BY <1>1, <1>3

\* ChunksTileText holds of every text: of any length, with any lines and pages,
\* and for every max_chars.
THEOREM ChunksTile ==
  ASSUME document \in Document
  PROVE  ChunksTileText
<1> DEFINE lines == document.lines
           pages == document.pages
           max == document.max
           chunks == Chunks(document)
           bounds == [i \in 0..Len(chunks) |-> IF i = 0 THEN 0 ELSE chunks[i].end]
           rows == [n \in DOMAIN lines |-> LineAt(lines, n)]
<1>1. lines = document.lines /\ pages = document.pages /\ max = document.max
  OBVIOUS
<1>2. chunks = Chunks(document)
  OBVIOUS
<1>3. bounds = [i \in 0..Len(chunks) |-> IF i = 0 THEN 0 ELSE chunks[i].end]
  OBVIOUS
<1>4. rows = [n \in DOMAIN lines |-> LineAt(lines, n)]
  OBVIOUS
<1> HIDE DEF lines, pages, max, chunks, bounds, rows
<1>5. lines \in Seq(Nat \ {0}) /\ max \in Nat \ {0}
  BY <1>1, DocumentIs
<1>6. PICK e : LineEnds(e, Len(lines)) /\ \A n \in 0..Len(lines) : EndOfLine(lines, n) = e[n]
  BY <1>5, EndsOfLines
<1>7. PICK N : N = Len(lines)
  OBVIOUS
<1>8. LineEnds(e, N) /\ N \in Nat /\ e[N] \in Nat /\ Length(lines) = e[N] /\ DOMAIN lines = 1..N
  BY <1>5, <1>6, <1>7 DEF LineEnds, Length
<1>9. PICK state : FillInv(e, N, max, state) /\ Chunks(document) = Close(state).done
  BY <1>1, <1>5, <1>6, <1>7, ChunksAreFilled
<1>10. chunks \in Seq(Row) /\ Tiles(e, N, max, chunks, 0) /\ Reached(chunks) = e[N]
  BY <1>9, <1>2, ClosedIs DEF Filling
<1>11. PICK L : L = Len(chunks)
  OBVIOUS
<1>12. L \in Nat /\ DOMAIN chunks = 1..L
  BY <1>10, <1>11
<1>13. bounds[Len(chunks)] = Length(lines)
  <2>1. chunks = <<>> <=> L = 0
    BY <1>10, <1>11
  <2>2. bounds[L] = IF L = 0 THEN 0 ELSE chunks[L].end
    BY <1>11, <1>12, <1>3
  <2> QED
    BY <1>8, <1>10, <1>11, <2>1, <2>2 DEF Reached
<1>14. DOMAIN rows = 1..N /\ \A n \in 1..N : rows[n] = [start |-> e[n - 1], end |-> e[n]]
  <2>1. \A n \in 1..N : n - 1 \in 0..N /\ n \in 0..N
    BY <1>8
  <2> QED
    BY <1>6, <1>7, <1>8, <1>4, <2>1 DEF LineAt
<1>15. ASSUME NEW i \in 1..L
       PROVE  /\ chunks[i].start = bounds[i - 1]
              /\ chunks[i].end \in (chunks[i].start + 1)..(chunks[i].start + max)
              /\ {n \in DOMAIN rows : Overlap(rows[n], chunks[i])} = chunks[i].first..chunks[i].last
              /\ pages # <<>> =>
                   /\ 1 <= PageRange(chunks[i], pages)[1]
                   /\ PageRange(chunks[i], pages)[1] <= PageRange(chunks[i], pages)[2]
                   /\ PageRange(chunks[i], pages)[2] <= Len(pages)
                   /\ \A p \in DOMAIN pages : Overlap(pages[p], chunks[i]) =>
                        p \in PageRange(chunks[i], pages)[1]..PageRange(chunks[i], pages)[2]
  <2>1. PICK k, from : k = chunks[i] /\ from = From(chunks, i, 0)
    OBVIOUS
  <2>2. k \in Row /\ Tile(e, N, max, k, from)
    BY <1>10, <1>11, <1>12, <2>1 DEF Tiles
  <2>3. from = bounds[i - 1]
    <3>1. i - 1 \in 0..L /\ (i - 1 = 0 <=> i = 1)
      BY <1>12
    <3> QED
      BY <1>11, <1>3, <2>1, <3>1 DEF From
  <2>4. k.start = from /\ k.start < k.end /\ k.end <= k.start + max /\ k.start \in Nat /\ k.end \in Nat
    BY <2>2 DEF Tile, Row
  <2>5. k.end \in (k.start + 1)..(k.start + max)
    BY <1>5, <2>4
  <2>6. {n \in DOMAIN rows : Overlap(rows[n], k)} = k.first..k.last /\ k.end <= e[N]
    BY <1>8, <1>14, <2>2, LinesOfTile
  <2>7. ASSUME pages # <<>>
        PROVE  /\ 1 <= PageRange(k, pages)[1] /\ PageRange(k, pages)[1] <= PageRange(k, pages)[2]
               /\ PageRange(k, pages)[2] <= Len(pages)
               /\ \A p \in DOMAIN pages : Overlap(pages[p], k) => p \in PageRange(k, pages)[1]..PageRange(k, pages)[2]
    <3>1. PICK g \in Gaps(lines) : pages = Pages(lines, g)
      BY <1>1, <2>7, DocumentIs
    <3>2. PICK top : top = e[N]
      OBVIOUS
    <3>3. PICK m : m = Len(pages)
      OBVIOUS
    <3>4. m \in Nat \ {0} /\ DOMAIN pages = 1..m /\ pages[1].start = 0 /\ pages[m].end = top
      BY <1>8, <3>1, <3>2, <3>3, PagesBeginAndEnd
    <3> QED
      BY <1>8, <2>2, <2>4, <2>6, <3>2, <3>3, <3>4, PagesOfTile
  <2> QED
    BY <2>1, <2>3, <2>4, <2>5, <2>6, <2>7
<1>16. \A i \in DOMAIN chunks :
         LET c == chunks[i] IN
           /\ c.start = bounds[i - 1] /\ c.end \in (c.start + 1)..(c.start + max)
           /\ {n \in DOMAIN rows : Overlap(rows[n], c)} = c.first..c.last
           /\ pages # <<>> =>
                LET range == PageRange(c, pages) IN
                  /\ 1 <= range[1] /\ range[1] <= range[2] /\ range[2] <= Len(pages)
                  /\ \A p \in DOMAIN pages : Overlap(pages[p], c) => p \in range[1]..range[2]
  BY <1>12, <1>15
<1> QED
  BY <1>13, <1>16 DEF ChunksTileText, lines, pages, max, chunks, bounds, rows

-----------------------------------------------------------------------------
(* Paths: parts of sequences. *)

LEMMA PartOf ==
  ASSUME NEW S, NEW s \in Seq(S), NEW n \in 0..Len(s)
  PROVE  /\ SubSeq(s, 1, n) \in Seq(S) /\ Len(SubSeq(s, 1, n)) = n
         /\ \A i \in 1..n : SubSeq(s, 1, n)[i] = s[i]
OBVIOUS

LEMMA PartOfPart ==
  ASSUME NEW S, NEW s \in Seq(S), NEW n \in 0..Len(s), NEW m \in 0..n
  PROVE  SubSeq(SubSeq(s, 1, n), 1, m) = SubSeq(s, 1, m)
<1>1. PICK p : p = SubSeq(s, 1, n)
  OBVIOUS
<1>2. p \in Seq(S) /\ Len(p) = n /\ \A i \in 1..n : p[i] = s[i]
  BY <1>1, PartOf
<1>3. m \in 0..Len(s) /\ m \in 0..Len(p)
  BY <1>2
<1>4. PICK a, b : a = SubSeq(p, 1, m) /\ b = SubSeq(s, 1, m)
  OBVIOUS
<1>5. /\ a \in Seq(S) /\ b \in Seq(S) /\ Len(a) = m /\ Len(b) = m
      /\ \A i \in 1..m : a[i] = p[i]
      /\ \A i \in 1..m : b[i] = s[i]
  BY <1>2, <1>3, <1>4, PartOf
<1>6. \A i \in 1..m : a[i] = b[i]
  BY <1>2, <1>5
<1>7. a = b
  BY <1>5, <1>6
<1> QED
  BY <1>1, <1>4, <1>7

LEMMA PartOfLonger ==
  ASSUME NEW S, NEW s \in Seq(S), NEW x \in S, NEW n \in 0..Len(s)
  PROVE  SubSeq(Append(s, x), 1, n) = SubSeq(s, 1, n)
<1>1. PICK p : p = Append(s, x)
  OBVIOUS
<1>2. p \in Seq(S) /\ Len(p) = Len(s) + 1 /\ \A i \in 1..Len(s) : p[i] = s[i]
  BY <1>1
<1>3. n \in 0..Len(p)
  BY <1>2
<1>4. PICK a, b : a = SubSeq(p, 1, n) /\ b = SubSeq(s, 1, n)
  OBVIOUS
<1>5. /\ a \in Seq(S) /\ b \in Seq(S) /\ Len(a) = n /\ Len(b) = n
      /\ \A i \in 1..n : a[i] = p[i]
      /\ \A i \in 1..n : b[i] = s[i]
  BY <1>2, <1>3, <1>4, PartOf
<1>6. \A i \in 1..n : a[i] = b[i]
  BY <1>2, <1>5
<1>7. a = b
  BY <1>5, <1>6
<1> QED
  BY <1>1, <1>4, <1>7

LEMMA WholePart ==
  ASSUME NEW S, NEW s \in Seq(S)
  PROVE  SubSeq(s, 1, Len(s)) = s
<1>1. PICK n, p : n = Len(s) /\ p = SubSeq(s, 1, n)
  OBVIOUS
<1>2. n \in 0..Len(s)
  BY <1>1
<1>3. p \in Seq(S) /\ Len(p) = n /\ \A i \in 1..n : p[i] = s[i]
  BY <1>1, <1>2, PartOf
<1> QED
  BY <1>1, <1>3

LEMMA OneLonger ==
  ASSUME NEW S, NEW s \in Seq(S), NEW n \in 1..Len(s), NEW m, m = n - 1
  PROVE  /\ SubSeq(s, 1, n) = Append(SubSeq(s, 1, m), s[n])
         /\ Front(SubSeq(s, 1, n)) = SubSeq(s, 1, m) /\ Last(SubSeq(s, 1, n)) = s[n]
<1>1. PICK p, q : p = SubSeq(s, 1, n) /\ q = SubSeq(s, 1, m)
  OBVIOUS
<1>2. m \in 0..Len(s) /\ n \in 0..Len(s) /\ m \in 0..n
  OBVIOUS
<1>3. /\ p \in Seq(S) /\ Len(p) = n
      /\ \A i \in 1..n : p[i] = s[i]
  BY <1>1, <1>2, PartOf
<1>4. /\ q \in Seq(S) /\ Len(q) = m
      /\ \A i \in 1..m : q[i] = s[i]
  BY <1>1, <1>2, PartOf
<1>5. PICK a : a = Append(q, s[n])
  OBVIOUS
<1>6. a \in Seq(S) /\ Len(a) = n /\ \A i \in 1..n : a[i] = s[i]
  <2>1. s[n] \in S
    OBVIOUS
  <2>2. a \in Seq(S) /\ Len(a) = n /\ a[n] = s[n] /\ \A i \in 1..m : a[i] = q[i]
    BY <1>4, <1>5, <2>1
  <2>3. \A i \in 1..n : i = n \/ i \in 1..m
    OBVIOUS
  <2> QED
    BY <1>4, <2>2, <2>3
<1>7. p = a
  BY <1>3, <1>6
<1>8. Front(p) = q
  <2>1. Front(p) = SubSeq(p, 1, m)
    BY <1>3 DEF Front
  <2> QED
    BY <1>1, <1>2, <2>1, PartOfPart
<1>9. Last(p) = s[n]
  BY <1>3 DEF Last
<1> QED
  BY <1>1, <1>5, <1>7, <1>8, <1>9

LEMMA RestOf ==
  ASSUME NEW S, NEW s \in Seq(S), Len(s) > 0
  PROVE  /\ Tail(s) \in Seq(S) /\ Len(Tail(s)) = Len(s) - 1
         /\ \A i \in 1..(Len(s) - 1) : Tail(s)[i] = s[i + 1]
OBVIOUS

(* Paths: where they lead. *)

LEMMA TreeIs ==
  ASSUME site \in Site
  PROVE  \A p \in DOMAIN site.node :
           /\ p \in PlainPath /\ p # <<>>
           /\ \A n \in 1..(Len(p) - 1) :
                SubSeq(p, 1, n) \in DOMAIN site.node /\ site.node[SubSeq(p, 1, n)] = DirNode
           /\ site.node[p].kind = "link" => site.node[p].to \in PlainPath \cup {Outside}
<1>1. PICK tree \in Trees : tree = site.node
  BY DEF Site
<1> QED
  BY <1>1, SiteAssumption DEF TreeAssumption, PlainPath

LEMMA Names ==
  /\ ".." \in Word /\ ".." \notin Component /\ Component \subseteq Word
  /\ Outside \in Seq(Word) /\ ~Within(Outside) /\ Outside \notin PlainPath /\ Outside # <<>>
  /\ Len(Outside) = 1 /\ Outside[1] = ".." /\ Append(<<>>, "..") = Outside /\ Loop # Outside /\ ~Within(Loop)
  /\ <<>> \in PlainPath /\ PlainPath \subseteq Seq(Word) /\ \A p \in PlainPath : Within(p) /\ p # Loop
<1>1. /\ ".." \in Word /\ ".." \notin Component /\ Component \subseteq Word
      /\ Outside \in Seq(Word) /\ Len(Outside) = 1 /\ Outside[1] = ".." /\ Outside # <<>>
      /\ Append(<<>>, "..") = Outside /\ <<>> \in PlainPath
  <2>1. ".." \in Word /\ ".." \notin Component /\ Component \subseteq Word
    BY SiteAssumption DEF Word
  <2>2. Outside \in Seq(Word) /\ Len(Outside) = 1 /\ Outside[1] = ".." /\ Outside # <<>>
    BY <2>1 DEF Outside
  <2>3. Append(<<>>, "..") = Outside
    BY DEF Outside
  <2>4. <<>> \in PlainPath
    BY DEF PlainPath
  <2> QED
    BY <2>1, <2>2, <2>3, <2>4
<1>2. PlainPath \subseteq Seq(Word)
  <2> SUFFICES ASSUME NEW p \in Seq(Component) PROVE p \in Seq(Word)
    BY DEF PlainPath
  <2>1. Len(p) \in Nat /\ p \in [1..Len(p) -> Component]
    OBVIOUS
  <2>2. p \in [1..Len(p) -> Word]
    BY <1>1, <2>1
  <2> QED
    BY <2>1, <2>2
<1>3. ~Within(Outside)
  BY DEF Outside, Within
<1>4. Len(Loop) = 2 /\ Loop[1] = ".." /\ Loop # <<>> /\ ~Within(Loop)
  BY DEF Loop, Within
<1>5. ASSUME NEW p \in PlainPath PROVE Within(p)
  <2>1. p # <<>> => Head(p) \in Component
    BY DEF PlainPath
  <2> QED
    BY <1>1, <2>1 DEF Within
<1>6. Loop # Outside /\ Outside \notin PlainPath /\ \A p \in PlainPath : p # Loop
  BY <1>1, <1>3, <1>4, <1>5
<1> QED
  BY <1>1, <1>2, <1>3, <1>4, <1>5, <1>6

LEMMA LinkIs ==
  ASSUME site \in Site, NEW p, NodeAt(p).kind = "link"
  PROVE  p \in DOMAIN site.node /\ p \in PlainPath /\ NodeAt(p).to \in PlainPath \cup {Outside}
<1>1. Missing.kind # "link" /\ DirNode.kind # "link"
  BY DEF Missing, DirNode
<1>2. p \in DOMAIN site.node /\ NodeAt(p) = site.node[p]
  BY <1>1 DEF NodeAt
<1> QED
  BY <1>2, TreeIs

\* What abspath makes of a request: a path without "..", the request itself if
\* it has none.
LEMMA NormalizedIs ==
  ASSUME NEW request \in Seq(Word)
  PROVE  /\ Normalized(request) \in PlainPath \cup {Outside}
         /\ request \in PlainPath => Normalized(request) = request
<1> DEFINE next(path, name) ==
             IF ~Within(path) \/ (name = ".." /\ path = <<>>) THEN Outside
             ELSE IF name = ".." THEN Front(path) ELSE Append(path, name)
<1>1. PICK V, N : V = PlainPath \cup {Outside} /\ N = Len(request)
  OBVIOUS
<1>2. N \in Nat /\ \A i \in 1..N : request[i] \in Word
  BY <1>1
<1>3. ASSUME NEW path \in V, NEW name \in Word
      PROVE  /\ next(path, name) \in V
             /\ path \in PlainPath /\ name \in Component => next(path, name) = Append(path, name)
  <2>1. CASE path = Outside
    BY <1>1, <2>1, Names
  <2>2. CASE path \in PlainPath
    <3>1. Within(path)
      BY <2>2, Names
    <3>2. CASE name = ".." /\ path = <<>>
      BY <1>1, <3>2, Names
    <3>3. CASE name = ".." /\ path # <<>>
      <4>1. next(path, name) = Front(path)
        BY <3>1, <3>3
      <4>2. Len(path) - 1 \in 0..Len(path)
        BY <2>2, <3>3 DEF PlainPath
      <4>3. Front(path) \in PlainPath
        BY <2>2, <4>2, PartOf DEF Front, PlainPath
      <4> QED
        BY <1>1, <3>3, <4>1, <4>3, Names
    <3>4. CASE name # ".."
      <4>1. next(path, name) = Append(path, name)
        BY <3>1, <3>4
      <4>2. Append(path, name) \in PlainPath
        BY <2>2, <3>4 DEF PlainPath, Word
      <4> QED
        BY <1>1, <4>1, <4>2
    <3> QED
      BY <3>2, <3>3, <3>4
  <2> QED
    BY <1>1, <2>1, <2>2
<1>4. PICK g : g = [i \in 1..N |-> [path \in V |-> next(path, request[i])]]
  OBVIOUS
<1>5. g \in [1..N -> [V -> V]] /\ \A i \in 1..N, path \in V : g[i][path] = next(path, request[i])
  <2> HIDE DEF next
  <2> QED
    BY <1>2, <1>3, <1>4
<1>6. PICK base : base = <<>> /\ base \in V
  BY <1>1, Names
<1>7. PICK f \in [0..N -> V] : GoesOn(f, base, g, N)
  BY <1>2, <1>5, <1>6, StepByStep
<1>8. f = [n \in 0..Len(request) |-> IF n = 0 THEN <<>> ELSE next(f[n - 1], request[n])]
  <2> HIDE DEF next
  <2>1. \A n \in 0..N : n # 0 => n \in 1..N /\ n - 1 \in 0..N
    BY <1>2
  <2>2. \A n \in 0..N : f[n] = IF n = 0 THEN <<>> ELSE next(f[n - 1], request[n])
    BY <1>5, <1>6, <1>7, <2>1 DEF GoesOn
  <2> QED
    BY <1>1, <1>7, <2>2
<1> DEFINE made == CHOOSE h : h = [n \in 0..Len(request) |-> IF n = 0 THEN <<>> ELSE next(h[n - 1], request[n])]
<1>9. PICK h : h = made
  OBVIOUS
<1>10. h = [n \in 0..Len(request) |-> IF n = 0 THEN <<>> ELSE next(h[n - 1], request[n])]
  BY <1>8, <1>9
<1>11. Normalized(request) = h[N]
  BY <1>1, <1>9 DEF Normalized
<1> HIDE DEF made
<1>12. h[0] = <<>> /\ \A i \in 1..N : h[i] = next(h[i - 1], request[i])
  <2> HIDE DEF next
  <2>1. 0 \in 0..N /\ \A i \in 1..N : i \in 0..N /\ i # 0
    BY <1>2
  <2> QED
    BY <1>1, <1>10, <2>1
<1> DEFINE good(i) == h[i] \in V /\ (request \in PlainPath => h[i] = SubSeq(request, 1, i))
<1>13. good(0)
  <2>1. request \in PlainPath => SubSeq(request, 1, 0) = <<>>
    BY DEF PlainPath
  <2> QED
    BY <1>1, <1>12, <2>1, Names
<1>14. ASSUME NEW k \in 1..N, good(k - 1) PROVE good(k)
  <2>1. PICK path, name, m : path = h[k - 1] /\ name = request[k] /\ m = k - 1
    OBVIOUS
  <2>2. path \in V /\ name \in Word /\ h[k] = next(path, name)
    BY <1>2, <1>12, <1>14, <2>1
  <2>3. h[k] \in V /\ (path \in PlainPath /\ name \in Component => h[k] = Append(path, name))
    BY <1>3, <2>2
  <2>4. ASSUME request \in PlainPath PROVE h[k] = SubSeq(request, 1, k)
    <3>1. path = SubSeq(request, 1, m) /\ m \in 0..Len(request) /\ k \in 1..Len(request)
      BY <1>1, <1>2, <1>14, <2>1, <2>4
    <3>2. name \in Component /\ path \in PlainPath
      BY <2>1, <2>4, <3>1, PartOf DEF PlainPath
    <3>3. SubSeq(request, 1, k) = Append(SubSeq(request, 1, m), request[k])
      BY <2>1, <2>4, <3>1, OneLonger DEF PlainPath
    <3> QED
      BY <2>1, <2>3, <3>1, <3>2, <3>3
  <2> QED
    BY <2>3, <2>4
<1> HIDE DEF next
<1>15. good(N)
  <2> HIDE DEF good
  <2>1. PICK G : G = {i \in 0..N : good(i)}
    OBVIOUS
  <2>2. 0 \in G
    <3>1. 0 \in 0..N
      BY <1>2
    <3> QED
      BY <1>13, <2>1, <3>1
  <2>3. ASSUME NEW k \in 1..N, k - 1 \in G PROVE k \in G
    <3>1. k \in 0..N
      BY <1>2
    <3> QED
      BY <1>14, <2>1, <2>3, <3>1
  <2>4. \A k \in 0..N : k \in G
    BY <1>2, <2>2, <2>3, CountedOn
  <2>5. N \in 0..N
    BY <1>2
  <2> QED
    BY <2>1, <2>4, <2>5
<1> QED
  <2>1. SubSeq(request, 1, N) = request
    BY <1>1, WholePart
  <2> QED
    BY <1>1, <1>11, <1>15, <2>1

LEMMA FollowStays ==
  ASSUME site \in Site, NEW w \in Way
  PROVE  Follow(w) \in Way
<1>1. PICK done, rest, next, name : done = w.done /\ rest = w.rest /\ next = Append(done, name) /\ name = Head(rest)
  OBVIOUS
<1>2. done \in Seq(Word) /\ rest \in Seq(Word) /\ (rest # <<>> => name \in Word /\ Tail(rest) \in Seq(Word) /\ next \in Seq(Word))
  BY <1>1 DEF Way
<1>3. CASE Resolved(w)
  BY <1>3 DEF Follow
<1>4. CASE ~Resolved(w) /\ NodeAt(next).kind = "link"
  <2>1. PICK to : to = NodeAt(next).to
    OBVIOUS
  <2>2. to \in Seq(Word)
    BY <1>4, <2>1, LinkIs, Names
  <2>3. rest # <<>> /\ Follow(w) = [done |-> <<>>, rest |-> to \o Tail(rest)]
    BY <1>1, <1>4, <2>1 DEF Follow, Resolved
  <2>4. to \o Tail(rest) \in Seq(Word) /\ <<>> \in Seq(Word)
    BY <1>2, <2>2, <2>3
  <2> QED
    BY <2>3, <2>4 DEF Way
<1>5. CASE ~Resolved(w) /\ NodeAt(next).kind # "link"
  <2>1. rest # <<>> /\ Follow(w) = [done |-> next, rest |-> Tail(rest)]
    BY <1>1, <1>5 DEF Follow, Resolved
  <2> QED
    BY <1>2, <2>1 DEF Way
<1> QED
  BY <1>3, <1>4, <1>5

LEMMA UnlinkedLonger ==
  ASSUME NEW p \in PlainPath, NEW name \in Component, Unlinked(p), NodeAt(Append(p, name)).kind # "link"
  PROVE  Append(p, name) \in PlainPath /\ Unlinked(Append(p, name)) /\ Len(Append(p, name)) = Len(p) + 1
<1>1. PICK q : q = Append(p, name)
  OBVIOUS
<1>2. p \in Seq(Component) /\ q \in Seq(Component) /\ Len(q) = Len(p) + 1 /\ Len(p) \in Nat
  BY <1>1 DEF PlainPath
<1>3. ASSUME NEW n \in 1..Len(q) PROVE NodeAt(SubSeq(q, 1, n)).kind # "link"
  <2>1. CASE n = Len(q)
    BY <1>1, <1>2, <2>1, WholePart
  <2>2. CASE n # Len(q)
    <3>1. n \in 1..Len(p) /\ n \in 0..Len(p)
      BY <1>2, <2>2
    <3>2. SubSeq(q, 1, n) = SubSeq(p, 1, n)
      BY <1>1, <1>2, <3>1, PartOfLonger
    <3> QED
      BY <3>1, <3>2 DEF Unlinked
  <2> QED
    BY <2>1, <2>2
<1> QED
  BY <1>1, <1>2, <1>3 DEF PlainPath, Unlinked

LEMMA FollowKeeps ==
  ASSUME site \in Site, NEW n \in Nat, NEW w, WayInv(w, n)
  PROVE  WayInv(Follow(w), n + 1)
<1>1. PICK done, rest, next, name : done = w.done /\ rest = w.rest /\ next = Append(done, name) /\ name = Head(rest)
  OBVIOUS
<1>2. w \in Way /\ Follow(w) \in Way
  BY FollowStays DEF WayInv
<1>3. CASE Resolved(w)
  <2>1. Follow(w) = w
    BY <1>3 DEF Follow
  <2>2. w.done \in PlainPath => Len(w.done) \in Nat
    BY DEF PlainPath
  <2> QED
    BY <1>2, <2>1, <2>2 DEF WayInv
<1>4. CASE ~Resolved(w)
  <2>1. /\ rest # <<>> /\ Within(done) /\ done \in PlainPath /\ Unlinked(done) /\ Len(done) <= n
        /\ Tail(rest) \in PlainPath /\ name \in Word /\ (name = ".." => done = <<>>)
    <3>1. rest # <<>> /\ Within(done) /\ done # Outside
      BY <1>1, <1>4, Names DEF Resolved
    <3>2. rest \in Seq(Word)
      BY <1>1, <1>2 DEF Way
    <3>3. name \in Word
      BY <1>1, <3>1, <3>2
    <3> QED
      BY <1>1, <3>1, <3>3 DEF WayInv
  <2>2. Tail(rest) # <<>> => Head(Tail(rest)) \in Component /\ Tail(Tail(rest)) \in PlainPath
    BY <2>1 DEF PlainPath
  <2>3. CASE NodeAt(next).kind = "link"
    <3>1. PICK to : to = NodeAt(next).to
      OBVIOUS
    <3>2. to \in PlainPath \cup {Outside}
      BY <2>3, <3>1, LinkIs
    <3>3. Follow(w) = [done |-> <<>>, rest |-> to \o Tail(rest)]
      BY <1>1, <1>4, <2>3, <3>1 DEF Follow
    <3>4. PICK all : all = to \o Tail(rest)
      OBVIOUS
    <3>5. all # <<>> => Tail(all) \in PlainPath
      <4>1. CASE to \in PlainPath
        <5>1. all \in Seq(Component)
          BY <2>1, <3>4, <4>1 DEF PlainPath
        <5> QED
          BY <5>1 DEF PlainPath
      <4>2. CASE to = Outside
        <5>1. PICK t : t = Tail(rest)
          OBVIOUS
        <5>2. t \in Seq(Component) /\ all = <<"..">> \o t
          BY <2>1, <3>4, <4>2, <5>1 DEF Outside, PlainPath
        <5>3. Tail(all) = t
          BY <5>2
        <5> QED
          BY <2>1, <5>1, <5>3
      <4> QED
        BY <3>2, <4>1, <4>2
    <3>6. Follow(w).done = <<>> /\ Follow(w).rest = all /\ Unlinked(<<>>) /\ Len(<<>>) <= n + 1
      BY <3>3, <3>4 DEF Unlinked
    <3> QED
      BY <1>2, <3>5, <3>6, Names DEF WayInv
  <2>4. CASE NodeAt(next).kind # "link"
    <3>1. Follow(w) = [done |-> next, rest |-> Tail(rest)]
      BY <1>1, <1>4, <2>4 DEF Follow
    <3>2. next = Outside \/ (next \in PlainPath /\ Unlinked(next) /\ Len(next) <= n + 1)
      <4>1. CASE name = ".."
        BY <1>1, <2>1, <4>1, Names
      <4>2. CASE name # ".."
        <5>1. name \in Component
          BY <2>1, <4>2 DEF Word
        <5>2. next \in PlainPath /\ Unlinked(next) /\ Len(next) = Len(done) + 1
          BY <1>1, <2>1, <2>4, <5>1, UnlinkedLonger
        <5>3. Len(done) \in Nat
          BY <2>1 DEF PlainPath
        <5> QED
          BY <2>1, <5>2, <5>3
      <4> QED
        BY <4>1, <4>2
    <3>3. Tail(rest) # <<>> => Head(Tail(rest)) # ".."
      BY <2>2, Names
    <3> QED
      BY <1>2, <2>2, <3>1, <3>2, <3>3 DEF WayInv
  <2> QED
    BY <2>3, <2>4
<1> QED
  BY <1>3, <1>4

LEMMA FollowAlong ==
  ASSUME NEW p \in PlainPath, Unlinked(p), NEW n \in 0..Len(p)
  PROVE  Follow(Along(p, n)) = Along(p, IF n = Len(p) THEN n ELSE n + 1)
<1>1. PICK w, done, rest : w = Along(p, n) /\ done = w.done /\ rest = w.rest
  OBVIOUS
<1>2. done = SubSeq(p, 1, n) /\ rest = SubSeq(p, n + 1, Len(p)) /\ p \in Seq(Component) /\ Len(p) \in Nat
  BY <1>1 DEF Along, PlainPath
<1>3. CASE n = Len(p)
  <2>1. rest = <<>>
    BY <1>2, <1>3
  <2> QED
    BY <1>1, <1>3, <2>1 DEF Follow, Resolved
<1>4. CASE n # Len(p)
  <2>1. PICK k, tail : k = n + 1 /\ tail = SubSeq(p, k + 1, Len(p))
    OBVIOUS
  <2>2. k \in 1..Len(p) /\ n = k - 1
    BY <1>2, <1>4, <2>1
  <2>3. rest # <<>> /\ Head(rest) = p[k] /\ Tail(rest) = tail
    <3>1. Len(rest) = Len(p) - n /\ \A i \in 1..(Len(p) - n) : rest[i] = p[n + i]
      BY <1>2
    <3>2. Len(tail) = Len(p) - k /\ \A i \in 1..(Len(p) - k) : tail[i] = p[k + i]
      BY <1>2, <2>1, <2>2
    <3>3. rest \in Seq(Component) /\ tail \in Seq(Component)
      BY <1>2, <2>1, <2>2
    <3>4. Tail(rest) \in Seq(Component) /\ Len(Tail(rest)) = Len(p) - k /\ \A i \in 1..(Len(p) - k) : Tail(rest)[i] = rest[i + 1]
      <4>1. Len(rest) > 0 /\ Len(rest) - 1 = Len(p) - k
        BY <1>2, <2>1, <2>2, <3>1
      <4>2. /\ Tail(rest) \in Seq(Component) /\ Len(Tail(rest)) = Len(rest) - 1
            /\ \A i \in 1..(Len(rest) - 1) : Tail(rest)[i] = rest[i + 1]
        BY <3>3, <4>1, RestOf
      <4> QED
        BY <4>1, <4>2
    <3>5. \A i \in 1..(Len(p) - k) : rest[i + 1] = p[k + i]
      <4> SUFFICES ASSUME NEW i \in 1..(Len(p) - k) PROVE rest[i + 1] = p[k + i]
        OBVIOUS
      <4>1. i + 1 \in 1..(Len(p) - n) /\ n + (i + 1) = k + i
        BY <1>2, <2>1, <2>2
      <4> QED
        BY <3>1, <4>1
    <3>6. Tail(rest) = tail
      BY <3>2, <3>3, <3>4, <3>5
    <3>7. 1 \in 1..(Len(p) - n) /\ n + 1 = k
      BY <1>2, <2>1, <2>2
    <3>8. rest # <<>> /\ Head(rest) = p[k]
      BY <3>1, <3>3, <3>7
    <3> QED
      BY <3>6, <3>8
  <2>4. Append(done, p[k]) = SubSeq(p, 1, k)
    BY <1>2, <2>2, OneLonger
  <2>5. NodeAt(SubSeq(p, 1, k)).kind # "link"
    BY <2>2 DEF Unlinked
  <2>6. Within(done)
    BY <1>2, PartOf, Names DEF PlainPath
  <2>7. Follow(w) = [done |-> SubSeq(p, 1, k), rest |-> tail]
    BY <1>1, <2>3, <2>4, <2>5, <2>6 DEF Follow, Resolved
  <2> QED
    BY <1>1, <1>4, <2>1, <2>7 DEF Along
<1> QED
  BY <1>3, <1>4

\* Where a path leads: round in circles, outside, or to a path without a link;
\* one that has none leads to itself.
LEMMA FollowedIs ==
  ASSUME site \in Site, NEW path \in PlainPath \cup {Outside}
  PROVE  /\ Followed(path) \in {Loop, Outside} \/ Clean(Followed(path))
         /\ Clean(path) => Followed(path) = path
<1>1. PICK base, N : base = [done |-> <<>>, rest |-> path] /\ N = LoopSteps
  OBVIOUS
<1>2. N \in Nat
  BY <1>1, SiteAssumption
<1>3. WayInv(base, 0) /\ base \in Way
  <2>1. path \in Seq(Word) /\ <<>> \in Seq(Word)
    BY Names
  <2>2. path # <<>> => Tail(path) \in PlainPath
    <3>1. CASE path = Outside
      BY <3>1, Names DEF Outside
    <3>2. CASE path \in PlainPath
      BY <3>2 DEF PlainPath
    <3> QED
      BY <3>1, <3>2
  <2>3. base \in Way /\ base.done = <<>> /\ base.rest = path
    BY <1>1, <2>1 DEF Way
  <2>4. <<>> \in PlainPath /\ Unlinked(<<>>) /\ Len(<<>>) <= 0
    BY Names DEF Unlinked
  <2> QED
    BY <2>2, <2>3, <2>4 DEF WayInv
<1>4. PICK g : g = [i \in 1..N |-> [w \in Way |-> Follow(w)]]
  OBVIOUS
<1>5. g \in [1..N -> [Way -> Way]] /\ \A i \in 1..N, w \in Way : g[i][w] = Follow(w)
  BY <1>4, FollowStays
<1>6. PICK f \in [0..N -> Way] : GoesOn(f, base, g, N)
  BY <1>2, <1>3, <1>5, StepByStep
<1>7. f = [n \in 0..LoopSteps |-> IF n = 0 THEN [done |-> <<>>, rest |-> path] ELSE Follow(f[n - 1])]
  <2>1. \A n \in 0..N : n # 0 => n \in 1..N /\ n - 1 \in 0..N
    BY <1>2
  <2>2. \A n \in 0..N : f[n] = IF n = 0 THEN base ELSE Follow(f[n - 1])
    BY <1>5, <1>6, <2>1 DEF GoesOn
  <2> QED
    BY <1>1, <1>6, <2>2
<1> DEFINE way == CHOOSE h : h = [n \in 0..LoopSteps |->
                    IF n = 0 THEN [done |-> <<>>, rest |-> path] ELSE Follow(h[n - 1])]
<1>8. PICK h : h = way
  OBVIOUS
<1>9. h = [n \in 0..LoopSteps |-> IF n = 0 THEN [done |-> <<>>, rest |-> path] ELSE Follow(h[n - 1])]
  BY <1>7, <1>8
<1>10. Followed(path) = IF Resolved(h[LoopSteps]) THEN h[LoopSteps].done ELSE Loop
  BY <1>8 DEF Followed
<1> HIDE DEF way
<1>11. h[0] = base /\ \A i \in 1..N : h[i] = Follow(h[i - 1])
  <2>1. 0 \in 0..N /\ \A i \in 1..N : i \in 0..N /\ i # 0
    BY <1>2
  <2> QED
    BY <1>1, <1>9, <2>1
<1> DEFINE at(i) == Along(path, IF i <= Len(path) THEN i ELSE Len(path))
           good(i) == WayInv(h[i], i) /\ (Clean(path) => h[i] = at(i))
<1>12. good(0)
  <2>1. ASSUME Clean(path) PROVE base = at(0)
    <3>1. path \in Seq(Component) /\ 0 <= Len(path)
      BY <2>1 DEF Clean, PlainPath
    <3>2. SubSeq(path, 1, 0) = <<>> /\ SubSeq(path, 0 + 1, Len(path)) = path
      BY <3>1, WholePart
    <3> QED
      BY <1>1, <3>1, <3>2 DEF Along
  <2> QED
    BY <1>3, <1>11, <2>1
<1>13. ASSUME NEW k \in 1..N, good(k - 1) PROVE good(k)
  <2>1. PICK w, m : w = h[k - 1] /\ m = k - 1
    OBVIOUS
  <2>2. m \in Nat /\ k = m + 1 /\ WayInv(w, m) /\ h[k] = Follow(w)
    BY <1>2, <1>11, <1>13, <2>1
  <2>3. WayInv(h[k], k)
    BY <2>2, FollowKeeps
  <2>4. ASSUME Clean(path) PROVE h[k] = at(k)
    <3>1. path \in PlainPath /\ Unlinked(path) /\ Len(path) \in Nat
      BY <2>4 DEF Clean, PlainPath
    <3>2. PICK j : j = IF m <= Len(path) THEN m ELSE Len(path)
      OBVIOUS
    <3>3. w = Along(path, j) /\ j \in 0..Len(path)
      BY <1>13, <2>1, <2>2, <2>4, <3>1, <3>2
    <3>4. Follow(Along(path, j)) = Along(path, IF j = Len(path) THEN j ELSE j + 1)
      BY <3>1, <3>3, FollowAlong
    <3>5. (IF j = Len(path) THEN j ELSE j + 1) = IF k <= Len(path) THEN k ELSE Len(path)
      BY <2>2, <3>1, <3>2
    <3> QED
      BY <2>2, <3>3, <3>4, <3>5
  <2> QED
    BY <2>3, <2>4
<1>14. good(N)
  <2> HIDE DEF good
  <2>1. PICK G : G = {i \in 0..N : good(i)}
    OBVIOUS
  <2>2. 0 \in G
    <3>1. 0 \in 0..N
      BY <1>2
    <3> QED
      BY <1>12, <2>1, <3>1
  <2>3. ASSUME NEW k \in 1..N, k - 1 \in G PROVE k \in G
    <3>1. k \in 0..N
      BY <1>2
    <3> QED
      BY <1>13, <2>1, <2>3, <3>1
  <2>4. \A k \in 0..N : k \in G
    BY <1>2, <2>2, <2>3, CountedOn
  <2>5. N \in 0..N
    BY <1>2
  <2> QED
    BY <2>1, <2>4, <2>5
<1>15. PICK end : end = h[N]
  OBVIOUS
<1>16. WayInv(end, N) /\ Followed(path) = IF Resolved(end) THEN end.done ELSE Loop
  BY <1>1, <1>10, <1>14, <1>15
<1>17. Followed(path) \in {Loop, Outside} \/ Clean(Followed(path))
  BY <1>1, <1>16 DEF WayInv, Clean
<1>18. ASSUME Clean(path) PROVE Followed(path) = path
  <2>1. path \in Seq(Component) /\ Len(path) \in Nat /\ Len(path) <= N
    BY <1>1, <1>18 DEF Clean, PlainPath
  <2>2. end = Along(path, Len(path))
    <3>1. (IF N <= Len(path) THEN N ELSE Len(path)) = Len(path)
      BY <1>2, <2>1
    <3> QED
      BY <1>14, <1>15, <1>18, <3>1
  <2>3. SubSeq(path, 1, Len(path)) = path /\ SubSeq(path, Len(path) + 1, Len(path)) = <<>>
    BY <2>1, WholePart
  <2>4. end.done = path /\ end.rest = <<>>
    BY <2>2, <2>3 DEF Along
  <2> QED
    BY <1>16, <2>4 DEF Resolved
<1> QED
  BY <1>17, <1>18

LEMMA RealIs ==
  ASSUME site \in Site, NEW request \in Seq(Word)
  PROVE  /\ Real(request) \in {Loop, Outside} \/ Clean(Real(request))
         /\ Clean(request) => Real(request) = request /\ Normalized(request) = request
<1>1. Normalized(request) \in PlainPath \cup {Outside}
  BY NormalizedIs
<1>2. Clean(request) => Normalized(request) = request
  BY NormalizedIs DEF Clean
<1> QED
  BY <1>1, <1>2, FollowedIs DEF Real

LEMMA AllowedIs ==
  ASSUME NEW request
  PROVE  AllowedByPath(request) <=>
           /\ Within(Normalized(request)) /\ Real(request) # Loop /\ Within(Real(request))
           /\ ~IsSensitive(Real(request)) /\ ~IsDenied(Normalized(request)) /\ ~IsDenied(Real(request))
BY DEF AllowedByPath, Refusal

\* What a request that is allowed leads to is allowed, and leads nowhere else.
LEMMA AllowedLeads ==
  ASSUME site \in Site, NEW request \in Seq(Word), AllowedByPath(request)
  PROVE  /\ Clean(Real(request)) /\ Real(Real(request)) = Real(request) /\ AllowedByPath(Real(request))
         /\ Within(Real(request))
<1>1. PICK real : real = Real(request)
  OBVIOUS
<1>2. real # Loop /\ Within(real) /\ ~IsSensitive(real) /\ ~IsDenied(real)
  BY <1>1, AllowedIs
<1>3. Clean(real)
  BY <1>1, <1>2, RealIs, Names
<1>4. real \in Seq(Word)
  BY <1>3, Names DEF Clean
<1>5. Real(real) = real /\ Normalized(real) = real
  BY <1>3, <1>4, RealIs
<1>6. AllowedByPath(real)
  BY <1>2, <1>5, AllowedIs
<1> QED
  BY <1>1, <1>2, <1>3, <1>5, <1>6

LEMMA RequestsAre ==
  ASSUME site \in Site
  PROVE  Requests \subseteq Seq(Word)
<1>1. \A p \in DOMAIN site.node : p \in Seq(Word)
  BY TreeIs, Names
<1>2. <<>> \in Seq(Word) /\ Outside \in Seq(Word)
  BY Names
<1>3. \A p \in Links : p \in DOMAIN site.node
  BY DEF Links
<1>4. ASSUME NEW p \in Links, NEW up \in Upwards, NEW q \in DOMAIN site.node
      PROVE  p \o up \o q \in Seq(Word)
  <2>1. p \in Seq(Word) /\ up \in Seq(Word) /\ q \in Seq(Word)
    BY <1>1, <1>2, <1>3 DEF Upwards
  <2> QED
    BY <2>1
<1>5. ASSUME NEW r \in Requests PROVE r \in Seq(Word)
  <2>1. \/ r = <<>> \/ r = Outside \/ r \in DOMAIN site.node
        \/ \E p \in Links, up \in Upwards, q \in DOMAIN site.node : r = p \o up \o q
    BY DEF Requests
  <2>2. CASE \E p \in Links, up \in Upwards, q \in DOMAIN site.node : r = p \o up \o q
    <3>1. PICK p \in Links, up \in Upwards, q \in DOMAIN site.node : r = p \o up \o q
      BY <2>2
    <3>2. p \o up \o q \in Seq(Word)
      BY <1>4
    <3> QED
      BY <3>1, <3>2
  <2> QED
    BY <1>1, <1>2, <2>1, <2>2
<1> QED
  BY <1>5

LEMMA ResolvedStays ==
  ASSUME site \in Site
  PROVE  ResolvedStaysAuthorized
<1> SUFFICES ASSUME NEW r \in Requests, Authorized(r)
             PROVE  Within(Real(r)) /\ Authorized(Real(r)) /\ Real(Real(r)) = Real(r)
  BY DEF ResolvedStaysAuthorized
<1>1. r \in Seq(Word) /\ AllowedByPath(r) /\ ~Ignores(Real(r))
  BY RequestsAre DEF Authorized
<1>2. Real(Real(r)) = Real(r) /\ AllowedByPath(Real(r)) /\ Within(Real(r))
  BY <1>1, AllowedLeads
<1> QED
  BY <1>1, <1>2 DEF Authorized

\* A directory above a clean path is clean, and refused or ignored only if the path is.
LEMMA AboveIs ==
  ASSUME site \in Site, NEW p, Clean(p), Authorized(p), NEW k \in 0..Len(p), NEW d, d = SubSeq(p, 1, k)
  PROVE  /\ Clean(d) /\ d \in PlainPath /\ Real(d) = d /\ AllowedByPath(d) /\ Authorized(d) /\ ~IgnoreMatches(d)
<1>1. p \in Seq(Component) /\ Len(p) \in Nat /\ p \in PlainPath
  BY DEF Clean, PlainPath
<1>2. d \in Seq(Component) /\ d \in PlainPath /\ Len(d) = k /\ \A i \in 1..k : d[i] = p[i]
  BY <1>1, PartOf DEF PlainPath
<1>3. ASSUME NEW n \in 0..k PROVE SubSeq(d, 1, n) = SubSeq(p, 1, n)
  BY <1>1, PartOfPart
<1>4. Clean(d)
  <2>1. Unlinked(d)
    <3>1. \A n \in 1..k : n \in 1..Len(p) /\ n \in 0..k
      BY <1>1
    <3> QED
      BY <1>2, <1>3, <3>1 DEF Clean, Unlinked
  <2>2. k <= Len(p) /\ Len(p) <= LoopSteps /\ LoopSteps \in Nat
    BY SiteAssumption DEF Clean
  <2> QED
    BY <1>1, <1>2, <2>1, <2>2 DEF Clean
<1>5. p \in Seq(Word) /\ d \in Seq(Word)
  BY <1>1, <1>2, Names
<1>6. Real(p) = p /\ Normalized(p) = p /\ Real(d) = d /\ Normalized(d) = d
  BY <1>4, <1>5, RealIs
<1>7. ~IsSensitive(p) /\ ~IsDenied(p) /\ ~Ignores(p)
  BY <1>6, AllowedIs DEF Authorized
<1>8. ~IsSensitive(d)
  <2>1. ToSet(d) \subseteq ToSet(p)
    BY <1>1, <1>2 DEF ToSet
  <2> QED
    BY <1>7, <2>1 DEF IsSensitive
<1>9. ~IsDenied(d)
  <2> SUFFICES ASSUME NEW x \in site.rules.denied, IsPrefix(x, d) PROVE IsPrefix(x, p)
    BY <1>7 DEF IsDenied
  <2>1. site.rules \in Rules
    BY DEF Site
  <2>2. x \in Seq(Component) /\ Len(x) \in Nat
    BY <2>1, SiteAssumption
  <2>3. PICK m : m = Len(x)
    OBVIOUS
  <2>4. m \in 0..k /\ SubSeq(x, 1, m) = SubSeq(d, 1, m)
    BY <1>2, <2>2, <2>3 DEF IsPrefix
  <2>5. SubSeq(d, 1, m) = SubSeq(p, 1, m) /\ m <= Len(p)
    BY <1>1, <1>3, <2>4
  <2> QED
    BY <2>3, <2>4, <2>5 DEF IsPrefix
<1>10. ~Ignores(d)
  <2> SUFFICES ASSUME NEW n \in DOMAIN d PROVE ~IgnoreMatches(SubSeq(d, 1, n))
    BY DEF Ignores
  <2>1. n \in 0..k /\ n \in DOMAIN p
    BY <1>1, <1>2
  <2> QED
    BY <1>3, <1>7, <2>1 DEF Ignores
<1>11. ~IgnoreMatches(d)
  <2>1. CASE k = 0
    BY <1>2, <2>1 DEF IgnoreMatches
  <2>2. CASE k # 0
    <3>1. k \in DOMAIN d /\ SubSeq(d, 1, k) = d
      BY <1>2, <2>2, WholePart
    <3> QED
      BY <1>10, <3>1 DEF Ignores
  <2> QED
    BY <2>1, <2>2
<1>12. AllowedByPath(d)
  BY <1>2, <1>6, <1>8, <1>9, AllowedIs, Names
<1> QED
  BY <1>2, <1>4, <1>6, <1>10, <1>11, <1>12 DEF Authorized

LEMMA EnteredIs ==
  ASSUME site \in Site, NEW dir \in Seq(Word)
  PROVE  Entered(dir) \subseteq {entry \in Seq(Word) : AllowedByPath(entry)}
<1> SUFFICES ASSUME NEW entry \in Entered(dir) PROVE entry \in Seq(Word) /\ AllowedByPath(entry)
  OBVIOUS
<1>1. AllowedByPath(entry) /\ \E name \in ListDirectory(dir, FALSE) : entry = Append(dir, name)
  BY DEF Entered
<1>2. PICK name \in ListDirectory(dir, FALSE) : entry = Append(dir, name)
  BY <1>1
<1>3. PICK q \in DOMAIN site.node : name = Last(q)
  BY DEF ListDirectory, Children
<1>4. q \in Seq(Component) /\ q # <<>>
  BY TreeIs DEF PlainPath
<1>5. name \in Word
  BY <1>3, <1>4 DEF Last, Word
<1> QED
  BY <1>1, <1>2, <1>5

LEMMA Levels ==
  ASSUME site \in Site
  PROVE  \E level : LevelsAre(level)
<1>1. PICK N, V, base : N = MaxDepth /\ V = SUBSET Seq(Word) /\ base = {<<>>}
  OBVIOUS
<1>2. N \in Nat /\ base \in V
  BY <1>1, SiteAssumption
<1> DEFINE next(dirs) == UNION {Entered(dir) : dir \in dirs}
<1>3. ASSUME NEW dirs \in V PROVE next(dirs) \in V
  BY <1>1, EnteredIs
<1>4. PICK g : g = [i \in 1..N |-> [dirs \in V |-> next(dirs)]]
  OBVIOUS
<1> HIDE DEF next
<1>5. g \in [1..N -> [V -> V]] /\ \A i \in 1..N, dirs \in V : g[i][dirs] = next(dirs)
  BY <1>3, <1>4
<1>6. PICK f \in [0..N -> V] : GoesOn(f, base, g, N)
  BY <1>2, <1>5, StepByStep
<1>7. f = [depth \in 0..MaxDepth |-> IF depth = 0 THEN {<<>>} ELSE next(f[depth - 1])]
  <2>1. \A n \in 0..N : n # 0 => n \in 1..N /\ n - 1 \in 0..N
    BY <1>2
  <2>2. \A n \in 0..N : f[n] = IF n = 0 THEN base ELSE next(f[n - 1])
    BY <1>5, <1>6, <2>1 DEF GoesOn
  <2> QED
    BY <1>1, <1>6, <2>2
<1> USE DEF next
<1> DEFINE made == CHOOSE h : h = [depth \in 0..MaxDepth |-> IF depth = 0 THEN {<<>>} ELSE next(h[depth - 1])]
<1>8. PICK h : h = made
  OBVIOUS
<1>9. h = [depth \in 0..MaxDepth |-> IF depth = 0 THEN {<<>>} ELSE next(h[depth - 1])]
  BY <1>7, <1>8
<1>10. Folders = {FolderAt(entry) : entry \in UNION {h[depth] : depth \in 1..MaxDepth}}
  BY <1>8 DEF Folders
<1> HIDE DEF made, next
<1>11. h[0] = {<<>>} /\ \A k \in 1..N : h[k] = next(h[k - 1])
  <2>1. 0 \in 0..N /\ \A k \in 1..N : k \in 0..N /\ k # 0
    BY <1>2
  <2> QED
    BY <1>1, <1>9, <2>1
<1>12. \A k \in 0..N : h[k] \in V
  <2>1. PICK G : G = {k \in 0..N : h[k] \in V}
    OBVIOUS
  <2>2. 0 \in G
    <3>1. 0 \in 0..N /\ h[0] = base
      BY <1>1, <1>2, <1>11
    <3> QED
      BY <1>2, <2>1, <3>1
  <2>3. ASSUME NEW k \in 1..N, k - 1 \in G PROVE k \in G
    BY <1>2, <1>3, <1>11, <2>1, <2>3
  <2>4. \A k \in 0..N : k \in G
    BY <1>2, <2>2, <2>3, CountedOn
  <2> QED
    BY <2>1, <2>4
<1>13. h \in [0..MaxDepth -> SUBSET Seq(Word)]
  BY <1>1, <1>9, <1>12
<1>14. \A k \in 1..MaxDepth : h[k] = UNION {Entered(dir) : dir \in h[k - 1]}
  BY <1>1, <1>11 DEF next
<1>15. \A entry : entry \in Folders <=> \E k \in 1..MaxDepth : \E e \in h[k] : entry = FolderAt(e)
  BY <1>10
<1> QED
  BY <1>11, <1>13, <1>14, <1>15 DEF LevelsAre

LEMMA FoldersAre ==
  ASSUME site \in Site, NEW dir \in {<<>>} \cup Folders
  PROVE  Clean(dir) /\ Real(dir) = dir
<1>1. CASE dir = <<>>
  <2>1. Clean(<<>>)
    BY Names, SiteAssumption DEF Clean, Unlinked
  <2> QED
    BY <1>1, <2>1, Names, RealIs
<1>2. CASE dir \in Folders
  <2>1. PICK level : LevelsAre(level)
    BY Levels
  <2>2. PICK k \in 1..MaxDepth : \E e \in level[k] : dir = FolderAt(e)
    BY <1>2, <2>1 DEF LevelsAre
  <2>3. PICK entry \in level[k] : dir = FolderAt(entry)
    BY <2>2
  <2>4. k - 1 \in 0..MaxDepth /\ level[k - 1] \subseteq Seq(Word)
    BY <2>1, SiteAssumption DEF LevelsAre
  <2>5. PICK above \in level[k - 1] : entry \in Entered(above)
    BY <2>1, <2>3 DEF LevelsAre
  <2>6. entry \in Seq(Word) /\ AllowedByPath(entry)
    BY <2>4, <2>5, EnteredIs
  <2> QED
    BY <2>3, <2>6, AllowedLeads DEF FolderAt
<1> QED
  BY <1>1, <1>2

LEMMA FrontOfLonger ==
  ASSUME NEW S, NEW s \in Seq(S), NEW x
  PROVE  Front(Append(s, x)) = s
<1>1. PICK T : T = S \cup {x}
  OBVIOUS
<1>2. s \in Seq(T) /\ x \in T
  <2>1. Len(s) \in Nat /\ s \in [1..Len(s) -> S]
    OBVIOUS
  <2>2. s \in [1..Len(s) -> T]
    BY <1>1, <2>1
  <2> QED
    BY <1>1, <2>1, <2>2
<1>3. PICK n, p : n = Len(s) /\ p = Append(s, x)
  OBVIOUS
<1>4. n \in 0..Len(s) /\ Len(p) - 1 = n
  BY <1>2, <1>3
<1>5. SubSeq(p, 1, n) = SubSeq(s, 1, n)
  BY <1>2, <1>3, <1>4, PartOfLonger
<1>6. SubSeq(s, 1, n) = s
  BY <1>3, WholePart
<1> QED
  BY <1>3, <1>4, <1>5, <1>6 DEF Front

LEMMA ScannedIsRead ==
  ASSUME site \in Site, NEW p \in Scanned
  PROVE  Authorized(p) /\ IsFile(p) /\ Real(Front(p)) = Front(p)
<1>1. PICK dir \in {<<>>} \cup Folders :
        \E name \in ListDirectory(dir, TRUE) : p = Append(dir, name) /\ Authorized(p) /\ IsFile(p)
  BY DEF Scanned
<1>2. PICK name : p = Append(dir, name) /\ Authorized(p) /\ IsFile(p)
  BY <1>1
<1>3. Real(dir) = dir /\ dir \in Seq(Component)
  BY FoldersAre DEF Clean, PlainPath
<1>4. Front(p) = dir
  BY <1>2, <1>3, FrontOfLonger
<1> QED
  BY <1>2, <1>3, <1>4

\* A plain path the adapter reads is reached directory by directory.
LEMMA PlainIsScanned ==
  ASSUME site \in Site, NEW p \in DOMAIN site.node, Plain(p), Authorized(p)
  PROVE  p \in Scanned
<1>1. /\ p \in Seq(Component) /\ p # <<>> /\ p \in PlainPath /\ Real(p) = p /\ IsFile(p)
      /\ Len(p) \in Nat \ {0} /\ Len(p) <= MaxDepth + 1
      /\ \A n \in 1..(Len(p) - 1) : p[n] \notin Hidden \cup site.rules.suffixed
  BY TreeIs DEF PlainPath, Plain
<1>2. Clean(p)
  <2>1. p \in Seq(Word) /\ AllowedByPath(p)
    BY <1>1, Names DEF Authorized
  <2> QED
    BY <1>1, <2>1, AllowedLeads
<1>3. PICK N : N = Len(p) - 1
  OBVIOUS
<1>4. N \in Nat /\ N <= MaxDepth /\ N \in 0..Len(p) /\ MaxDepth \in Nat /\ Len(p) = N + 1
  BY <1>1, <1>3, SiteAssumption
<1>5. PICK level : LevelsAre(level)
  BY Levels
<1> DEFINE part(k) == SubSeq(p, 1, k)
<1>6. ASSUME NEW k \in 1..N, part(k - 1) \in level[k - 1] PROVE part(k) \in level[k]
  <2>1. PICK m, dir, entry, name : m = k - 1 /\ dir = part(m) /\ entry = part(k) /\ name = p[k]
    OBVIOUS
  <2>2. m \in 0..Len(p) /\ k \in 0..Len(p) /\ k \in 1..Len(p) /\ k \in 1..(Len(p) - 1) /\ k \in 1..MaxDepth
    BY <1>4, <2>1
  <2>3. Real(dir) = dir
    BY <1>2, <2>1, <2>2, AboveIs
  <2>4. Real(entry) = entry /\ AllowedByPath(entry) /\ ~IgnoreMatches(entry) /\ entry \in PlainPath
    BY <1>2, <2>1, <2>2, AboveIs
  <2>5. entry = Append(dir, name) /\ Front(entry) = dir /\ Last(entry) = name
    BY <1>1, <2>1, <2>2, OneLonger
  <2>6. entry \in DOMAIN site.node /\ site.node[entry] = DirNode /\ entry # <<>>
    <3>1. SubSeq(p, 1, k) \in DOMAIN site.node /\ site.node[SubSeq(p, 1, k)] = DirNode
      BY <2>2, TreeIs
    <3>2. entry # <<>>
      BY <2>1, <3>1, TreeIs
    <3> QED
      BY <2>1, <3>1, <3>2
  <2>7. name \in ListDirectory(dir, FALSE)
    <3>1. entry \in Children(Real(dir))
      BY <2>3, <2>5, <2>6 DEF Children
    <3> QED
      BY <2>4, <2>5, <3>1 DEF ListDirectory
  <2>8. name \notin Hidden /\ ~ShouldIgnore(name)
    <3>1. name \notin Hidden /\ name \notin site.rules.suffixed
      BY <1>1, <2>1, <2>2
    <3>2. name \notin site.rules.names
      BY <2>4, <2>5, <2>6 DEF IgnoreMatches
    <3> QED
      BY <3>1, <3>2 DEF ShouldIgnore
  <2>9. IsDirectory(entry)
    BY <2>4, <2>6 DEF IsDirectory, NodeAt
  <2>10. entry \in Entered(dir)
    BY <2>4, <2>5, <2>7, <2>8, <2>9 DEF Entered
  <2>11. dir \in level[k - 1]
    BY <1>6, <2>1
  <2> QED
    BY <1>5, <2>1, <2>2, <2>10, <2>11 DEF LevelsAre
<1>7. part(0) \in level[0]
  <2>1. SubSeq(p, 1, 0) = <<>>
    BY <1>1
  <2> QED
    BY <1>5, <2>1 DEF LevelsAre
<1>8. \A k \in 0..N : part(k) \in level[k]
  <2>1. PICK G : G = {k \in 0..N : part(k) \in level[k]}
    OBVIOUS
  <2>2. 0 \in G
    <3>1. 0 \in 0..N
      BY <1>4
    <3> QED
      BY <1>7, <2>1, <3>1
  <2>3. ASSUME NEW k \in 1..N, k - 1 \in G PROVE k \in G
    <3>1. k \in 0..N /\ part(k - 1) \in level[k - 1]
      BY <1>4, <2>1, <2>3
    <3>2. part(k) \in level[k]
      BY <1>6, <3>1
    <3> QED
      BY <2>1, <3>1, <3>2
  <2>4. \A k \in 0..N : k \in G
    BY <1>4, <2>2, <2>3, CountedOn
  <2> QED
    BY <2>1, <2>4
<1>9. PICK dir, name : dir = part(N) /\ name = p[N + 1]
  OBVIOUS
<1>10. Real(dir) = dir /\ Authorized(dir) /\ ~IgnoreMatches(dir)
  BY <1>2, <1>4, <1>9, AboveIs
<1>11. p = Append(dir, name) /\ Front(p) = dir /\ Last(p) = name
  <2>1. N + 1 \in 1..Len(p) /\ N = (N + 1) - 1 /\ Len(p) = N + 1
    BY <1>4
  <2>2. SubSeq(p, 1, Len(p)) = p
    BY <1>1, WholePart
  <2>3. PICK n : n = N + 1
    OBVIOUS
  <2>4. n \in 1..Len(p) /\ N = n - 1 /\ n = Len(p)
    BY <2>1, <2>3
  <2>5. /\ SubSeq(p, 1, n) = Append(SubSeq(p, 1, N), p[n])
        /\ Front(SubSeq(p, 1, n)) = SubSeq(p, 1, N) /\ Last(SubSeq(p, 1, n)) = p[n]
    BY <1>1, <2>4, OneLonger
  <2> QED
    BY <1>9, <2>2, <2>3, <2>4, <2>5
<1>12. dir \in {<<>>} \cup Folders
  <2>1. dir \in level[N]
    BY <1>4, <1>8, <1>9
  <2>2. CASE N = 0
    BY <1>5, <2>1, <2>2 DEF LevelsAre
  <2>3. CASE N # 0
    <3>1. N \in 1..MaxDepth /\ dir = FolderAt(dir)
      BY <1>4, <1>10, <2>3 DEF FolderAt
    <3>2. dir \in Folders
      BY <1>5, <2>1, <3>1 DEF LevelsAre
    <3> QED
      BY <3>2
  <2> QED
    BY <2>2, <2>3
<1>13. name \in ListDirectory(dir, TRUE)
  <2>1. p \in Children(Real(dir))
    BY <1>10, <1>11 DEF Children
  <2> QED
    BY <1>11, <2>1 DEF ListDirectory
<1>14. ~IgnoreMatches(p)
  <2>1. Len(p) \in 0..Len(p) /\ p = SubSeq(p, 1, Len(p))
    BY <1>1, WholePart
  <2> QED
    BY <1>2, <2>1, AboveIs
<1>15. PICK dirs : dirs = {d \in {<<>>} \cup Folders : ~IgnoreMatches(d) /\ Authorized(d)}
  OBVIOUS
<1>16. dir \in dirs
  BY <1>10, <1>12, <1>15
<1>17. Append(dir, name) \in {Append(dir, other) : other \in {n \in ListDirectory(dir, TRUE) :
                                 ~IgnoreMatches(Append(dir, n)) /\ Authorized(Append(dir, n)) /\ IsFile(Append(dir, n))}}
  BY <1>1, <1>11, <1>13, <1>14
<1> QED
  BY <1>11, <1>15, <1>16, <1>17 DEF Scanned

\* PathsAgree holds of every tree and policy: of any size, with any links, and for
\* every depth of a scan and every bound on the links that are followed.
THEOREM PathsStayAgreed ==
  ASSUME site \in Site
  PROVE  PathsAgree
<1>1. ResolvedStaysAuthorized
  BY ResolvedStays
<1>2. ScanAgrees
  BY ScannedIsRead, PlainIsScanned DEF ScanAgrees
<1> QED
  BY <1>1, <1>2 DEF PathsAgree
=============================================================================
