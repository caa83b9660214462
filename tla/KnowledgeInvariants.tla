-------------------------- MODULE KnowledgeInvariants --------------------------
(***************************************************************************)
(* What makes the properties of KnowledgeIndex inductive: how far the task *)
(* of the worker has come, path by path, and what the results of earlier   *)
(* searches still have to do with the documents.                           *)
(***************************************************************************)
EXTENDS KnowledgeProperties, ReadPages, DocumentChunks, WorkspacePaths

Stored == documents \cup task.batch
File == [entry : Nat, path : Nat]
Hit == [id : Nat, path : Path, version : Contents]
Hits == UNION Range(contexts)

\* The types of the state; ids of entries are finitely many, so that the next
\* one exists.
IndexShape ==
  /\ disk \in [Path -> Contents]
  /\ entries \in [DOMAIN entries -> Path] /\ \E last \in Nat : DOMAIN entries \subseteq 1..last
  /\ documents \subseteq StoredDocument /\ serial \in Nat
  /\ task \in [pc : {"idle", "walk", "read", "version"}, todo : SUBSET File, paths : SUBSET Path,
               at : File, text : Contents, batch : SUBSET StoredDocument]
  /\ contexts \in Seq(SUBSET Hit)
  /\ answer \in [cited : SUBSET Nat, given : BOOLEAN, sources : SUBSET Hit]
  /\ touched \subseteq Path /\ covered \subseteq Path
  /\ indexBudget \in IndexBudget

\* No path is listed twice, no version of a file is stored twice, no id is
\* given twice.
NothingTwice ==
  /\ \A e, f \in DOMAIN entries : entries[e] = entries[f] => e = f
  /\ \A d \in Stored : d.id <= serial
  /\ \A d, o \in Stored : d.id = o.id \/ (d.entry = o.entry /\ d.version = o.version) => d = o

Waiting(p) == \E f \in task.todo : f.path = p
IndexedAs(p, docs) ==
  \E d \in docs : /\ d.version = disk[p]
                  /\ d.entry \in DOMAIN entries /\ entries[d.entry] = p

\* A path nobody has touched is where the walk or the indexing left it.
WalkInv ==
  Doing("walk") =>
    /\ task.batch = {} /\ \A f \in task.todo : f.entry = 0 /\ f.path \in Path
    /\ \A p \in Path \ touched : p \in task.paths <=> disk[p] # Nothing /\ ~Waiting(p)

IndexingInv ==
  task.pc \in {"read", "version"} =>
    /\ \A f \in task.todo : f.path \in Path
    /\ \A f \in task.todo : f.path \notin touched =>
         f.entry \in DOMAIN entries /\ entries[f.entry] = f.path
    /\ \A p \in task.paths \ touched : Waiting(p) \/ IndexedAs(p, Stored)
    /\ Doing("version") => task.at \in task.todo

\* A file that is blamed for a commit was read.
TaskInv ==
  /\ WalkInv /\ IndexingInv
  /\ Doing("idle") => task.batch = {}
  /\ task.at = NoFile \/ task.at.path \in Path

\* A document that a search has returned keeps the path and the version it
\* was returned with for as long as it is there.
HitsHold ==
  \A r \in Hits :
    /\ r.id <= serial
    /\ \A d \in Stored : d.id = r.id /\ r.version # Nothing => Retrieved(d) = r

\* The conjunction the proofs carry from step to step.
KnowledgeInv == IndexShape /\ NothingTwice /\ TaskInv /\ HitsHold /\ IndexedIsCurrent
-----------------------------------------------------------------------------
(* ReadPages *)

WalkRow ==
  [kind : {"none", "directory", "search"}, stage : {"asking", "reading", "done"}, cursor : Nat,
   chosen : Seq(Entry), ignored : SUBSET Entry, more : BOOLEAN, returned : Seq(Entry),
   staying : SUBSET Entry, lost : BOOLEAN]
ReadTypeOK ==
  /\ there \in SUBSET Entry /\ IsFiniteSet(there) /\ refused \in SUBSET Entry
  /\ walk \in WalkRow
  /\ walk.staying \subseteq there

\* What the caller of list_directory knows up to its cursor, and from the page it reads.
SeenUpTo(fold) == \A e \in walk.staying : e.fold <= fold => \E f \in Seen : f.fold = e.fold
ChosenInv ==
  /\ Climbs(walk.chosen) /\ \A f \in ToSet(walk.chosen) : f.fold > walk.cursor
  /\ walk.more => walk.chosen # <<>>
  /\ \A e \in walk.staying :
       e.fold > walk.cursor =>
         e \in ToSet(walk.chosen) \/ (walk.more /\ \A f \in ToSet(walk.chosen) : Before(f, e))
DirectoryInv ==
  walk.kind = "directory" =>
    /\ Climbs(walk.returned)
    /\ IF walk.stage = "done" THEN \A e \in walk.staying : \E f \in Seen : f.fold = e.fold
       ELSE SeenUpTo(walk.cursor) /\ \A f \in Seen : f.fold <= walk.cursor
    /\ walk.stage = "reading" => ChosenInv

\* The entries of S before e.
Earlier(S, e) == {f \in S : Before(f, e)}

\* The caller of search_files, as long as nothing has vanished, has seen what stays of
\* the pages up to its own.
Visible == there \ refused
SearchInv ==
  walk.kind = "search" =>
    /\ walk.stage # "reading" /\ walk.staying \cap refused = {}
    /\ ~walk.lost =>
         \A e \in walk.staying :
           walk.stage = "done" \/ Cardinality(Earlier(Visible, e)) < walk.cursor * PageSize => e \in Seen
ReadInv == ReadTypeOK /\ DirectoryInv /\ SearchInv
-----------------------------------------------------------------------------
(* DocumentChunks *)

\* f goes on from base, line by line as g says.
GoesOn(f, base, g, n) == \A i \in 0..n : f[i] = IF i = 0 THEN base ELSE g[i][f[i - 1]]

\* e has the ends of N lines.
LineEnds(e, N) == N \in Nat /\ e \in [0..N -> Nat] /\ e[0] = 0 /\ \A i \in 1..N : e[i - 1] < e[i]

Row == [start : Nat, end : Nat, first : Nat, last : Nat]
Filling == [done : Seq(Row), open : Row]

\* Where the next chunk begins.
Reached(done) == IF done = <<>> THEN 0 ELSE done[Len(done)].end

\* c begins at from, is neither empty nor too long, and has the lines of the first
\* n whose ends are e that it overlaps.
Tile(e, n, max, c, from) ==
  /\ c.start = from /\ c.start < c.end /\ c.end <= c.start + max
  /\ c.first \in 1..n /\ c.last \in 1..n /\ c.first <= c.last
  /\ e[c.first - 1] <= c.start /\ c.start < e[c.first]
  /\ e[c.last - 1] < c.end /\ c.end <= e[c.last]
From(done, i, begin) == IF i = 1 THEN begin ELSE done[i - 1].end
Tiles(e, n, max, done, begin) == \A i \in 1..Len(done) : Tile(e, n, max, done[i], From(done, i, begin))

FillInv(e, n, max, c) ==
  /\ c \in Filling /\ Tiles(e, n, max, c.done, 0)
  /\ IF c.open.last = 0 THEN Reached(c.done) = e[n]
     ELSE Tile(e, n, max, c.open, Reached(c.done)) /\ c.open.end = e[n] /\ c.open.last = n

Joined(all, done, more) == all = done \o more

\* at has the lines between the ends e; f has what is filled after each of them.
AreLines(at, e, N) == \A i \in 1..N : at[i] = [start |-> e[i - 1], end |-> e[i]]
FillsUp(f, e, N, max, at) ==
  /\ f[0] = Begun
  /\ \A i \in 1..N : FillInv(e, i - 1, max, f[i - 1]) => f[i] = AddLine(f[i - 1], at[i], i, max)
-----------------------------------------------------------------------------
(* WorkspacePaths *)

Word == Component \cup {".."}
PlainPath == Seq(Component)

\* No link on the way: a path that leads to itself, in as many steps as it has names.
Unlinked(p) == \A n \in 1..Len(p) : NodeAt(SubSeq(p, 1, n)).kind # "link"
Clean(p) == p \in PlainPath /\ Unlinked(p) /\ Len(p) <= LoopSteps

\* A resolution after n steps: what is resolved has no link on it or is outside, and
\* only a link that leads outside is left to be followed with "..".
Way == [done : Seq(Word), rest : Seq(Word)]
WayInv(w, n) ==
  /\ w \in Way
  /\ w.done = Outside \/ (w.done \in PlainPath /\ Unlinked(w.done) /\ Len(w.done) <= n)
  /\ w.rest # <<>> =>
       /\ Tail(w.rest) \in PlainPath
       /\ Head(w.rest) = ".." => w.done \in {<<>>, Outside}

\* Where the way along p is after n names, if there is no link on it.
Along(p, n) == [done |-> SubSeq(p, 1, n), rest |-> SubSeq(p, n + 1, Len(p))]

\* The directories the folder scanner goes into, depth by depth.
LevelsAre(level) ==
  /\ level \in [0..MaxDepth -> SUBSET Seq(Word)] /\ level[0] = {<<>>}
  /\ \A k \in 1..MaxDepth : level[k] = UNION {Entered(dir) : dir \in level[k - 1]}
  /\ \A entry : entry \in Folders <=> \E k \in 1..MaxDepth : \E e \in level[k] : entry = FolderAt(e)
=============================================================================
