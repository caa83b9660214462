------------------------------- MODULE ReadPages -------------------------------
(***************************************************************************)
(* The agent's list_directory and search_files tools (read_tools.py) as a  *)
(* caller uses them who follows the pages to the last one, while entries   *)
(* appear and vanish and the workspace's policy changes.                   *)
(*                                                                         *)
(* A name is its case-folded form, numbered in order, with its letter      *)
(* case: two names of a directory may differ in case only.                 *)
(***************************************************************************)
EXTENDS Naturals, FiniteSets, SequencesExt

CONSTANTS
  Entry,       \* [fold, form]: a child of the directory, or a row of the index
  PageSize,    \* page_size, limit
  ReadBudgets  \* bounds: kind, there, dangling, changes

ReadBudget == [kind : {"none", "directory", "search"}, there : SUBSET Entry, dangling : SUBSET Entry, changes : Nat]

ASSUME PageAssumption == PageSize \in Nat \ {0}
ASSUME EntryAssumption == Entry \subseteq [fold : Nat \ {0}, form : Nat]
ASSUME ReadBudgetAssumption == ReadBudgets \subseteq ReadBudget /\ \A b \in ReadBudgets : IsFiniteSet(b.there)

VARIABLES
  there,    \* what the directory, or the index, has
  refused,  \* what the policy refuses
  walk,     \* the caller's walk over the pages
  readBudget
readVars == <<there, refused, walk, readBudget>>

\* Links that lead nowhere can be listed and not read.
Dangling == readBudget.dangling

NewWalk(kind) ==
  [kind |-> kind,         \* "directory" or "search"; "none": there is no caller
   stage |-> "asking",    \* "asking", "reading" or "done"
   cursor |-> 0,          \* the cursor's folded name, or the last page's number
   chosen |-> <<>>,       \* the entries of the page that is being read
   ignored |-> {},        \* those of them the policy refused
   more |-> FALSE,        \* has_more
   returned |-> <<>>,     \* what the caller has seen
   staying |-> there \ IF kind = "search" THEN refused ELSE {},  \* history: there all the time
   lost |-> FALSE]        \* history: something has vanished

ReadInit ==
  /\ readBudget \in ReadBudgets
  /\ there = readBudget.there
  /\ refused = {}
  /\ walk = NewWalk(readBudget.kind)
-----------------------------------------------------------------------------
\* The order of the pages: of a directory by name without regard to case first, of
\* a search by path; any order of all entries will do.
Before(e, f) == e.fold < f.fold \/ (e.fold = f.fold /\ e.form < f.form)
Climbs(list) == \A i, j \in DOMAIN list : i < j => Before(list[i], list[j])
Sorted(entries) == CHOOSE list \in [1..Cardinality(entries) -> entries] : Climbs(list)

\* Mutant: the page begins with the entry the cursor names.
AfterOrAt(cursor) == {e \in there : e.fold >= cursor}

\* The cursor is the last name of the former page, and compared without regard
\* to case.
After(cursor) == {e \in there : e.fold > cursor}

\* list_directory reads the directory and chooses the page.
ListEntries ==
  /\ walk.kind = "directory" /\ walk.stage = "asking"
  /\ LET rest == After(walk.cursor)
         page == SubSeq(Sorted(rest), 1, IF PageSize < Cardinality(rest) THEN PageSize ELSE Cardinality(rest)) IN
     walk' = [walk EXCEPT !.stage = "reading", !.chosen = page,
                          !.ignored = refused \cap ToSet(page), !.more = Cardinality(rest) > Len(page)]
  /\ UNCHANGED <<there, refused, readBudget>>

\* Then it reads the entries one after another; one that has vanished, or that the
\* disk cannot follow, fails the page, and the caller asks for it again.
Readable(e) == e \in walk.ignored \/ e \in there \ Dangling
ReadEntries ==
  /\ walk.kind = "directory" /\ walk.stage = "reading"
  /\ walk' =
       IF \A e \in ToSet(walk.chosen) : Readable(e)
       THEN [walk EXCEPT !.stage = IF walk.more THEN "asking" ELSE "done",
                         !.cursor = IF walk.more THEN Last(walk.chosen).fold ELSE @,
                         !.returned = @ \o walk.chosen]
       ELSE [walk EXCEPT !.stage = "asking"]
  /\ UNCHANGED <<there, refused, readBudget>>

\* search_files: a page is a part of the rows the policy lets through.
SearchPage ==
  /\ walk.kind = "search" /\ walk.stage = "asking"
  /\ LET visible == Sorted(there \ refused)
         from == walk.cursor * PageSize
         until == IF from + PageSize < Len(visible) THEN from + PageSize ELSE Len(visible) IN
     walk' = [walk EXCEPT !.stage = IF (walk.cursor + 1) * PageSize < Len(visible) THEN "asking" ELSE "done",
                          !.cursor = @ + 1,
                          !.returned = @ \o SubSeq(visible, from + 1, until)]
  /\ UNCHANGED <<there, refused, readBudget>>
-----------------------------------------------------------------------------
Change == readBudget.changes > 0 /\ readBudget' = [readBudget EXCEPT !.changes = @ - 1]

EntryAppears ==
  /\ Change
  /\ \E e \in Entry \ there : there' = there \cup {e}
  /\ UNCHANGED <<refused, walk>>

EntryVanishes ==
  /\ Change
  /\ \E e \in there :
       /\ there' = there \ {e}
       /\ walk' = [walk EXCEPT !.staying = @ \ {e}, !.lost = TRUE]
  /\ UNCHANGED refused

\* A policy update; a search that has begun loses what it refuses.
PolicyRefuses ==
  /\ Change
  /\ \E e \in Entry \ refused :
       /\ refused' = refused \cup {e}
       /\ walk' = IF walk.kind = "search" THEN [walk EXCEPT !.staying = @ \ {e}, !.lost = TRUE] ELSE walk
  /\ UNCHANGED there

ReadNext == ListEntries \/ ReadEntries \/ SearchPage \/ EntryAppears \/ EntryVanishes \/ PolicyRefuses
ReadSpec == ReadInit /\ [][ReadNext]_readVars
-----------------------------------------------------------------------------
(* Properties *)

Seen == ToSet(walk.returned)

\* The cursor of list_directory survives changes: the caller sees no entry twice
\* and, when there are no more pages, all that were there the whole time, up to
\* names that differ in case only (read_tools.py:526).
DirectoryWalk ==
  walk.kind = "directory" =>
    /\ \A i, j \in DOMAIN walk.returned : i < j => walk.returned[i] # walk.returned[j]
    /\ walk.stage = "done" => \A e \in walk.staying : \E f \in Seen : f.fold = e.fold

\* The numbered pages of search_files only bear what is added: unless something
\* vanished the caller has seen all that were there the whole time
\* (services.py:1229).
SearchWalk ==
  walk.kind = "search" /\ walk.stage = "done" /\ ~walk.lost => walk.staying \subseteq Seen

\* Following the pages to the last one reaches what stays.
PagesReachStaying == DirectoryWalk /\ SearchWalk
=============================================================================
