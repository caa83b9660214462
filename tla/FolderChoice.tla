----------------------------- MODULE FolderChoice -----------------------------
(***************************************************************************)
(* Which folder the desktop application moves a file to, or offers to the  *)
(* user: the ranking of the scanned folders and the families of nested     *)
(* folders (matcher.py), the decision (main_window.py) and the two windows *)
(* with candidates (dialogs.py).                                           *)
(*                                                                         *)
(* A folder is the sequence of its names.  Its score for the file, which   *)
(* the matcher computes from the names, is any score.                      *)
(***************************************************************************)
EXTENDS Naturals, Sequences, FiniteSets
LOCAL INSTANCE SequencesExt

CONSTANTS
  Scans,       \* the folders of all roots, in the order they are found
  Scores,      \* what a folder may score
  Thresholds,  \* auto_threshold
  MaxRows      \* max_display

ASSUME ScoresAssumption == Scores \subseteq 0..100 /\ Thresholds \subseteq 50..100
ASSUME RowsAssumption == MaxRows \in Nat \ {0}

\* A file whose name is short, or one with its score for each folder, and the
\* settings.
Choice ==
  UNION {[scanned : {scan}, score : [ToSet(scan) -> Scores], short : BOOLEAN,
          threshold : Thresholds, midRangeAuto : BOOLEAN] : scan \in Scans}

VARIABLE choice  \* one of Choice, for ever
-----------------------------------------------------------------------------
(* The candidates *)

\* get_best_matches: what scores 55 or more, the best first, and of equal ones
\* the one found first; nothing for a short name.
BestMatches(c) ==
  LET scored == {i \in DOMAIN c.scanned : ~c.short /\ c.score[c.scanned[i]] >= 55}
      value(i) == c.score[c.scanned[i]]
      order == SetToSortSeq(scored, LAMBDA i, j : value(i) > value(j) \/ (value(i) = value(j) /\ i < j))
  IN  [n \in DOMAIN order |-> [path |-> c.scanned[order[n]], score |-> value(order[n])]]

PathsOf(matches) == {matches[i].path : i \in DOMAIN matches}

\* Mutant: a score of 95 wins whatever the second one has.
ClearWinnerAlone(matches) ==
  /\ matches # <<>>
  /\ \/ Len(matches) = 1
     \/ matches[1].score >= 95
     \/ matches[1].score >= 90 /\ matches[1].score >= matches[2].score + 15

HasClearWinner(matches) ==
  /\ matches # <<>>
  /\ \/ Len(matches) = 1
     \/ matches[1].score >= 95 /\ matches[1].score > matches[2].score
     \/ matches[1].score >= 90 /\ matches[1].score >= matches[2].score + 15

HasFamilyOverlap(matches) == \E p, q \in PathsOf(matches) : IsStrictPrefix(p, q)

\* extract_family_group, and what _process_file makes of it: folders with a
\* candidate above or below them, then the others.
FamilyFirst(matches) ==
  LET related(m) == \E p \in PathsOf(matches) : IsStrictPrefix(p, m.path) \/ IsStrictPrefix(m.path, p)
  IN  SelectSeq(matches, related) \o SelectSeq(matches, LAMBDA m : ~related(m))
-----------------------------------------------------------------------------
(* The windows *)

\* build_children: the candidates directly below a folder.
ChildrenOf(path, matches) == SelectSeq(matches, LAMBDA m : Front(m.path) = path)

\* add_descendants: a folder, and each one below it that has children itself.
RECURSIVE Branches(_, _)
Branches(path, matches) ==
  LET children == ChildrenOf(path, matches) IN
    <<path>> \o FlattenSeq([i \in DOMAIN children |->
                  IF ChildrenOf(children[i].path, matches) = <<>> THEN <<>>
                  ELSE Branches(children[i].path, matches)])

\* build_family_tree: the branches of the folders without a candidate above.
FamilyTree(matches) ==
  LET roots == SelectSeq(matches, LAMBDA m : \A p \in PathsOf(matches) : ~IsStrictPrefix(p, m.path))
  IN  FlattenSeq([i \in DOMAIN roots |-> Branches(roots[i].path, matches)])

\* _insert_node and _build_subtree: the node of a folder and all nodes below.
RECURSIVE Subtree(_, _)
Subtree(path, matches) ==
  LET children == ChildrenOf(path, matches) IN
    <<path>> \o FlattenSeq([i \in DOMAIN children |-> Subtree(children[i].path, matches)])

\* TreeCandidateWindow: the user may choose any of its nodes.
TreeNodes(matches) ==
  LET tree == FamilyTree(matches) IN FlattenSeq([i \in DOMAIN tree |-> Subtree(tree[i], matches)])

\* CandidateWindow: the user may choose any of its rows, also the one that says
\* how many are left out.
MoreRow == <<"more">>
CandidateRows(matches) ==
  IF Len(matches) <= MaxRows THEN [i \in DOMAIN matches |-> matches[i].path]
  ELSE [i \in 1..MaxRows |-> matches[i].path] \o <<MoreRow>>
-----------------------------------------------------------------------------
(* _process_file *)

\* A move without a question, one that the user has to confirm, a choice among
\* the rows of a window, or any folder of the system's dialog.
Decision(kind, paths) == [kind |-> kind, paths |-> paths]
ByHand == Decision("manual", <<>>)

Decided(c) ==
  LET matches == BestMatches(c)
      first == <<matches[1].path>>
      high == SelectSeq(matches, LAMBDA m : m.score >= c.threshold) IN
  CASE matches = <<>> -> ByHand
    [] HasClearWinner(matches) -> Decision("move", first)
    [] ~HasClearWinner(matches) /\ HasFamilyOverlap(matches) ->
         Decision("tree", TreeNodes(FamilyFirst(matches)))
    [] OTHER ->
         IF Len(high) >= 2 THEN Decision("rows", CandidateRows(high))
         ELSE Decision(IF c.midRangeAuto THEN "move" ELSE "confirm", first)
-----------------------------------------------------------------------------
(* Properties *)

\* The folders between one candidate and another above it that are no
\* candidates: where the tree ends.
Gapped(path, candidates) ==
  \E above \in candidates :
    /\ IsStrictPrefix(above, path)
    /\ \E n \in (Len(above) + 1)..(Len(path) - 1) : SubSeq(path, 1, n) \notin candidates

\* No file is moved without a question while another folder scores as much, or
\* is listed twice, unless the settings say so; a window keeps nothing better
\* than what it shows from the user, but a folder in the tree below one that is
\* no candidate; and only a file that no folder resembles has to be placed by
\* hand (main_window.py:336-408, matcher.py:410, :569; dialogs.py:108, :178).
ChoiceFollowsScores ==
  LET c == choice
      candidates == IF c.short THEN {} ELSE {p \in DOMAIN c.score : c.score[p] >= 55}
      found(p) == Cardinality({i \in DOMAIN c.scanned : c.scanned[i] = p})
      decided == Decided(c)
      shown == ToSet(decided.paths) \ {MoreRow}
      first == decided.paths[1] IN
  /\ shown \subseteq candidates
  /\ decided.kind = "manual" <=> candidates = {}
  /\ decided.kind = "move" =>
       \A p \in candidates \ {first} :
         /\ c.score[first] >= c.score[p]
         /\ c.midRangeAuto \/ (c.score[first] > c.score[p] /\ found(first) = 1)
  /\ decided.kind = "tree" =>
       \A p \in candidates : p \in shown <=> ~Gapped(p, candidates)
  /\ decided.kind \in {"rows", "confirm"} =>
       /\ \A p \in candidates \ shown, q \in shown : c.score[p] <= c.score[q]
       /\ decided.kind = "rows" =>
            \A p \in candidates : p \in shown \/ c.score[p] < c.threshold \/ MoreRow \in ToSet(decided.paths)
=============================================================================
