----------------------------- MODULE WorkspacePaths -----------------------------
(***************************************************************************)
(* Which paths of a workspace the program may touch, and which files its   *)
(* scan lists: the path policy (path_policy.py), the file system adapter   *)
(* (filesystem_adapter.py) and the scanner (workspace_scanner.py,          *)
(* folder_scanner.py), on trees with symbolic links.                       *)
(*                                                                         *)
(* A path is the sequence of its names from the workspace's root; one that *)
(* leaves the workspace is Outside.  A rule of the policy stands for what  *)
(* it matches.                                                             *)
(***************************************************************************)
EXTENDS Naturals, Sequences, FiniteSets, SequencesExt

CONSTANTS
  Component,  \* names of files and directories
  Trees,      \* files, directories and links by path
  Rules,      \* the rules of a policy: denied, names, paths and suffixed
  Hidden,     \* names that begin with a dot
  Sensitive,  \* names of the global sensitive rules
  MaxDepth,   \* max_depth of a scan
  LoopSteps   \* bound: a longer resolution is a loop

Missing == [kind |-> "none"]
FileNode == [kind |-> "file"]
DirNode == [kind |-> "dir"]
Link(to) == [kind |-> "link", to |-> to]

Site == [node : Trees, rules : Rules]

VARIABLE site  \* a tree and its policy: one of Site, for ever

Outside == <<"..">>
Loop == <<"..", "loop">>

\* What a file system and a policy are: whatever is above something is a
\* directory, and a link leads to a path or outside.
TreeAssumption ==
  \A tree \in Trees : \A path \in DOMAIN tree :
    /\ path \in Seq(Component) /\ path # <<>>
    /\ \A n \in 1..(Len(path) - 1) :
         SubSeq(path, 1, n) \in DOMAIN tree /\ tree[SubSeq(path, 1, n)] = DirNode
    /\ tree[path].kind = "link" => tree[path].to \in Seq(Component) \cup {Outside}
ASSUME SiteAssumption ==
  /\ ".." \notin Component
  /\ TreeAssumption
  /\ \A rules \in Rules : \A denied \in rules.denied : denied \in Seq(Component)
  /\ MaxDepth \in Nat /\ LoopSteps \in Nat
-----------------------------------------------------------------------------
(* Path policy *)

Within(path) == path = <<>> \/ Head(path) # ".."
NodeAt(path) ==
  CASE path = <<>> -> DirNode
    [] path \in DOMAIN site.node -> site.node[path]
    [] OTHER -> Missing

\* os.path.abspath: without a look at the disk.  A path that has left the
\* workspace does not come back: no request names the directories above it.
Normalized(request) ==
  LET Next(path, name) ==
        IF ~Within(path) \/ (name = ".." /\ path = <<>>) THEN Outside
        ELSE IF name = ".." THEN Front(path) ELSE Append(path, name)
      path[n \in 0..Len(request)] == IF n = 0 THEN <<>> ELSE Next(path[n - 1], request[n])
  IN  path[Len(request)]

\* Path.resolve(strict=False): every link on the way is followed, what does not
\* exist is kept as it is named.
Resolved(way) == way.rest = <<>> \/ ~Within(way.done)
Follow(way) ==
  LET next == Append(way.done, Head(way.rest)) IN
    IF Resolved(way) THEN way
    ELSE IF NodeAt(next).kind = "link" THEN [done |-> <<>>, rest |-> NodeAt(next).to \o Tail(way.rest)]
    ELSE [done |-> next, rest |-> Tail(way.rest)]
Followed(path) ==
  LET way[n \in 0..LoopSteps] == IF n = 0 THEN [done |-> <<>>, rest |-> path] ELSE Follow(way[n - 1])
      end == way[LoopSteps]
  IN  IF Resolved(end) THEN end.done ELSE Loop
Real(request) == Followed(Normalized(request))

\* GlobalIgnorePolicy.matches, and WorkspacePolicy.ignores: the path or one of
\* the directories above it.
IgnoreMatches(path) ==
  path # <<>> /\ (Last(path) \in site.rules.names \/ path \in site.rules.paths)
Ignores(path) == \E n \in DOMAIN path : IgnoreMatches(SubSeq(path, 1, n))

IsSensitive(path) == ToSet(path) \cap Sensitive # {}
IsDenied(path) == \E denied \in site.rules.denied : IsPrefix(denied, path)

\* authorize_path: where a request leads, or why it is refused.
Refusal(request) ==
  LET path == Normalized(request)
      real == Real(request) IN
  IF ~Within(path) THEN "path_outside_workspace"
  ELSE IF real = Loop THEN "invalid_path"
  ELSE IF ~Within(real) THEN "path_link_outside_workspace"
  ELSE IF IsSensitive(real) THEN "sensitive_path"
  ELSE IF IsDenied(path) \/ IsDenied(real) THEN "path_denylisted"
  ELSE "none"
AllowedByPath(request) == Refusal(request) = "none"

\* FileSystemAdapter._authorize: the ignore rules apply to the path as it was
\* named and to where it leads.
Authorized(request) ==
  AllowedByPath(request) /\ ~Ignores(request) /\ ~Ignores(Real(request))

IsDirectory(request) == NodeAt(Real(request)) = DirNode
IsFile(request) == NodeAt(Real(request)) = FileNode

\* list_directory: the children the same check lets through, of an adapter that
\* knows the policy's ignore rules or one that does not.
Children(dir) == {p \in DOMAIN site.node : Front(p) = dir}
ListDirectory(request, policy) ==
  {Last(p) : p \in {q \in Children(Real(request)) : IF policy THEN Authorized(q) ELSE AllowedByPath(q)}}
-----------------------------------------------------------------------------
(* Scan *)

\* _should_ignore: the folder scanner reads a rule that begins with a dot as
\* the end of a directory's name, too.
ShouldIgnore(name) == name \in site.rules.names \cup site.rules.suffixed

\* Mutant: a directory is listed under the name it was reached by.
FolderNamed(entry) == entry

\* What the folder scanner keeps of a directory: where it really is.
FolderAt(entry) == Real(entry)

\* _scan_recursive: it follows links, under an adapter that knows no policy.
Entered(dir) ==
  {entry \in {Append(dir, name) : name \in {n \in ListDirectory(dir, FALSE) : n \notin Hidden /\ ~ShouldIgnore(n)}} :
     AllowedByPath(entry) /\ IsDirectory(entry)}
Folders ==
  LET level[depth \in 0..MaxDepth] ==
        IF depth = 0 THEN {<<>>} ELSE UNION {Entered(dir) : dir \in level[depth - 1]}
  IN  {FolderAt(entry) : entry \in UNION {level[depth] : depth \in 1..MaxDepth}}

\* scan_workspace_files
Scanned ==
  UNION {{Append(dir, name) :
            name \in {n \in ListDirectory(dir, TRUE) :
                        LET path == Append(dir, n) IN
                        ~IgnoreMatches(path) /\ Authorized(path) /\ IsFile(path)}} :
         dir \in {d \in {<<>>} \cup Folders : ~IgnoreMatches(d) /\ Authorized(d)}}
-----------------------------------------------------------------------------
(* Properties *)

\* A path of a file that needs no link, no hidden directory and none that the
\* folder scanner's own reading of the rules leaves out, and that is not deeper
\* than it looks.
Plain(path) ==
  /\ IsFile(path) /\ Real(path) = path
  /\ Len(path) <= MaxDepth + 1
  /\ \A n \in 1..(Len(path) - 1) : path[n] \notin Hidden \cup site.rules.suffixed

Links == {p \in DOMAIN site.node : NodeAt(p).kind = "link"}
Upwards == {<<>>, Outside}
Requests ==
  {<<>>, Outside} \cup DOMAIN site.node
  \cup {p \o up \o q : p \in Links, up \in Upwards, q \in DOMAIN site.node}

\* What is checked once stays checked: where an authorized request leads is
\* authorized under its own name, as the movers rely on (filesystem_adapter.py:159).
ResolvedStaysAuthorized ==
  \A r \in Requests : Authorized(r) => Within(Real(r)) /\ Authorized(Real(r)) /\ Real(Real(r)) = Real(r)

\* The scan (workspace_scanner.py:98, folder_scanner.py:141) lists only files the
\* adapter reads, each in the directory it really is in, so that a loop of
\* links gives no file two paths; and every plain file the adapter reads.
ScanAgrees ==
  /\ \A p \in Scanned : Authorized(p) /\ IsFile(p) /\ Real(Front(p)) = Front(p)
  /\ \A p \in DOMAIN site.node : Plain(p) /\ Authorized(p) => p \in Scanned

\* The path policy, the adapter and the scan tell the same files apart.
PathsAgree == ResolvedStaysAuthorized /\ ScanAgrees
=============================================================================
