---------------------------- MODULE KnowledgeIndex ----------------------------
(***************************************************************************)
(* The document index of a workspace: the two background tasks that fill   *)
(* it, scan_workspace and index_workspace_documents, the search over it,   *)
(* and the citations of an agent's answer.                                 *)
(*                                                                         *)
(* The tasks run one at a time in the job runner's worker; the user, the   *)
(* file moves of FileNest itself and the routes go on meanwhile.  A file   *)
(* is read twice, for its text and for its hash, so text and version are   *)
(* two fields of a document.  The hash of a text is the text.  A file is   *)
(* excluded when the policy or the links on its path keep it from being    *)
(* read; which files are is what WorkspacePaths is about, and here may be  *)
(* any of them, at every look another.                                     *)
(***************************************************************************)
EXTENDS Naturals, Sequences, FiniteSets, FiniteSetsExt, SequencesExt

CONSTANTS
  LastPath,     \* paths 1..LastPath of the workspace, in the order of a walk
  Text,         \* contents of files
  Nothing,      \* no file, no text, no version
  TopK,         \* top_k of a search
  IndexBudgets  \* what a behaviour may use: see IndexBudget

\* The files at the start, and bounds on tasks, on changes of files, on
\* deleted documents, on searches of the agent run and on failures.
Path == 1..LastPath
IndexBudget ==
  [disk : [Path -> Text \cup {Nothing}], tasks : Nat, changes : Nat,
   deletes : Nat, searches : Nat, failures : Nat]

ASSUME PathAssumption == LastPath \in Nat /\ Nothing \notin Text /\ TopK \in Nat \ {0}
ASSUME IndexBudgetAssumption == IndexBudgets \subseteq IndexBudget

VARIABLES
  disk,       \* the file at each path
  entries,    \* file_entries: id -> relative_path
  documents,  \* documents, each with its one chunk
  serial,     \* documents ever recorded
  task,       \* what the worker is doing, and its open transaction
  contexts,   \* what the searches of the agent run returned
  answer,     \* its answer
  touched,    \* paths that changed since the task started: ghost
  covered,    \* paths not changed since a task indexed them: ghost
  indexBudget

index == <<entries, documents, serial>>
agentVars == <<contexts, answer>>
knowledgeVars == <<disk, index, task, agentVars, touched, covered, indexBudget>>

NoFile == [entry |-> 0, path |-> 0]
NoAnswer == [cited |-> {}, given |-> FALSE, sources |-> {}]
NoTask == [pc |-> "idle", todo |-> {}, paths |-> {}, at |-> NoFile,
           text |-> Nothing, batch |-> {}]

KnowledgeInit ==
  /\ indexBudget \in IndexBudgets /\ disk = indexBudget.disk
  /\ entries = <<>> /\ documents = {} /\ serial = 0
  /\ task = NoTask /\ contexts = <<>> /\ answer = NoAnswer
  /\ touched = {} /\ covered = {}

Use(b) == indexBudget[b] > 0 /\ indexBudget' = [indexBudget EXCEPT ![b] = @ - 1]
Doing(pc) == task.pc = pc
NothingLeft == task.todo = {}
\* Both tasks go through their files in the order of the paths.
NextFile == CHOOSE f \in task.todo : \A g \in task.todo : f.path <= g.path
Listed == Range(entries)
\* SQLite has one writer: a task that has flushed a document keeps the others out.
WriteLockFree == task.batch = {}
-----------------------------------------------------------------------------
(* scan_workspace *)

StartScan ==
  /\ Doing("idle") /\ Use("tasks")
  /\ task' = [NoTask EXCEPT !.pc = "walk", !.todo = {[NoFile EXCEPT !.path = p] : p \in Path}]
  /\ touched' = {}
  /\ UNCHANGED <<disk, index, agentVars, covered>>

Walked(seen) ==
  task' = [task EXCEPT !.todo = @ \ {NextFile}, !.paths = @ \cup seen]

\* scan_workspace_files meets one path after the other ...
Look ==
  /\ Doing("walk") /\ ~NothingLeft
  /\ Walked({NextFile.path} \cap {p \in Path : disk[p] # Nothing})
  /\ UNCHANGED <<disk, index, agentVars, touched, covered, indexBudget>>

\* ... and leaves out a file that is excluded, or whose metadata cannot be read.
LookFails ==
  /\ Doing("walk") /\ ~NothingLeft /\ Use("failures")
  /\ Walked({}) /\ touched' = touched \cup {NextFile.path}
  /\ UNCHANGED <<disk, index, agentVars, covered>>

\* SQLite gives new rows, in the order of their insertion, the ids that
\* follow the largest one.
NewId(new, p) == Max(DOMAIN entries \cup {0}) + Cardinality({q \in new : q <= p})
Synced(kept, new) ==
  [e \in kept \cup {NewId(new, p) : p \in new} |->
     IF e \in kept THEN entries[e] ELSE CHOOSE p \in new : NewId(new, p) = e]

\* Mutant: every file the walk has seen gets a new entry.
SyncIndexAnew ==
  /\ Doing("walk") /\ NothingLeft
  /\ entries' = Synced({}, task.paths)
  /\ covered' = covered \cap task.paths
  /\ task' = NoTask
  /\ UNCHANGED <<disk, documents, serial, agentVars, touched, indexBudget>>
\* sync_file_index.  The entries of new files are inserted before the others
\* are deleted.
SyncIndex ==
  /\ Doing("walk") /\ NothingLeft
  /\ entries' = Synced({e \in DOMAIN entries : entries[e] \in task.paths}, task.paths \ Listed)
  /\ covered' = covered \cap task.paths
  /\ task' = NoTask
  /\ UNCHANGED <<disk, documents, serial, agentVars, touched, indexBudget>>

\* The root of the workspace is unavailable, a commit fails, or the process
\* ends: the transaction of the task is gone.
TaskLost ==
  /\ ~Doing("idle") /\ Use("failures")
  /\ task' = NoTask
  /\ UNCHANGED <<disk, index, agentVars, touched, covered>>
-----------------------------------------------------------------------------
(* index_workspace_documents *)

\* _find_document_file_entries: entries as they are now, in the order of paths.
StartIndex ==
  /\ Doing("idle") /\ Use("tasks")
  /\ task' = [NoTask EXCEPT !.pc = "read", !.paths = Listed,
                !.todo = {[entry |-> e, path |-> entries[e]] : e \in DOMAIN entries}]
  /\ touched' = {}
  /\ UNCHANGED <<disk, index, agentVars, covered>>

\* authorized_path refuses the next file: it is passed over, the task goes on, and
\* has no file to blame until it reads another one.
SkipExcluded ==
  /\ Doing("read") /\ ~NothingLeft
  /\ task' = [task EXCEPT !.todo = @ \ {NextFile}, !.paths = @ \ {NextFile.path}, !.at = NoFile]
  /\ UNCHANGED <<disk, index, agentVars, touched, covered, indexBudget>>

\* load_document reads the text of the next file ...
ReadText ==
  /\ Doing("read") /\ ~NothingLeft /\ disk[NextFile.path] # Nothing
  /\ task' = [task EXCEPT !.pc = "version", !.at = NextFile,
                !.text = disk[NextFile.path]]
  /\ UNCHANGED <<disk, index, agentVars, touched, covered, indexBudget>>

\* _document_version_exists
\* Mutant: a file that has been indexed once is not indexed again.
ExistsOnce(entry, version) ==
  \E d \in documents \cup task.batch : d.entry = entry /\ d.version # Nothing
VersionExists(entry, version) ==
  \E d \in documents \cup task.batch : d.entry = entry /\ d.version = version

\* ... and then its hash.  A version that is there already is skipped, any
\* other is added beside the documents of the file's earlier versions.
ReadVersion ==
  LET file == task.at
      version == disk[file.path]
      new == [id |-> serial + 1, entry |-> file.entry, path |-> file.path,
              text |-> task.text, version |-> version]
      next == [task EXCEPT !.pc = "read", !.todo = @ \ {file}, !.text = Nothing] IN
    /\ Doing("version") /\ version # Nothing
    /\ IF VersionExists(file.entry, version)
       THEN task' = next /\ UNCHANGED serial
       ELSE task' = [next EXCEPT !.batch = @ \cup {new}] /\ serial' = serial + 1
    /\ UNCHANGED <<disk, entries, documents, agentVars, touched, covered, indexBudget>>

\* _record_failed_ingest: one record for a file, without text or version.
FailedRecords(entry) == {d \in documents : d.entry = entry /\ d.version = Nothing}
RecordFailed(file) ==
  IF FailedRecords(file.entry) # {}
  THEN /\ documents' = (documents \ FailedRecords(file.entry)) \cup
                       {[d EXCEPT !.path = file.path] : d \in FailedRecords(file.entry)}
       /\ UNCHANGED serial
  ELSE /\ documents' = documents \cup
            {[id |-> serial + 1, entry |-> file.entry, path |-> file.path,
              text |-> Nothing, version |-> Nothing]}
       /\ serial' = serial + 1

\* One file cannot be parsed or is gone: nothing of the task is kept but the
\* record of that file.
IngestFails ==
  /\ task.pc \in {"read", "version"} /\ ~NothingLeft
  /\ IF disk[NextFile.path] = Nothing THEN UNCHANGED indexBudget ELSE Use("failures")
  /\ RecordFailed(NextFile)
  /\ task' = NoTask
  /\ UNCHANGED <<disk, entries, agentVars, touched, covered>>

\* Documents of earlier versions stay beside the new ones.
CommitIndex ==
  /\ Doing("read") /\ NothingLeft
  /\ documents' = documents \cup task.batch
  /\ covered' = task.paths \ touched
  /\ task' = NoTask
  /\ UNCHANGED <<disk, entries, serial, agentVars, touched, indexBudget>>

\* The commit fails, and the last file is blamed for it.
CommitFails ==
  /\ Doing("read") /\ NothingLeft /\ Use("failures")
  /\ task.at # NoFile /\ RecordFailed(task.at)
  /\ task' = NoTask
  /\ UNCHANGED <<disk, entries, agentVars, touched, covered>>
-----------------------------------------------------------------------------
(* The user, the file moves, and the routes *)

Touch(paths) == touched' = touched \cup paths /\ covered' = covered \ paths

\* The user writes or removes a file.
FileChanges(p, content) ==
  /\ disk[p] # content /\ Use("changes")
  /\ disk' = [disk EXCEPT ![p] = content]
  /\ Touch({p})
  /\ UNCHANGED <<index, task, agentVars>>

\* An execution moves a listed file: the entry keeps its id and gets the path
\* of the target; its documents keep theirs.
FileMoved(e, to) ==
  /\ disk[entries[e]] # Nothing /\ disk[to] = Nothing /\ to \notin Listed
  /\ WriteLockFree /\ Use("changes")
  /\ disk' = [disk EXCEPT ![to] = disk[entries[e]], ![entries[e]] = Nothing]
  /\ entries' = [entries EXCEPT ![e] = to]
  /\ Touch({entries[e], to})
  /\ UNCHANGED <<documents, serial, task, agentVars>>

\* delete_knowledge_document
DeleteDocument(d) ==
  /\ WriteLockFree /\ Use("deletes")
  /\ documents' = documents \ {d}
  /\ Touch({entries[e] : e \in {d.entry} \cap DOMAIN entries})
  /\ UNCHANGED <<disk, entries, serial, task, agentVars>>
-----------------------------------------------------------------------------
(* The agent's knowledge_search tool, and the citations of its answer *)

\* The documents whose text contains the query and whose path is still the
\* one of their entry; every version of them.
Matches(texts) ==
  {d \in documents : /\ d.text \in texts
                     /\ d.entry \in DOMAIN entries /\ entries[d.entry] = d.path}

\* What a result keeps of a document: it is a snapshot, later changes do not reach it.
Retrieved(d) == [id |-> d.id, path |-> d.path, version |-> d.version]

\* Excluded files are left out, and the rank depends on the words of the texts: any
\* matches up to TopK may be first.
Search(texts) ==
  /\ answer = NoAnswer /\ Use("searches")
  /\ \E hits \in SUBSET Matches(texts) :
       /\ Cardinality(hits) <= TopK
       /\ contexts' = Append(contexts, {Retrieved(d) : d \in hits})
  /\ UNCHANGED <<disk, index, task, answer, touched, covered>>

\* _current_source_versions: the version a document has now, or none.
CurrentVersion(id) ==
  IF \E d \in documents : d.id = id THEN (CHOOSE d \in documents : d.id = id).version ELSE Nothing

\* Mutant: the documents are not looked up again.
BoundToHits(cited) ==
  /\ cited # {}
  /\ \A c \in cited : \E i \in DOMAIN contexts : \E d \in contexts[i] : d.id = c
  /\ \A i, k \in DOMAIN contexts : i # k => contexts[i] \cap contexts[k] = {}
\* bind_citations: a citation names a chunk some search returned whose
\* document still has the version found, and no chunk was returned twice.
Bound(cited) ==
  /\ cited # {}
  /\ \A c \in cited : \E i \in DOMAIN contexts : \E r \in contexts[i] :
       r.id = c /\ r.version # Nothing /\ CurrentVersion(c) = r.version
  /\ \A i, k \in DOMAIN contexts : i # k => contexts[i] \cap contexts[k] = {}

\* _source_references: whatever was retrieved, cited or not.
Sources == UNION Range(contexts)

\* AgentExecutor.run: an answer after a search is given only when its
\* citations are bound; otherwise the refusal takes its place.
GiveAnswer(cited) ==
  /\ answer = NoAnswer /\ contexts # <<>>
  /\ answer' = [cited |-> cited, given |-> Bound(cited), sources |-> Sources]
  /\ UNCHANGED <<disk, index, task, contexts, touched, covered, indexBudget>>

KnowledgeNext ==
  \/ StartScan \/ Look \/ LookFails \/ SyncIndex \/ TaskLost
  \/ StartIndex \/ SkipExcluded \/ ReadText \/ ReadVersion \/ IngestFails \/ CommitIndex \/ CommitFails
  \/ \E p \in Path, content \in Text \cup {Nothing} : FileChanges(p, content)
  \/ \E e \in DOMAIN entries, to \in Path : FileMoved(e, to)
  \/ \E d \in documents : DeleteDocument(d)
  \/ \E texts \in (SUBSET Text) \ {{}} : Search(texts)
  \/ \E cited \in SUBSET (0..serial) : GiveAnswer(cited)

KnowledgeSpec == KnowledgeInit /\ [][KnowledgeNext]_knowledgeVars
=============================================================================
