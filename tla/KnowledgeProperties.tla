-------------------------- MODULE KnowledgeProperties --------------------------
(***************************************************************************)
(* What the document index promises.                                       *)
(***************************************************************************)
EXTENDS KnowledgeIndex

Contents == Text \cup {Nothing}
StoredDocument ==
  [id : Nat, entry : Nat, path : Path, text : Contents, version : Contents]

\* The types of the state; no path is listed twice, no version of a file is
\* stored twice, and an id names one document (models.py:239, :283).
KnowledgeTypeOK ==
  /\ disk \in [Path -> Contents]
  /\ Listed \subseteq Path /\ \A e, f \in DOMAIN entries : entries[e] = entries[f] => e = f
  /\ documents \cup task.batch \subseteq StoredDocument
  /\ \A d, o \in documents \cup task.batch :
       d.id = o.id \/ (d.entry = o.entry /\ d.version = o.version) => d = o
  /\ task.pc \in {"idle", "walk", "read", "version"}
  /\ task.text \in Contents /\ task.paths \cup touched \cup covered \subseteq Path
  /\ (UNION Range(contexts)) \cup answer.sources \subseteq [id : Nat, path : Path, version : Contents]
  /\ answer.cited \subseteq Nat /\ answer.given \in BOOLEAN
  /\ indexBudget \in IndexBudget

\* A file that was listed when a task indexed the workspace, that the task did not
\* find excluded and that nobody has touched since it began has a document of
\* exactly its content,
\* whatever earlier and failed tasks left behind (document_indexer.py:104).
IndexedIsCurrent ==
  \A p \in covered : \E d \in documents :
    /\ d.version = disk[p]
    /\ d.entry \in DOMAIN entries /\ entries[d.entry] = p

\* A scan that succeeds lists each file that was left alone while it ran,
\* under the id it had, and unlists what is gone: documents stay attached to
\* their files (services.py:1313).
ScanKeepsIdentity ==
  [][Doing("walk") /\ NothingLeft /\ task' = NoTask /\ indexBudget' = indexBudget =>
       \A p \in Path \ touched :
         /\ (disk[p] # Nothing) = (p \in {entries'[e] : e \in DOMAIN entries'})
         /\ \A e \in DOMAIN entries : entries[e] = p /\ disk[p] # Nothing =>
              e \in DOMAIN entries' /\ entries'[e] = p]_knowledgeVars

\* An answer that is given rests on documents the searches of its run
\* returned and the index still holds unchanged at that moment, and its sources,
\* which the client gets with it, show all of them as they were found
\* (citation_runtime.py:88, agent_api.py:829).
AnswersAreGrounded ==
  [][answer'.given /\ ~answer.given =>
       /\ answer'.cited # {}
       /\ \A c \in answer'.cited : \E d \in documents :
            /\ d.id = c /\ d.version # Nothing
            /\ \E i \in DOMAIN contexts : Retrieved(d) \in contexts[i] \cap answer'.sources]_knowledgeVars
=============================================================================
