# FileNest in TLA+

FileNest indexes the files of a user's workspace, lets a model-driven agent propose a plan
(move, rename, quarantine), shows the plan to a human, and executes what the human approved on
the real file system, with a history from which it can recover, retry and undo. An older desktop
program that sorts files into folders is kept beside it. This directory holds TLA+ modules
translated from that code, configurations that check them with TLC, and theorems about them
checked with TLAPS.

Paths below are relative to the repository; `app/` stands for `backend/app/`.

## 1. Inventory

| component | state | operations | what is hard | what makes it correct | section |
|---|---|---|---|---|---|
| safe execution (`app/safe_execution.py`) | rows `OperationExecution`, `OperationExecutionItem`, `OperationStatusRecord`, `FileEntry`; the files | execute, retry, undo, compensate, recover at startup | two stores with no common transaction (database, disk); crashes between rename and commit; two requests; stale session rows | no file the user left alone is lost; the history says where it is; one driver per execution; recovery ends | 2 |
| file movers (`safe_file_mover.py`, `v2_file_mover.py`, `quarantine.py`) | the disk | move, quarantine, restore | check and rename are two steps | never move what was not announced | 2 |
| approval workflow (`organization_planning.py`, `organization_decisions.py`, `workflow*.py`, `approval_recovery.py`) | rows `ApprovalRequest`, `OperationPlanRecord`, `OperationStatusRecord`, `ApprovalAuditEvent`; the LangGraph checkpoint | create, edit, approve, reject, cancel, start the execution, scan at startup | the database and the checkpoint are written one after the other, in different orders | what is executed is what was shown and approved; the checkpoint catches up with the decision | 3 |
| organization API (`organization_api.py`) | none of its own | decision routes with `plan_id` and `expected_revision`; queries | a request acts on a plan it saw earlier; an answer joins several rows and the checkpoint | only the current revision is acted on; what is shown as decidable is | 3 |
| jobs (`job_system.py`, `job_store.py`, `job_runner.py`) | job and attempt rows, records in memory, the worker thread, cancellation events | submit, cancel, retry, progress, finish, shut down, recover | cancellation races completion; a refused save leaves row and record apart; restart with unfinished jobs | one attempt at a time; a finished job stays finished; every accepted job ends | 4 |
| agent runs (`agent_loop.py`, `agent_api.py`, `agent_recovery.py`, `agent_observability.py`) | `AgentRun`, steps, messages, model runs, tool calls; worker threads and cancellation events | submit, resume, cancel, drive, finish, recover | a background worker and requests on the same row; a dozen commits per turn, any of which may be the last | one worker; a completed run stays completed; what is recorded can be resumed from | 5, 6 |
| events (`events.py`) | none: rebuilt from rows | stream, replay from `Last-Event-ID` | ids are positions in a rebuilt list | a client that reconnects misses and repeats nothing | 2, 3, 5 |
| file index (`workspace_scanner.py`, `services.py`) | `FileEntry` | scan, synchronise | a scan is not atomic | the index follows the disk and the history | 2, 7, 10 |
| document index (`document_*.py`, `knowledge_api.py`) | `Document`, chunks | index, delete, chunk | the file changes while it is read; failure of one file | the document of a settled file is of its version; chunks tile the text | 7 |
| retrieval and citations (`read_tools.py`, `citation_runtime.py`) | the contexts a run's searches returned | search, bind citations, give or refuse an answer | documents change between search and answer | an answer rests on what was found | 7 |
| V1 desktop application (`src/core`, `src/gui`) | files, notifications, open dialogs, history of moves | drop, notice, move, collide, roll back, undo | dialogs nest their event loops; other programs touch the files; ties and nested folders among the candidates | no file is lost; the history names the place; no folder is taken over one as good | 8 |
| operation plans (`operation_plan.py`, `operation_preview.py`, `services.py`, `proposal_tools.py`) | the plan's items | propose, edit, validate | items that depend on each other; what changed since | a valid plan runs through and can be undone | 9 |
| paths (`path_policy.py`, `filesystem_adapter.py`, `workspace_scanner.py`, `src/core/folder_scanner.py`) | none | authorise a path, scan | symbolic links, loops; three places that decide alike | they tell the same files apart | 10 |
| workspace policy (`services.py`, `repositories.py`) | `Workspace`, `WorkspacePolicy` and its revision, audit events | create, update, snapshot, validate | concurrent updates; stale snapshots | no update is lost; nothing is executed under another policy than the one planned for | 11 |
| tools (`read_tools.py`, `tool_*.py`) | none of their own | validated reads and proposals | pages of a list that changes | following the pages reaches what stays | 12 |
| startup (`main.py`) | the lifespan hook | recover executions, approvals, jobs, runs | one recovery failing | the service comes up with nothing left half done | 2, 4, 5 |
| model client, MCP server, agent evaluation, database and migrations | | I/O, forwarding, offline measurement, configuration | | | 14 |

Interactions. The API routes call the services synchronously, in a thread pool, each with a
session of its own; jobs and agent runs continue in background threads; all of them meet in the
database, where conditional updates (`compare_and_set_*` in `repositories.py`) are the only
mutual exclusion. An agent run proposes plans through its tools, a plan becomes a workflow that
waits for approval, an approved plan becomes an execution. A scan and an index task are jobs. The
lifespan hook in `main.py` runs alone, before requests are accepted.

Composition. `SafeExecution`, `ApprovalWorkflow` and the modules of sections 4 to 12 meet at
interfaces, not in one state space: each states what it takes from the others as an environment
step (`ScanSync` and `UpdatePolicy` in `SafeExecution`; `ScanFiles`, `UpdateProposalPolicy` in
`PlanProposals`; `FileMoved` in `KnowledgeIndex`), and `PlanRunsThrough` is what the initial
states of `SafeExecution` rest on. `Background` puts the parts of sections 4 to 12 side by side.

## 2. Safe execution

### Modules

| module | content |
|---|---|
| `SafeExecution` | state, actions, specification, fairness and the properties |
| `SafeExecutionInvariants` | the strengthening that makes the safety properties inductive |
| `PlanContract` | the abstract specification: what executing an approved plan promises |
| `SafeExecutionContract` | the refinement mapping from `SafeExecution` to `PlanContract` |
| `SafeExecutionClaims` | statements of the docs, comments and tests that the code does not meet |
| `WorkflowEvents` | the event stream of the execution, built from the rows at each poll |
| `SafeExecutionProofs` | theorems and proofs |
| `MCSafeExecution` | instances for TLC |

### State and steps

An operation plan of `N` items has at most one `OperationExecution`, so the set `Execution`
stands for both. The files of different items are different, hence `disk[e][n]` holds the source
and the target path of item `n`: a content class as the recorded evidence sees it (`original`,
`touched`: other mtime only, `foreign`: other digest), `vacant`, or `nodir` (the parent directory
is missing). `entry` is the side that the planned `FileEntry` names and `others` the sides that
another `FileEntry` row names, which the unique constraint protects.

A thread's local state is what the Python frame keeps between two commits: the remaining items,
the item in hand, the rows it read (`view`, `seen`), the items recovery has found already moved
(`reconcile`). One action is one committed transaction or one visible step on the disk:

| code | actions |
|---|---|
| `execute_safe_operation_plan` | `RequestExecute`, `CreateHistory`, the item loop, `FinishExecution` |
| `retry_failed_operation_execution` | `RequestRetry`, `MarkRetry`, the item loop, `FinishExecution` |
| `_restore_operation_execution` (undo, compensate) | `RequestRestore`, `MarkRestore`, the item loop, `FinishRestore` |
| item loop | `StartItem` / `StartRestoreItem`, `CheckMove` or `RefuseMove` / `RestoreRefused`, `Rename` or `RenameFails`, `CommitMove` / `CommitRestore` or `EvidenceRejected` / `IndexRejected` |
| conditional update that matched no row | `StateChanged` |
| `recover_unfinished_operation_executions` | `Boot`, `RecoverExecution`, `RecoveryUnsafe`, `RecoverUndo`, `RecoveryRefused`, `BootDone` |
| the world | `Crash`, `UserFile`, `UserDirectory`, `UpdatePolicy`, `LockedMove`, `CommitFails`, `RecoveryAbandoned`, `ScanWalk`, `ScanSync` |

### Properties

* `OneDriver`: two threads never drive one execution, and the committed status names the direction.
* `IndexFollowsHistory`: an item row and its `FileEntry` never name different sides.
* `HistoryLocatesFile`: the file of an item that the user left alone is intact at exactly one of
  its two paths, and the row says at which, except while a move is announced.
* `MovesAreAnnounced` (action property): FileNest changes a path only under a committed intent.
* `StatusesAgree`: operation, execution and item statuses tell the same story, with the two
  exceptions its definition names, both due to retries: a summary of rows read before the retry
  (`Outdated`, section 13), and an undo that leaves out an item the retry completed (`ShowsUndo`).
* `KeepsContract`: every behaviour, mapped by `SafeExecutionContract`, is one of `PlanContract`.
* `WorkflowStreamExtends` (action property): the list of events that `events.py` rebuilds at every
  poll keeps the position, and so the id, of each event while an execution runs for the first time
  and until its undo starts; nothing that was sent is retracted later, except what a retry takes
  up again and the summary of what is undone.
* `RequestsEnd`, `ServerReturns`, `InterruptedIsRecovered`: progress.

### Runs

| run | instance | shows |
|---|---|---|
| `concurrent` | 1 plan (quarantine, move), 2 requests, 2 disturbances, 2 crashes; execute, undo, compensate | `OneDriver`, `IndexFollowsHistory`, `HistoryLocatesFile`, `MovesAreAnnounced`, `KeepsContract`; 90 000 states |
| `services` | 1 plan of 2 moves, all four services, attempt up to 2, one target path still listed for a lost file, expiring session | `StatusesAgree` with retries, and the event stream; 131 000 states |
| `restart` | 1 plan of 2 moves, 2 requests, user changes and failing moves and commits, 2 crashes; under `FairSpec` | the three progress properties; 54 000 states |
| `retry_summary`, `blocked_startup`, `quarantine_undo`, `stale_target` | smallest instance that shows it | one claim each is violated, see section 13 |

Bounds. Two items are the smallest plan with a mixed outcome and an order to reverse, two requests
the smallest number that can race, two crashes let the recovery itself be interrupted, and two
disturbances let the environment act both before and after a check. One execution suffices for
safety because executions share nothing but the server's start; `blocked_startup` has two. The
symmetry of the request threads is used in the safety runs only. A disturbance is a user's or a
lock's single step; its bound also makes sure that progress is not merely postponed for ever.

`ExpireOnCommit` is the session's setting: `FALSE` in `database.py`, `TRUE` in the tests. It is
read by the summary of a retry alone. `services` uses `TRUE` so that `StatusesAgree` can be
asked with retries; with `FALSE` it fails, which is the finding `retry_summary`. The theorems
hold for both.

Fairness. A thread in a service function is scheduled until it returns (`WF` of `Step`), a
supervisor starts a process that ended (`Boot`) and the lifespan hook runs through (`Recover`,
`BootDone`). Requests, users, scans, crashes and failures are not fair: nothing depends on them
happening. A server that is up may rest (`Rest`), so that deadlock checking stays on.

### Proofs

`SafeExecutionProofs` proves `TypeCorrect` (`Spec => []TypeOK`) and `DriversExclusive`
(`Spec => []OneDriver`), `IndexCorrect`, `HistoryCorrect`, `InductiveInvariant`, the action
property `MovesAnnounced`, `StatusesCorrect`, the refinement `ContractKept`, `OrderInvariant` and the
action property `WorkflowStreamIsExtended`. They hold for any
sets of executions and threads, any number of items, any bounds, both session settings and any set
of services and disturbances. Assumed: executions are numbered by positive naturals
(`ExecutionAssumption`), a plan has at least one item, `Startup` is not a request, the bounds are
naturals.

The argument goes in six layers, each with the former as lemmas.

1. *Drivers.* `OneDriver` alone is not inductive: nothing in it says why a second thread cannot
   start. `BusyThreads`, `ServerThreads` (requests run on an up server, recovery on a starting
   one) and `MarksFromRest` (a thread marks only from a status in which no thread drives) add it.
   A conditional update that succeeds then shows that nobody else was driving.
2. *Index.* `IndexFollowsHistory` needs only that no item row exists without its execution, and
   that both rows change in one step.
3. *Files.* `HistoryLocatesFile` needs to know what the thread in hand has done: `HandHolds` ties
   the program counter to the place of the file, `LeftHolds` says of items still to be taken that
   recovery's reading of the disk is still true, and `UnsafeIsFailed` confines the doubt to items
   recovery gave up. Only the driver moves the file (layer 1), so these survive other threads;
   a user's change puts the item into `tampered` and releases the promise.
4. *Statuses.* `StatusesCorrect` (`Spec => []StatusesAgree`) rests on `StatusInv`: `ReadHolds` says
   what of the rows a request has read still holds when it marks the execution (before any retry all
   of it, if the status is the one it read; afterwards only that what was completed is), `WorkHolds`
   that the items at work are those the driver has left, so that its count at the end is the rows',
   and `UndoHolds` that an undo has something to undo and a compensation something that failed.
   The attempt to prove it found the second exception above: `compare_and_set` at
   safe_execution.py:1046 compares the status alone, and a retry that completes one of several
   failed items brings `PARTIALLY_COMPLETED` back. The undo then marks only the items it had read as
   completed, and the execution ends `UNDONE` with the item of the retry completed and moved. It
   needs three items in a session that expires, two in the real one. An undo that left out such an
   item and is then interrupted cannot be taken up (safe_execution.py:1600, `UndoIsClear`): recovery
   stops with `INVALID_HISTORY_STATE`, `InDoubt` says so, and the server does not start.
5. *Refinement.* `ContractKept` proves `NoRetry => (Spec => KeepsContract)`, for all executions,
   items, requests and disturbances. `NoRetry` (no `"retry"` among `Operations`) is a condition on
   the services offered, not on the environment: a retry may take up an item that recovery gave up,
   which `PlanContract` does not allow an abandoned item. No route offers a retry; the runs that
   check `KeepsContract` leave it out as well.

`TypeOK` is not asked of a run any more, since `TypeCorrect` proves it for every instance.

6. *Event stream.* `WorkflowStreamIsExtended` proves `Spec => WorkflowStreamExtends`. Nothing in the
   statuses says that items are settled in plan order, so `OrderInv` is added and proved inductive
   (`OrderInvariant`): what a thread has in hand comes before all it has left (`HandFirst`), and what
   the first attempt has reported is a beginning of the plan (`ReportsBegin`). `NextMoves` reduces
   every step of every actor to one of ten ways the rows of an execution can change (`RowMoves`).
   While an execution runs for the first time both lists of items are then the plan up to some item
   (`Beginnings`, `PlanOrderCounts`), so the later one continues the earlier one. What disappears from
   the list is followed event by event (`EventsGone`), in every attempt.

Only model-checked: progress (liveness under fairness is outside the prover).

### Abstractions

* One workspace, and one `FileEntry` per item besides those in `others`. Path authorisation is the
  subject of section 10, names and digests are data: a path is a side, evidence a content class.
* Reading rows and validating them happens in one step at the start of a service. The conditional
  updates re-check what matters, and they are separate steps.
* A policy update makes every plan's snapshot stale for good, since the snapshot contains the
  revision.
* Answers that change nothing (a repeated execute, which returns the history) are left out.

## 3. Approval workflow

### Modules

| module | content |
|---|---|
| `ApprovalWorkflow` | one workflow from its proposal to the start of its execution: state, actions, specifications |
| `ApprovalContract` | the abstract specification: a plan on offer, replaced any number of times, decided once, and executed only when it is the approved one |
| `ApprovalProperties` | invariants, action and liveness properties, the refinement mapping, the claim of section 13 |
| `ApprovalQueries` | what the query routes show of the workflow, over two stores |
| `ApprovalInvariants` | the inductive invariant `StoresSound`, in named parts |
| `ApprovalProofs` | theorems and proofs |
| `MCApproval` | instances for TLC |

### State and steps

`approval`, `row`, `parent`, `operation` and `audit` are the committed rows of one workflow,
`checkpoint` its `WorkflowState` in the checkpoint file, and `lock` the single write lock of
SQLite, which a request holds from its first flushed statement to its commit or rollback.
`thread[t]` is what a request remembers: the plan and revision it named, the checkpoint its first
read returned (`seen`), the replacement it builds (`new`), and the checkpoint `graph.invoke`
starts from (`loaded`). A plan is its id and its `Targets`, all that an edit changes.

| code | actions |
|---|---|
| `create_waiting_approval_workflow_for_plan` | `CreateFlush`, `CreatePause`, `CreatePublish` |
| the routes' snapshot check | `DecisionRequested`, `EditRequested`, `ExecuteRequested` |
| `_load_waiting_or_applied_workflow`, `_load_workflow_checkpoint` | `Load`, `LoadRefused` |
| `apply_organization_decision` | `ReadDecision`, `TransactDecision`, `TransactLost`, `Invoke`, `Apply` |
| `apply_organization_plan_edit` | `ReadEdit`, `InsertNew` / `InsertStaged` / `InsertFound`, `Invoke`, `Apply`, `TransactEdit` |
| `_transition_approval_request` | one commit: `TransactDecision`, `TransactEdit`; its lost update: `TransactLost` |
| `_ready_workflow_response`, `require_approved_operation_plan`, the first commit of the execution | `Execute` |
| early returns and exceptions | `ReadDecisionRefused`, `ReadEditRefused`, `InsertRefused`, `ApplyRefused`, `ExecuteRefused`, `LockTimeout` |
| failures | `Fault` (a statement, a commit or an invocation), `Crash` |

### Properties

* `CheckpointFollowsDecision`: a checkpoint that is ready, failed or cancelled is about the very
  plan the committed decision is about, and of its kind.
* `PendingIsResumable`: a waiting approval has a waiting checkpoint, for its plan or for a staged
  replacement without a row. This is what `scan_waiting_approval_tasks` needs to hand the task
  back; a staged replacement it reports as an issue, which repeating the edit resolves.
* `TablesAgree`: one version is live and carries the approval's status, the others are
  superseded, the operation points at it.
* `AuditExplainsApproval`: the events form a chain along the parents of the plans that ends in
  the approval, and nothing follows a decision.
* `NamedRevisionHolds` (action property): the revision a request named still holds at its commit,
  although it was compared before anything was read.
* `KeepsApprovalContract`: the requests on two stores implement `ApprovalContract`.
* `PagesAreUsable`: a page that shows a pending approval as available shows a plan and a revision
  that can be decided; one shown as blocked has a staged edit in its checkpoint; list and details
  say the same, every version has its page until the execution starts, and the approval's event
  stream begins with the proposal and ends in what the approval says.
* `DecisionReachesCheckpoint`, `EditReachesApproval`: repeated requests bring the stores together.

### Runs

| run | instance | shows |
|---|---|---|
| `decisions` | 3 plans of 2 targets, 2 clients, 1 failure; symmetric clients and equal plans | the invariants, the pages, `NamedRevisionHolds` and the refinement; 640 000 states |
| `repeats` | 2 plans of one target, 2 clients, 1 failure; `FairSpec`, no symmetry | the two liveness properties; 186 000 states |
| `wedged` | 2 plans, no failure; `FairSpec` | a claim is violated, see section 13 |

Bounds. Three plans are a proposal, its replacement, and one more edit that races or repeats with
other targets; two clients are the smallest number that can race, and they come back with any
number of further requests. One failure interrupts each step of each request; several crashes are
covered by the theorems, which hold for any number. The plans are the only counter: each edit
uses a fresh one. A creation that fails leaves nothing behind that a client could name, so the
system may really stop there, and the three configurations switch deadlock checking off.

Fairness. A request is served until it returns (`WF` of `Step`). The stores can only be brought
together by a client that repeats its request (`organization_decisions.py` has no background
task), so `FairSpec` assumes that clients do, again and again as long as the two differ: `SF` of
`RepeatDecision` and `RepeatEdit`, strong because another client may hold the turn. It also
assumes that the workspace policy keeps allowing proposals.

### Proofs

`ApprovalProofs` proves, for any plans, targets, clients and number of failures,
`ApprovalTypeCorrect` (`Spec => []TypeOK`), `StoresCorrect` (`Spec => []StoresSound`), and from it
`CheckpointNeverAhead`, `PendingStaysResumable`, `TablesAlwaysAgree`, `AuditAlwaysExplains` and
`NamedRevisionKept`, which state the invariants and the action property of the runs, the
refinement `ApprovalImplementsContract`, and `PagesStayUsable` about the query pages. Assumed:
`None` is neither a plan nor a client, nor a status a list is filtered by, and `Targets` is a
function on the plans.

None of the invariants is inductive alone: they speak of the stores, and what keeps the stores
together is what requests know in between. `StoresSound` says it.

1. `Base` is the revision both stores agree on: the operation counts the edits, then the decision
   and the start; the checkpoint counts the same edits, then the decision.
2. `Sound`: the checkpoint is `Aligned` with the approval (same plan, waiting, at `Base`),
   `Answered` (one revision later, in the decision's status), or `StagedAhead` (one revision
   later, waiting, for a plan that has no row).
3. `SeenSound`: what a request saw of the approval's plan was at `Base`, of an earlier plan at an
   earlier revision. So an event that still applies (`EventApplies`) finds an aligned checkpoint;
   this is `LoadedAligned`, on which `ApplyStep` rests.
4. `DecisionSound`, `EditSound`: a decision invokes the graph only after its own outcome is
   committed; an edit stages its replacement only under the write lock, which keeps every other
   commit out until it has committed or rolled back.
5. `BeforePublication`: until the approval row is committed, its creator is alone.

There is one lemma for each kind of step. `CheckpointStep` and `QuietStep` carry what other
requests rely on across steps that change the checkpoint, or no store, so that each lemma is only
about the request that moves.

The audit trail is a second, smaller induction (`Trail`): every version it names has a row, so an
edit, whose version has none (`ReplacementIsNew`), cannot overwrite the parent of an earlier event.
The refinement needs the same fact: the replacement was never on offer.

`PagesStayUsable` takes a third one, `TrailNamesAll`: each version that was superseded is named by an
edit in the trail, the trail begins with the proposal, and an event's status is its action's. So a
superseded version has its page as long as no execution is compared with it (`VersionsShown`), and
the event stream begins and ends right for any number of edits (`StreamTells`). That a pending
approval can be decided as shown follows from the agreement of the tables and from
`PendingIsResumable`, that a decision both stores have recorded is shown from
`CheckpointFollowsDecision`.

Only model-checked: the liveness properties, which are outside the prover's reach. The type invariant, which `ApprovalTypeCorrect` proves, is not asked of a run.

### Abstractions

* LangGraph is outside `src/`: an invocation loads the checkpoint, applies the node and saves, and
  nothing excludes another connection in between. A failed invocation may leave its input, which
  holds the loaded workflow, as the newest checkpoint (`Leftover`).
* Building a plan (section 9) either succeeds with a fresh id or is refused. Sources, policies, expiry and the
  two validations are refusals (`InsertRefused`, `ApplyRefused`, `ReadEditRefused`).
* The execution after its first commit belongs to section 2.
* A request names a plan that has a row: no response shows another.

## 4. Jobs

`JobSystem` is the pure state machine of `job_system.py`: a job with the history of its attempts,
which events a state accepts (`Accepts`, the rules and the validators the next state is built
through) and what they make of it (`Transition`). `JobRunner` is `SingleProcessJobRunner` over the
store: `store[j]` is what is committed, `memory[j]` the record of the process with the job's cancel
event, `queue` and `worker` its executor.

| code | actions |
|---|---|
| `submit`, the routes of scan and index | `SubmitNew`, `SubmitPersisted` |
| `cancel`, `retry` | `Cancel`, `Retry` |
| `_run_attempt`, `_finish_attempt` | `StartAttempt`, `TaskEnds`, `FinishAttempt`; the context's `TaskProgress`, `ObserveCancel` |
| `open`, `recover_persisted_jobs` | `Start`, then for each job in the order of its creation (`Foremost`) `RecoverJob`: `Judge`, `SettleStep`, `Enqueue`; `RecoveryDone` |
| shutdown, end of the process | `Shutdown`, `Exit`, `Crash` |

Each save may fail (`SaveFails`) or be refused by the state machine (`Refused`). `JobContract` is
the abstract specification: a bounded number of tries, one after the other, and only a failure is
tried again. The service's own handlers (`main.py:255-291`) never report progress, look at the
cancellation or allow a retry: `TaskProgress`, `ObserveCancel` and retryable failures are the
runner's interface as its tests use it. A failing `executor.submit` (503) is not modelled.

* `RecordFollowsRow`: one thread and one place in the queue per job, and a record differs from its
  row only after a failed save.
* `NothingStranded`: while requests are served an unfinished job is queued or running, except after
  a failed save, or when a retried attempt sees the cancel event of the attempt before it.
* `KeepsJobContract`: rows implement `JobContract`, and their history is append-only.
* `JobsEnd`: accepted jobs end, while the process lives and again when it starts.

Fairness: `WF` of the worker thread (`Work`) and of the startup's recovery (`Recover`). Nothing is
assumed of clients, of restarts, or of the retry of a failed save.

`JobProofs` proves, for any jobs, attempt limits, budgets of failures and starts,
`JobTypesCorrect` (`JobSpec => []JobTypeOK`), `RecordsFollowRows`, `NothingIsStranded` and the
refinement `JobContractKept`, from `JobInvariant` (`JobSpec => []JobInv`). Assumed: `NoJob` is no
job, no row and no record, and every job may be attempted at least once. The argument of
`JobInvariants`:

1. `Sound`: a row or record satisfies the rules `JobState` validates, and one that waits has an
   attempt left. Lemmas about `Transition` say of each event what it keeps of them; the induction
   over the steps then never looks into an attempt history again.
2. `RecordHolds`: a record is the row or an older revision of it, and is the row unless a save has
   failed in this process. So the conditional update of `save_transition` is refused only after a
   failure, and equal revisions mean equal states, which is what makes the comparison safe.
3. `WorkHolds`, and the work items: the worker's attempt is the last one of an active record, a
   queued record waits or was cancelled, and nothing is queued twice (`ProcessInv`). That a second
   work item is impossible needs `Queued`'s record to be `pending` already when `retry` asks for
   `failed`.
4. `InRecovery`: recovery and memory exclude each other, so that recovery, which works on rows
   without records, cannot make a record stale.
5. The last conjunct of `JobHolds` is `NothingStranded` with the reason a recovery still under way
   adds. It needs, of the cancel event, that outside a failed save it is set on a waiting or running
   record only if it is left from an earlier attempt (`RecordHolds`).

`JobsEnd` is liveness and stays with TLC.

## 5. Agent runs and their event stream

`AgentRuns` is one run: the routes of `agent_api.py`, the background workers (`driver`), the
events that ask them to stop (`registry`), the loop with its retries and limits, and the startup.

| code | actions |
|---|---|
| submit, cancel, the stream's end | `SubmitRun`, `CancelRun`, `StreamSeesEnd` |
| resume: its checks, then the queueing | `ResumeChecked`, `ResumeQueued` |
| `start_pending_run`, `start_step` and the recorder's commits | `ClaimRun`, `NewStep`, `ReopenStep`, `KeepStep`, `StepRefused`, `PromoteStep` |
| the loop | `Interrupted`, `Ask`, `Answer`, `RequestFails`, `CallTool`, `ToolDone`, `NextTurn`, `Complete` |
| the end of a drive | `RecordResult`, `FinishRun`, `MarkFailed`, `RemoveEvent`; an exception: `Raise` |
| the process | `StartServer`, `StopServer` |

`AgentRunContract` is what the client was promised: a run ends in one status, a completed one is
never taken up again, no turn is lost.

* `OneDriverHears`: one thread drives, it drives an active run, and the registered event is its own,
  so that an accepted cancellation reaches the loop.
* `StepsFollowTurns`: what recovery looks for is there whenever a run can be resumed.
* `KeepsRunContract` (refinement) and `RunEnds` (under `WF` of each worker's `Drive`).
* `TimelineExtends`: the event list of the run only grows at its end, until the run is resumed.

`AgentRunProofs` proves, for any workers, requesters and bounds on turns, retries, tool calls,
resumptions and failures, `RunTypesCorrect` (`RunSpec => []RunTypeOK`), `OneWorkerDrives`
(`OneDriverHears`), `StepsKeepUp` (`StepsFollowTurns`) and the refinement `ClientPromiseKept`
(`KeepsRunContract`), from `RunInvariant` (`RunSpec => []RunInv`). Assumed: `NoDriver` is no worker,
`max_steps` is at least one, and the budgets are naturals. The invariant (`AgentRunInvariants`) has
three parts. `PlaceHolds` says where a worker may be: the row is active, from the claim on the worker
knows its turns, it asks the model with the step of the next turn open and calls tools with a step
for each turn; this is what makes `FinishRun`, which overwrites the turns with the worker's own
count, harmless. `DriveHolds` adds that it is alone and that no other event is registered: a worker is
scheduled only from a status that is not active, which `queue_resume`'s conditional update checks
again. `StepsInv` is `StepsFollowTurns` at all times, not only when the run has ended: a step beyond
the turns is open or was closed without a response. `ServerInv` ties the process to it: when it is
down nothing but rows is left. Liveness (`RunEnds`) stays with TLC.

`TimelineIsExtended` proves the action property `TimelineExtends` from the same invariant. The list is
joined from the events of each call (`FlattenMore`: one part more comes at the end), so a new call adds
its events behind those of the former calls, and `finish_tool_call`, which marks the last call of the
list, completes only the events at its end. Both are steps of a worker that drives the run, whose run is
active by `PlaceHolds`, so that no ending stands behind the calls; every other step leaves the calls and
changes the ending of an active run only, or resumes an ended one.

The run `resume` (`MCAgents`: one resumption, one interruption) violates `ResumableRunsResume`,
see section 13.

## 6. Records of a run

`AgentRecords` looks inside a drive: the run's context, its step rows with their message summaries,
model runs with usage and latency, and tool calls, which `SqlAlchemyAgentRunRecorder` commits one
after the other. `WorkerLost` may come between any two of them; `ResumeRecords`, `TakeUp` go on
from what is there. A message is its kind and a number, a summary keeps only the number.
`cancelled` stands for `timed_out` too, which the recorder treats alike.

`RecordsExplainRun`: recovery finds nothing wrong with the evidence wherever a worker was lost, and
every turn that counts has its model run; the context a resumption continues is part of the
timeline, in its order; the run's usage is what the model runs of this drive say; an answer rests
on a tool result that the timeline shows before it.

`AgentRunProofs` proves `RecordsExplain` for every `TurnLimit`, `CallLimit` and `RecordBudgets`, from
`NoUsageAssumption` alone (an unreported usage is not a number). The invariant `RecordInv` of
`AgentRunInvariants` has a part for each thing that is in two places. `RowsInv`: there is a step row
for every turn of the run and at most one more, its summaries are numbered from 0 without a gap and
none is of a message not yet made. `InHandInv`: the step in hand is the next turn, or the last one
once its response is kept. `KnownInv`: the loop's context is in the timeline, but for its last
message between the commit that made it and the commit of its summary; it holds while a worker
drives the run and says nothing of the lost ones, whose context is gone with them. `UsageInv`: the
accumulator is ahead of the model runs of the drive by the usage in hand. A step that only writes
rows keeps the places of all summaries (`TimelineStays`) or adds one at the end of the last step
(`PlacesGain`), and being in the timeline survives both (`StillInTimeline`, `InLongerTimeline`). What
sums up a list of model runs is a recursive function; that it exists and grows by each new model
run is proved by least counterexample (`LeastNumber`, `SumsExist`, `TokensAreSums`).

## 7. Document index, chunks and citations

`KnowledgeIndex` is the index of a workspace of two paths: the tasks `scan_workspace` (`StartScan`,
`Look`, `LookFails`, `SyncIndex`) and `index_workspace_documents` (`StartIndex`, `SkipExcluded`,
`ReadText`, `ReadVersion`, `IngestFails`, `CommitIndex`, `CommitFails`, `TaskLost`), the user's and FileNest's
own changes (`FileChanges`, `FileMoved`), `DeleteDocument`, and the agent's `Search` and
`GiveAnswer`. A file is read twice, for its text and for its hash, so text and version are two
fields. Which files the policy or a link excludes is section 10; here any file may be excluded at
any look, and the walk (`LookFails`), the task (`SkipExcluded`) and the search leave it out. `DocumentChunks` is `chunk_document` as a function of a text, which is the lengths of its
lines and the intervals of its pages.

* `IndexedIsCurrent`: a file that was listed when a task indexed the workspace, that the task did
  not find excluded and that nobody has touched since it began has a document of exactly its content.
* `ScanKeepsIdentity`: a scan that succeeds lists each file left alone under the id it had, and
  unlists what is gone.
* `AnswersAreGrounded`: an answer that is given rests on documents its searches returned and the
  index still holds unchanged, and its sources show all of them as they were found.
* `ChunksTileText`: for every text up to the bounds no chunk is empty or too long, nothing is left
  out or told twice, and lines and pages are those the chunk overlaps.

`KnowledgeProofs` proves, for any number of paths, any texts and any budgets of tasks, changes,
deletions, searches and failures, `IndexTypesCorrect`, `IndexTellsTheTruth`
(`KnowledgeSpec => []IndexedIsCurrent`), `ScansKeepIdentity` and `AnswersRestOnDocuments`
(`AnswersAreGrounded`), from `KnowledgeInvariant` (`KnowledgeSpec => []KnowledgeInv`). The argument
of `KnowledgeInvariants`:

1. `NothingTwice`: the primary keys and the uniqueness of paths, which sqlite and the models give,
   survive a scan that gives new ids (`SyncedEntries`) and a move.
2. `TaskInv` says of a task that is under way what it has done for every path that nobody has touched
   since it began: the walk has seen the path exactly if there is a file, or it still waits
   (`WalkInv`); the index task has a document of its present content in the open transaction or in
   the index, or it still waits (`IndexingInv`). When the task commits nothing waits, which is
   `IndexedIsCurrent` for all paths it covered; a change of a path, FileNest's own move included,
   takes it out of both promises.
3. `HitsHold`: a document with the id of a former hit is the one that was found, because ids are never
   given again. So a citation that is bound at the end of the run binds to what was found.

`ChunksTile` (`ChunksTileText`) holds of every `Document`: a text of any length with any lines, any
pages and any `max_chars`. What is filled after n lines (`FillInv`) is a list of chunks that tile
the text up to the end of a line: up to the n-th, or, while a chunk is open, up to where that one
begins, and the open chunk is a chunk already, only not closed. One more line keeps this
(`OneLineMore`), in each of the three branches of the loop; that the segments of a long line tile it
is `SegmentsTile`. `EndOfLine` and `filled` are recursive functions, which exist because each value is
made from the one before (`StepByStep`); the number of lines for which `FillInv` fails would have a
least member, which is the induction. Of the pages the proof uses only that they begin and end with
the text: then no chunk is without pages, even one inside a blank line between two of them.

## 8. Desktop application

`DesktopMoves` is the one thread of the V1 program with its stack of open dialogs, each of which
runs an event loop in which other files are processed: `Drop`, `Notice`, `Dismiss`, `ProcessDrop`,
`Classify`, `Choose`, `Resolve`, `CheckTarget`, `Rename`, `MoveFails`, `Undo`, `Rollback`, and other
programs (`Appears`, `Vanishes`). The folder a file goes to is any folder.

`FilesAreKept`: no file is lost but one the user chose to overwrite or removed, or one that came to
the target between the last check and the move; and the record that moved a file last names the place
where it is (`HistoryNamesPlace`), which undo and rollback rely on.

`FolderChoice` has how that folder is chosen, as operators on the scanned folders and their scores:
`BestMatches`, `HasClearWinner`, the families of nested folders (`FamilyFirst`, `FamilyTree`), the
decision of `_process_file` (`Decided`) and what the windows show (`CandidateRows`, `TreeNodes`). A
score is any of a set around the limits 55, 90 and 95.

`ChoiceFollowsScores`: no file is moved without a question while another folder scores as much or the
folder is listed twice, unless `mid_range_auto` is on; a window keeps nothing better than what it
shows from the user, except a folder below one that is no candidate; only a file that no folder
resembles, or one with a short name, is placed by hand.

`DesktopProofs` proves `FilesStayKept` (`DesktopSpec => FilesAreKept`), for any folders, files,
lengths of the history and budgets, from `DesktopInvariant` (`DesktopSpec => []DesktopInv`). Assumed:
the directories below a root have a parent, the history holds at least one record, and a disk at the
start has finitely many files, each at one place. What `FilesAreKept` says of a step rests on three
parts of the invariant (`DesktopInvariants`). `StackSound`: of all open dialogs only the innermost
moves, the others wait; undo and rollback start only when no dialog is open, so that nothing can
change the list of records below them and the record they hold still names the file they move.
`TargetSound`: what is at the target of a move that is about to happen came there after
`handle_collision` looked, because the place was free then (`AlternativeIsFree`: of one counter more
than there are files one is free) or emptied. `RecordsSound`: no two records have one id and a new
one is above all there are (`NextIdIsNew`), so that a file has at most one record that moved it last.
How a folder is chosen (`ChoiceFollowsScores`) is a statement about every scoring up to the bounds and
rests on recursive families of folders; it stays with TLC.

## 9. Operation plans

`PlanProposals` is one workspace and its latest plan on the way from its proposal to its undo: the
three proposal tools (`ProposeMove`, `ProposeRename`, `ProposeQuarantine`), `EditPlan`, the
validation (`StartPlan`), the items in plan order (`ExecuteItem`) and in reverse (`UndoPlan`,
`RestoreItem`), an item that cannot move when its turn comes (`ItemConflicts`), and between the
requests the user, scans, policy updates and expiry. While items move nothing else touches the
files: that is section 2.

Directories may be reached through links. `DirAt` gives for each path of a directory the one it
reaches; the disk (`stored`, `folders`) knows places (`PlaceOf`), while plan and index keep paths as
they are written, as operation_plan.py:143, services.py:1152 and the `FileEntry` of a moved file do,
and a scan finds each file at its place only. So a plan may have two targets, or two files, that
differ by a link and are the same: it passes its validation, and its second item fails
(`ItemConflicts`).

`PlansHold`: the items of a plan that passes its validation do not stand in each other's way, each
passes the mover's check when its turn comes, with its row as planned, and an undo leaves disk and
index as they were, unless a link makes two of its paths the same (`Apart`); an edit plans for all
files again. In `background` one of the four directories is a link to another. Not modelled: how an
item's content fields are checked one by one (a content is one value), links of files (which lead two
rows to one file as links of directories do), file systems that ignore letter case, the race of
two requests on one plan, which is section 2.

A row that cannot be recorded after its file has moved (`Recordable`: the row has changed, or another
row still lists the target) leaves the plan `stuck`, as the findings `stale_target` and
`quarantine_undo` of section 13 do. The undo looks at the files only, so that after a scan it may end
there too; `PlansHold` promises a clean undo when nothing has happened since the start.

`PlanProofs` proves `PlansCarryThrough` (`ProposalSpec => PlansHold`), for any directories, names,
files and budgets, from `PlanInvariant` (`ProposalSpec => []PlanInv`). Assumed: the quarantine is no
directory of the workspace, a link leads to a directory that is none (`LinksAssumption`), and the
files at the start have places in the workspace. `PlansHold` is not inductive: that the next item can be moved says nothing of the one after it. `AsCarriedOut`
(`PlanInvariants`) compares disk and index with those at the start, `before`: they are the same
except for the items carried out so far, which have moved. `Feasible` is what the validation found
out about the start, for all items at once. Both together give `PlanRunsThrough`, because targets
were free at the start and are pairwise different (`WellFormed`), sources were listed, each path
once, and different paths are different places (`Apart`): so no item's target is another's source or target (`ItemsAreApart`). `OneMoreMoved` and
`OneMoreRestored` show that a step in either direction keeps the comparison. That a path is listed
once (`PlanShape`) is needed for the undo to find the way free in the index, too. For `EditKeepsPlan`,
a move keeps the name of its file (`ProposalInv`).

## 10. Paths and the scan

`WorkspacePaths` has the path policy, the adapter and the scan as operators on trees with symbolic
links. `PathsAgree`: a path the adapter has resolved stays authorised under its own name, as the
movers rely on; the scan lists only files the adapter reads, each in the directory it really is in,
so that a loop of links gives no file two paths; and it lists every plain file the adapter reads.

`KnowledgeProofs` proves `PathsStayAgreed` (`PathsAgree`) for every tree, policy, depth of a scan and
bound on the links that are followed. Assumed (`SiteAssumption`): what is above an entry is a
directory, a link leads to a path or outside, and `..` is no name. The argument is what a resolution
has done after n steps (`WayInv`): the part that is resolved has no link on it, and `..` comes only
from a link that leads outside. So what it ends in is `Clean`, and a clean path resolves to itself
(`FollowAlong`), within the bound too, because a step adds one name at most. Directories above a clean
path are clean and are refused or ignored only if the path is (`AboveIs`); so the scanner goes down
to each plain file the adapter reads (`PlainIsScanned`), and the folders it keeps are resolved
(`FoldersAre`). A directory is `Entered` from the one above, level by level: as sets these are the
folders the recursion of `_scan_recursive` collects.

## 11. Workspace policies

`WorkspacePolicies` has several requests (`clerk`) over one database with one writer: creation of a
workspace (`RequestWorkspace`, `InsertWorkspace`), a policy update with its audit event
(`ReadForUpdate`, `SetPolicy`, `CommitUpdate`, `AuditFails`), a plan that is built, recorded,
checked, validated and moved (`BuildPlan`, `SnapshotPolicy`, which reads the policy a second time,
`RecordPlan`, `CheckPlan`, `ValidatePlan`, `MovePlan`), and a policy row that is damaged (`Damaged`).

`PoliciesAccounted`: one directory is one workspace, however it is named and whoever asks at once;
the trail tells every update once, in order, and what it adds and does not remove later are the
rules in force; a plan begins to be executed only if no update came between its snapshot and the check, and
moves nothing its policy forbids.

`update_workspace_policy` has no route, only tests call it. Links are not retargeted between two
uses of a workspace. A rule stands for the target directory it matches; matching is section 10.

`PolicyProofs` proves `PoliciesStayAccounted` (`PolicySpec => []PoliciesAccounted`), for any
directories, names, requests and budgets, from `PolicyInvariant` (`PolicySpec => []PolicyInv`).
Assumed: the workspaces at the start have roots of their own. `PoliciesAccounted` says nothing of
requests under way, so `PolicyInv` adds what they remember. `UpdateSound`: the policy an update
has read is no newer than the trail, and is the one in force if it has its revision; this is what the
conditional update compares, and from it to the commit the lock keeps everyone else away. `PlanSound`:
what is executed is executed under the plan's own snapshot. `SnapshotsDated`: a snapshot has the
revision the trail had reached when it was taken, so the comparison of revisions before the execution is one
of policies. `ToldStep` is the induction step of what a trail tells: the rules that were added and not
removed since, which is what a replay from the default ends in.

## 12. Read tools

`ReadPages` follows the pages of `list_directory` (a cursor; the page is chosen, then its entries
are read) and of `search_files` (page numbers) while entries appear and vanish and the policy
changes. `PagesReachStaying`: the caller of `list_directory` sees no entry twice and in the end all
that were there the whole time, up to names that differ in letter case only; the caller of
`search_files` does unless something vanished.

`KnowledgeProofs` proves `PagesReach` for any entries, page size and budgets, from `PageAssumption`
(a page has room), `EntryAssumption` (names are ordered by their case-folded form, which is never
the empty one of a first cursor, then by case) and `ReadBudgetAssumption` (a directory is finite).
`ReadInv` says what a caller knows between two pages. Of a directory: what it has seen climbs and is
not above the cursor, and each entry that stays has been seen, up to letter case, if it is not above
the cursor; while a page is read, an entry above the cursor is on it, or more follows and the whole
page is before it (`ChosenInv`). A cursor by number would not do: that is the search, where the
invariant counts. An entry with fewer than `cursor * PageSize` others before it (`Earlier`) has been
seen; additions only raise that count, while anything lost lowers it, which is why `SearchWalk` says
nothing of that. That a finite set of entries can be listed in order (`OrderExists`), that the
list is what `Sorted` chooses and has all of them (`SortedIs`), and that a place in it counts what is
before (`PlaceCounts`) are proved by least counterexample and the library's facts on finite sets.

### The run `background`

The parts of sections 4 to 12 share no state, so one run checks them all: each behaviour gives one
of them its budget, the others rest. 283 000 distinct states.

| part | instances | states |
|---|---|---|
| jobs | one job with a retry, a progress report, 2 failing saves, 2 starts; two jobs, 1 failing save; two jobs, one of them with a retry, 2 starts | 30 000 |
| agent run | 2 workers, 2 requesters, 2 turns, 1 retry, 1 call; 2 resumptions and 2 starts; 1 resumption with an interruption and a fault; 1 with an interruption and 2 starts | 41 000 |
| records | 2 turns, 1 call; 1 resumption, 1 silent model run, and a fault or an interruption | 25 000 |
| document index | 2 paths, 2 texts; 5 tasks and 2 changes; 4 tasks, 1 change, 1 failure; 2 tasks, 1 change, 1 deletion, 1 search | 46 000 |
| chunks | every text up to 5 characters, every limit up to 3 | 306 |
| desktop | 3 folders, 3 files; 2 drops with an undo; 1 drop with an undo, a change and a failure; 1 drop beside a notification with an undo | 37 000 |
| folder choice | every scoring, with 5 scores, of four nested folders, of three beside each other and of two of which one is listed twice; windows of 2 rows | 3 100 |
| plans | 3 directories and a link to one, 2 names, 2 files; proposal, edit, change and scan; two proposals, a change and a policy update; a proposal and 2 edits | 68 000 |
| paths | a tree of nine directories and files with one or two links, each to one of ten places, 6 sets of rules | 660 |
| policies | 2 updates and 1 plan; 2 updates, 1 failure, 1 damage; 2 creations, 1 update | 23 000 |
| pages | pages of 2 over up to 4 entries, two of them alike but for case, a dangling link, 3 changes | 7 600 |

Bounds. A race needs two, and each budget lets the fault that the property is about happen in the
middle of an operation and its repetition come after it: a second start recovers what the first
recovery left, a second resumption what the first resumed, two updates of a policy can lose one. An
operation that is not bounded by a budget ends by itself. Jobs and runs may have all ended,
users may stop, so the system may rest and deadlock checking is off. No symmetry is used, since the
run has liveness properties. `JobsEnd` asks that all accepted jobs have ended at some time, which is
possible because the budgets bound the submissions and the retries.

## 13. Where code and documentation disagree

Runs that TLC finds violated:

* `retry_summary`: `SessionFactory` does not expire rows on commit, so the summary of a retry
  is computed from rows read before it. A retry that completes the last failed item leaves
  the execution `PARTIALLY_COMPLETED`. The tests use sessions that expire.
* `blocked_startup`: an exception for one execution ends the recovery loop and the process.
* `quarantine_undo`: a scan deletes the `FileEntry` of a quarantined file; its undo moves the
  file back, cannot record it, and stays `UNDOING`.
* `stale_target`: if the index still lists a lost file at the target path, the row of the moved
  file cannot be updated, on execution and on each recovery.
* `wedged`: an edit stages its replacement in the checkpoint before the conditional update of the
  approval can refuse it. If another request approves the plan in between, the update fails and
  its transaction rolls back, the checkpoint keeps the replacement, and every repetition of the
  approval ends in `PLAN_MISMATCH`: the workflow is approved and never ready. The docstring of
  `apply_organization_decision` promises that a decision may be retried. No failure is needed.
* `resume`: a run that was cancelled or timed out before the model answered may be resumed
  (README_V2.md:87), and its new drive is refused by the step the former one closed.

Seen while modelling, and not given a run. The properties of the modules are stated so that they
hold of the code as it is, with these as named exceptions or left outside.

Execution and approval
* The mover's last look at the target and the rename are two steps, so a file created in between is
  replaced (`Rename`). The precheck of an undo does not look at the directory of the original path,
  so an undo may be refused after it was marked (`RestoreRefused`). An interrupted undo of a partly
  completed execution is recovered as a compensation (`RestoredStatus`).
* The execute route compares plan and revision before it reloads the workflow
  (organization_api.py:1233), so an edit and its approval in between start a plan the request did
  not name. A single crash between a staged checkpoint and its commit leaves the same edit as the
  only request that can succeed.
* Superseded plan versions answer 409 once the execution has started (organization_api.py:568,
  against the docstring at :1075).
* A policy update during an execution makes recovery, undo and retry of its plan impossible
  (safe_execution.py:239).
* The workflow's event stream renumbers its events on undo and retry, the agent's on resumption,
  although README_V2.md:159 lets clients resume from the last id.

Jobs
* Cancelling a job that waits for a retry ends in a validation error (job_system.py:298-300;
  README_V2.md:150). A job's cancel event is kept across a retry, and the retried attempt's
  cancellation is refused (job_system.py:499): the job is stranded. A record whose start could not
  be saved is not queued again on resubmission. A clock that steps back ends the recovery
  (job_system.py:385).
* Without an `Idempotency-Key` a workspace is scanned and indexed once for ever (main.py:439-446,
  job_runner.py:224): the minimal page sends none.

Agent runs
* A resumed run's cancel event may be removed by the old worker's `finally` (agent_api.py:1229), and
  a cancellation then answers 409. Runs that were pending at the end of a process are never run,
  resumed or cancelled (agent_recovery.py:29-35). An exception of the recovery's recorder escapes the
  lifespan hook (main.py:109-121).
* A crash between `record_result` and `finish_run` leaves a failed run with an answer; one between a
  proposal tool and its checkpoint leaves a proposal the resumed run does not know; a resumed context
  may hold unanswered tool calls.
* A resumed run's totals cover its last drive while its turns count all (agent_loop.py:106 against
  agent_observability.py:83); `context_turn_count_mismatch` cannot occur (agent_recovery.py:95).

Index and answers
* After FileNest has moved a file, or SQLite has reused a row's id, indexing skips the version it
  knows (document_indexer.py:93) while the search wants the entry's path: the file is not found.
* Text and hash are two reads of the file (document_parser.py:349-353): an edit in between stores the
  old text under the new version for good. A failing commit of an index task blames the last file,
  its record is never cleared, and one bad file fails the task.
* `bind_citations` can never report `source_version_mismatch`: superseded versions stay citable. Two
  searches that return one chunk make a valid answer refused as `duplicate_citation_id`.
* A directory that cannot be read during a scan drops its file entries (services.py:1391).

Plans, paths and pages
* Editing a plan of renames or quarantines turns it into moves; `propose_quarantine` does not call
  `validate_operation_plan`; the root cannot be the target of a move. A plan's policy snapshot is
  read after the plan was built (organization_planning.py:371); the check at execution catches it.
* A damaged policy cannot be repaired by `update_workspace_policy`, and the audit trail tells of
  rules, not of the three switches.
* A linked file is listed under the link's path, and moving it moves the link's target. Targets are
  compared as they are written (operation_plan.py:143, services.py:1152), so that a plan with the
  same target under two paths is accepted and its second item fails. The folder
  scanner reads a rule like `.tmp` as a suffix of directory names, the adapter does not; depth 0
  returns nothing, against `scan_directory`'s docstring (folder_scanner.py:97, :163).
* A dangling link makes its directory's page fail for ever (read_tools.py:562), entries that differ
  in letter case only may be skipped at the end of a page (:526), and the numbered pages of
  `search_files` skip rows after a deletion.

Desktop
* An undo keeps the `_1` of a renamed file; the undo of an older record moves whatever is there;
  overwriting unlinks the target before the move, and dropping a file onto its own folder with
  overwrite unlinks the file itself.
* The tree of nested candidates has no node for a folder below one that is no candidate, even if it
  scores best (matcher.py:599, dialogs.py:220); a nested folder with children of its own also appears
  a second time, as a root.
* The only candidate is moved without a question whatever it scores (matcher.py:426), against
  README_V1.md:200 ("Strong match (1 candidate ≥ 85)") and the setting that asks for middling scores.
* Of two overlapping roots every common folder is listed twice and never wins. Choosing the row that
  says how many candidates are left out names a directory by that text, and the move creates it
  (dialogs.py:136, file_mover.py:182). `resolve_family` is called by tests only.

## 14. Not modelled

* Scoring of text: `find_similar_folders`, the scores of the V1 matcher, embeddings and vector
  ranking, query construction. They compute a number from strings and keep no state; a model would
  repeat them. Where their outcome matters (which folder, which hits) it is any outcome.
* Text extraction per file format, framing of server-sent events, layouts of responses, wording of
  explanations and risks, logging: conversions no property is about.
* Agent evaluation and its reports (`agent_contract_runner.py`, `agent_evaluation*.py`,
  `evaluation_api.py`, scripts): offline measurement of finished runs.
* MCP server: forwards calls to the tools over standard input and output.
* Model client: HTTP; the loop sees an answer, a retryable or a final error (`Answer`,
  `RequestFails`).
* Database configuration and migrations: the session's `expire_on_commit` is the constant
  `ExpireOnCommit`, SQLite's single writer is in the modules that need it.
* V1's settings, tray, language, layout and the debouncing of its monitor: a file may be noticed at
  any time (`Notice`).
* Listings and plain queries of jobs, documents and workspaces; a reused key with another definition,
  which is refused and changes nothing.

Proved are the theorems of sections 2 to 12. The rest is model-checked only. Induction over numbers,
which the recursive functions of the records, the pages, the chunks and the paths need, is done with
the least number that fails (`LeastNumber`, `CountedOn`), as the library's induction theorems take an
operator. Not proved are:

* liveness (`RequestsEnd`, `ServerReturns`, `InterruptedIsRecovered`, `DecisionReachesCheckpoint`,
  `EditReachesApproval`, `JobsEnd`, `RunEnds`): the prover knows neither fairness nor ENABLED;
* `ChoiceFollowsScores`: the families and trees of `FolderChoice` are recursive operators;
* `TypesOK` in `Background`, which reaches recursive operators; its parts are conjuncts of the
  invariants proved in each section.
