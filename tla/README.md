# Praxis: a TLA+ model of the runtime

Praxis is a local agent harness written in TypeScript: a runtime process
(`apps/runtime`) that drives model conversations, tools, plans and durable
workflows; a terminal client (`apps/cli`) and a client library
(`packages/client`) that talk to it over NDJSON; and the contracts they share
(`packages/core-sdk`, `packages/protocol`).  This directory holds TLA+ modules
translated from that code, the TLC configurations that check them, and TLAPS
proofs of the properties that matter most.  Paths below are relative to the
repository, file names in running text to `apps/runtime/src`.

## 1. Inventory

| Component | State it keeps | Operations that change it | What is hard about it |
|---|---|---|---|
| Workflow authority (`workflow/sqliteWorkflowAuthority.ts`) | SQLite rows for workflows, events, tasks, leases, effect reservations, mailbox, timers, human tasks, profiles | `transact`, `claim`, `heartbeat`, `recoverExpired`, `reserveEffect`, `retryNode`, `resolveUnknown`, mailbox and timers | many workers on one database; crashed workers; leases that expire under a live worker; one recovery transaction for all of them |
| Event reducer (`core-sdk/src/workflow.ts`) | none: a projection is a fold over events | `applyWorkflowEventV1`, `workflowNodeReadinessV1` | legality of long event sequences from different writers |
| Orchestrator (`workflow/workflowOrchestrator.ts`) | none of its own | `start`, `admit*`, `complete`, `markUnknown`, `cancelNodes`, `reconcileWorkflow`, waits, messages | several transactions per operation; early returns; a workflow that ends under a worker |
| Effect broker, worker service, graph scheduler (`workflow/`) | position in a tool call; active claims | reserve, invoke, complete; `pump`, `executeAgentGraph` | the effect happens between two transactions; the same graph driven from two loops |
| Session journals (`session-db/jsonlSessionJournalV3.ts`, `sqliteSessionJournalV3.ts`) | one file of commits per session, projections, catalog, markers and lock files; or three tables | `appendCommit`, `initialize`, `readEntries`, `deepScrub` | a crash between any two writes; partial lines; two processes on one store |
| Storage composition and migration (`session-db/sessionJournalComposition.ts`, `sessionStorageMigration.ts`) | authority marker, two locks, one lease per Runtime | start, recovery of interrupted runs, close, migrate, roll back | processes that meet only in files; what was read before a lock was taken |
| Runtime kernel, agent loop, session service (`framework/`, `loop/`, `session/`) | sessions, runs, steering queues, permission requests | prompt, steer, abort, decide, close, delete, shutdown; the turns of a run | cancellation racing completion at every await; a commit that fails |
| Planner and supervisors (`planner/dag*.ts`, `replanCoordinator.ts`) | plan, steps and attempts in the journal; workers in memory | claim, bind, execute, verify, retry, recover, replan | parallel workers on one journal; recovery of what may have run |
| Workspaces (`planner/*Workspace*.ts`, `localWorkflowAgentWorker.ts`) | worktrees and copies, process-wide locks | isolate, merge, verify, roll back, clean up | the user edits meanwhile; one git command of several fails |
| Review plan (`review-plan/*`) | plan projection, review calls, budgets | items, tools, submission, review, decision, revision | a review replayed after a crash; a tool that ends under a frozen review |
| Subagent host and brokers (`subagent/*`) | admission ledger, cancellation tree, child processes, credential handles | admit, start, bind, steer, cancel, settle; model and tool calls over a channel | a cancel that arrives before the run has a name; retries of a stream |
| Extensions (`extensions/*`, `plugin/*`) | registry, enablement files, published activations, processes | install, remove, enable, disable, activate, call, quarantine | files without a lock; a failure reported for an instance that was replaced |
| Client and connection (`packages/client`, `process/ndjsonProcessConnection.ts`) | pending requests, run channels, cursor | prompt, read, reconnect, replay | events before the answer that names their run; a connection shared by a pump and requests |
| Provider router (`provider-router/providerRouter.ts`) | the health of every provider | `stream`: candidates, attempts, delays, ways out | calls side by side write one health record; a consumer or an abort ends a call at any await |
| Long-term memory (`long-term-memory/memoryService.ts`, `tools.ts`) | notes, projects, exposures, receipts, blocked sessions | search, get, upsert, forget, configure, rebind, inherit | what a session has read is revoked while its run goes on, or while it is being forked |
| Working plan, compaction, tool runtime, artifact store, CLI, evaluation | documents, summaries, files, screen | compare-and-set, formatting, I/O | little that interleaves |

`PROJECT.json` lists every component with its status, and under `hazards` the
places where this code is hardest to test, with the line at which each bites.

How the parts interact: a client starts a prompt; the kernel begins a run in the
session journal and drives it through the agent loop.  The run's tools may
execute a plan (supervisor), keep a strict review plan, start a workflow
(orchestrator and authority) or delegate to child Runtimes (host), whose work
comes back through a worktree or a copy of the workspace.  Plugin processes give
it tools and providers.  Workflow workers reach the database only through the
orchestrator's and the authority's transactions; several Runtimes may share one
authority over HTTP (`remoteWorkflowAuthority.ts`) and one home on disk.

## 2. Modules

| Module | Models |
|---|---|
| `WorkflowTransitions` | the state enumerations and the three transition tables of the reducer |
| `WorkflowGraph` | `workflowNodeReadinessV1`, joins, `workflowSettlement`: pure decisions over a graph |
| `WorkflowAuthority` | the rows of the authority and one action per committed transaction |
| `WorkflowAuthorityProofs` | type correctness, the lease invariant and what follows from it, conflict keys and capacity under late heartbeats; the effect ledger and the graph |
| `SessionLog` | what the commit store contract promises: an abstract log |
| `SessionJournal`, `SessionJournalProofs` | the JSONL journal, one step per disk call; implements `SessionLog`; its proofs |
| `SqliteJournal`, `SqliteJournalProofs` | the SQLite journal, one step per statement; implements `SessionLog`; its proofs |
| `SessionStorage` | the start of a Runtime, its recovery of runs, and the migration between stores |
| `LongTermMemory` | notes, exposures, receipts and permissions, and their use by sessions and forks |
| `SessionStorageProofs` | the proofs about both |
| `RuntimeKernel`, `RuntimeKernelProofs` | a session, its runs, the agent loop and the session service, one step per await; its proofs |
| `PlanExecution` | `DagSupervisorV1` with its scheduler, workers, recovery and revision |
| `GitWorkspace`, `DirectoryWorkspace` | isolation of a writing child and its merge, in Git and in plain directories |
| `ReviewPlan` | the strict review plan, its control service, broker and review coordinator |
| `PlanningProofs` | the proofs about plans in execution, the workspaces and review plans |
| `ChildHost` | admission, start, cancellation and settlement of child Runtimes |
| `CredentialBroker` | the private channel between child and parent, and the credential handle |
| `ProviderRouter` | model calls with retries, fallbacks and circuit breakers |
| `ChildRuntimeProofs` | the proofs about host, channel and router |
| `ExtensionActivation` | installation registry, enablement, activation and supervision of plugin processes |
| `ClientEvents` | the client's pump, channels and reconnection, and the Runtime's replay window |
| `ProcessesProofs` | the proofs about the plugins and the client |
| `MC*` | instances for TLC |

Components that do not share state are instantiated side by side in one MC
module: a variable `part`, chosen at the start, says which of them a behaviour
is about, and the others stand still.  `MCSessionJournal` holds both journals,
`MCSessionStorage` storage and memory, `MCPlanning` plans, workspaces and review
plans, `MCChildRuntime` host, channel and router, `MCProcesses` plugins and
client.

### Correspondence of `WorkflowAuthority`

State: `wf`, `node`, `att` are the projection's workflow, node and attempt
states; `ordinal` the number of attempts of a node; `task`, `readyAt`,
`expires` the `workflow_tasks` row; `lastClaimed` the scheduler-fairness table;
`ledger` the effect reservations; `now` the clock.  `claims` are the lease
tokens that have been handed out and `admission` what `reserveEffect` answered:
both live in the workers' memory.

* *A transaction is one step.*  Every write runs under `BEGIN IMMEDIATE` and is
  rejected if the projection's sequence moved since it was read (the caller then
  reads again), so reading, deciding and writing are one atomic action.
* *An operation that throws writes nothing* and is a disabled action: the
  reducer's transition tables are guards (`NodeMay`, `AttemptMay`,
  `WorkflowMay`).
* *Operations of several transactions are several actions.*  `complete` is
  followed by a reconciliation in transactions of its own (`ScheduleReady`,
  `ResolveJoin`, `Settle`), between which anything may happen.
* *Workers are the most general clients.*  Whoever was handed a claim may use it
  in any order, at any later time or never again; a crash is a worker that never
  acts again.
* *Time.*  `Tick` advances the clock; leases expire by comparison, as in the
  code.  Timestamps are taken inside the transaction except the heartbeat's,
  which the worker stamps: `HeartbeatAge` bounds how old it may be at commit.
* A join policy that counts is its minimum: `any` 1, `quorum` m.  A join of `all`
  (`JoinsAll`) has the readiness of a node without a policy but is resolved by the
  reconciliation like the others, and shields its branches.  Attempts and tasks are in bijection and share a name `<<node, k>>`.

### Correspondence of `SessionJournal`

`log` is what a session's file parses to and `tail` whether its last line is
partial; `bad` are the files with a complete line that does not parse.  A
projection, a catalog entry or a delta is the revision it was made for.  `mark`
is the checksum in `catalog-state.json`, that is, the base it was computed from.
`made` and `acked` are the clients': what a commit was built on, and which
receipts came back.

* *A step is one disk call.*  Writing through a temporary file and a rename is
  atomic (`WriteProjection`, `WriteBase`, `WriteMark`); appending is two steps
  (`BeginLine`, `EndLine`), between which the line is partial.
* *The order of the calls is a table* (`Then`): the table and `Decision`, which
  is the compare-and-set with its duplicate check, are the algorithm of
  `appendCommit`.
* *Hosts and actors.*  A host is a process; its actors are the asynchronous
  operations that interleave in it.  `Crash` ends a host with all its actors:
  their lock files stay as `Orphan`.  `WriteFails` is a call that throws; the
  operation unwinds (`Abort`) and its lock is released.
* *Locks.*  `withLock` sees a stale file and unlinks it in two calls.  A living
  holder is assumed to finish within `STALE_LOCK_MS`; the code does not refresh
  the file nor look at its pid.
* *A client retries* a commit it has no receipt for (`Begin` with a commit that
  was already made), and the repository builds new ones on the projection.

### Correspondence of `SessionStorage`

The files are the state: `marker` (`session-authority.json`), `authority` and
`migration` (the lock files), `lease`, and `home`, the stores in the root
directory.  A store is the set of events committed to it; each Runtime has one
run, so three events tell everything the properties ask.  The other variables
are what a process has read and still uses: `found`, `existing`, `peer`, `todo`
for a Runtime; `existing`, `target`, `staged`, `backup`, `saved` for a migration.

* The two critical sections of a start (`TakeAuthority` up to `WriteMarker` or
  `ReadMarker`, and up to `CreateLease`) are several steps each: the migration
  does not take that lock.
* A `rename` replaces a file and fails on a directory with content, hence
  `MayReplace`.  The rollback swallows its own failures.
* A process lives once and crashes at any step.  Its pid is not reused, the
  authority lock is taken from a dead process in one step, and a living holder
  keeps it no longer than `STALE_LOCK_MS`.

### Correspondence of `SqliteJournal`

`db` are the committed tables, `draft` what the open write transaction sees,
`writer` the holder of SQLite's write lock and `queue` the promise chain
`#writer` of each process.  `BEGIN IMMEDIATE`, every `INSERT`, and `COMMIT` are
steps of their own; a failing statement rolls back, a crash drops the draft.
`readEntries` returns pages in transactions of their own; `deepScrub` is two
reads.  The publication of `ReducingSessionJournalV3` is the last step of an
append.

### Correspondence of `LongTermMemory`

The variables are the tables of the one SQLite file; a transaction is one step,
and so is a request to a model (`Sends`).  A project, like the user, keeps one
note, the revisions of which are what conflicts.  `run`, `manager` and `request`
are what a caller has looked up or sent and still uses after its await: the
project and the mode of a start, those of a management request, and the note and
revision of a write that waits for its approval.  `carries`, `withdrawn` and
`effect` are history the properties ask about: what of the notes is in a
session's messages, how often a permission was taken back, and how often an
operation took effect.  A fork is two steps, `Inherit` and `Copy`, as in
`forkSession`; `overtaken` are the forks that copied what their source read in
between, which `RevokedNotSent` leaves out (section 3), and their forks.

### Correspondence of `ProviderRouter`

A call of `stream` is a generator: `at` is the await it is at, `index` and
`attempt` its loop counters, `cause` is `lastError`, and `output` tells of each
chunk it has yielded which candidate and attempt it came from.  `health` is
shared by the calls, which read it when they take up a candidate (`Pick`) and
write it when an attempt ends; `open` counts the trace records that lack an end.
The consumer may close the generator, an abort may come, and time may pass at
any await.  Provider failures are told apart as `normalizeProviderError` does
for retry, fallback and health.

### Correspondence of `RuntimeKernel`

A Runtime is one JavaScript process: a step is the code between two awaits.
`queue` is the FIFO lock of the session, and a section under it is one step.
`phase` is the position of `startPrompt` and then of `AgentLoop.execute`, `fin`
and `fate` that of `finishRun`; `session` is the object in memory, `life`,
`record` and `stored` are what the journal has.  A provider, a tool or a user
is an answer that may come at any time; a call of the repository may fail.

### Correspondence of `PlanExecution`

Steps, attempts and usage are those of the projection; `sup` and `work` are the
positions of `execute` and of the workers.  A commit is rebuilt on the newest
projection when it loses the comparison, so a commit is one step (or fails, and
its worker throws).  A crash keeps the journal and drops the rest; `resumed` are
the claims `recover` hands to the next `execute`.  `Select`, `Leases` and
`Rescheduled` are loops over the steps in order; each is stated by the equation
that its result solves for every step from those before it, as the set of the
one solution.

### Correspondence of `GitWorkspace` and `DirectoryWorkspace`

A commit is the sequence of those who made the commits up to it, so ancestry is
a prefix.  Each git command is a step that may fail; the lease of the
repository is a FIFO queue whose waiters leave on abort.  In a directory, every
file of a copy-back and of its rollback is a step.  The user, who takes no
lease, edits and commits in between.

### Correspondence of `ReviewPlan`

Each operation of `PlanControlServiceV1` is a step: it commits with a
compare-and-swap and rebuilds its events when it loses.  `review` is walked
through its awaits by an actor, which may crash, be aborted, or be called again
for the same invocation; `calls` is the review call store, `budget` the
reservations in the journal.  `saved` is the decision of a replayed call, which
stands even if its settlement fails.

### Correspondence of `ChildHost` and `CredentialBroker`

`stage` is where worker and host are with a child, `admission` and `ledger` the
admission service, `cancelled`, `told` and `aborting` the way of a cancellation
through the tree, the control and the client.  The channel is two FIFO queues;
`server` and `client` are what the two ends do with a request.  Revocation,
deadline and close may come at any time, also while the start of a call is being
announced (`StartCall`): the first attempt is then still made, as in the code,
and interrupted.  The host has one parent, one generation of children, and
budgets of runs and turns; tokens are counted by the channel's handle only.

### Correspondence of `ExtensionActivation`

A caller is one request in progress; a file is read in one step and written in
a later one, and only writers of `registry.json` hold `registry.lock`.  An
activation is one supervised instance with its process; `current` is what
`#workspaces` publishes; `queue` is the workspace's queue, which
`installationService` does not enter.

### Correspondence of `ClientEvents`

`conn.notes` are the notifications not yet taken, `cursor` the last sequence and
its Runtime, `prompt[p].early` the events that came before the answer naming
their run, `prompt[p].chan` the run's channel.  `Reattach` says whether a new
connection finds the old Runtime (a transport that survives) or a new one (a
process transport).

## 3. What TLC checks

All runs use `CHECK_DEADLOCK FALSE`: workflows, runs and requests end, processes
close and the bounds stop the rest, so the system may stop.

| Run | Instance and why it is enough | Shows |
|---|---|---|
| `leases` | a root and two children sharing a conflict key, one with two attempts, clock 1..3, heartbeats up to one tick old (`HeartbeatAge` 1): a lease can expire, be recovered, and the retry be claimed and expire again, under every operator command, or come back by a late heartbeat beside the lease granted meanwhile; and two workflows with limits 1 and 2 in one capacity group, where a lease can expire unless both nodes of the second are admitted. A workflow that is paused, failed or terminated is not followed to the last tick | a conflict key is shared, and a group exceeds the limit of a workflow that holds a lease in it, only by a late heartbeat that revives a lease within its delay; rows of node, attempt and task agree; no orphan; recovery is never poisoned; a completed workflow is quiet |
| `activities` | what a root admits once it runs: tool activities on one key, with equal and with different inputs, safe and unsafe, one of them retried by recovery; or three agents, a conditional edge and a two-of-three join, one retry; or two of them and a join of all. Pausing, which `leases` explores, is not followed, and a workflow that failed or was terminated not to the last tick | one executor per key, a sound ledger; joins and dependencies stay justified after retries, cancellation, superseding |
| `session_journal` | JSONL: one process, two sessions, two commits, two faults (a crash in the recovery from a crash, a crash after a failed write), and two processes on one session with `deepScrub`; SQLite: two processes, three appends of which two share a key, one read in pages or scrub, one fault | both journals implement `SessionLog`; the JSONL files parse in every state and what lags behind has a marker; the tables agree, a page read is whole, a failed append blocks nobody |
| `session_storage` | three Runtimes, one configured for another store than the others, one migration, one fault: a claim can be disputed, a third process can see the remains of a dead one; and, for the memory, two sessions in one of two directories, one of them possibly a fork of the other, two operation ids, two changes | a migration is alone; one recoverer; claims converge; a finished migration has moved everything; no request carries a revoked note, an operation takes effect once, a project has one home |
| `kernel` | two prompts, which may be one request sent twice, one turn each, two events out of instructions, checkpoints and failing calls; abort, close, resume, delete and shutdown at every await | the end of a run is told once and truly; messages precede it; one run per request; object and journal agree; every run ends |
| `planning` | three steps, one dependent, two in conflict, one repeatable, two attempts each, one event (crash, failed commit, deadline, abort or revision); two writing attempts in one Git workspace with two events, or in one directory with two files and one; a review plan of two items, revised once, two reviews, one fault | dependencies, conflicts, ownership and budget of a plan; a step that is not idempotent runs once; a child's work is never lost and never merged onto what it did not see; a failed copy-back is undone and attempts of one snapshot are safe from each other; a completed plan was earned; each review attempt is paid and sent once; a fence holds; everything started ends |
| `child_runtime` | two children competing for one turn and two slots, one fault; a pair of streams, or a tool call beside a compaction, two provider attempts, one chunk; two routed calls, one with a fallback, one retry, circuits that open after two failures | slots, turns and handles are accounted for; a cancellation reaches the child and is never charged; answers are whole, one at a time, within the budget; a routed answer is of one attempt and circuits are honest; calls, steers and cancellations end |
| `processes` | two plugins, one running, two requests in progress, one fault; two prompts, one read-only request and one lost connection, a channel of one event | registry, supervisor and processes agree; events arrive in order and none is dropped; requests, prompts and reconnections end; processes are stopped |

No lease expires in the graphs of `activities`: what recovery may do to a node is
covered by the other instances, and the graph's own interleavings fill the bound.
`session_journal` is symmetric in the commits of its JSONL instances,
`session_storage` in the two Runtimes that are configured alike, the sessions
and the operation ids of the memory (one exchange serves Runtimes and sessions,
since only one of the two moves in a behaviour); neither checks liveness.  The two journals
are shown to implement `SessionLog` by `JsonlImplementsLog` and
`SqliteImplementsLog`, which state the abstract specification under a refinement
mapping.  With a third session the memory also forks a fork; the run was made
once to that end and found the case that `overtaken` is inherited.

A property whose name ends in `Sound`, `Safe` or `End` is the conjunction of
parts that are stated and commented one by one in the component's module
(`PlanSound` of `DependenciesFirst`, `ConflictKeysExclusive`,
`ChildRunsBounded`, `WorkIsOwned`, `EndIsWhole` and the types, `TablesSound` of
`TablesAgree`, `OncePerKey`, `PagesWhole`, `ToldOnce`, `ChainMoves` and the
types, for example).
Every property of a passing run has a mutant: an operator named in a comment
before the definition it replaces, under which TLC finds the property violated.
The modules hold one such operator for each part of a conjunction, and each
breaks its part.

### Fairness

Weak fairness is assumed of what a process does by itself, never of clients,
users, crashes or failures:

* `kernel`: the event loop runs every continuation that is ready (`Work`).
  Repository, provider and tools answer, as does a user who is asked: the code
  puts no deadline on a permission request, so `EveryRunEnds` needs it and
  `AbortEnds` does not.
* `planning`: a supervisor, a worker, a merge and a review that can go on do;
  children and git commands have deadlines in the code, model calls a timeout.
* `child_runtime`: requests of the host time out (`Connected`, `Close`) and a
  scheduled close happens; the child owes nothing, and neither does the user,
  which `CancelledEnds` makes explicit.  Messages arrive and the deadline of a
  handle passes; a provider may never answer the channel.  A routed call goes on
  when its provider does (`StreamStep`); the consumer and the abort owe nothing.
* `processes`: file operations end; starts, calls and stops of plugins have
  deadlines; runs end; a connection is made or refused.

The workflow and storage runs assume no fairness and check safety only.

### Where a document and the code differ

Four runs expect a violation (see `findings`):

* `late_heartbeat`: a heartbeat stamped before its lease expired revives a lease
  whose capacity was handed on; the same happens to its conflict keys, so
  `CapacityRespected` and `ConflictExclusion` are not invariants of this code.
  What holds instead, and `leases` checks, is that nothing but such a heartbeat
  does it (`SharedKeyIsRevival`, `ExcessIsRevival`);
* `concurrent_start`: a process that starts while another appends takes the
  marker of the living writer for a crash and truncates the line it is writing;
* `copies_overwritten`: an attempt that failed restores its files after it has given
  the workspace back, over a file that another attempt, whose snapshot held the
  files being tried out, has merged meanwhile;
* `client_stream`: a read-only request that is answered with an error makes the
  client close a healthy connection, and its event stream ends for good.

The models reach further behaviours of the kind, which have no run of their own.

Storage and journals:

* a migration fits between the two looks a start takes at its lock
  (`sessionJournalComposition.ts:133`), and the Runtime commits to the store that
  was moved away;
* a Runtime that starts between another's lease and its recovery has its live run
  interrupted (`sessionRepositoryV3.ts:89`);
* two migrations at a time: the source is read before the lock
  (`sessionStorageMigration.ts:40`), so the second works on the source of before
  the first; with two migrators `MigratedWhole` fails, and it is proved for one;
* a lock holder slower than `STALE_LOCK_MS` loses its lock to another writer
  (`jsonlSessionJournalV3.ts:981`) and both write one journal, although
  `docs/session-recovery.md:179` warns against deleting the lock of a living owner;
* a catalog delta whose write failed leaves a partial line that the next delta
  completes (`jsonlSessionJournalV3.ts:360`): the catalog is then rejected until
  a deep start, although `docs/session-recovery.md:175` promises the repair of a
  final partial line;
* `deepScrub` of the SQLite journal reads entries and projection in two
  transactions (`sqliteSessionJournalV3.ts:186`): an append between them is
  reported as a mismatch of sound tables; and of two processes that create the
  store, one fails (`sqliteSessionJournalV3.ts:358`).

Long-term memory:

* a fork inherits the exposures of its source before it copies the messages
  (`runtimeKernel.ts:1577`), with awaits in between: a note the source reads
  meanwhile is copied without an exposure, and forgetting it later does not reach
  the fork, although section 5 of `docs/long-term-memory.md` covers forks;
* a note that has expired and is written again under its id makes the sessions
  that had read the old content send again (`assertSession` looks at the row's
  present expiry);
* `rebind` decides by the mode it read before its await
  (`memoryService.ts`, under the comment "Never orphan records"): a project that
  was turned on meanwhile is moved away from.

Workflows:

* an idempotent effect whose last attempt expires stays `reserved`
  (`sqliteWorkflowAuthority.ts:798`), not `unknown` as
  `docs/workflow-platform.md:216` says, and nobody can release it;
* `retryNode` schedules a node of a workflow that has completed
  (`sqliteWorkflowAuthority.ts:1618`), which `claim` then refuses;
* a join cancelled by `agent.cancel` makes every later reconciliation throw
  (`workflowOrchestrator.ts:1451`);
* a branch that waits for a failure (`status_is` `failed`) is failed with its
  source instead of becoming ready (`core-sdk/src/workflow.ts:768`);
* `docs/workflow-platform.md:214` derives the key of a workspace write from the
  input, `workflowEffectBroker.ts:60-69` from the invocation, and says why.

Runs, plans and reviews:

* an instruction accepted while the loop is finishing is never read
  (`loop/index.ts:711`);
* an abort that meets the commit of a checkpoint makes the finalization fail its
  comparison, and an aborted run is announced as a persistence failure
  (`runtimeKernel.ts:2623`);
* parallel steps are granted turns from one remainder (`dagSupervisor.ts:1088`):
  with a ceiling above one the recorded turns exceed the parent's; and the
  claims that recovery has written can be refused by the `execute` they are for,
  which counts every step at its full ceiling;
* for the same reason as in `copies_overwritten` (`directoryWorkspaceIsolation.ts:178`;
  `workspaceWriteGuard.ts:72` speaks of a single writer) files being tried out can
  reach the workspace for good through another attempt's snapshot, which is the
  proviso of `FailureUndone` (`Unobserved`);
* a review prepared for a plan that a final review has blocked sets the fence
  and is then refused (`planControlService.ts:286`, `core-sdk/src/review-plan.ts:490`),
  and a review that dies after it was prepared can be neither replayed nor
  repeated: no operation lifts the fence, although `docs/strict-review-plan.md:70`
  says that the prepared state is cleared.

Children, plugins and client:

* the limit on credential handles counts every handle ever made
  (`credentialDelegation.ts:260`);
* the health of several plugins is written by reading and replacing one file
  (`processActivationService.ts:150`): a quarantine is overwritten and the plugin
  starts again, although `docs/cli-reference.md:176` says it stays away until an
  explicit enable;
* a session that starts between the two halves of a disable
  (`runtimeKernel.ts:2205`) starts the plugin again;
* `enable` takes no lock: a plugin can be removed (`installationService.ts:492`)
  while it is being enabled, although `docs/plugin-system.md:216` says that the
  removal of a referenced installation is refused;
* a prompt whose Runtime was replaced keeps an open channel that nobody ends, the
  exception in `PromptsEnd`; and a live event may be written before the replay
  that a subscription asked for (`runtimeKernel.ts:1315`), which the client takes
  for a gap.

## 4. What is proved

For every graph, every set of workflows and every bound, from the assumptions
`GraphAssumption` and `AuthorityAssumption` on the constants:

* `TypeCorrect`: `Spec => []TypeOK`.
* `LeaseInvariant`: the inductive invariant `LeaseInv`, which joins `TypeOK`,
  `HistoryShape`, `LeaseAgreement`, `NoOrphanRunning` and `OldAttemptsClosed`.
  None of the last three is inductive alone.  That a leased task is its node's
  latest attempt needs the older attempts to be closed; that these stay closed
  needs a retry to be created only for the latest; that a running node has a
  lease needs every path that takes a task away to move its node.
  `HistoryShape` says that nothing exists before it was admitted and that a ready
  task belongs to a scheduled attempt.
* From it: `LeasesAgree` (`LeasesSound`, the last three together),
  `RecoveryProceeds` (recovery is never rolled back by an illegal transition),
  `CompletionIsQuiet` (settlement requires every descendant settled, so no
  leased task survives completion).
* `SharedKeysAreRevivals` and `ExcessesAreRevivals`, for every `HeartbeatAge`: a
  step after which two live leases share a conflict key that did not before, or
  which adds a lease to a group above a limit, brings back a lease that expired
  less than `HeartbeatAge` ago.  Every other way to a live lease is a claim, which
  looks at all live leases, revived ones included.  That none is ever shared or in
  excess follows where heartbeats are stamped at their commit
  (`PunctualKeysExclude`, `PunctualCapacityHolds`, for `HeartbeatAge = 0`); the
  code does not guarantee that, as `late_heartbeat` shows.

The proofs treat the actions by what they write: most leave all rows but one
task's alone, and a lemma states once what such a step preserves.

For every number of Runtimes, migrations and faults, from `StorageAssumption`:

* `TypeCorrect`, with `SourceKnown`: a migration that has begun knows its source.
* `MigrationsAreAlone`: who moves stores owns the migration lock (`LockOwned`),
  who serves or rechecks has a lease (`LeaseKept`), and no migration moves while
  a Runtime serves.  The third is inductive only with the other two: a recheck
  passes only when the lock is free, and a migration passes its check only when
  no lease is alive.  It needs no assumption on the authority lock.
* `RecovererIsUnique`, from `RecoveryInv`: whoever is inside a critical section
  owns the authority lock (`AuthorityOwned`); a Runtime between `ListPeers` and
  `CreateLease` that saw no peer is still alone (`NobodyElse`); of those with a
  lease at most one is unaware of the others (`OneUnaware`).
* `ClaimsAgree`, from `ClaimInv`: until a migration begins, a Runtime past its
  claim asked for the store the marker names, and only the owner of the
  authority lock changes the marker.
* `MigrationIsWhole`: `MigratedWhole` holds as long as one migration has started
  (`OneMigration`), which is what the code can promise: a second one reads its
  source before it takes the lock.  By `MoveInv` every acknowledged commit is in
  the store the marker names until the marker is moved (`NamedWhole`), which is
  still the source then (`SourceNamed`); then in the staged import
  (`StagedWhole`), then in the target (`MovedWhole`).  Nothing is acknowledged in
  between, because no Runtime serves, up to the release of the lock
  (`UnlockAlone`).  It uses `AbsentAssumption`, that a missing store is not an
  empty one.

Of the effect ledger and the graph, in addition from
`JoinAssumption` (a join is a decision node and has incoming edges, as the
validation of a graph requires):

* `LedgerAgrees` and `ExecutorIsUnique`, from `LedgerInvariant`.  `LedgerSound`
  speaks of rows; it is inductive only together with what was said to workers.
  The owner of a row was told to execute it (`Owned`), whoever was told to
  execute still owns the row or has failed (`Executors`), and whoever was told to
  replay finds the row committed for good (`Replays`).  That an attempt which
  lost its lease cannot commit rests on `LeaseInv`.
* `DependenciesHold` and `JoinsAreJustified`, from `GraphInvariant`.
  A node can come back to admission by `retryNode`, so the invariant also speaks
  of nodes that failed in execution (`Released`), and tells them from nodes that
  were failed without ever running, by the bound on ordinals.

Of `SqliteJournal`, from `SqlAssumption`, which the run states of its instance:

* `TablesAreSound`, from `SqlInv`.  The write lock and the positions inside a
  transaction are one thing (`OneWriter`); the open transaction is the committed
  tables and the statements run so far (`Drafts`), which is what makes the commit
  of the transaction one step of the log; a commit whose receipt is on its way is
  in the log (`Receipts`); the append in progress is the head of its process's
  chain (`AtHead`); and the pages got so far are a prefix of what one read would
  have got (`Paged`).
* `SqliteIsALog`: from the same invariant each step makes, appends or
  acknowledges a commit of `SessionLog`, or stutters.

Of `LongTermMemory`, from `MemoryAssumption`: `NotesAreRevoked`, from
`MemoryInvariant`.  A request is sent on the strength of rows, so the invariant
says which rows are there: what a session carries has an exposure, and once the
note is gone or the permission withdrawn the session is blocked (`Covered`); the
same holds of a fork from the moment it inherits, before it has a message
(`ForkCovered`); and an operation has taken effect as often as it has a receipt.

Of `ChildHost`, from `HostAssumption` (finitely many children; the budgets are
numbers): `HostIsSound` and `CancelledNeverCharged`, from `HostInv`, for one parent
with children of one generation; of turns it is proved that the parent is charged
at least what ended children used, not exactly that.  The stage
of a child determines the state of its reservation (`Staged`); a process is up
only while its events are read, so nothing is spent before the execution is
accepted or after the child has ended (`Spending`); a control that exists has
been told the reason its child has, and passed it on once it has a run
(`Reached`); a child that has ended has no active handle (`Disarmed`).  The
counters of the ledger are the cardinalities of the sets of children in those
states (`Slots`), and the turns a parent was charged are at least the pairs of
an ended child and a turn of it (`Paid`): a sum over the children is stated as
the size of a set, because a fold over a set is a recursive definition.

Of `CredentialBroker`, from `BrokerAssumption` (finitely many requests with
positive numbers): `ChannelIsSound` and `ProviderNotCalledAgain`, from
`BrokerInv`.  The two ends of a request and the messages between them are one
life (`Life`, `Upward`, `Downward`): what the parent has sent and the child has
not got is on its way, in order and without a gap (`Whole`), and what the calls
have cost, again counted as a set of pairs, was taken from the budget
(`Billed`).

Of `ProviderRouter`, from `RouterAssumption`: `CallsAreSound`.  What was given
out is of the attempt a call is in, and a call that has given something out is
in that attempt's stream or over (`GivenOut`, `Ended`); each call leaves a health
record as the others may find it (`Honest`).

Of `GitWorkspace`, from `GitAssumption` (the user is not an attempt):
`WorkIsSafe`, from `GitInv`.  HEAD only grows, by the user's commits and by
merges, and every base is a prefix of it (`Based`), which is why a merge stays a
merge.  An attempt's commit is in HEAD only where the attempt may say so
(`MergedWhere`), and what its child wrote is in the worktree until then
(`KeptUntil`).  That only one attempt merges is the head of the lock's queue
(`Queued`).

Of `DirectoryWorkspace`, from `DirAssumption`: `CopiesAreSafe`, from `DirInv`.
A rollback puts back what a backup holds after the lease was given away, so the
invariant follows every content: it is numbered by the event that wrote it or
named by its attempt (`Numbered`), a snapshot has what was there when it was
taken (`Traced`), a content that was replaced lies in one backup only
(`OnePlace`, `Alone`) and no later attempt has it there (`Replaced`, `Later`),
and what nobody observed can still be restored (`Restorable`).  With it
`MergeStays` needs no proviso, and `FailureUndone` only its own.  `MergeStays`
speaks of the attempt's own snapshot; that no attempt made from the same snapshot
undoes a merge (`SiblingsApart`) needs two more facts: what a file held in a
snapshot is nowhere but in the backup of an attempt that has changed the file
(`Displaced`), so a second attempt of that snapshot is refused while one has files
in place (`Sole`).  Of attempts made from different snapshots nothing of the kind
is proved, since it is false (`copies_overwritten`).

Of `ReviewPlan`, from `ReviewAssumption` (`final` is no item, reviewers are
actors, the items of a definition are items): `ReviewsArePaid`,
`CompletionIsEarned` and `FencesHold`, from `ReviewInv`.  A review is in the
hands of one actor (`Alone`), who has the scope and the input it was frozen with
(`Held`); a fence names a frozen review of its own scope (`Fenced`), an accepted
item the review that accepted it (`Earned`), and a completed plan the final
review of its revision (`Whole`).  A call is sent once, from a reservation
(`Sent`), and what an actor is about to settle, apply or mark is what the call
store holds (`Owed`): a crash or a replay between two of those steps finds the
store as the actor left it.  The bounds of the instance occur as numbers only.

Of `RuntimeKernel`, from `KernelAssumption` (`NoRun` is not a run, the ceiling of
turns is a number): `EndsAreTold`, `MessagesComeFirst`, `RequestsRunOnce` and
`SessionIsSound`, from `KernelInvariant`.  None of the four is inductive.  A run
is in two places between its steps, where its loop is and where its end is, and
an abort moves the second while the first knows nothing of it; `RunFits` says for
each pair what the journal holds of the run and what was told of it.  `LockInv`
says that every section in the queue of the session lock belongs to the position
that asked for it, that none is there twice, and that no message of a loop stands
behind the end of its run: that is what lets a loop go on until it notices that
it was stopped.  `SessionInv` says that at most one record is running and that a
session given up after a failed end is out of the map.  When the process exits
only what was recorded and told remains (`Exited`).  The lemmas treat the moves
of a loop (`GoOnKeeps`, `EnterKeeps`, `EndRunKeeps`) apart from what the loop was
doing, so that each of its twelve actions is a case of `LoopKeeps`.  `MaxEvents`
bounds TLC's instance only: no type and no step of the proof needs it.

Of `ExtensionActivation`, from `ExtensionAssumption` (finitely many plugins, the
plugins that run at the start are installed and different, a free lock is no
caller's): `PluginsAreSound`, from `ExtInv`.  The registry is written as its
reader saw it, which is right because the lock is held in between (`Locked`).
The enablement file is written without a lock as somebody saw it once; whatever
mixture of old files that leaves, an instance is the name of one plugin only
(`Owned`), which is why two published activations are never one instance.
Nobody but the head of the workspace queue changes what is published (`InTurn`).
While it builds a snapshot, what the supervisor knows is what was published,
what is in the snapshot so far and the one being started (`Building`), and a tool
call that waited meanwhile is of an activation that was published once
(`Calling`).  The numbers of instances and activations are bounded in the guards
(`Instance`, `Activation`) because TLC needs finite domains; the proof holds for
every value of the bounds.

Of `ClientEvents`, from `ClientAssumption` (finitely many prompts, a run has an
event): `StreamIsSound`, from `ClientInv`.  An entry of the Runtime's log knows
which event of its run it is (`Logged`, by counting), a notification on its way
is an entry of that log (`Noted`), and a prompt that was not accepted has no
event at all.  The pump takes no notification but the next one, so the events of
a run arrive one by one: an open channel has taken as many as the log has for
the run up to the cursor (`Channel`), and so has what is kept for a prompt that
waits for its answer, until it overflows (`Early`).  `Quieter` is what the end of
the stream, of a connection or of a request may do to a prompt: it hears nothing
new.  A lost connection may come back to the same Runtime or to another one, whose
log starts over; no run is accepted twice, so an old run never has an event of
the new log.  That the cursor is bounded follows because two entries of a log are
never the same event of a run (`LogBound`).

Of `PlanExecution`, from `PlanAssumption` (finitely many steps with an order, and
the positive limits `validatePlanStepV1` asks for), all from `PlanInv`:

* `PlansAreSound`.  Scheduler, workers and recovery count the attempts of the
  current revision only, so that the run's children are bounded is inductive only
  with the attempts that are still to come (`Counted`): of a first definition, all
  that were made are counted; after a revision, what its open steps may still need
  fits the children that are left, and a new attempt takes one of these for each
  one it adds (`AttemptsAdded`, `AttemptsUsed`).  That a batch, or what recovery
  reschedules, has at most as many steps as asked for is `CountedInOrder`, by the
  pigeonhole principle: no two of its steps have the same number before them.
  State and last attempt of a step change together (`StepInv`), so a worker that
  is at work finds its attempt active, and dependencies and conflicts need a look
  only where a step becomes active: at a claim and at recovery.
* `UnsafeStepsRunOnce`: a step that is not idempotent and is still to run has not
  run.  After it has, every way on leads out of the worker, and the only way back
  to pending is a revision, which makes another step of it.

Of `SessionJournal`, from `JournalAssumption` and one of two hypotheses on the
processes: `JournalIsSound` and `JsonlRefinesLog`, from `JournalInductive`.  Under
`Apart` one process has the store to itself and its operations sessions of their
own, and it may crash, lose writes and start again at any step; under `Steady` any
number of processes share sessions and scrub them, and all are up and stay so.
Without either the properties are false: a process that starts takes the line of a
living one for torn (`concurrent_start`), and two operations that have both seen
the lock file of a dead process can both remove it and enter.  An operation knows
the journal it has read (`Informed`) because nobody else is at work on the session:
by the lock under `Steady` (`Queued`), and under `Apart` because a process starts
before it serves (`Staged`).  No cache is ahead of its journal (`Behind`).  That
what lags is marked after a crash (`CrashInv`, under `Apart`) needs to know what an
operation leaves behind at each of its calls (`Prepared`), and that a rebuild of
the catalog, which takes four writes, never leaves a delta over a newer base
(`Newer`).

Left to TLC is what the prover cannot do: liveness (`RunsEnd`, `WorkEnds`,
`ChildrenEnd`, `ProcessesEnd`), `ENABLED`, and anything about a recursive
definition for all inputs.

## 5. Not modelled

Encoding, validation of shapes, digests, HTTP and SQL text; rendering; file
contents; prompts and summaries.  In the modelled components:

* workflows: mailbox, timers, human tasks, compensation and profiles; the
  in-memory loops of pump, scheduler and broker (their transactions are there,
  under the most general client), so progress of a workflow is not checked;
* sessions: import of V2 sessions, artifacts, forks, exports and titles;
* kernel: queries, configuration, and the wiring of plans, plugins and
  workflows into a run; the choice of what to compact;
* plans: shape checks of a plan, the serial supervisor beyond one worker;
* children: more than one generation, which the code forbids;
* extensions: MCP servers, skills, signatures, versions and grants.

The working plan, compaction, tool runtime, artifact store, command line and
evaluation are left out for the reasons `PROJECT.json` gives: they compute, render
or replace one file, and what interleaves in them is shown by the modules above.

## 6. Plan

Done: the modules above, their runs, and the proofs of section 4, which cover every
safety property that a passing run checks.  Worth adding next, in this order: the
program counter of the effect broker and the loop of the worker pump, with the
progress of a workflow; the mailbox and the timers; a second generation of children,
should the code come to allow it.
