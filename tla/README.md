# A verification project for the Agentic Code Platform

The repository is a modular monolith (`src/src/acp`) that runs coding agents on user
repositories. A task is a bounded loop of paid model calls; each call asks for one effect
(retrieve, edit, rename, verify), a Docker sandbox judges the result, and a verified patch is
copied back into a shared workspace. This directory holds TLA+ models of the parts whose
correctness depends on crashes, resumes and concurrency, the TLC runs that check them on small
instances, and TLAPS proofs of what matters most for all instances.

Paths below are relative to `src/src/acp` unless they start with `src/`.

## 1. Inventory

| Component | State it keeps | Operations | Interacts with |
|---|---|---|---|
| Agent loop (`orchestrator/loop.py`) | task row, journal, ledger, artifacts, worktree; locals of `run()` | `run` = start and resume | model gateway, retrieval, sandbox, workspace, repositories |
| Orchestrator service (`orchestrator/service.py`) | none of its own | `submit`, `resume`, `get_status`, `stream_events` | creates the row and calls `run()` |
| Workspace service (`workspace/service.py`) | base repository, `head_commit`, worktrees, `index.json`, the commit lock | `create_workspace`, `open_worktree`, `commit_worktree`, `build_index`, `load_index`, `update_file` | every task of a workspace, index builder |
| Repositories and database (`db/`) | SQLite tables, one connection per thread, `BEGIN IMMEDIATE` | append, read, `charge_atomic`, `set_state`, `set_head` | everybody |
| Retrieval (`retrieval/`) | cached index per snapshot, the task's ledger scope | seven metered primitives | workspace, ledger, redaction |
| Structural index (`index/`) | symbols, references, imports per file | full build, reindex of one file, queries | workspace, retrieval, rename |
| Sandbox runner (`sandbox_client/`, `src/sandbox/`) | one container per verification | `verify_snapshot`, deadline kill, forced removal, result parsing | loop |
| Model gateway (`model_gateway/`) | none | `complete`, `parse_action` | loop |
| HTTP gateway (`gateway/`) | rate-limiter windows, app state | task submission, status, events, dashboard | orchestrator, repositories |
| CLI, settings, common, evaluation (`cli/`, `config/`, `common/`, `src/eval`) | none | operator commands | all |

What is hard in this system, and where (the full list with lines is `hazards` in
`PROJECT.json`):

* **Crash between two durable writes.** A step is a paid call, an effect, a journal row, a ledger
  row and a metering row, each in its own transaction or file write. Resume must repair any prefix.
* **Two runs of one task.** `task resume` does not exclude a run that is still alive.
* **Two tasks on one workspace.** Worktrees are copies, the head is a content hash, and only
  `commit_worktree` takes the lock.
* **Budgets.** The model call's cost is known only after it was paid; retrievals charge the same
  scope in between and may be refused in the middle of a step.
* **Deadlines.** The wall clock in the loop, the lock timeout, and the container's deadline.
* **Caches.** The persisted index and its in-memory copy against a moving head.

What makes each component correct:

* loop: every journaled step charged once, no paid call repeated except for a death, no hole in
  the journal, bounded spend and repairs, success only from the sandbox, terminal means final,
  every run that lives ends;
* workspace: one committer at a time, the head describes the files, a commit adds its own edits
  and nothing else, the lock always comes free;
* retrieval and ledger: charges never pass the ceiling, nothing is written on refusal, answers
  come from the pinned snapshot;
* sandbox: a verdict is `verified` only if the container applied, built and tested; no container
  outlives its run unless the host process dies;
* index: reindexing one file equals a full rebuild, as far as that file goes;
* gateway: at most `rate_limit_per_min` admissions in any window, up to the threads that enter out
  of order; reads only the caller's rows; every request is answered.

## 2. Modules

| Module | Models | Kind |
|---|---|---|
| `AgentLoop` | one task's `run()` with its durable state, under crashes and one or more runners | component |
| `EffectivelyOnce` | what `resume` promises: record in order, charge once, close once | abstract specification |
| `RunContract` | what a run promises of the task's row: reads it open, sets RUNNING once, ends it last or leaves it | abstract specification |
| `Workspace` | one workspace shared by several tasks, copied file by file | component |
| `Ledger` | `charge_atomic` inside `immediate()`, statement by statement, several chargers on one scope | component |
| `AtomicLedger` | what charges and appends promise: one step each, a charge within the ceiling | abstract specification |
| `StructuralIndex` | extraction, import resolution, full build, reindex of one file, queries | operators |
| `Retrieval` | the seven primitives, the snapshot check, `build_index`, `load_index`, `update_file` | component, on `StructuralIndex` and `AtomicLedger` |
| `Entrypoint` | the four in-container entrypoints as functions of a request | operators |
| `SandboxRunner` | `verify_snapshot`: docker client, daemon, container, deadline, classification | component, on `Entrypoint` |
| `Gateway` | authentication, rate limiter and routes on a thread pool, over running tasks | component |
| `MCAgentLoop`, `MCWorkspace`, `MCLedger`, `MCRetrieval`, `MCSandboxRunner`, `MCGateway` | the answers, files, edits, queries and requests of the TLC instances | instances |
| `AgentLoopProofs`, `WorkspaceProofs`, `LedgerProofs`, `RetrievalProofs`, `SandboxProofs`, `GatewayProofs` | theorems about the component of that name, for every value of the constants | proofs |
| `EntrypointProofs` | what the four entrypoints make of an envelope of any length | proofs |
| `FoldTheorems` | folds and sums over finite sets, without induction | lemmas |

How they fit together. The loop's retrievals and its own `COMMIT` rows meet in one ledger scope:
`Ledger` takes `charge_atomic` apart and implements `AtomicLedger`, `Retrieval` charges with the
one step of `AtomicLedger`, and `AgentLoop` implements `AtomicLedger` too, its `COMMIT` rows being
what is appended. `Retrieval` sees a peer's commit as one step, which `Workspace`
takes apart. `AgentLoop` sees a verification as a Boolean, which is `verified` of the result
`SandboxRunner` returns, and that in turn rests on the payload `Entrypoint` computes. `Gateway`
sees a run as something that sets the row RUNNING and ends it or raises; `RunContract` says that
once, and both `AgentLoop` (for any number of runs of one task) and `Gateway` (for each of its
tasks) are proved to implement it, so the gateway assumes no more of a run than the loop keeps.

### AgentLoop

One action per point at which `run()` can die: each does at most one durable write. `pc[r]` names
the point, `run[r]` is the record of the locals of `run()` and of the method it is in.

| Variable | Code |
|---|---|
| `state`, `mode`, `toolCalls` | row of `tasks` (`toolCalls` stands for the three columns `_bump_task_tokens` updates together) |
| `journal` | table `journal`, unique per step: response with its cost, files a RENAME recorded, verdict of a VERIFY |
| `commits`, `spent` | COMMIT rows per step of table `budget_ledger`, and their sum with the retrievals' |
| `artifacts` | table `artifacts`; an op is its own content hash |
| `opened`, `worktree`, `base` | the task's directory and the workspace repository |
| `runs`, `faults`, `aborts`, `calls`, `tested` | history: calls of `run()`, outside faults, runs that did not return, paid calls, the tree last judged verified |

`Start` .. `LoadContext` are the head of `run()` (lines 152-190), with `_charge_from_journal` as
the three steps `ReadCommitted`, `ReadTrace`, `Reconcile`. `GateBreach`/`GatePass` are
`_budget_breach`; the wall clock may have run out whenever it is looked at. `ReplayStep` is the
cached branch, which one runner never takes (the loop starts past the last row) and two do.
`CallModel` picks any answer of `Responses`; the effects follow `_do_retrieve`, `_do_edit`,
`_do_rename` and `_do_verify`; then `AppendRow`, `CheckCharge`, `CommitCharge`, `BumpTokens`.
`GiveUp` .. `MergeConflict` are the decisions of lines 219-266, and `Terminate` writes the state.
`Die` is a crash, or an exception from outside (backend error, refused reply, drifted snapshot,
`OSError`): nothing in `run()` catches one. `RefuseRetrieval` is the one exception the loop
raises on itself, `BudgetExceeded`.

Abstractions: a patch is one op on one path (`_do_edit` builds exactly one); renaming a file is
the function `RenamedTo` on contents and the structural index is taken to list exactly the files
whose content it changes; the sandbox's verdict on a tree is any Boolean; `commit_worktree` is
one step here (its steps, and the peers that make it refuse, are in `Workspace`).
`retrieval_bytes` and `sandbox_seconds`, which nothing reads back, are left out.

### Workspace

| Variable | Code |
|---|---|
| `base`, `head`, `index` | repository files, `workspaces.head_commit`, the tree `index.json` was built from |
| `made`, `worktree` | which task directories exist, and their files |
| `outcome` | how each task ended |
| `lock` | holder of the flock on `.commit.lock` |
| `pc`, `run` | where each task's run is; its snapshot, its `base_commit`, the files a copy has still to do, its cached index |
| `runs`, `faults`, `written` | history |

A head is the SHA-256 of the tree, so it is modelled by the tree. `copytree` lists and then
copies, one file per step (`OpenWorktree`/`CopyIn`, `ListWorktree`/`CopyOut`). `Acquire` and
`LockTimeout` are the retry loop; the timeout may strike whenever the lock is taken. `Crash`
drops the locals and the flock. `update_file` and the index file are in `Retrieval`; archive
ingestion is left out.

### Ledger and AtomicLedger

`spent` and `reserved` are the sums `balance` and `charge_atomic` read from `budget_ledger` (COMMIT
rows, RESERVE minus RELEASE rows); nothing reads the rows one by one. `txSpent` and `txReserved`
are the same sums as the open transaction sees them, `lock` is SQLite's one write lock. A charge is
`Request`, `BeginImmediate` or `BusyTimeout`, `CheckBalance`, `InsertReserve`, `InsertCommit`,
`InsertRelease`, `CommitTx`; a statement may fail (`StatementFails`) or find the budget short, and
then `Rollback` undoes it. `Die` is the process dying with its transaction. `AppendSpend` is the
loop's `append` of a model call, which asks nobody. `AtomicLedger` has two steps: charge within the
budget, and append.

### StructuralIndex and Retrieval

A file's bytes are a content; `Ast` gives the nodes tree-sitter's parse yields for it (external).
`PyExtract` and the TypeScript counterpart select symbols, references and imports by node type and
ancestors as the extractors do; resolution tries the candidates in the code's order; `FileIndex`
is the partition of a path, its content and the set of paths known then, and the full build and the
reindex of one file are in the module's last part. Lists are sets, since serialization sorts them,
and so are the answers of the index's queries, of which only the sizes are priced. `File(p, c)` says
that `c` is a text `p` may hold, with a finite parse if its language is indexed. `Retrieval` keeps `repo`, `head`, `idx` (the file
`index.json`: absent, torn or whole) and per process `pc`, `op`, `got` (the index in memory),
`snap`, `bill`. The writer's `UpdateFile`, `Reindex`, `SetHead`, `OpenForWrite`, `WriteIndex` are
the writes of `update_file` in their order, each a place to die; `BuildIndex` and `LoadAbsent` are
the two ways a full build starts. `StartBuild` is the build and the truncating open in one step, and
`SetHead` reads the tree and writes its id in one. For the first this loses nothing the properties
see: a peer's commit between the two leaves the index a commit just after them leaves. For the
second it leaves out a head that is older than a peer's commit (the head under concurrent writers is
the subject of `Workspace`; here no property compares it with the tree). A session's call is `Ask`, `CheckHead`, `LoadWhole` or `LoadTorn`
or a build, `Compute`, `Charge` or `Refuse`, `Serve`. Redaction and price are sizes: a line has its
bytes, the bytes of a secret, the bytes of its first word, and whether a secret's name ends it.

### Entrypoint and SandboxRunner

Nothing of a container's run is visible before it prints its payload, so each entrypoint's `main()`
is one value: `PyMain`, `GoMain`, `RustMain`, `TsMain` of a request (the envelope, what the suite
does, where space runs out, what `backend` is). Each has its own apply, build, test, truncation and
emission, because the four differ there: what a missing key or a wrong type does, which errors are
caught, which signals have a number, how much output is kept, what text survives the sentinels. An
operation has its content and, as `read`, what `extract_str` makes of it: the host escapes all text
outside ASCII (`json.dumps`, `loop.py:469`), and the Rust entrypoint drops the backslash of `\u`, so
text that does not compile may become text that does, or the other way round. What is printed is
`Nothing`, or `Printed(p, reads)`: the payload, and what lies between the last opening marker and
the closing one after it, which is all of the payload, an empty object that the captured text had
between two markers, or text that is no JSON. The text a compiler or a refused envelope quotes
(`diag`) goes the same way as that of the suite. A tmpfs may be full while the snapshot is copied,
while an operation writes (a content that is `large`) or while the build writes. Early returns are IF/ELSE
chains in the code's order: the guards of a CASE overlap there, and TLA+ leaves the value of such a
CASE open where TLC takes the first. `SandboxRunner` has the host
(`Start`, `Collect`, `Deadline`, `KillClient`, `DockerStop`, `DockerRm`), the docker client
(`ClientExits`, `ClientDies`), and the daemon with the container (`DaemonRefuses`, `DaemonCreates`,
`DaemonStarts`, `EntrypointEnds`, `ContainerOom`, `AutoRemove`), which keeps going after its client
is gone. `ExtractPayload` is `_extract_payload`, and `Parse` is `_parse`: no payload, then the kill
reasons, then the verdict.

### Gateway

A thread goes through `Receive`, `Authenticate`, `ReadClock`, `CheckLimit` (the limiter under its
lock; the stamp was read before it), then its route: `CreateTask` and `Reread` or `SubmitRaised`,
`FindTask` and `ReadTrace`, `ListTasks` and `ReadTraces`, `ServeOpen`, and `Respond`. `hits` is the
limiter's deque per key, `tasks` the rows with their owner and state, `loop` where the run of the
submit and that of a resume are in each task. The run of `create_task` is a call of the thread that
serves it; `Resume` is the operator's `task resume`, on a task whose submit may be running.
Response formatting and cost figures are left out.

## 3. Runs

| Run | Instance | Shows |
|---|---|---|
| `loop_ledger` | 1 runner, 4 steps, 3 runs, 2 crashes, budget 5, costs 1 and 2 | charging, spend, repairs, metering, paid calls, contiguity, success, finality; and that a run that lives ends |
| `loop_files` | 1 runner, 2 files, 3 steps, 2 runs, 1 crash | artifact before write, base changes only when verified, refinement of `EffectivelyOnce` |
| `loop_two` | 2 runners at once, 2 steps, 3 runs, 1 crash | a step is charged at most once per run in progress, and only with its row, when a live task is resumed |
| `ws_commit` | 2 tasks, 2 files, 1 crash | the commit protocol |
| `ledger` | 2 chargers, budget 5, costs 1 to 3, the loop appends at most 2 | the ceiling, no reservation left behind, refinement of `AtomicLedger`, every charge ends |
| `retrieval` | 1 session, the writer, a peer; 6 paths in two languages, budget 3, 2 edits | incremental equals full, a span is never dearer than its file, metered before served, every call ends |
| `sandbox` | 4 entrypoints; every envelope of at most 2 plain operations, each odd operation, every class of text a suite or a compiler prints, a full tmpfs, a misplaced `backend` | the verdict comes from the container's own payload, kills are told apart, no runaway container, the runners agree, the host returns |
| `gateway` | 2 threads, 2 users, limit 2 with window 1 and clock 1, 4 requests, one task with its submit and resumes | the window, ownership of what is shown, a created task is answered finished, every request is answered |

Why the bounds suffice. With budget 5 and calls of cost 1 and 2 the spend meets the budget
exactly, passes it by one, and is refused in a retrieval; with one repair attempt and four steps
the repair ceiling, the step budget and the token budget each stop some run. Two crashes and
three runs put a crash inside the reconciliation of a crash. In `loop_two` the third run starts
after a death while another is alive, so that two runs that know the same unpaid rows meet what a
dead one wrote. Two files let a rename die between
files and let two tasks edit the same or different files. In `ledger` two chargers meet at every
statement, their costs fill the budget exactly, pass it by one and are passed by an append. In
`retrieval` two edits are what it takes to add a file and then change the file that imports it, or
to let a commit pass an update half written. In `sandbox` two operations are what it takes to
write and delete one path, and to let an unmatched brace of the first reach the second. In
`gateway` a window of one tick and a clock of one tick let a stamp be read on one side of the
window's edge and used on the other; the limiter was also run with 3 threads, window 2, clock 4 and
5 requests on one route, where `WindowHolds` holds too. `MaxRuns`, `MaxFaults`, `MaxEdits`,
`MaxRequests`, `MaxClock` and `MaxAppended` bound what the environment does, not what the code
does; `Abandoned` and `Quiescent` mark the states in which the bound, or nobody's call, ends a
behaviour of the loop or the workspace, so that deadlock stays checked there. The four other
systems may stop: a dead process does not come back, a verification returns once, and nobody owes
another request.

What the properties leave open is in their statements. `IncrementalEqualsFull` speaks of partitions
whose hash is that of the file on disk, and of imports only until a file is added: `reindex_file`
does not look at other files' imports. `SpanNeverDearer` is about files in which no secret's name
and value are on different lines. From the Rust runner
`VerifiedIsReal` is claimed for envelopes it reads as they are: matching braces (`Balanced`) and no
text that `extract_str` changes (`Literal`). Without the second TLC finds a verified result for a
tree that does not compile. `Parity` is about requests all four read alike (`Ordinary`): such
envelopes, output under 1 MiB without result markers, control characters or bytes that are not
UTF-8, signals with a name in the TypeScript entrypoint's table, no full tmpfs, and a `backend` that
is no file. `OrdinaryIsEntrypoints` lets a result deny what the entrypoint reported, never claim
more, where captured text has `{}` between two result markers (`Embeds`). `OverlapCharges` does not
say that a step is charged once: with two runs it may be charged twice (`doc_double_charge`). `WindowHolds`
allows one admission per other thread once stamps arrive out of order: with 2 threads and no such
slack it fails.

Fairness. `loop_ledger` uses weak fairness of `Run(r)`: a started `run()` is a Python call that
goes on unless the process dies; nobody owes a `run()` call and no fault has to happen. `RunEnds`
says "unless the run aborts". `ws_commit` uses weak fairness of the lock loop, which has a
deadline, and of the steps under the lock, none of which waits. Nobody owes an edit or a resume.
`ledger` has weak fairness of each charger's steps: SQLite's busy timeout bounds its one wait.
`retrieval` has it for the session's steps and not for the writer, the peer or any death: a
session must end its call whatever they leave behind. `sandbox` has it for the host's steps
only: each is bounded by a timeout in the code, while the container and the daemon owe nothing.
`gateway` has it for the threads and for the run a submit waits in (which ends or raises, see
`RunEnds`), not for resumes, the clock or new requests.

Runs that end in a counterexample, each against a sentence of the repository (quoted under
`findings`):

| Run | What happens |
|---|---|
| `doc_worktree_repeat` | write A, write B, write A: the third write is skipped by the content-hash gate, and the sandbox judges a patch the worktree does not hold |
| `doc_commit_delete` | a verified delete does not reach the base |
| `doc_double_charge` | resuming a live task charges a step twice |
| `doc_clobber` | a resumed task passes the head check with an old worktree and undoes a peer's commit |

Where a sentence is true up to a bound, the bound is the checked property: the budget is overrun
by at most one call (`SpendBounded`; `loop.py:57` says it never is), a crash buys at most one extra
repair attempt (`RepairsBounded`; `loop.py:634` says none), and a paid call is repeated at most
once per aborted run (`PaidCallsAccounted`).

Other places where code and text differ, seen while modelling and not kept as runs:

* After a crash the model no longer sees the failure output of earlier VERIFY steps: the spans are
  a local of `run()` (`loop.py:361-363`, against 706).
* A `BudgetExceeded` from a retrieval leaves the task RUNNING (`loop.py:449`, against
  `common/types.py:20-21`); a later resume closes it.
* A rename that died and is issued again journals only the files it still had to rename
  (`loop.py:500-501`, against 535).
* After a commit, retrieval answers from the previous tree's index until the next build
  (`retrieval/service.py:151-152`), while `read_span` and `list_dir` read the live repository
  (`retrieval/service.py:15` calls every primitive a function of the snapshot). A torn `index.json`
  makes `load_index` raise and is replaced only by the next `build_index`.
* The four entrypoints differ on odd operations and on contents whose braces do not match, which
  the Rust one counts inside strings (`src/sandbox/rust/src/main.rs:155`). The Rust one also strips
  the backslash of `\uXXXX` (`main.rs:114-119`): `print(“hi”)` does not compile, what it writes and
  judges instead does, and the run is verified (`sandbox_client/interface.py:50-51` says that every
  runner applies the envelope identically).
* Captured text is printed inside the payload, and three of the entrypoints leave `<` as it is. So
  `<<<ACP_RESULT_BEGIN>>>{}<<<ACP_RESULT_END>>>` in test output is the last occurrence, and the host
  takes `{}` for the result: an ordinary failure, also where the tests passed
  (`docker_runner.py:325`; the comment at 323-324 says that test output cannot spoof the result). The
  quotes of a longer object are escaped, so it is no JSON and the payload is lost instead.
* `spawnSync` keeps its default `maxBuffer` (`src/sandbox/ts/main.ts:142`, 153): more than 1 MiB of
  output ends compileall or pytest with SIGTERM, in the TypeScript image only (`main.ts:4` calls it
  the identical pipeline).
* A docker client that is killed by SIGKILL is reported as an out-of-memory kill, and that path
  does not remove the container (`docker_runner.py:187` says every error path does).
* A span can cost as much as its file when both round up to the same token
  (`retrieval/accounting.py` says strictly cheaper).
* The events route answers 200 with an error event for a task that is not the caller's, where its
  docstring says 404; the dashboard's pass and fail counters look for journal kinds nothing writes;
  `create_task` returns after the run, where its documentation calls it asynchronous; the limiter's
  window starts empty after a restart.
* With three tasks a head repeats (A, B, A) and a stale worktree passes the check, so
  `CommitsSerialize` is claimed for the two-task instance; a crash between artifact row and file
  write also breaks `WorktreeHoldsPatch`; a crash while copying into the base leaves part of the
  commit under the old head, which a peer's commit then publishes (`HeadDescribesBase` and
  `CommitsSerialize` are stated without crashes).

Mutants. Every property of a passing run has a mutant, a definition named in `PROJECT.json` next
to the one it replaces, that breaks it the way a slip in that code would.

## 4. Proofs

Every safety invariant and every action property that a passing run checks is stated by a theorem,
for every value of the constants that satisfies the named `ASSUME`s of the component's module. These
say what the code takes for granted of its inputs: budgets and bounds are naturals and
`StepBudget > 0`, answers are well typed and cost at most `MaxCost`, paths and runners are finite sets, the
null values are not data (`AgentLoop`, `Workspace`, `Ledger`); the thread pool is finite and not
empty (`PoolAssumption` of `Gateway`); there are finitely many sessions and paths, every file is in
the order of the walk and parses to a finite set of nodes, sizes of lines are naturals and a secret
is part of its line (`Retrieval`); an envelope's operations are a finite sequence and a signal is a
natural (`RequestAssumption` of `SandboxRunner`). TLC evaluates each of them on its instance. Two
hypotheses narrow a theorem further and are named in it: `SingleRunner` (a task is run by one
process at a time, what the code assumes and does not enforce; `doc_double_charge` is what happens
otherwise) and `TwoTasks`; one theorem states a hypothesis about the behaviour,
`HeadsNeverReturn`.

`AgentLoopProofs`:

* `TypeCorrect`: `TypeOK`, any number of runners. Inductive: `TypeInv` (`TypeOK`, and what a run
  has left to reconcile is journaled) with `StepsInRange` (the step of a run that is past the gate
  is below the step budget).
* `EffectivelyOnceCharging`, `TerminalIsFinal`, `LoopImplementsEffectivelyOnce`,
  one runner (`SingleRunner`). `ChargedExactlyOnce` is not inductive: at the moment of a `COMMIT`
  one must know that this step has none. `LedgerInv` adds, per program point (`PhaseInv`), which
  journaled steps may lack a charge (`Unpaid`): while reconciling exactly `todo`, between the row
  and its `COMMIT` only the current step, from the gate to the row none. It also says that the
  journal has no hole, that at most one row is ever unpaid, and that a terminal task has no unpaid
  row and no active run.
* `OverrunIsOneCall`: `SpendBounded`. `BudgetInv` says that every journaled or pending cost is at
  most `MaxCost`, and that the spend is within the budget both while a run is past the gate and
  not yet charged and whenever a row is unpaid: so the one charge still to come overruns the
  budget by at most `MaxCost`.
* `SuccessIsTheSandboxs`: `SuccessIsLastVerdict`. `VerdictInv` carries the verdict from the row
  through `merge` and `terminate`.
* `CallsAreAccounted`, `MeteringTrailsCharging`, one runner: `PaidCallsAccounted` and
  `MeteringBounded`. `CountInv` compares the counters with the cardinalities of the rows, and adds
  one where a paid call is between its answer and its row, or a row between its append and its
  metering: an abort turns that one into a loss.
* `RepairCeiling`, one runner: `RepairsBounded`. `RepairInv` ties the local counter of `run()` to the
  failed verdicts in the journal, at the gate and while a step is being decided, and says that the
  ceiling is passed only on the way to the end of the task.
* `OnlyVerifiedIsMerged`, one runner: `BaseChangesOnlyVerified`, an action property. `VerdictInv`
  gives the verdict at the merge, `MergeInv` that the row is still RUNNING and in apply mode there.
* `LoopImplementsAtomicLedger`, `RetrievalsWithinBudget`, one runner: the spend is what retrievals
  cost plus `Booked`, the sum of the costs of the charged rows (a fold, by `FoldTheorems`). Charging
  a row adds its cost to both, which needs `LedgerInv` (the row was not charged before) and
  `VerdictInv` (what is charged is what the row says). So over any number of crashes and resumes,
  what is spent above the budget comes from model calls only.
* `RecordedBeforeWritten`: any number of runners. `ArtifactInv` says an op about to be applied is
  recorded.
* `NoJournalHole` (`JournalContiguous`): any number of runners. `JournalInv` adds to contiguity what
  each run knows (`RowsBelow`): the rows below its step are there, and from the append on the step's
  own. No row is ever removed, so what other runs write meanwhile changes none of this.
* `OverlapIsBounded` (`OverlapCharges`): any finite number of runners, any number of resumes and
  deaths. A run decides to charge a step when it reads that the step has no COMMIT, and appends one
  later. `OverlapInv` counts for each step the runs that have decided and not appended (`Deciders`)
  together with the COMMITs there are: never more than the runners. A run can only join the first
  while there is no COMMIT, when the sum is the number of deciders alone; appending moves one from
  the first to the second, and dying takes one away. That only steps with a row are charged is the
  lemma `ChargesHaveRows`.
* `LoopKeepsTheContract`: any number of runners. Each step of the loop is a step of `RunContract` or
  a stutter, with a run's program point mapped to off, starting or running.

`WorkspaceProofs`, any number of tasks, files, runs and crashes: `WorkspaceTypeCorrect`,
`CommitIsExclusive` (`LockProtects` is inductive with the types), `HeadIsTheBases`
(`CommitInv`: the head is that of the files also while the lock's holder has not begun to copy or
has recorded the new head). `HeadsSerialize` is `CommitsSerialize` for two tasks and any files and
edits, `HeadsSerializeUnlessOneReturns` the same for any number of tasks under the hypothesis
`HeadsNeverReturn`: no commit takes the head back to the tree an open worktree was copied from. That a commit adds exactly its own edits is a statement about a worktree that was copied
before, file by file, perhaps while the peer was copying out. `SerialInv` therefore says what the
base is in the middle of a commit (`BaseInv`: the files left to copy are still the head's, the
others are final) and what an open worktree holds (`SeenInv`): either its snapshot is still the head
and each file it has not edited is the head's, missing, or one the committing peer has copied
already; or the head has moved and `Conflict` will refuse the task. The last half needs that the head does
not come back: of two tasks nobody is left to move it, of more it is the hypothesis. Both sides of it
were run with three tasks: TLC finds a violation where two peers move the head away and back
(section 3), and none when such steps are excluded.

`LedgerProofs`, any number of chargers, any budget and costs: `LedgerTypeCorrect`,
`CeilingNeverOvershot` (`CeilingHolds`: the spend passes the budget by at most what the loop
appended), `NothingLeftReserved` (`NoHalfCharge`), and `ChargeIsAtomic`, that `Ledger` implements
`AtomicLedger` with the committed sums as the mapping: `CommitTx` is the charge, every other step of
a charger a stutter. None of them is inductive alone: what is checked against the budget is the sum
read at `BEGIN`, and it becomes the table's several statements later. `LedgerInv` adds `LockInv`
(a charger inside its transaction holds the lock, so there is one) and `TxInv`, which says statement
by statement what the transaction's sums are in terms of the table's, and that from the check on
the charge fits. The lock is what keeps the table's sums still from `BEGIN` to `COMMIT`.

`GatewayProofs`, any number of threads, keys, limits and tasks:

* `GatewayTypes`, `CallersSeeTheirOwn` (`OwnRowsOnly`). The invariant `GTypeInv` is the types with
  `ThreadInv`, what a thread at each point of its route knows: the key it was authenticated with and
  a row that was its user's when it was looked up and stays so.
* `GatewayKeepsTheContract`: for every task, from before it is created, the submit's run and a
  resume's do to the row what `RunContract` says. With `LoopKeepsTheContract` it joins the two
  modules without composing their state spaces.
* `CreatedIsFinished` (`CreateAnswersTerminal`). `RunInv`: a submit that has returned left a terminal
  row, or a resume that found the task unfinished is writing that row as well.
* `LimiterBound` (`WindowHolds`), the longest argument. The deque is the end of the sequence of
  admitted stamps (`DequeInv`). For a window ending at `e`, either nothing of it has been pruned, and
  then the deque's length is its count; or a stamp after `e` was there, and then only the threads
  that read the clock before `e` and still wait for the limiter's lock (`Stale(e)`) can add to it
  (`WindowInv`). How many those can be is bounded by the pool: behind an admitted stamp, the earlier
  ones admitted after it and the stale threads together are fewer than the threads (`LagInv`).

`FoldTheorems` proves what the other modules need of data. The installed provers cannot instantiate
an induction rule over an operator, but a fold is a recursive function on the subsets of a finite
set, and for such a function induction is the existence of a minimal counterexample
(`MinimalSubset`), which is first-order. From it: the recursion has one solution and not two
(`FoldUnique`, `FoldRestrict`, `FoldExists`), a sum does not depend on the order in which `CHOOSE`
takes the elements, grows with its terms, and is the same under shifted indices (`SumAdd`,
`SumMonotone`, `SumShift`).

`RetrievalProofs`, any number of sessions, any tree, parse, edits, commits and queries:

* `RetrievalTypes`, `ReindexEqualsBuild` (`IncrementalEqualsFull`). `IndexInv` says that every index,
  on disk, in a session or in the writer's hand, is `Good` (each partition is what `index_file` makes
  of some file under some set of known paths) and, until a file is added, that what may be written is
  `Clean` (the set is the index's own paths). Both survive a reindex, a save over a peer's build, a
  torn file and a commit.
* `SpanIsCheaper` (`SpanNeverDearer`): a fold over lines. The redacted size of a span is a sum over
  its line numbers, that of the file the sum over all; `SumShift` and `SumMonotone` compare them.
* `MeteredBeforeServed` (`ReturnedIsPaid`): with `BillInv`, a sum over the sessions that were charged
  and have not returned.

`EntrypointProofs`, envelopes of any length:

* `SuccessIsReal`: if any of the four entrypoints reports passed tests, the tree the operations mean
  compiles and passes them; the Rust one only where braces match and escapes change nothing.
* `OneJudgement`: on an ordinary request each prints the same payload, the one named `Usual`, and
  the host finds all of it between the markers.
* Both rest on `AllApply`, that the fold over the operations makes the tree they mean, in every
  entrypoint (the Rust one's scanner finds each object of a balanced envelope, `ScanIsExact`), and on
  `MainStages` and `Reported`: `main()` prints nothing or a report of the stage it stops at, and a
  report is the payload with its text cut.

`SandboxProofs`, any requests that satisfy the assumption, any image, any order of host, client,
daemon and container: `RunTypes`, `OrdinaryResults` (`OrdinaryIsEntrypoints`), `OomReports`
(`OomIsReported`), `ContainerIsStopped` (`NoRunawayContainer`), `VerifiedResults` (`VerifiedIsReal`)
and `RunnersAgree` (`Parity`). `SInv` says what each party knows of the others: a payload is printed
once by a container that ends with code 0, the client's output stands from the moment it ended, and
the result belongs to the way the host came. `PayloadInv` adds that what is printed is the image's
`main()` of this request, and that a client which ended with the container's own code delivers it.
`VerifiedResults` and `RunnersAgree` combine it with `SuccessIsReal` and `OneJudgement`;
`OrdinaryResults` with `EmptyIsEmbedded`, that an empty object is found only where the run may print
one, and with the fact that it reports no passed tests.

Only model-checked: liveness (`RunEnds`, `LockReleased`, `ChargesEnd`, `Answers`, `Returns`,
`RequestsAnswered`), since the prover has no rule for fairness and `ENABLED`; and the four runs that
end in a counterexample. The loop's theorems of one runner say nothing of runs that overlap: there,
`TypeCorrect`, `RecordedBeforeWritten`, `NoJournalHole`, `OverlapIsBounded` and
`LoopKeepsTheContract` are what remains true.

## 5. Plan

1. Done: the loop, its abstract promise, the shared workspace, their proofs.
2. Done: the ledger's transaction with its abstract promise and proofs; the structural index and
   retrieval; the sandbox runner and the four entrypoints; the HTTP gateway.
3. Done: a theorem for each safety invariant and action property of the runs, in order of weight:
   the gateway, the rest of the loop, folds and sums, retrieval, the entrypoints and the sandbox,
   `CommitsSerialize` for two tasks.
4. Done: beyond the runs, the journal under any number of runners, the contract between loop and
   gateway, the loop's ledger as `AtomicLedger`, `CommitsSerialize` for any number of tasks whose
   heads do not return.
5. Not planned: the token budget under overlapping runs of a task, beyond the number of charges per
   step (`OverlapCharges`): the code excludes such runs by assumption, and `doc_double_charge` shows
   why. Runs that do not overlap are covered by the
   theorems of one runner: a runner is a place, and a `Start` after a `Die` is another process.

## 6. Not modelled

The text of prompts, actions, redaction rules and reports (strings without control), tree-sitter
parsing and the compilers (external), archive ingestion, schema and the creation of users and keys,
settings, logging, the static dashboard page, the CLI's printing commands, and the evaluation
scripts, which drive the system from outside and keep none of its state. `call` and `use` references
are one kind: which of them is recorded for a node depends on the tree-sitter binding.
