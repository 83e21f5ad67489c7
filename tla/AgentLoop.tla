------------------------------ MODULE AgentLoop ------------------------------
(***************************************************************************)
(* The run of one agent task (acp/orchestrator/loop.py, AgentLoop.run):    *)
(* the bounded loop that issues one paid model call per step, performs the *)
(* effect the model asked for, journals ONE row for both, charges the      *)
(* ledger from that row, and stops in a terminal task state.               *)
(*                                                                         *)
(* Every action ends at a point where the process can die: each does at    *)
(* most one durable write (one SQLite transaction or one file write).  The *)
(* locals of run() are lost when it dies; the task row, the journal, the   *)
(* ledger, the artifact rows and the files survive it, and a later run()   *)
(* of the same task is resume.  The retrieval_bytes and sandbox_seconds    *)
(* columns, which nothing reads back, are left out.                        *)
(*                                                                         *)
(* Runners is the set of processes that may call run() on this task.  One  *)
(* runner is the submit/crash/resume life of a task; two runners model an  *)
(* operator resuming a task whose first run is still alive, which nothing  *)
(* in the code prevents (cli/main.py, service.resume).                     *)
(***************************************************************************)
EXTENDS Naturals, FiniteSets

CONSTANTS
    Runners,            \* processes that may call run() on the task
    Paths,              \* files of the repository, ordered (rename sorts them)
    Contents,           \* file contents
    NoFile,             \* the "content" of a path that does not exist
    NoRow,              \* no journal row for a step
    RenamedTo,          \* [Contents -> Contents]: _rename_identifier_tokens
    Responses,          \* parsed model responses: the model's possible answers
    RetrievalCosts,     \* token costs a metered retrieval may have
    TokenBudget,        \* task.token_budget
    StepBudget,         \* task.step_budget
    MaxRepairAttempts,  \* _MAX_REPAIR_ATTEMPTS
    Modes,              \* the modes a task may be submitted with
    MaxCost,            \* bound on the cost of one model call
    MaxRuns,            \* bound: calls of run() on the task
    MaxFaults           \* bound: crashes and exceptions from outside

Steps       == 0 .. StepBudget - 1
ActionKinds == {"PLAN", "RETRIEVE", "EDIT", "RENAME", "VERIFY", "GIVE_UP"}
Terminal    == {"VERIFIED_SUCCESS", "GAVE_UP", "BUDGET_EXHAUSTED"}
TaskStates  == {"PENDING", "RUNNING"} \cup Terminal
FileValues  == Contents \cup {NoFile}

\* One op of a patch envelope; writing NoFile is op "delete".  The op is also
\* its own content hash: sha256 of the envelope is injective on ops.
Ops == [path: Paths, content: FileValues]

\* What parse_action returns, with the call's input + output tokens.  op is
\* meaningful for EDIT alone.
ResponseType == [kind: ActionKinds, op: Ops, cost: Nat]

\* A journal row: the response, the effect payload (renamed_files of a RENAME,
\* the sandbox verdict of a VERIFY).
Row == [resp: ResponseType, renamed: SUBSET Paths, verified: BOOLEAN]

ASSUME RunnerAssumption == IsFiniteSet(Runners)

ASSUME BudgetAssumption ==
    /\ TokenBudget \in Nat /\ StepBudget \in Nat \ {0}
    /\ MaxRepairAttempts \in Nat /\ MaxRuns \in Nat /\ MaxFaults \in Nat

ASSUME PathAssumption ==
    /\ Paths \subseteq Nat /\ IsFiniteSet(Paths)
    /\ NoFile \notin Contents /\ NoRow \notin Row

ASSUME RenameAssumption == RenamedTo \in [Contents -> Contents]

ASSUME ResponseAssumption ==
    /\ Responses # {} /\ Responses \subseteq ResponseType
    /\ MaxCost \in Nat /\ \A a \in Responses : a.cost <= MaxCost

ASSUME RetrievalAssumption == RetrievalCosts \subseteq Nat

ASSUME ModeAssumption == Modes \subseteq {"apply", "dry_run"}

VARIABLES
    \* durable
    state,      \* tasks.state
    mode,       \* tasks.mode
    toolCalls,  \* tasks.tool_calls, bumped with tokens_in and tokens_out
    journal,    \* [Steps -> Row or NoRow], UNIQUE (task_id, step_index)
    commits,    \* [Steps -> Nat]: model COMMIT rows of budget_ledger per step
    spent,      \* LedgerRepo.spent_tokens: the sum of all COMMIT rows
    artifacts,  \* content hashes recorded for the task
    opened,     \* the task's worktree directory exists
    worktree,   \* files of the worktree
    base,       \* files of the workspace repository
    \* of each runner
    pc,         \* where its run() is; "idle" when none is active
    run,        \* the locals of its run()
    \* history
    runs,       \* calls of run() so far
    faults,     \* outside faults so far
    aborts,     \* runs that ended without returning
    calls,      \* paid model calls issued
    tested      \* the tree the sandbox last judged verified

task    == <<state, mode, toolCalls>>
ledger  == <<commits, spent>>
tree    == <<artifacts, opened, worktree, base>>
durable == <<task, journal, ledger, tree>>
history == <<runs, faults, aborts, calls, tested>>
vars    == <<durable, pc, run, history>>

Labels == {"idle", "committed", "trace", "reconcile", "open", "load", "gate",
           "lookup", "call", "retrieve", "read_span", "edit", "record", "apply",
           "plan_rename", "rename", "verify", "append", "charge", "commit",
           "bump", "decide", "merge", "terminate"}

\* The locals of run() and of the methods it calls.
Locals ==
    [seen: SUBSET Steps,        \* committed_steps of _charge_from_journal
     todo: SUBSET Steps,        \* rows it has still to charge
     step: Nat, repairs: Nat,
     spans: [Steps -> {"none", "marker", "full"}],  \* data_spans, by step
     resp: ResponseType,        \* the response being executed
     files: SUBSET Paths,       \* files _do_rename has still to visit
     op: Ops,                   \* the file op being recorded and applied
     renamed: SUBSET Paths,     \* renamed_files
     verified: BOOLEAN,         \* the verdict _do_verify returned
     verdict: Terminal]         \* the terminal state about to be written

-----------------------------------------------------------------------------
(* Reading the journal and the ledger                                      *)

Journaled == {s \in Steps : journal[s] # NoRow}
Charged   == {s \in Steps : commits[s] > 0}
KindAt(s) == journal[s].resp.kind

First(S) == CHOOSE s \in S : \A q \in S : s <= q
Last(S)  == CHOOSE s \in S : \A q \in S : q <= s

FailedVerify ==
    {s \in Journaled : KindAt(s) = "VERIFY" /\ ~journal[s].verified}

\* Mutant: the counter is not restored from the journal on resume.
ForgottenRepairs == 0

count_repair_attempts == Cardinality(FailedVerify)

next_step_index == IF Journaled = {} THEN 0 ELSE Last(Journaled) + 1

\* The data channel a resumed run starts from: an origin-only marker for every
\* journaled retrieval, and nothing else.
replay_data_spans ==
    [s \in Steps |-> IF s \in Journaled /\ KindAt(s) = "RETRIEVE"
                     THEN "marker" ELSE "none"]

-----------------------------------------------------------------------------
(* The patch the sandbox judges                                            *)

\* What step s contributes to the combined patch at path p: the op of an EDIT,
\* or the worktree file of a renamed path that still exists.
PatchesPath(s, p) ==
    \/ KindAt(s) = "EDIT" /\ journal[s].resp.op.path = p
    \/ KindAt(s) = "RENAME" /\ p \in journal[s].renamed /\ worktree[p] # NoFile

\* _combined_patch laid over the worktree.  Ops are applied in journal order, so
\* the last one that touches a path decides it.
SandboxTree ==
    [p \in Paths |->
        LET by == {s \in Journaled : PatchesPath(s, p)}
        IN  IF by = {} \/ KindAt(Last(by)) = "RENAME" THEN worktree[p]
            ELSE journal[Last(by)].resp.op.content]

\* commit_worktree copies the worktree over the base; copytree deletes nothing.
Overlay(old, new) ==
    [p \in Paths |-> IF new[p] = NoFile THEN old[p] ELSE new[p]]

-----------------------------------------------------------------------------
NoResp == CHOOSE a \in Responses : TRUE

NoLocals ==
    [seen |-> {}, todo |-> {}, step |-> 0, repairs |-> 0,
     spans |-> [s \in Steps |-> "none"], resp |-> NoResp, files |-> {},
     op |-> NoResp.op, renamed |-> {}, verified |-> FALSE,
     verdict |-> "GAVE_UP"]

Init ==
    /\ state = "PENDING" /\ mode \in Modes /\ toolCalls = 0
    /\ journal = [s \in Steps |-> NoRow]
    /\ commits = [s \in Steps |-> 0] /\ spent = 0
    /\ artifacts = {} /\ opened = FALSE
    /\ worktree = [p \in Paths |-> NoFile]
    /\ base \in [Paths -> FileValues]
    /\ pc = [r \in Runners |-> "idle"]
    /\ run = [r \in Runners |-> NoLocals]
    /\ runs = 0 /\ faults = 0 /\ aborts = 0 /\ calls = 0 /\ tested = worktree

-----------------------------------------------------------------------------
(* run(): from the call to the loop                                        *)

Goto(r, label) == pc' = [pc EXCEPT ![r] = label]

\* Mutant: the early return for a finished task is missing.
StartAnyState(r) ==
    /\ pc[r] = "idle"
    /\ runs < MaxRuns /\ runs' = runs + 1
    /\ Goto(r, "committed")
    /\ UNCHANGED <<durable, run, faults, aborts, calls, tested>>

\* run() of a task that is not terminal: the row is read once, here.
Start(r) ==
    /\ pc[r] = "idle" /\ state \notin Terminal
    /\ runs < MaxRuns /\ runs' = runs + 1
    /\ Goto(r, "committed")
    /\ UNCHANGED <<durable, run, faults, aborts, calls, tested>>

\* run() of a finished task returns its status and changes nothing.
ResumeTerminal(r) ==
    /\ pc[r] = "idle" /\ state \in Terminal
    /\ UNCHANGED vars

\* Mutant: the COMMITs an earlier reconciliation or step wrote are not recognised.
ReadNoCommits(r) ==
    /\ pc[r] = "committed"
    /\ run' = [run EXCEPT ![r].seen = {}]
    /\ Goto(r, "trace")
    /\ UNCHANGED <<durable, history>>

\* _charge_from_journal: the COMMIT rows are read, then the trace, then every
\* row without a COMMIT is charged, in one transaction each.
ReadCommitted(r) ==
    /\ pc[r] = "committed"
    /\ run' = [run EXCEPT ![r].seen = Charged]
    /\ Goto(r, "trace")
    /\ UNCHANGED <<durable, history>>

ReadTrace(r) ==
    /\ pc[r] = "trace"
    /\ run' = [run EXCEPT ![r].todo = Journaled \ run[r].seen]
    /\ Goto(r, "reconcile")
    /\ UNCHANGED <<durable, history>>

\* Mutant: the charge is booked with the sign of a RELEASE.
AppendRelease(s, tokens) ==
    /\ commits' = [commits EXCEPT ![s] = @ + 1]
    /\ spent' = spent - tokens

AppendCommit(s, tokens) ==
    /\ commits' = [commits EXCEPT ![s] = @ + 1]
    /\ spent' = spent + tokens

Reconcile(r) ==
    /\ pc[r] = "reconcile" /\ run[r].todo # {}
    /\ LET s == First(run[r].todo)
       IN  /\ AppendCommit(s, journal[s].resp.cost)
           /\ run' = [run EXCEPT ![r].todo = @ \ {s}]
    /\ UNCHANGED <<task, journal, tree, pc, history>>

\* Mutant: the loop starts before the reconciliation has finished.
RunUnreconciled(r) ==
    /\ pc[r] = "reconcile"
    /\ state' = "RUNNING"
    /\ Goto(r, "open")
    /\ UNCHANGED <<mode, toolCalls, journal, ledger, tree, run, history>>

\* set_state(RUNNING), whatever the row holds by now.
SetRunning(r) ==
    /\ pc[r] = "reconcile" /\ run[r].todo = {}
    /\ state' = "RUNNING"
    /\ Goto(r, "open")
    /\ UNCHANGED <<mode, toolCalls, journal, ledger, tree, run, history>>

\* open_worktree: a copy of the base on the first open, the same directory on a
\* resume.  Workspace.tla models the copy file by file.
OpenWorktree(r) ==
    /\ pc[r] = "open"
    /\ opened' = TRUE
    /\ worktree' = IF opened THEN worktree ELSE base
    /\ Goto(r, "load")
    /\ UNCHANGED <<task, journal, ledger, artifacts, base, run, history>>

\* The locals the loop starts from, all derived from the journal.
LoadContext(r) ==
    /\ pc[r] = "load"
    /\ run' = [run EXCEPT ![r].spans = replay_data_spans,
                          ![r].step = next_step_index,
                          ![r].repairs = count_repair_attempts]
    /\ Goto(r, "gate")
    /\ UNCHANGED <<durable, history>>

-----------------------------------------------------------------------------
(* The top of the loop                                                     *)

\* Mutant: the committed spend is not compared with the token budget.
breach_without_tokens(r, late) == run[r].step >= StepBudget \/ late

\* late: the wall clock has run out, which it may have whenever the loop looks.
budget_breach(r, late) ==
    run[r].step >= StepBudget \/ late \/ spent >= TokenBudget

\* Choose the state to write; Terminate(r) writes it.
StopWith(r, outcome) ==
    /\ run' = [run EXCEPT ![r].verdict = outcome]
    /\ Goto(r, "terminate")

GateBreach(r) ==
    /\ pc[r] = "gate"
    /\ \E late \in BOOLEAN : budget_breach(r, late)
    /\ StopWith(r, "BUDGET_EXHAUSTED")
    /\ UNCHANGED <<durable, history>>

GatePass(r) ==
    /\ pc[r] = "gate"
    /\ ~budget_breach(r, FALSE)
    /\ Goto(r, "lookup")
    /\ UNCHANGED <<durable, run, history>>

\* get_step found a row: its action is re-derived and nothing is re-issued.  With
\* one runner the loop starts past the last row, so a second runner of the same
\* task must have written this one.
ReplayStep(r) ==
    LET s == run[r].step IN
    /\ pc[r] = "lookup" /\ journal[s] # NoRow
    /\ run' = [run EXCEPT
                 ![r].resp = journal[s].resp,
                 ![r].spans[s] = IF KindAt(s) = "RETRIEVE" THEN "marker"
                                 ELSE IF s \in FailedVerify THEN "full" ELSE @,
                 ![r].repairs = IF s \in FailedVerify
                                THEN count_repair_attempts ELSE @]
    /\ Goto(r, "decide")
    /\ UNCHANGED <<durable, history>>

FreshStep(r) ==
    /\ pc[r] = "lookup" /\ journal[run[r].step] = NoRow
    /\ Goto(r, "call")
    /\ UNCHANGED <<durable, run, history>>

-----------------------------------------------------------------------------
(* _issue_model_call and the effects                                       *)

EffectOf(kind) ==
    CASE kind = "RETRIEVE" -> "retrieve"
      [] kind = "EDIT"     -> "edit"
      [] kind = "RENAME"   -> "plan_rename"
      [] kind = "VERIFY"   -> "verify"
      [] OTHER             -> "append"

\* The one paid call of the step, and the dispatch of _run_effect.
CallModel(r) ==
    /\ pc[r] = "call"
    /\ \E a \in Responses :
          /\ run' = [run EXCEPT ![r].resp = a, ![r].renamed = {},
                                ![r].verified = FALSE]
          /\ Goto(r, EffectOf(a.kind))
    /\ calls' = calls + 1
    /\ UNCHANGED <<durable, runs, faults, aborts, tested>>

\* The step's text is appended to the data channel.
AddSpan(r, text) == run' = [run EXCEPT ![r].spans[run[r].step] = text]

\* charge_atomic refuses a cost that exceeds what is left of the budget.
charge_atomic(c) == spent + c <= TokenBudget /\ spent' = spent + c

\* _do_retrieve, primitive "definition": the lookup is metered; a symbol that
\* exists is then read, which is metered again.
RetrieveDefinition(r) ==
    /\ pc[r] = "retrieve"
    /\ \E c \in RetrievalCosts : charge_atomic(c)
    /\ \/ Goto(r, "read_span") /\ UNCHANGED run
       \/ Goto(r, "append") /\ AddSpan(r, "marker")
    /\ UNCHANGED <<task, journal, commits, tree, history>>

\* Any other primitive is answered with the empty text and not metered.
RetrieveOther(r) ==
    /\ pc[r] = "retrieve"
    /\ AddSpan(r, "marker")
    /\ Goto(r, "append")
    /\ UNCHANGED <<durable, history>>

ReadSpan(r) ==
    /\ pc[r] = "read_span"
    /\ \E c \in RetrievalCosts : charge_atomic(c)
    /\ AddSpan(r, "full")
    /\ Goto(r, "append")
    /\ UNCHANGED <<task, journal, commits, tree, history>>

\* _do_edit: is the op's content hash among the task's artifacts?
CheckArtifact(r) ==
    /\ pc[r] = "edit"
    /\ run' = [run EXCEPT ![r].op = run[r].resp.op]
    /\ Goto(r, IF run[r].resp.op \in artifacts THEN "append" ELSE "record")
    /\ UNCHANGED <<durable, history>>

\* Mutant: the row is written only for the paths that have none yet.
RecordArtifactOncePerPath(r) ==
    /\ pc[r] = "record"
    /\ artifacts' = IF \E o \in artifacts : o.path = run[r].op.path THEN artifacts
                    ELSE artifacts \cup {run[r].op}
    /\ Goto(r, "apply")
    /\ UNCHANGED <<task, journal, ledger, opened, worktree, base, run, history>>

\* The artifact row is written FIRST ...
RecordArtifact(r) ==
    /\ pc[r] = "record"
    /\ artifacts' = artifacts \cup {run[r].op}
    /\ Goto(r, "apply")
    /\ UNCHANGED <<task, journal, ledger, opened, worktree, base, run, history>>

\* ... then the file.  A rename goes on with its next file.
ApplyOp(r) ==
    LET o == run[r].op IN
    /\ pc[r] = "apply"
    /\ worktree' = [worktree EXCEPT ![o.path] = o.content]
    /\ IF run[r].resp.kind = "EDIT"
       THEN Goto(r, "append") /\ UNCHANGED run
       ELSE /\ Goto(r, "rename")
            /\ run' = [run EXCEPT ![r].renamed = @ \cup {o.path}]
    /\ UNCHANGED <<task, journal, ledger, artifacts, opened, base, history>>

\* Contents that hold the old name as a whole identifier.
Mentions(c) == c \in Contents /\ RenamedTo[c] # c

\* _do_rename: the index of the BASE decides which files are in scope ...
PlanRename(r) ==
    /\ pc[r] = "plan_rename"
    /\ run' = [run EXCEPT ![r].files = {p \in Paths : Mentions(base[p])}]
    /\ Goto(r, "rename")
    /\ UNCHANGED <<durable, history>>

\* ... and each is rewritten from what the WORKTREE holds, in path order.  A file
\* that is gone or no longer holds the old name is skipped ...
RenameSkip(r) ==
    LET p == First(run[r].files) IN
    /\ pc[r] = "rename" /\ run[r].files # {}
    /\ ~Mentions(worktree[p])
    /\ run' = [run EXCEPT ![r].files = @ \ {p}]
    /\ UNCHANGED <<durable, pc, history>>

\* ... one whose rewrite is already recorded is listed without being written.
RenameFile(r) ==
    LET p == First(run[r].files)
        o == [path |-> p, content |-> RenamedTo[worktree[p]]]
    IN
    /\ pc[r] = "rename" /\ run[r].files # {}
    /\ Mentions(worktree[p])
    /\ run' = [run EXCEPT ![r].files = @ \ {p},
                          ![r].op = o,
                          ![r].renamed = IF o \in artifacts THEN @ \cup {p}
                                         ELSE @]
    /\ Goto(r, IF o \in artifacts THEN "rename" ELSE "record")
    /\ UNCHANGED <<durable, history>>

RenameDone(r) ==
    /\ pc[r] = "rename" /\ run[r].files = {}
    /\ Goto(r, "append")
    /\ UNCHANGED <<durable, run, history>>

\* _do_verify: the sandbox judges the combined patch over the worktree.  Whether
\* that tree builds and its tests pass is the sandbox's business alone.
Verify(r) ==
    /\ pc[r] = "verify"
    /\ \E v \in BOOLEAN :
          /\ run' = [run EXCEPT ![r].verified = v]
          /\ tested' = IF v THEN SandboxTree ELSE tested
    /\ Goto(r, "append")
    /\ UNCHANGED <<durable, runs, faults, aborts, calls>>

\* JournalRepo.append is INSERT OR IGNORE; the loop ignores whether it inserted.
AppendRow(r) ==
    LET row == [resp |-> run[r].resp, renamed |-> run[r].renamed,
                verified |-> run[r].verified]
    IN
    /\ pc[r] = "append"
    /\ journal' = [journal EXCEPT ![run[r].step] = IF @ = NoRow THEN row ELSE @]
    /\ Goto(r, "charge")
    /\ UNCHANGED <<task, ledger, tree, run, history>>

\* _commit_step_charge: look for the step's COMMIT, then append one.
CheckCharge(r) ==
    /\ pc[r] = "charge"
    /\ Goto(r, IF run[r].step \in Charged THEN "bump" ELSE "commit")
    /\ UNCHANGED <<durable, run, history>>

\* Mutant: the call of _bump_task_tokens is missing.
CommitUnmetered(r) ==
    /\ pc[r] = "commit"
    /\ AppendCommit(run[r].step, run[r].resp.cost)
    /\ Goto(r, "decide")
    /\ UNCHANGED <<task, journal, tree, run, history>>

CommitCharge(r) ==
    /\ pc[r] = "commit"
    /\ AppendCommit(run[r].step, run[r].resp.cost)
    /\ Goto(r, "bump")
    /\ UNCHANGED <<task, journal, tree, run, history>>

\* _bump_task_tokens.
BumpTokens(r) ==
    /\ pc[r] = "bump"
    /\ toolCalls' = toolCalls + 1
    /\ Goto(r, "decide")
    /\ UNCHANGED <<state, mode, journal, ledger, tree, run, history>>

-----------------------------------------------------------------------------
(* What the step's action means for the loop                               *)

\* Mutant: asking for verification counts as being verified.
PassedOnRequest(r) == journal[run[r].step] # NoRow

\* _verified_from_journal: the verdict is read back from the row.
Passed(r) ==
    LET row == journal[run[r].step] IN row # NoRow /\ row.verified

GiveUp(r) ==
    /\ pc[r] = "decide" /\ run[r].resp.kind = "GIVE_UP"
    /\ StopWith(r, "GAVE_UP")
    /\ UNCHANGED <<durable, history>>

\* A dry run never commits; an APPLY task commits before it is a success.
Succeed(r) ==
    /\ pc[r] = "decide" /\ run[r].resp.kind = "VERIFY" /\ Passed(r)
    /\ IF mode = "dry_run" THEN StopWith(r, "VERIFIED_SUCCESS")
       ELSE Goto(r, "merge") /\ UNCHANGED run
    /\ UNCHANGED <<durable, history>>

OutOfRepairs(r) ==
    /\ pc[r] = "decide" /\ run[r].resp.kind = "VERIFY" /\ ~Passed(r)
    /\ run[r].repairs >= MaxRepairAttempts
    /\ StopWith(r, "GAVE_UP")
    /\ UNCHANGED <<durable, history>>

\* Mutant: the "continue" that ends the repair branch is missing, so the step index is
\* advanced a second time.
RepairTwoSteps(r) ==
    /\ pc[r] = "decide" /\ run[r].resp.kind = "VERIFY" /\ ~Passed(r)
    /\ run[r].repairs < MaxRepairAttempts
    /\ run' = [run EXCEPT ![r].spans[run[r].step] = "full",
                          ![r].repairs = @ + 1,
                          ![r].step = @ + 2]
    /\ Goto(r, "gate")
    /\ UNCHANGED <<durable, history>>

\* The captured failure output goes to the model through the data channel.
Repair(r) ==
    /\ pc[r] = "decide" /\ run[r].resp.kind = "VERIFY" /\ ~Passed(r)
    /\ run[r].repairs < MaxRepairAttempts
    /\ run' = [run EXCEPT ![r].spans[run[r].step] = "full",
                          ![r].repairs = @ + 1,
                          ![r].step = @ + 1]
    /\ Goto(r, "gate")
    /\ UNCHANGED <<durable, history>>

\* Mutant: the step index is not advanced.
AdvanceNowhere(r) ==
    /\ pc[r] = "decide" /\ run[r].resp.kind \notin {"GIVE_UP", "VERIFY"}
    /\ Goto(r, "gate")
    /\ UNCHANGED <<durable, run, history>>

Advance(r) ==
    /\ pc[r] = "decide" /\ run[r].resp.kind \notin {"GIVE_UP", "VERIFY"}
    /\ run' = [run EXCEPT ![r].step = @ + 1]
    /\ Goto(r, "gate")
    /\ UNCHANGED <<durable, history>>

\* _commit_if_apply.  Workspace.tla models commit_worktree file by file, and the
\* peer tasks whose commits make it refuse.
MergeWorktree(r) ==
    /\ pc[r] = "merge"
    /\ base' = Overlay(base, worktree)
    /\ StopWith(r, "VERIFIED_SUCCESS")
    /\ UNCHANGED <<task, journal, ledger, artifacts, opened, worktree, history>>

MergeConflict(r) ==
    /\ pc[r] = "merge"
    /\ StopWith(r, "GAVE_UP")
    /\ UNCHANGED <<durable, history>>

-----------------------------------------------------------------------------
(* How a run ends                                                          *)

\* The locals of run() are gone.
Forget(r) ==
    /\ run' = [run EXCEPT ![r] = NoLocals]
    /\ Goto(r, "idle")

Terminate(r) ==
    /\ pc[r] = "terminate"
    /\ state' = run[r].verdict
    /\ Forget(r)
    /\ UNCHANGED <<mode, toolCalls, journal, ledger, tree, history>>

\* The process dies, or an exception from outside the loop (a model backend
\* error, a malformed response, a drifted snapshot, an OSError) leaves run():
\* nothing in run() catches one, so both leave the same state behind.
Die(r) ==
    /\ pc[r] # "idle"
    /\ faults < MaxFaults /\ faults' = faults + 1
    /\ aborts' = aborts + 1
    /\ Forget(r)
    /\ UNCHANGED <<durable, runs, calls, tested>>

\* Mutant: BudgetExceeded is swallowed and the step is tried again.
RetryRefusedRetrieval(r) ==
    /\ pc[r] \in {"retrieve", "read_span"}
    /\ \E c \in RetrievalCosts : spent + c > TokenBudget
    /\ Goto(r, "gate")
    /\ UNCHANGED <<durable, run, history>>

\* A retrieval the budget cannot pay raises BudgetExceeded, which run() does not
\* catch either.
RefuseRetrieval(r) ==
    /\ pc[r] \in {"retrieve", "read_span"}
    /\ \E c \in RetrievalCosts : spent + c > TokenBudget
    /\ aborts' = aborts + 1
    /\ Forget(r)
    /\ UNCHANGED <<durable, runs, faults, calls, tested>>

\* Nobody calls run() on the task again (the bound on runs).
Abandoned ==
    /\ \A r \in Runners : pc[r] = "idle"
    /\ state \notin Terminal /\ runs = MaxRuns
    /\ UNCHANGED vars

-----------------------------------------------------------------------------
Boot(r)   == ReadCommitted(r) \/ ReadTrace(r) \/ Reconcile(r) \/ SetRunning(r)
                \/ OpenWorktree(r) \/ LoadContext(r)
Loop(r)   == GateBreach(r) \/ GatePass(r) \/ ReplayStep(r) \/ FreshStep(r)
                \/ CallModel(r)
Effect(r) == RetrieveDefinition(r) \/ RetrieveOther(r) \/ ReadSpan(r)
                \/ CheckArtifact(r) \/ RecordArtifact(r) \/ ApplyOp(r)
                \/ PlanRename(r) \/ RenameSkip(r) \/ RenameFile(r)
                \/ RenameDone(r) \/ Verify(r)
Record(r) == AppendRow(r) \/ CheckCharge(r) \/ CommitCharge(r) \/ BumpTokens(r)
Decide(r) == GiveUp(r) \/ Succeed(r) \/ OutOfRepairs(r) \/ Repair(r)
                \/ Advance(r) \/ MergeWorktree(r) \/ MergeConflict(r)
Finish(r) == Terminate(r) \/ RefuseRetrieval(r)

\* What a run() that has started does next, short of dying.
Run(r) == Boot(r) \/ Loop(r) \/ Effect(r) \/ Record(r) \/ Decide(r) \/ Finish(r)

Next ==
    \/ \E r \in Runners : Start(r) \/ Run(r) \/ Die(r) \/ ResumeTerminal(r)
    \/ Abandoned

Spec == Init /\ [][Next]_vars

\* A run that has started is one Python call: it keeps executing unless it dies.
\* Nobody owes a run() call, and no fault has to happen.
FairSpec == Spec /\ \A r \in Runners : WF_vars(Run(r))

-----------------------------------------------------------------------------
(* Properties.  Those that need a single runner say so.                    *)

SingleRunner == \A a, b \in Runners : a = b

\* The types of the task row, the journal, the ledger, the files and the locals of
\* every run.
TypeOK ==
    /\ state \in TaskStates /\ mode \in Modes /\ toolCalls \in Nat
    /\ journal \in [Steps -> Row \cup {NoRow}]
    /\ commits \in [Steps -> Nat] /\ spent \in Nat
    /\ artifacts \subseteq Ops /\ opened \in BOOLEAN
    /\ worktree \in [Paths -> FileValues] /\ base \in [Paths -> FileValues]
    /\ pc \in [Runners -> Labels] /\ run \in [Runners -> Locals]
    /\ runs \in 0 .. MaxRuns /\ faults \in 0 .. MaxFaults
    /\ aborts \in Nat /\ calls \in Nat
    /\ tested \in [Paths -> FileValues]

\* Effectively-once charging (_charge_from_journal, _commit_step_charge): however
\* often the single runner dies and resumes, no step has two COMMIT rows, no step is
\* charged without a journal row, and whenever a new paid call is about to be issued
\* or the task is terminal, every journaled step has been charged.
ChargedExactlyOnce ==
    /\ \A s \in Steps : commits[s] <= 1
    /\ Charged \subseteq Journaled
    /\ (state \in Terminal \/ \E r \in Runners : pc[r] = "call")
          => Charged = Journaled

\* _budget_breach is checked before the call whose cost is not known yet: with one
\* runner the committed spend passes the token budget by at most one model call,
\* across any number of crashes and resumes.
SpendBounded == spent <= TokenBudget + MaxCost

\* The journal is contiguous: _next_step_index never leaves a hole, so a resumed run
\* continues right after the last durable step.
JournalContiguous == \A s \in Journaled : \A q \in 0 .. s : q \in Journaled

\* VERIFIED_SUCCESS derives only from the sandbox: the last journaled step is a
\* VERIFY whose row carries a verified verdict, and nothing was journaled after it.
SuccessIsLastVerdict ==
    state = "VERIFIED_SUCCESS" =>
        /\ Journaled # {}
        /\ KindAt(Last(Journaled)) = "VERIFY"
        /\ journal[Last(Journaled)].verified

\* A paid call is in flight: issued, its row not yet written.
InFlight ==
    \E r \in Runners : pc[r] \in {"retrieve", "read_span", "edit", "record", "apply",
                                  "plan_rename", "rename", "verify", "append"}

\* Paid calls are re-issued only because a run died: the calls that left no journal
\* row number at most one per aborted run, besides the one in flight.
PaidCallsAccounted ==
    calls <= Cardinality(Journaled) + aborts + (IF InFlight THEN 1 ELSE 0)

\* The metering row (_bump_task_tokens) never counts a step twice, and a finished task
\* has lost at most one step's metering per aborted run.
MeteringBounded ==
    /\ toolCalls <= Cardinality(Charged)
    /\ state \in Terminal => Cardinality(Journaled) <= toolCalls + aborts

\* The artifact row precedes the write: whatever the worktree holds that the base does
\* not is a recorded artifact, also when the process died between the two.
ArtifactPrecedesWrite ==
    opened => \A p \in Paths :
        worktree[p] # base[p] => [path |-> p, content |-> worktree[p]] \in artifacts

\* Nothing unverified reaches the base: it changes only under an APPLY task whose last
\* journaled step is a VERIFY the sandbox passed, and never after the task has ended.
BaseChangesOnlyVerified ==
    [][/\ mode = "apply" /\ state = "RUNNING" /\ Journaled # {}
       /\ KindAt(Last(Journaled)) = "VERIFY" /\ journal[Last(Journaled)].verified]_base

\* The repair ceiling survives resume up to one attempt: each fault buys the task at
\* most one failed VERIFY beyond the _MAX_REPAIR_ATTEMPTS + 1 of an unbroken run.
RepairsBounded ==
    Cardinality(FailedVerify) <= MaxRepairAttempts + 1 + faults

\* What overlapping runs of one task can do to its ledger: _charge_from_journal and
\* _commit_step_charge look for a COMMIT in one transaction and append theirs in
\* another, and still no step is charged more often than calls of run() may overlap,
\* however often each of them dies and is resumed, nor without a row.
OverlapCharges ==
    /\ \A s \in Steps : commits[s] <= Cardinality(Runners)
    /\ Charged \subseteq Journaled

\* A terminal task stays as it is: the single runner's resume of a finished task is a
\* no-op.
TerminalAbsorbing == [][state \notin Terminal]_<<task, journal, ledger, tree>>

\* A run that does not die brings the task to a terminal state: no budget, repair or
\* replay path can loop or get stuck.
RunEnds ==
    (runs > aborts /\ state \notin Terminal)
        ~> (state \in Terminal \/ runs = aborts)

\* The abstract promise of the journal and the ledger together.
EO == INSTANCE EffectivelyOnce
        WITH recorded <- Journaled, charges <- commits,
             outcome <- IF state \in Terminal THEN state ELSE "open"

\* With one runner the loop implements EffectivelyOnce: steps are recorded in order,
\* each is charged exactly once before the next is recorded, and the task is closed
\* once, with nothing left to charge.
ImplementsEffectivelyOnce == EO!Spec

-----------------------------------------------------------------------------
(* What comments and docs of the repository say, and the loop does not do  *)

\* loop.py:673-676 (and 51-52): once an edit is journaled the worktree holds it, so what
\* the sandbox judges is the worktree that will be committed.
WorktreeHoldsPatch ==
    (\A r \in Runners : pc[r] = "call") => SandboxTree = worktree

\* workspace/service.py:137-138: a successful APPLY task leaves the base equal to the
\* tree the sandbox verified.
CommittedIsVerified ==
    (state = "VERIFIED_SUCCESS" /\ mode = "apply") => base = tested

\* loop.py:424: a COMMIT is appended iff the step has none, whoever runs the task.
NoDoubleCharge == \A s \in Steps : commits[s] <= 1

=============================================================================
