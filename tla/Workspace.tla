------------------------------ MODULE Workspace ------------------------------
(***************************************************************************)
(* One shared workspace and the tasks that work on it                      *)
(* (acp/workspace/service.py, as AgentLoop.run uses it): each task copies  *)
(* the repository into a worktree of its own, edits that, and commits it   *)
(* back under an advisory lock if the head is still the one it started     *)
(* from.  The module also keeps the persisted structural index and the     *)
(* index each run has cached (acp/retrieval/service.py, _index).           *)
(*                                                                         *)
(* A head_commit is a hash of the whole tree (_snapshot_id), so it is      *)
(* modelled by the tree itself.  Trees are copied file by file: copytree   *)
(* lists the source first and copies what it listed, in no known order.    *)
(* Copying one file is one step.                                           *)
(*                                                                         *)
(* A run that dies, or that an exception leaves, gives up its locals and   *)
(* its flock; a later run of the same task is a resume.                    *)
(***************************************************************************)
EXTENDS Naturals, FiniteSets

CONSTANTS
    Tasks,      \* tasks of this workspace, all in APPLY mode
    Paths,      \* files of the repository
    Contents,   \* file contents
    NoFile,     \* the "content" of a path that does not exist
    NoIndex,    \* no index.json, or nothing cached
    Nobody,     \* nobody holds the commit lock
    Writes,     \* the edits a task may make: [path, content]; NoFile deletes
    MaxRuns,    \* bound: calls of run() per task
    MaxFaults   \* bound: crashes

FileValues == Contents \cup {NoFile}
Trees      == [Paths -> FileValues]

ASSUME WorkspaceAssumption ==
    /\ NoFile \notin Contents /\ NoIndex \notin Trees /\ Nobody \notin Tasks
    /\ Writes \subseteq [path: Paths, content: FileValues]
    /\ MaxRuns \in Nat /\ MaxFaults \in Nat

VARIABLES
    \* durable
    base,       \* files of the repository
    head,       \* workspaces.head_commit
    index,      \* the tree index.json was built from, or NoIndex
    made,       \* the tasks whose worktree directory exists
    worktree,   \* [Tasks -> Trees]
    outcome,    \* how each task ended; "rejected" is GAVE_UP after a ConflictError
    \* of each task's run
    lock,       \* who holds the flock on .commit.lock
    pc,         \* where its run is; "idle" when none is active
    run,        \* the locals of its run
    \* history
    runs, faults,
    written     \* paths the task has edited

disk    == <<base, head, index>>
wt      == <<made, worktree, written>>
history == <<runs, faults>>
vars    == <<disk, wt, outcome, lock, pc, run, history>>

Labels   == {"idle", "open", "copy_in", "work", "locking", "check", "copy_out",
             "advance", "unlock", "done"}
Critical == {"check", "copy_out", "advance", "unlock"}
Outcomes == {"open", "success", "gave_up", "rejected"}

Locals ==
    [snap: Trees,               \* self._snap.commit
     base_commit: Trees,        \* self._handle.base_commit
     files: SUBSET Paths,       \* what copytree has still to copy
     cache: Trees \cup {NoIndex}]   \* RetrievalServiceImpl._index_cache

Files(tree) == {p \in Paths : tree[p] # NoFile}
Empty       == [p \in Paths |-> NoFile]
NoLocals    == [snap |-> Empty, base_commit |-> Empty, files |-> {},
                cache |-> NoIndex]

\* create_workspace has ingested a tree and recorded its snapshot id.
Init ==
    /\ base \in Trees /\ head = base
    /\ index \in {base, NoIndex}
    /\ made = {} /\ worktree = [t \in Tasks |-> Empty]
    /\ outcome = [t \in Tasks |-> "open"]
    /\ lock = Nobody
    /\ pc = [t \in Tasks |-> "idle"] /\ run = [t \in Tasks |-> NoLocals]
    /\ runs = [t \in Tasks |-> 0] /\ faults = 0
    /\ written = [t \in Tasks |-> {}]

Goto(t, label) == pc' = [pc EXCEPT ![t] = label]

-----------------------------------------------------------------------------
(* run(): snapshot and worktree                                            *)

\* run() of a task that is not terminal: _snapshot reads the head.
Begin(t) ==
    /\ pc[t] = "idle" /\ outcome[t] = "open"
    /\ runs[t] < MaxRuns /\ runs' = [runs EXCEPT ![t] = @ + 1]
    /\ run' = [run EXCEPT ![t].snap = head]
    /\ Goto(t, "open")
    /\ UNCHANGED <<disk, wt, outcome, lock, faults>>

\* Mutant: the handle's base_commit is left unset.
OpenUnpinned(t) ==
    /\ pc[t] = "open"
    /\ run' = [run EXCEPT ![t].base_commit = NoIndex,
                          ![t].files = IF t \in made THEN {} ELSE Files(base)]
    /\ made' = made \cup {t}
    /\ Goto(t, "copy_in")
    /\ UNCHANGED <<disk, worktree, written, outcome, lock, history>>

\* open_worktree reads the head again; it lists the base only on the first open.
OpenWorktree(t) ==
    /\ pc[t] = "open"
    /\ run' = [run EXCEPT ![t].base_commit = head,
                          ![t].files = IF t \in made THEN {} ELSE Files(base)]
    /\ made' = made \cup {t}
    /\ Goto(t, "copy_in")
    /\ UNCHANGED <<disk, worktree, written, outcome, lock, history>>

CopyIn(t) ==
    /\ pc[t] = "copy_in"
    /\ \E p \in run[t].files :
          /\ worktree' = [worktree EXCEPT ![t][p] = base[p]]
          /\ run' = [run EXCEPT ![t].files = @ \ {p}]
    /\ UNCHANGED <<disk, made, written, outcome, lock, pc, history>>

StartWork(t) ==
    /\ pc[t] = "copy_in" /\ run[t].files = {}
    /\ Goto(t, "work")
    /\ UNCHANGED <<disk, wt, outcome, lock, run, history>>

-----------------------------------------------------------------------------
(* The task's own work                                                     *)

\* _apply_op_to_worktree.
Edit(t) ==
    /\ pc[t] = "work"
    /\ \E w \in Writes :
          /\ worktree' = [worktree EXCEPT ![t][w.path] = w.content]
          /\ written' = [written EXCEPT ![t] = @ \cup {w.path}]
    /\ UNCHANGED <<disk, made, outcome, lock, pc, run, history>>

\* _index on a cache miss, load_index: the head must still be the run's snapshot;
\* index.json is read if it exists, else built from the base and written.
LoadIndex(t) ==
    /\ pc[t] = "work" /\ run[t].cache = NoIndex
    /\ head = run[t].snap
    /\ index' = IF index = NoIndex THEN base ELSE index
    /\ run' = [run EXCEPT ![t].cache = index']
    /\ UNCHANGED <<base, head, wt, outcome, lock, pc, history>>

\* ... otherwise NotFound leaves the run, and with it run().
DriftedIndex(t) ==
    /\ pc[t] = "work" /\ run[t].cache = NoIndex
    /\ head # run[t].snap
    /\ run' = [run EXCEPT ![t] = NoLocals]
    /\ Goto(t, "idle")
    /\ UNCHANGED <<disk, wt, outcome, lock, history>>

\* A task that gives up or runs out of budget commits nothing.
GiveUp(t) ==
    /\ pc[t] = "work"
    /\ outcome' = [outcome EXCEPT ![t] = "gave_up"]
    /\ Goto(t, "done")
    /\ UNCHANGED <<disk, wt, lock, run, history>>

\* The sandbox verified the worktree: _commit_if_apply calls commit_worktree.
Commit(t) ==
    /\ pc[t] = "work"
    /\ Goto(t, "locking")
    /\ UNCHANGED <<disk, wt, outcome, lock, run, history>>

-----------------------------------------------------------------------------
(* commit_worktree                                                         *)

\* Mutant: the lock is not exclusive.
AcquireShared(t) ==
    /\ pc[t] = "locking"
    /\ lock' = t
    /\ Goto(t, "check")
    /\ UNCHANGED <<disk, wt, outcome, run, history>>

Acquire(t) ==
    /\ pc[t] = "locking" /\ lock = Nobody
    /\ lock' = t
    /\ Goto(t, "check")
    /\ UNCHANGED <<disk, wt, outcome, run, history>>

\* ConflictError: the caller terminates the task GAVE_UP.
Reject(t) ==
    /\ outcome' = [outcome EXCEPT ![t] = "rejected"]
    /\ Goto(t, "done")

LockTimeout(t) ==
    /\ pc[t] = "locking" /\ lock # Nobody
    /\ Reject(t)
    /\ UNCHANGED <<disk, wt, lock, run, history>>

\* Mutant: the finally that releases the lock is missing.
ConflictKeepsLock(t) ==
    /\ pc[t] = "check" /\ head # run[t].base_commit
    /\ Reject(t)
    /\ UNCHANGED <<disk, wt, lock, run, history>>

\* Mutant: a stale head is waited for under the lock instead of refused.
ConflictWaits(t) ==
    /\ pc[t] = "check" /\ head # run[t].base_commit
    /\ UNCHANGED vars

Conflict(t) ==
    /\ pc[t] = "check" /\ head # run[t].base_commit
    /\ lock' = Nobody
    /\ Reject(t)
    /\ UNCHANGED <<disk, wt, run, history>>

\* Mutant: the head is not compared with the base commit.
ListUnchecked(t) ==
    /\ pc[t] = "check"
    /\ run' = [run EXCEPT ![t].files = Files(worktree[t])]
    /\ Goto(t, "copy_out")
    /\ UNCHANGED <<disk, wt, outcome, lock, history>>

\* The head is still base_commit: the worktree is listed ...
ListWorktree(t) ==
    /\ pc[t] = "check" /\ head = run[t].base_commit
    /\ run' = [run EXCEPT ![t].files = Files(worktree[t])]
    /\ Goto(t, "copy_out")
    /\ UNCHANGED <<disk, wt, outcome, lock, history>>

\* ... and copied over the base, which loses no file by it ...
CopyOut(t) ==
    /\ pc[t] = "copy_out"
    /\ \E p \in run[t].files :
          /\ base' = [base EXCEPT ![p] = worktree[t][p]]
          /\ run' = [run EXCEPT ![t].files = @ \ {p}]
    /\ UNCHANGED <<head, index, wt, outcome, lock, pc, history>>

CopiedOut(t) ==
    /\ pc[t] = "copy_out" /\ run[t].files = {}
    /\ Goto(t, "advance")
    /\ UNCHANGED <<disk, wt, outcome, lock, run, history>>

\* Mutant: the call of set_head is missing.
AdvanceNowhere(t) ==
    /\ pc[t] = "advance"
    /\ Goto(t, "unlock")
    /\ UNCHANGED <<disk, wt, outcome, lock, run, history>>

\* ... then the new snapshot id is recorded.
Advance(t) ==
    /\ pc[t] = "advance"
    /\ head' = base
    /\ Goto(t, "unlock")
    /\ UNCHANGED <<base, index, wt, outcome, lock, run, history>>

\* The lock is released, and run() writes VERIFIED_SUCCESS.  Dying between the two
\* leaves what dying before both does: an open task and a free lock.
Unlock(t) ==
    /\ pc[t] = "unlock"
    /\ lock' = Nobody
    /\ outcome' = [outcome EXCEPT ![t] = "success"]
    /\ Goto(t, "done")
    /\ UNCHANGED <<disk, wt, run, history>>

-----------------------------------------------------------------------------
(* Faults, the operator and the end                                        *)

\* The process dies; the kernel drops its flock.
Crash(t) ==
    /\ pc[t] \notin {"idle", "done"}
    /\ faults < MaxFaults /\ faults' = faults + 1
    /\ lock' = IF lock = t THEN Nobody ELSE lock
    /\ run' = [run EXCEPT ![t] = NoLocals]
    /\ Goto(t, "idle")
    /\ UNCHANGED <<disk, wt, outcome, runs>>

\* The operator's "index build" (cli/main.py).
BuildIndex ==
    /\ index' = base
    /\ UNCHANGED <<base, head, wt, outcome, lock, pc, run, history>>

\* Every task has ended, or nobody resumes it.
Quiescent ==
    /\ \A t \in Tasks : \/ pc[t] = "done"
                        \/ pc[t] = "idle" /\ runs[t] = MaxRuns
    /\ UNCHANGED vars

Setup(t)  == Begin(t) \/ OpenWorktree(t) \/ CopyIn(t) \/ StartWork(t)
Work(t)   == Edit(t) \/ LoadIndex(t) \/ DriftedIndex(t) \/ GiveUp(t) \/ Commit(t)
Locking(t) == Acquire(t) \/ LockTimeout(t)
Publish(t) == Conflict(t) \/ ListWorktree(t) \/ CopyOut(t) \/ CopiedOut(t)
                \/ Advance(t) \/ Unlock(t)

Next ==
    \/ \E t \in Tasks : Setup(t) \/ Work(t) \/ Locking(t) \/ Publish(t) \/ Crash(t)
    \/ BuildIndex
    \/ Quiescent

Spec == Init /\ [][Next]_vars

\* commit_worktree runs to its end unless the process dies: the retry loop has a
\* deadline, and nothing under the lock waits.  Nobody owes an edit or a resume.
FairSpec == Spec /\ \A t \in Tasks : WF_vars(Locking(t)) /\ WF_vars(Publish(t))

-----------------------------------------------------------------------------
(* Properties                                                              *)

\* The types of the disk, the worktrees and the locals of every run.
TypeOK ==
    /\ base \in Trees /\ head \in Trees /\ index \in Trees \cup {NoIndex}
    /\ made \subseteq Tasks /\ worktree \in [Tasks -> Trees]
    /\ outcome \in [Tasks -> Outcomes] /\ lock \in Tasks \cup {Nobody}
    /\ pc \in [Tasks -> Labels] /\ run \in [Tasks -> Locals]
    /\ runs \in [Tasks -> 0 .. MaxRuns] /\ faults \in 0 .. MaxFaults
    /\ written \in [Tasks -> SUBSET Paths]

\* commit_worktree's critical section: whoever is past the lock holds it, so no two tasks
\* check, copy or advance at the same time; and whoever holds it is past it, so no crash,
\* conflict or timeout leaves the lock behind.
LockProtects == \A t \in Tasks : lock = t <=> pc[t] \in Critical

\* The head recorded for the workspace is the snapshot id of what is on disk whenever
\* nobody is committing, as long as no process has died.
HeadDescribesBase == (lock = Nobody /\ faults = 0) => head = base

\* What the base becomes when task t's own edits, and nothing else, are put on it.  A
\* delete stays in the worktree.
WithEditsOf(t, tree) ==
    [p \in Paths |-> IF p \in written[t] /\ worktree[t][p] # NoFile
                     THEN worktree[t][p] ELSE tree[p]]

\* Commits serialize: while no process has died and no task was resumed, each new head is
\* the previous one with exactly the committing task's edits, so no commit undoes the
\* other's.
CommitsSerialize ==
    [][(faults = 0 /\ \A t \in Tasks : runs[t] <= 1) =>
          \E t \in Tasks : lock = t /\ head' = WithEditsOf(t, head)]_head

\* The commit lock is always released again, also when its holder conflicts or dies.
LockReleased == \A t \in Tasks : (lock = t) ~> (lock # t)

-----------------------------------------------------------------------------
(* What comments and docs of the repository say, and the code does not do  *)

\* workspace/service.py:141, "no silent clobber, ever": each new head is the previous one
\* with exactly the committing task's edits, also when a task was resumed.
NoSilentClobber ==
    [][\E t \in Tasks : lock = t /\ head' = WithEditsOf(t, head)]_head

=============================================================================
