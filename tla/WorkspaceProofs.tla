--------------------------- MODULE WorkspaceProofs ---------------------------
(***************************************************************************)
(* Proofs about Workspace, for any number of tasks, files, runs and        *)
(* crashes: type correctness, mutual exclusion of commit_worktree, and     *)
(* that the recorded head describes the files on disk.  For two tasks:     *)
(* that their commits serialize.                                           *)
(***************************************************************************)
EXTENDS Workspace, TLAPS

\* Updating a field of one run keeps the locals well typed.
LEMMA NoLocalsType == NoLocals \in Locals
  BY DEF NoLocals, Locals, Empty, Trees, FileValues

\* A tree lists files of the repository.
LEMMA FilesType == \A tree : Files(tree) \subseteq Paths
  BY DEF Files

\* TypeOK holds of create_workspace's initial state.
LEMMA TypeInit == Init => TypeOK
<1> SUFFICES ASSUME Init PROVE TypeOK
  OBVIOUS
<1>1. run \in [Tasks -> Locals]
  BY NoLocalsType DEF Init
<1>2. worktree \in [Tasks -> Trees]
  BY DEF Init, Empty, Trees, FileValues
<1>3. /\ pc \in [Tasks -> Labels] /\ outcome \in [Tasks -> Outcomes]
      /\ written \in [Tasks -> SUBSET Paths]
  BY DEF Init, Labels, Outcomes
<1>4. runs \in [Tasks -> 0 .. MaxRuns] /\ faults \in 0 .. MaxFaults
  BY WorkspaceAssumption DEF Init
<1>5. /\ base \in Trees /\ head \in Trees /\ index \in Trees \cup {NoIndex}
      /\ made \subseteq Tasks /\ lock \in Tasks \cup {Nobody}
  BY DEF Init
<1> QED
  BY <1>1, <1>2, <1>3, <1>4, <1>5 DEF TypeOK

\* No step of a run, a crash or an index build leaves the types.
LEMMA TypeStep == TypeOK /\ [Next]_vars => TypeOK'
<1> SUFFICES ASSUME TypeOK, [Next]_vars PROVE TypeOK'
  OBVIOUS
<1> USE WorkspaceAssumption DEF TypeOK
<1>1. ASSUME NEW t \in Tasks, Begin(t) PROVE TypeOK'
  <2>1. pc' \in [Tasks -> Labels]
    BY <1>1 DEF Begin, Goto, Labels
  <2>2. run' \in [Tasks -> Locals]
    BY <1>1 DEF Begin, Locals
  <2>3. runs' \in [Tasks -> 0 .. MaxRuns]
    BY <1>1 DEF Begin
  <2> QED
    BY <1>1, <2>1, <2>2, <2>3 DEF Begin, disk, wt
<1>2. ASSUME NEW t \in Tasks, OpenWorktree(t) PROVE TypeOK'
  <2>1. pc' \in [Tasks -> Labels]
    BY <1>2 DEF OpenWorktree, Goto, Labels
  <2>2. run' \in [Tasks -> Locals]
    <3> DEFINE F == IF t \in made THEN {} ELSE Files(base)
               L == [run[t] EXCEPT !.base_commit = head, !.files = F]
    <3>1. run' = [run EXCEPT ![t] = L]
      BY <1>2 DEF OpenWorktree
    <3>2. F \subseteq Paths /\ head \in Trees
      BY FilesType
    <3> HIDE DEF F
    <3>3. L \in Locals
      BY <3>2 DEF Locals
    <3> QED BY <3>1, <3>3
  <2> QED
    BY <1>2, <2>1, <2>2 DEF OpenWorktree, disk, history
<1>3. ASSUME NEW t \in Tasks, CopyIn(t) PROVE TypeOK'
  <2>1. PICK p \in run[t].files :
          /\ worktree' = [worktree EXCEPT ![t][p] = base[p]]
          /\ run' = [run EXCEPT ![t].files = @ \ {p}]
    BY <1>3 DEF CopyIn
  <2>2. p \in Paths /\ base[p] \in FileValues
    BY DEF Locals, Trees
  <2>3. worktree' \in [Tasks -> Trees]
    BY <2>1, <2>2 DEF Trees
  <2>4. run' \in [Tasks -> Locals]
    BY <2>1 DEF Locals
  <2> QED
    BY <1>3, <2>3, <2>4 DEF CopyIn, disk, history
<1>4. ASSUME NEW t \in Tasks, StartWork(t) PROVE TypeOK'
  <2>1. pc' \in [Tasks -> Labels]
    BY <1>4 DEF StartWork, Goto, Labels
  <2> QED
    BY <1>4, <2>1 DEF StartWork, disk, wt, history
<1>5. ASSUME NEW t \in Tasks, Edit(t) PROVE TypeOK'
  <2>1. PICK w \in Writes :
          /\ worktree' = [worktree EXCEPT ![t][w.path] = w.content]
          /\ written' = [written EXCEPT ![t] = @ \cup {w.path}]
    BY <1>5 DEF Edit
  <2>2. w.path \in Paths /\ w.content \in FileValues
    OBVIOUS
  <2>3. worktree' \in [Tasks -> Trees]
    BY <2>1, <2>2 DEF Trees
  <2>4. written' \in [Tasks -> SUBSET Paths]
    BY <2>1, <2>2
  <2> QED
    BY <1>5, <2>3, <2>4 DEF Edit, disk, history
<1>6. ASSUME NEW t \in Tasks, LoadIndex(t) PROVE TypeOK'
  <2>1. index' \in Trees \cup {NoIndex}
    BY <1>6 DEF LoadIndex
  <2>2. run' \in [Tasks -> Locals]
    BY <1>6, <2>1 DEF LoadIndex, Locals
  <2> QED
    BY <1>6, <2>1, <2>2 DEF LoadIndex, wt, history
<1>7. ASSUME NEW t \in Tasks, DriftedIndex(t) PROVE TypeOK'
  <2>1. pc' \in [Tasks -> Labels]
    BY <1>7 DEF DriftedIndex, Goto, Labels
  <2>2. run' \in [Tasks -> Locals]
    BY <1>7, NoLocalsType DEF DriftedIndex
  <2> QED
    BY <1>7, <2>1, <2>2 DEF DriftedIndex, disk, wt, history
<1>8. ASSUME NEW t \in Tasks, GiveUp(t) PROVE TypeOK'
  <2>1. pc' \in [Tasks -> Labels] /\ outcome' \in [Tasks -> Outcomes]
    BY <1>8 DEF GiveUp, Goto, Labels, Outcomes
  <2> QED
    BY <1>8, <2>1 DEF GiveUp, disk, wt, history
<1>9. ASSUME NEW t \in Tasks, Commit(t) PROVE TypeOK'
  <2>1. pc' \in [Tasks -> Labels]
    BY <1>9 DEF Commit, Goto, Labels
  <2> QED
    BY <1>9, <2>1 DEF Commit, disk, wt, history
<1>10. ASSUME NEW t \in Tasks, Acquire(t) PROVE TypeOK'
  <2>1. pc' \in [Tasks -> Labels]
    BY <1>10 DEF Acquire, Goto, Labels
  <2> QED
    BY <1>10, <2>1 DEF Acquire, disk, wt, history
<1>11. ASSUME NEW t \in Tasks, LockTimeout(t) \/ Conflict(t) PROVE TypeOK'
  <2>1. pc' \in [Tasks -> Labels] /\ outcome' \in [Tasks -> Outcomes]
    BY <1>11 DEF LockTimeout, Conflict, Reject, Goto, Labels, Outcomes
  <2> QED
    BY <1>11, <2>1 DEF LockTimeout, Conflict, disk, wt, history
<1>12. ASSUME NEW t \in Tasks, ListWorktree(t) PROVE TypeOK'
  <2>1. pc' \in [Tasks -> Labels]
    BY <1>12 DEF ListWorktree, Goto, Labels
  <2>2. run' \in [Tasks -> Locals]
    <3> DEFINE F == Files(worktree[t])
               L == [run[t] EXCEPT !.files = F]
    <3>1. run' = [run EXCEPT ![t] = L]
      BY <1>12 DEF ListWorktree
    <3>2. F \subseteq Paths
      BY FilesType
    <3> HIDE DEF F
    <3>3. L \in Locals
      BY <3>2 DEF Locals
    <3> QED BY <3>1, <3>3
  <2> QED
    BY <1>12, <2>1, <2>2 DEF ListWorktree, disk, wt, history
<1>13. ASSUME NEW t \in Tasks, CopyOut(t) PROVE TypeOK'
  <2>1. PICK p \in run[t].files :
          /\ base' = [base EXCEPT ![p] = worktree[t][p]]
          /\ run' = [run EXCEPT ![t].files = @ \ {p}]
    BY <1>13 DEF CopyOut
  <2>2. p \in Paths /\ worktree[t][p] \in FileValues
    BY DEF Locals, Trees
  <2>3. base' \in Trees
    BY <2>1, <2>2 DEF Trees
  <2>4. run' \in [Tasks -> Locals]
    BY <2>1 DEF Locals
  <2> QED
    BY <1>13, <2>3, <2>4 DEF CopyOut, wt, history
<1>14. ASSUME NEW t \in Tasks, CopiedOut(t) \/ Advance(t) PROVE TypeOK'
  <2>1. pc' \in [Tasks -> Labels]
    BY <1>14 DEF CopiedOut, Advance, Goto, Labels
  <2> QED
    BY <1>14, <2>1 DEF CopiedOut, Advance, disk, wt, history
<1>15. ASSUME NEW t \in Tasks, Unlock(t) PROVE TypeOK'
  <2>1. pc' \in [Tasks -> Labels] /\ outcome' \in [Tasks -> Outcomes]
    BY <1>15 DEF Unlock, Goto, Labels, Outcomes
  <2> QED
    BY <1>15, <2>1 DEF Unlock, disk, wt, history
<1>16. ASSUME NEW t \in Tasks, Crash(t) PROVE TypeOK'
  <2>1. pc' \in [Tasks -> Labels]
    BY <1>16 DEF Crash, Goto, Labels
  <2>2. run' \in [Tasks -> Locals]
    BY <1>16, NoLocalsType DEF Crash
  <2>3. faults' \in 0 .. MaxFaults /\ lock' \in Tasks \cup {Nobody}
    BY <1>16 DEF Crash
  <2> QED
    BY <1>16, <2>1, <2>2, <2>3 DEF Crash, disk, wt
<1>17. CASE BuildIndex
  BY <1>17 DEF BuildIndex, wt, history
<1>18. CASE UNCHANGED vars
  BY <1>18 DEF vars, disk, wt, history
<1> QED
  BY <1>1, <1>2, <1>3, <1>4, <1>5, <1>6, <1>7, <1>8, <1>9, <1>10, <1>11, <1>12,
     <1>13, <1>14, <1>15, <1>16, <1>17, <1>18
     DEF Next, Setup, Work, Locking, Publish, Quiescent

\* Every file, head, index, lock holder and local of the workspace service stays of its
\* type, for any tasks, files and number of crashes.
THEOREM WorkspaceTypeCorrect == Spec => []TypeOK
  BY TypeInit, TypeStep, PTL DEF Spec

-----------------------------------------------------------------------------
\* A step of a run other than taking or giving up the lock stays on its side of the
\* critical section, and touches neither the lock nor another task's run.
LEMMA LockStep == TypeOK /\ LockProtects /\ [Next]_vars => LockProtects'
<1> SUFFICES ASSUME TypeOK, LockProtects, [Next]_vars PROVE LockProtects'
  OBVIOUS
<1> USE WorkspaceAssumption DEF LockProtects, Critical
<1>0. pc \in [Tasks -> Labels] /\ lock \in Tasks \cup {Nobody}
  BY DEF TypeOK
<1>1. ASSUME NEW t \in Tasks, Setup(t) PROVE LockProtects'
  BY <1>0, <1>1 DEF Setup, Begin, OpenWorktree, CopyIn, StartWork, Goto
<1>2. ASSUME NEW t \in Tasks, Work(t) PROVE LockProtects'
  BY <1>0, <1>2 DEF Work, Edit, LoadIndex, DriftedIndex, GiveUp, Commit, Goto
<1>3. ASSUME NEW t \in Tasks, Locking(t) PROVE LockProtects'
  <2>1. CASE Acquire(t)
    BY <1>0, <2>1 DEF Acquire, Goto
  <2>2. CASE LockTimeout(t)
    BY <1>0, <2>2 DEF LockTimeout, Reject, Goto
  <2> QED
    BY <1>3, <2>1, <2>2 DEF Locking
<1>4. ASSUME NEW t \in Tasks, Publish(t) PROVE LockProtects'
  <2>1. CASE Conflict(t)
    BY <1>0, <2>1 DEF Conflict, Reject, Goto
  <2>2. CASE Unlock(t)
    BY <1>0, <2>2 DEF Unlock, Goto
  <2>3. CASE ListWorktree(t) \/ CopyOut(t) \/ CopiedOut(t) \/ Advance(t)
    BY <1>0, <2>3 DEF ListWorktree, CopyOut, CopiedOut, Advance, Goto
  <2> QED
    BY <1>4, <2>1, <2>2, <2>3 DEF Publish
<1>5. ASSUME NEW t \in Tasks, Crash(t) PROVE LockProtects'
  BY <1>0, <1>5 DEF Crash, Goto
<1>6. CASE BuildIndex
  BY <1>6 DEF BuildIndex
<1>7. CASE UNCHANGED vars
  BY <1>7 DEF vars
<1> QED
  BY <1>1, <1>2, <1>3, <1>4, <1>5, <1>6, <1>7 DEF Next, Quiescent

\* Mutual exclusion of commit_worktree: a task is between the lock and its release iff
\* it holds the flock, whatever conflicts, times out or dies.
THEOREM CommitIsExclusive == Spec => []LockProtects
<1>1. Init => LockProtects
  BY WorkspaceAssumption DEF Init, LockProtects, Critical
<1> QED
  BY <1>1, LockStep, WorkspaceTypeCorrect, PTL DEF Spec

-----------------------------------------------------------------------------
\* The head is that of the files except while the lock's holder is copying or about to
\* record the new one: the strengthening of HeadDescribesBase that is inductive.
CommitInv ==
    faults = 0 =>
        ((lock = Nobody \/ pc[lock] \in {"check", "unlock"}) => head = base)

\* No step of commit_worktree, of a run or of a crash breaks the head outside the copy.
LEMMA CommitStep ==
    TypeOK /\ LockProtects /\ CommitInv /\ [Next]_vars => CommitInv'
<1> SUFFICES ASSUME TypeOK, LockProtects, CommitInv, [Next]_vars PROVE CommitInv'
  OBVIOUS
<1> USE WorkspaceAssumption DEF CommitInv
<1>0. pc \in [Tasks -> Labels] /\ lock \in Tasks \cup {Nobody} /\ faults \in Nat
  BY DEF TypeOK
<1>1. ASSUME NEW t \in Tasks, Setup(t) PROVE CommitInv'
  BY <1>0, <1>1 DEF Setup, Begin, OpenWorktree, CopyIn, StartWork, Goto, disk, history
<1>2. ASSUME NEW t \in Tasks, Work(t) PROVE CommitInv'
  BY <1>0, <1>2 DEF Work, Edit, LoadIndex, DriftedIndex, GiveUp, Commit, Goto, disk,
                    history
<1>3. ASSUME NEW t \in Tasks, Locking(t) PROVE CommitInv'
  BY <1>0, <1>3 DEF Locking, Acquire, LockTimeout, Reject, Goto, disk, history
<1>4. ASSUME NEW t \in Tasks, Publish(t) PROVE CommitInv'
  <2>0. lock = t
    BY <1>4 DEF Publish, Conflict, ListWorktree, CopyOut, CopiedOut, Advance, Unlock,
                LockProtects, Critical
  <2>1. CASE Conflict(t) \/ Unlock(t)
    BY <1>0, <2>0, <2>1 DEF Conflict, Unlock, Reject, Goto, disk, history
  <2>2. CASE ListWorktree(t) \/ CopiedOut(t)
    BY <1>0, <2>0, <2>2 DEF ListWorktree, CopiedOut, Goto, disk, history
  <2>3. CASE CopyOut(t)
    BY <1>0, <2>0, <2>3 DEF CopyOut, history
  <2>4. CASE Advance(t)
    BY <1>0, <2>0, <2>4 DEF Advance, Goto, history
  <2> QED
    BY <1>4, <2>1, <2>2, <2>3, <2>4 DEF Publish
<1>5. ASSUME NEW t \in Tasks, Crash(t) PROVE CommitInv'
  BY <1>0, <1>5 DEF Crash
<1>6. CASE BuildIndex
  BY <1>6 DEF BuildIndex, history
<1>7. CASE UNCHANGED vars
  BY <1>7 DEF vars, disk, history
<1> QED
  BY <1>1, <1>2, <1>3, <1>4, <1>5, <1>6, <1>7 DEF Next, Quiescent

\* As long as no process has died, the recorded head is the snapshot id of the files on
\* disk whenever nobody is committing: the base-commit check compares like with like.
THEOREM HeadIsTheBases == Spec => []HeadDescribesBase
<1>1. Init => CommitInv
  BY DEF Init, CommitInv
<1>2. CommitInv => HeadDescribesBase
  BY DEF CommitInv, HeadDescribesBase
<1> QED
  BY <1>1, <1>2, CommitStep, CommitIsExclusive, WorkspaceTypeCorrect, PTL DEF Spec

-----------------------------------------------------------------------------
(* Commits serialize                                                       *)

\* No process has died and no task was resumed.
Undisturbed == faults = 0 /\ \A t \in Tasks : runs[t] <= 1

Publishing(t) == pc[t] \in {"copy_out", "advance"}
Advanced(t)   == pc[t] = "unlock" \/ outcome[t] = "success"
Opened(t)     == pc[t] \in {"copy_in", "work", "locking", "check", "copy_out", "advance"}

\* What the base is when t has copied its worktree out.
Final(t) == [p \in Paths |-> IF worktree[t][p] # NoFile THEN worktree[t][p] ELSE head[p]]

\* A worktree is empty until it is opened, and success is for good.
FreshInv ==
    \A t \in Tasks : /\ runs[t] = 0 => pc[t] = "idle" /\ worktree[t] = Empty
                     /\ pc[t] = "open" => worktree[t] = Empty
                     /\ outcome[t] = "success" => pc[t] = "done"

\* The base is the head's tree, but for the files the committing task has copied.
BaseInv ==
    /\ (\A t \in Tasks : ~Publishing(t)) => base = head
    /\ \A t \in Tasks : Publishing(t) =>
          /\ run[t].files \subseteq Files(worktree[t])
          /\ pc[t] = "advance" => run[t].files = {}
          /\ base = [p \in Paths |-> IF p \in run[t].files THEN head[p] ELSE Final(t)[p]]

\* A file t has not edited is the head's, missing, or one a committing peer has copied
\* already ...
Current(t) ==
    /\ head = run[t].base_commit
    /\ \A p \in Paths \ written[t] :
          \/ worktree[t][p] \in {NoFile, head[p]}
          \/ \E u \in Tasks \ {t} : Publishing(u) /\ worktree[t][p] = Final(u)[p]

\* Two tasks work on the workspace.
TwoTasks == \A t, u, x \in Tasks : t = u \/ u = x \/ t = x

\* No step takes the head back to a tree an open worktree was copied from before.
NoReturn ==
    \A t \in Tasks : Opened(t) /\ head # run[t].base_commit => head' # run[t].base_commit

\* ... or t will be refused: the head has moved, and of two tasks nobody is left to move
\* it back.
Stale(t) ==
    /\ head # run[t].base_commit /\ ~Publishing(t)
    /\ TwoTasks => \A u \in Tasks \ {t} : Advanced(u)

SeenInv == \A t \in Tasks : Opened(t) => Current(t) \/ Stale(t)

SerialInv == Undisturbed => FreshInv /\ BaseInv /\ SeenInv

\* A step of task t leaves the other tasks alone.
LEMMA OthersKept ==
    ASSUME TypeOK, NEW t \in Tasks, Setup(t) \/ Work(t) \/ Locking(t) \/ Publish(t),
           NEW x \in Tasks, x # t
    PROVE  /\ pc'[x] = pc[x] /\ outcome'[x] = outcome[x] /\ runs'[x] = runs[x]
           /\ run'[x] = run[x] /\ worktree'[x] = worktree[x] /\ written'[x] = written[x]
<1> USE DEF TypeOK
<1>1. CASE Setup(t)
  BY <1>1 DEF Setup, Begin, OpenWorktree, CopyIn, StartWork, Goto, wt, history
<1>2. CASE Work(t)
  BY <1>2 DEF Work, Edit, LoadIndex, DriftedIndex, GiveUp, Commit, Goto, wt, history
<1>3. CASE Locking(t)
  BY <1>3 DEF Locking, Acquire, LockTimeout, Reject, Goto, wt, history
<1>4. CASE Publish(t)
  BY <1>4 DEF Publish, Conflict, ListWorktree, CopyOut, CopiedOut, Advance, Unlock, Reject,
              Goto, wt, history
<1> QED BY <1>1, <1>2, <1>3, <1>4

\* A step after which nobody has died or was resumed is no crash, and begins a
\* task for the first time.
LEMMA UndisturbedBefore ==
    ASSUME TypeOK, [Next]_vars, Undisturbed'
    PROVE  Undisturbed /\ \A t \in Tasks : ~Crash(t) /\ (Begin(t) => runs[t] = 0)
<1> USE WorkspaceAssumption DEF TypeOK, Undisturbed
<1>0. faults \in Nat /\ runs \in [Tasks -> Nat]
  OBVIOUS
<1>1. ASSUME NEW t \in Tasks, Crash(t) PROVE FALSE
  BY <1>0, <1>1 DEF Crash
<1>2. ASSUME NEW t \in Tasks, Begin(t) PROVE Undisturbed /\ runs[t] = 0
  <2>1. runs' = [runs EXCEPT ![t] = runs[t] + 1] /\ faults' = faults
    BY <1>2 DEF Begin
  <2>2. runs'[t] = runs[t] + 1 /\ \A x \in Tasks \ {t} : runs'[x] = runs[x]
    BY <1>0, <2>1
  <2> QED BY <1>0, <2>1, <2>2
<1>3. ASSUME NEW t \in Tasks, Setup(t) \/ Work(t) \/ Locking(t) \/ Publish(t), ~Begin(t)
      PROVE  UNCHANGED history
  BY <1>3 DEF Setup, Work, Locking, Publish, OpenWorktree, CopyIn, StartWork, Edit, LoadIndex,
              DriftedIndex, GiveUp, Commit, Acquire, LockTimeout, Conflict, ListWorktree, CopyOut,
              CopiedOut, Advance, Unlock, history
<1>4. BuildIndex \/ UNCHANGED vars => UNCHANGED history
  BY DEF BuildIndex, vars, history
<1>5. UNCHANGED history => Undisturbed
  BY DEF history
<1>6. Undisturbed
  BY <1>1, <1>2, <1>3, <1>4, <1>5 DEF Next, Quiescent
<1> QED BY <1>1, <1>2, <1>6

\* Worktrees stay empty until they are opened.
LEMMA FreshStep ==
    ASSUME TypeOK, [Next]_vars, Undisturbed', FreshInv
    PROVE  FreshInv'
<1>0. \A t \in Tasks : ~Crash(t) /\ (Begin(t) => runs[t] = 0)
  BY UndisturbedBefore
<1> USE DEF TypeOK
<1>1. ASSUME NEW t \in Tasks, Setup(t) \/ Work(t) \/ Locking(t) \/ Publish(t) PROVE FreshInv'
  <2>1. ASSUME NEW x \in Tasks, x # t
        PROVE  /\ runs'[x] = 0 => pc'[x] = "idle" /\ worktree'[x] = Empty
               /\ pc'[x] = "open" => worktree'[x] = Empty
               /\ outcome'[x] = "success" => pc'[x] = "done"
    BY <1>1, <2>1, OthersKept DEF FreshInv
  <2>2. /\ runs[t] = 0 => pc[t] = "idle" /\ worktree[t] = Empty
        /\ pc[t] = "open" => worktree[t] = Empty
        /\ outcome[t] = "success" => pc[t] = "done"
    BY DEF FreshInv
  <2>3. /\ runs'[t] = 0 => pc'[t] = "idle" /\ worktree'[t] = Empty
        /\ pc'[t] = "open" => worktree'[t] = Empty
        /\ outcome'[t] = "success" => pc'[t] = "done"
    <3>1. CASE Begin(t)
      <4>1. runs[t] = 0 /\ runs'[t] = runs[t] + 1 /\ UNCHANGED <<worktree, outcome>>
            /\ pc[t] = "idle" /\ pc'[t] = "open"
        BY <1>0, <3>1 DEF Begin, Goto, wt
      <4> QED BY <2>2, <4>1
    <3>2. CASE OpenWorktree(t) \/ CopyIn(t) \/ StartWork(t)
      BY <2>2, <3>2 DEF OpenWorktree, CopyIn, StartWork, Goto, wt, history
    <3>3. CASE Work(t)
      BY <2>2, <3>3 DEF Work, Edit, LoadIndex, DriftedIndex, GiveUp, Commit, Goto, wt, history
    <3>4. CASE Locking(t)
      BY <2>2, <3>4 DEF Locking, Acquire, LockTimeout, Reject, Goto, wt, history
    <3>5. CASE Publish(t)
      BY <2>2, <3>5 DEF Publish, Conflict, ListWorktree, CopyOut, CopiedOut, Advance, Unlock,
                        Reject, Goto, wt, history
    <3> QED BY <1>1, <3>1, <3>2, <3>3, <3>4, <3>5 DEF Setup
  <2> QED BY <2>1, <2>3 DEF FreshInv
<1>2. CASE BuildIndex \/ UNCHANGED vars
  BY <1>2 DEF BuildIndex, vars, wt, history, FreshInv
<1> QED BY <1>0, <1>1, <1>2 DEF Next, Quiescent

\* The base is untouched by a step that neither copies out nor moves the head.
LEMMA BaseKept ==
    ASSUME BaseInv, base' = base, head' = head,
           \A u \in Tasks : /\ Publishing(u)' <=> Publishing(u)
                            /\ Publishing(u) => /\ run'[u].files = run[u].files
                                                /\ worktree'[u] = worktree[u] /\ pc'[u] = pc[u]
    PROVE  BaseInv'
<1>1. (\A t \in Tasks : ~Publishing(t)') => base' = head'
  BY DEF BaseInv
<1>2. ASSUME NEW u \in Tasks, Publishing(u)
      PROVE  /\ run'[u].files \subseteq Files(worktree'[u])
             /\ pc'[u] = "advance" => run'[u].files = {}
             /\ base' = [p \in Paths |-> IF p \in run'[u].files THEN head'[p] ELSE Final(u)'[p]]
  <2>1. Final(u)' = Final(u)
    BY <1>2 DEF Final
  <2>2. /\ run[u].files \subseteq Files(worktree[u])
        /\ pc[u] = "advance" => run[u].files = {}
        /\ base = [p \in Paths |-> IF p \in run[u].files THEN head[p] ELSE Final(u)[p]]
    BY <1>2 DEF BaseInv
  <2> QED BY <1>2, <2>1, <2>2
<1>3. ASSUME NEW u \in Tasks, Publishing(u)'
      PROVE  /\ (run[u].files)' \subseteq Files(worktree[u])'
             /\ (pc[u] = "advance")' => (run[u].files = {})'
             /\ base' = [p \in Paths |-> IF p \in run[u].files THEN head[p] ELSE Final(u)[p]]'
  <2>1. Publishing(u)
    BY <1>3
  <2> QED BY <1>2, <2>1 DEF Files
<1> QED BY <1>1, <1>3 DEF BaseInv

\* What t was current with, it still is.
LEMMA CurrentKept ==
    ASSUME NEW t \in Tasks, Current(t), head' = head,
           run'[t].base_commit = run[t].base_commit, worktree'[t] = worktree[t],
           written[t] \subseteq written'[t],
           \A u \in Tasks : Publishing(u) => Publishing(u)' /\ worktree'[u] = worktree[u]
    PROVE  Current(t)'
<1>1. ASSUME NEW u \in Tasks, Publishing(u) PROVE Final(u)' = Final(u)
  BY <1>1 DEF Final
<1>2. ASSUME NEW p \in Paths \ written'[t]
      PROVE  \/ worktree'[t][p] \in {NoFile, head'[p]}
             \/ \E u \in Tasks \ {t} : Publishing(u)' /\ worktree'[t][p] = Final(u)'[p]
  BY <1>1 DEF Current
<1> QED BY <1>2 DEF Current

\* What t will be refused for, it still will be.
LEMMA StaleKept ==
    ASSUME NEW t \in Tasks, Stale(t), head' = head,
           run'[t].base_commit = run[t].base_commit, ~Publishing(t)',
           \A u \in Tasks \ {t} : Advanced(u) => Advanced(u)'
    PROVE  Stale(t)'
BY DEF Stale

\* Only the lock's holder publishes.
LEMMA OnePublisher ==
    ASSUME LockProtects, NEW t \in Tasks, pc[t] \in Critical, NEW u \in Tasks, Publishing(u)
    PROVE  u = t
BY DEF LockProtects, Critical, Publishing

\* The base is the head's tree but for what the committing task has copied.
LEMMA BaseStep ==
    ASSUME TypeOK, LockProtects, [Next]_vars, Undisturbed', BaseInv
    PROVE  BaseInv'
<1>0. \A t \in Tasks : ~Crash(t)
  BY UndisturbedBefore
<1>1. ASSUME NEW t \in Tasks, Setup(t) \/ Work(t) \/ Locking(t) \/ Conflict(t) \/ Unlock(t)
      PROVE  BaseInv'
  <2>1. base' = base /\ head' = head
    BY <1>1 DEF Setup, Work, Locking, Begin, OpenWorktree, CopyIn, StartWork, Edit, LoadIndex,
                DriftedIndex, GiveUp, Commit, Acquire, LockTimeout, Conflict, Unlock, disk
  <2>2. ~Publishing(t) /\ ~Publishing(t)'
    BY <1>1 DEF Setup, Work, Locking, Begin, OpenWorktree, CopyIn, StartWork, Edit, LoadIndex,
                DriftedIndex, GiveUp, Commit, Acquire, LockTimeout, Conflict, Unlock, Reject,
                Goto, Publishing, TypeOK
  <2>3. ASSUME NEW u \in Tasks, u # t
        PROVE  pc'[u] = pc[u] /\ run'[u] = run[u] /\ worktree'[u] = worktree[u]
    BY <1>1, <2>3, OthersKept DEF Publish
  <2>4. \A u \in Tasks : /\ Publishing(u)' <=> Publishing(u)
                         /\ Publishing(u) => /\ run'[u].files = run[u].files
                                             /\ worktree'[u] = worktree[u] /\ pc'[u] = pc[u]
    BY <2>2, <2>3 DEF Publishing
  <2> QED BY <2>1, <2>4, BaseKept
<1>2. ASSUME NEW t \in Tasks, ListWorktree(t) \/ CopyOut(t) \/ CopiedOut(t) \/ Advance(t)
      PROVE  BaseInv'
  <2>0. pc[t] \in Critical
    BY <1>2 DEF ListWorktree, CopyOut, CopiedOut, Advance, Critical
  <2>1. ASSUME NEW u \in Tasks, u # t PROVE ~Publishing(u)'
    <3>1. pc'[u] = pc[u]
      BY <1>2, <2>1, OthersKept DEF Publish
    <3>2. ~Publishing(u)
      BY <2>0, <2>1, OnePublisher
    <3> QED BY <3>1, <3>2 DEF Publishing
  <2>2. worktree' = worktree
    BY <1>2 DEF ListWorktree, CopyOut, CopiedOut, Advance, wt
  <2>3. base \in Trees /\ head \in Trees /\ worktree[t] \in Trees
    BY DEF TypeOK
  <2>4. SUFFICES
          /\ Publishing(t)' =>
               /\ run'[t].files \subseteq Files(worktree[t])
               /\ pc'[t] = "advance" => run'[t].files = {}
               /\ base' = [p \in Paths |-> IF p \in run'[t].files THEN head'[p]
                             ELSE IF worktree[t][p] # NoFile THEN worktree[t][p] ELSE head'[p]]
          /\ ~Publishing(t)' => base' = head'
    <3>1. ASSUME NEW u \in Tasks, Publishing(u)' PROVE u = t
      BY <2>1, <3>1
    <3>2. Final(t)' = [p \in Paths |-> IF worktree[t][p] # NoFile THEN worktree[t][p]
                                                                  ELSE head'[p]]
      BY <2>2 DEF Final
    <3>3. ASSUME NEW u \in Tasks, Publishing(u)'
          PROVE  /\ (run[u].files)' \subseteq Files(worktree[u])'
                 /\ (pc[u] = "advance")' => (run[u].files = {})'
                 /\ base' = [p \in Paths |-> IF p \in run[u].files THEN head[p] ELSE Final(u)[p]]'
      <4>1. u = t
        BY <3>1, <3>3
      <4>2. Publishing(t)' /\ Files(worktree[t])' = Files(worktree[t])
        BY <2>2, <3>3, <4>1 DEF Files
      <4>3. base' = [p \in Paths |-> IF p \in run'[t].files THEN head'[p] ELSE Final(t)'[p]]
        BY <2>4, <3>2, <4>2
      <4> QED BY <2>4, <4>1, <4>2, <4>3
    <3> QED BY <2>4, <3>3 DEF BaseInv
  <2>5. CASE ListWorktree(t)
    <3>1. base = head
      <4>1. \A u \in Tasks : ~Publishing(u)
        BY <2>0, <2>5, OnePublisher DEF ListWorktree, Publishing
      <4> QED BY <4>1 DEF BaseInv
    <3>2. /\ pc'[t] = "copy_out" /\ base' = base /\ head' = head
          /\ run'[t].files = Files(worktree[t])
      BY <2>5 DEF ListWorktree, Goto, disk, TypeOK
    <3>3. base = [p \in Paths |-> base[p]]
      BY <2>3 DEF Trees
    <3>4. \A p \in Paths : p \notin Files(worktree[t]) => worktree[t][p] = NoFile
      BY DEF Files
    <3>5. base' = [p \in Paths |-> IF p \in run'[t].files THEN head'[p]
                     ELSE IF worktree[t][p] # NoFile THEN worktree[t][p] ELSE head'[p]]
      BY <3>1, <3>2, <3>3, <3>4
    <3> QED BY <3>2, <3>5 DEF Publishing
  <2>6. CASE CopyOut(t)
    <3>0. PICK q \in run[t].files :
             base' = [base EXCEPT ![q] = worktree[t][q]] /\ run' = [run EXCEPT ![t].files = @ \ {q}]
      BY <2>6 DEF CopyOut
    <3>1. pc'[t] = "copy_out" /\ pc[t] = "copy_out" /\ head' = head /\ Publishing(t)
      BY <2>6 DEF CopyOut, Publishing
    <3>2. run'[t].files = run[t].files \ {q}
      BY <3>0 DEF TypeOK, Locals
    <3>3. /\ run[t].files \subseteq Files(worktree[t])
          /\ base = [p \in Paths |-> IF p \in run[t].files THEN head[p] ELSE Final(t)[p]]
      BY <3>1 DEF BaseInv
    <3>4. q \in Paths /\ worktree[t][q] # NoFile
      BY <3>3 DEF Files
    <3>5. ASSUME NEW p \in Paths
          PROVE  base'[p] = IF p \in run'[t].files THEN head'[p]
                            ELSE IF worktree[t][p] # NoFile THEN worktree[t][p] ELSE head'[p]
      <4>1. base[p] = IF p \in run[t].files THEN head[p]
                      ELSE IF worktree[t][p] # NoFile THEN worktree[t][p] ELSE head[p]
        BY <3>3 DEF Final
      <4>2. base'[p] = IF p = q THEN worktree[t][q] ELSE base[p]
        BY <2>3, <3>0 DEF Trees
      <4> QED BY <3>1, <3>2, <3>4, <4>1, <4>2
    <3>6. base' = [p \in Paths |-> base'[p]]
      BY <2>3, <3>0 DEF Trees
    <3>7. base' = [p \in Paths |-> IF p \in run'[t].files THEN head'[p]
                     ELSE IF worktree[t][p] # NoFile THEN worktree[t][p] ELSE head'[p]]
      BY <3>5, <3>6
    <3> QED BY <3>1, <3>2, <3>3, <3>7 DEF Publishing
  <2>7. CASE CopiedOut(t)
    <3>1. /\ pc[t] = "copy_out" /\ run[t].files = {} /\ run' = run /\ base' = base /\ head' = head
          /\ Publishing(t)
      BY <2>7 DEF CopiedOut, Publishing, disk
    <3>2. base = [p \in Paths |-> IF p \in run[t].files THEN head[p] ELSE Final(t)[p]]
      BY <3>1 DEF BaseInv
    <3>3. Publishing(t)'
      BY <2>7 DEF CopiedOut, Goto, Publishing, TypeOK
    <3> QED BY <3>1, <3>2, <3>3 DEF Final
  <2>8. CASE Advance(t)
    BY <2>8 DEF Advance, Goto, Publishing, TypeOK
  <2> QED BY <1>2, <2>5, <2>6, <2>7, <2>8
<1>3. CASE BuildIndex \/ UNCHANGED vars
  <2>1. base' = base /\ head' = head /\ UNCHANGED <<pc, run, worktree>>
    BY <1>3 DEF BuildIndex, vars, disk, wt
  <2>2. \A u \in Tasks : /\ Publishing(u)' <=> Publishing(u)
                         /\ Publishing(u) => /\ run'[u].files = run[u].files
                                             /\ worktree'[u] = worktree[u] /\ pc'[u] = pc[u]
    BY <2>1 DEF Publishing
  <2> QED BY <2>1, <2>2, BaseKept
<1> QED BY <1>0, <1>1, <1>2, <1>3 DEF Next, Publish, Quiescent

\* What a run may see of the peer's commit: the new base when it is recorded.
LEMMA AdvanceSeen ==
    ASSUME TwoTasks \/ NoReturn, TypeOK, LockProtects, FreshInv, BaseInv, SeenInv,
           NEW t \in Tasks, Advance(t)
    PROVE  SeenInv'
<1>1. /\ pc[t] = "advance" /\ head' = base /\ worktree' = worktree /\ written' = written
      /\ run' = run /\ Publishing(t) /\ pc[t] \in Critical
  BY DEF Advance, wt, Publishing, Critical
<1>2. pc'[t] = "unlock"
  BY DEF Advance, Goto, TypeOK
<1>3. base = Final(t)
  <2>1. run[t].files = {}
        /\ base = [p \in Paths |-> IF p \in run[t].files THEN head[p] ELSE Final(t)[p]]
    BY <1>1 DEF BaseInv
  <2> QED BY <2>1 DEF Final
<1>4. outcome[t] # "success"
  BY <1>1 DEF FreshInv
<1>5. ASSUME NEW x \in Tasks, Opened(x)' PROVE Current(x)' \/ Stale(x)'
  <2>1. x # t
    BY <1>2, <1>5 DEF Opened
  <2>2. pc'[x] = pc[x]
    BY <2>1, OthersKept DEF Publish
  <2>3. Opened(x) /\ ~Publishing(x)
    BY <1>1, <1>5, <2>1, <2>2, OnePublisher DEF Opened
  <2>4. CASE Stale(x)
    <3>1. ~TwoTasks
      BY <1>1, <1>4, <2>1, <2>4 DEF Stale, Advanced
    <3>2. head' # run'[x].base_commit
      BY <1>1, <2>3, <2>4, <3>1 DEF NoReturn, Stale
    <3>3. ~Publishing(x)'
      BY <2>2, <2>3 DEF Publishing
    <3> QED BY <3>1, <3>2, <3>3 DEF Stale
  <2>5. CASE Current(x)
    <3>1. ASSUME NEW p \in Paths \ written[x]
          PROVE  worktree[x][p] \in {NoFile, head[p], head'[p]}
      <4>1. CASE worktree[x][p] \in {NoFile, head[p]}
        BY <4>1
      <4>2. ASSUME NEW u \in Tasks \ {x}, Publishing(u), worktree[x][p] = Final(u)[p]
            PROVE  worktree[x][p] = head'[p]
        <5>1. u = t
          BY <1>1, <4>2, OnePublisher
        <5> QED BY <1>1, <1>3, <4>2, <5>1
      <4> QED BY <2>5, <4>1, <4>2 DEF Current
    <3>2. CASE head' = head
      BY <1>1, <2>5, <3>1, <3>2 DEF Current
    <3>3. CASE head' # head
      <4>1. head' # run'[x].base_commit /\ ~Publishing(x)'
        BY <1>1, <2>2, <2>3, <2>5, <3>3 DEF Current, Publishing
      <4>2. TwoTasks => \A u \in Tasks \ {x} : Advanced(u)'
        <5>1. TwoTasks => \A u \in Tasks \ {x} : u = t
          BY <2>1 DEF TwoTasks
        <5> QED BY <1>2, <5>1 DEF Advanced
      <4> QED BY <4>1, <4>2 DEF Stale
    <3> QED BY <3>2, <3>3
  <2>6. Current(x) \/ Stale(x)
    BY <2>3 DEF SeenInv
  <2> QED BY <2>4, <2>5, <2>6
<1> QED BY <1>5 DEF SeenInv

\* Every other step of t: what t's own worktree holds, and what the peers see.
LEMMA TaskSeen ==
    ASSUME TypeOK, LockProtects, Undisturbed, FreshInv, BaseInv, SeenInv, NEW t \in Tasks,
           Setup(t) \/ Work(t) \/ Locking(t) \/ Publish(t), ~Advance(t)
    PROVE  SeenInv'
<1>1. head' = head
  BY DEF Setup, Work, Locking, Publish, Begin, OpenWorktree, CopyIn, StartWork, Edit, LoadIndex,
         DriftedIndex, GiveUp, Commit, Acquire, LockTimeout, Conflict, ListWorktree, CopyOut,
         CopiedOut, Unlock, disk
<1>2. Publishing(t) => Publishing(t)' /\ worktree'[t] = worktree[t]
  BY DEF Setup, Work, Locking, Publish, Begin, OpenWorktree, CopyIn, StartWork, Edit, LoadIndex,
         DriftedIndex, GiveUp, Commit, Acquire, LockTimeout, Conflict, ListWorktree, CopyOut,
         CopiedOut, Unlock, wt, Goto, Publishing, TypeOK
<1>3. \A u \in Tasks : Publishing(u) => Publishing(u)' /\ worktree'[u] = worktree[u]
  BY <1>2, OthersKept DEF Publishing
<1>4. Advanced(t) => Advanced(t)'
  <2>1. outcome[t] = "success" => pc[t] = "done"
    BY DEF FreshInv
  <2>2. pc[t] # "done"
    BY DEF Setup, Work, Locking, Publish, Begin, OpenWorktree, CopyIn, StartWork, Edit, LoadIndex,
           DriftedIndex, GiveUp, Commit, Acquire, LockTimeout, Conflict, ListWorktree, CopyOut,
           CopiedOut, Unlock
  <2>3. pc[t] = "unlock" => Unlock(t)
    BY DEF Setup, Work, Locking, Publish, Begin, OpenWorktree, CopyIn, StartWork, Edit, LoadIndex,
           DriftedIndex, GiveUp, Commit, Acquire, LockTimeout, Conflict, ListWorktree, CopyOut,
           CopiedOut
  <2>4. Unlock(t) => outcome'[t] = "success"
    BY DEF Unlock, TypeOK
  <2> QED BY <2>1, <2>2, <2>3, <2>4 DEF Advanced
<1>5. \A u \in Tasks : Advanced(u) => Advanced(u)'
  BY <1>4, OthersKept DEF Advanced
<1>6. ASSUME NEW x \in Tasks, x # t, Opened(x)' PROVE Current(x)' \/ Stale(x)'
  <2>1. /\ pc'[x] = pc[x] /\ run'[x] = run[x] /\ worktree'[x] = worktree[x]
        /\ written'[x] = written[x]
    BY <1>6, OthersKept
  <2>2. Current(x) \/ Stale(x)
    BY <1>6, <2>1 DEF Opened, SeenInv
  <2>3. CASE Current(x)
    BY <1>1, <1>3, <2>1, <2>3, CurrentKept
  <2>4. CASE Stale(x)
    <3>1. ~Publishing(x)'
      BY <2>1, <2>4 DEF Stale, Publishing
    <3> QED BY <1>1, <1>5, <2>1, <2>4, <3>1, StaleKept
  <2> QED BY <2>2, <2>3, <2>4
<1>7. ASSUME Opened(t)' PROVE Current(t)' \/ Stale(t)'
  <2>1. ASSUME Stale(t), run'[t].base_commit = run[t].base_commit, ~Publishing(t)'
        PROVE  Stale(t)'
    BY <1>1, <1>5, <2>1, StaleKept
  <2>2. CASE OpenWorktree(t)
    <3>1. /\ worktree' = worktree /\ worktree[t] = Empty /\ run'[t].base_commit = head
      BY <2>2 DEF OpenWorktree, FreshInv, TypeOK, Locals
    <3>2. \A p \in Paths : worktree'[t][p] = NoFile
      BY <3>1 DEF Empty
    <3> QED BY <1>1, <3>1, <3>2 DEF Current
  <2>3. CASE CopyIn(t)
    <3>1. PICK q \in run[t].files :
             worktree' = [worktree EXCEPT ![t][q] = base[q]] /\ run' = [run EXCEPT ![t].files = @ \ {q}]
      BY <2>3 DEF CopyIn
    <3>2. /\ run'[t].base_commit = run[t].base_commit /\ written' = written
          /\ pc' = pc /\ pc[t] = "copy_in" /\ q \in Paths
      BY <2>3, <3>1 DEF CopyIn, TypeOK, Locals
    <3>3. ~Publishing(t) /\ ~Publishing(t)' /\ Opened(t)
      BY <3>2 DEF Publishing, Opened
    <3>4. \A p \in Paths : worktree'[t][p] = IF p = q THEN base[q] ELSE worktree[t][p]
      BY <3>1 DEF TypeOK, Trees
    <3>5. base[q] = head[q] \/ \E u \in Tasks \ {t} : Publishing(u) /\ base[q] = Final(u)[q]
      <4>1. CASE \A u \in Tasks : ~Publishing(u)
        BY <4>1 DEF BaseInv
      <4>2. ASSUME NEW u \in Tasks, Publishing(u)
            PROVE  base[q] = head[q] \/ (u # t /\ base[q] = Final(u)[q])
        <5>1. base = [p \in Paths |-> IF p \in run[u].files THEN head[p] ELSE Final(u)[p]]
          BY <4>2 DEF BaseInv
        <5> QED BY <3>2, <3>3, <4>2, <5>1
      <4> QED BY <4>1, <4>2
    <3>6. ASSUME NEW u \in Tasks \ {t}, Publishing(u) PROVE Publishing(u)' /\ Final(u)' = Final(u)
      BY <1>1, <1>3, <3>6 DEF Final
    <3>7. CASE Current(t)
      <4>1. ASSUME NEW p \in Paths \ written'[t]
            PROVE  \/ worktree'[t][p] \in {NoFile, head'[p]}
                   \/ \E u \in Tasks \ {t} : Publishing(u)' /\ worktree'[t][p] = Final(u)'[p]
        <5>1. CASE p = q
          BY <1>1, <3>4, <3>5, <3>6, <5>1
        <5>2. CASE p # q
          <6>1. worktree'[t][p] = worktree[t][p]
            BY <3>4, <5>2
          <6>2. \/ worktree[t][p] \in {NoFile, head[p]}
                \/ \E u \in Tasks \ {t} : Publishing(u) /\ worktree[t][p] = Final(u)[p]
            BY <3>2, <3>7 DEF Current
          <6> QED BY <1>1, <3>6, <6>1, <6>2
        <5> QED BY <5>1, <5>2
      <4> QED BY <1>1, <3>2, <3>7, <4>1 DEF Current
    <3> QED BY <2>1, <3>2, <3>3, <3>7 DEF SeenInv
  <2>4. CASE Edit(t)
    <3>1. PICK w \in Writes :
             /\ worktree' = [worktree EXCEPT ![t][w.path] = w.content]
             /\ written' = [written EXCEPT ![t] = @ \cup {w.path}]
      BY <2>4 DEF Edit
    <3>2. run' = run /\ pc' = pc /\ pc[t] = "work" /\ written'[t] = written[t] \cup {w.path}
      BY <2>4, <3>1 DEF Edit, TypeOK
    <3>3. ~Publishing(t)' /\ Opened(t)
      BY <3>2 DEF Publishing, Opened
    <3>4. \A p \in Paths \ written'[t] : p \in Paths \ written[t] /\ worktree'[t][p] = worktree[t][p]
      BY <3>1, <3>2 DEF TypeOK, Trees
    <3>5. ASSUME NEW u \in Tasks \ {t}, Publishing(u) PROVE Publishing(u)' /\ Final(u)' = Final(u)
      BY <1>1, <1>3, <3>5 DEF Final
    <3>6. CASE Current(t)
      <4>1. ASSUME NEW p \in Paths \ written'[t]
            PROVE  \/ worktree'[t][p] \in {NoFile, head'[p]}
                   \/ \E u \in Tasks \ {t} : Publishing(u)' /\ worktree'[t][p] = Final(u)'[p]
        <5>1. \/ worktree[t][p] \in {NoFile, head[p]}
              \/ \E u \in Tasks \ {t} : Publishing(u) /\ worktree[t][p] = Final(u)[p]
          BY <3>4, <3>6 DEF Current
        <5> QED BY <1>1, <3>4, <3>5, <5>1
      <4> QED BY <1>1, <3>2, <3>6, <4>1 DEF Current
    <3> QED BY <2>1, <3>2, <3>3, <3>6 DEF SeenInv
  <2>5. CASE ListWorktree(t)
    <3>1. /\ head = run[t].base_commit /\ worktree' = worktree /\ written' = written
          /\ run'[t].base_commit = run[t].base_commit /\ Opened(t)
      BY <2>5 DEF ListWorktree, wt, TypeOK, Locals, Opened
    <3>2. Current(t)
      BY <3>1 DEF SeenInv, Stale
    <3> QED BY <1>1, <1>3, <3>1, <3>2, CurrentKept
  <2>6. CASE StartWork(t) \/ LoadIndex(t) \/ Commit(t) \/ Acquire(t) \/ CopyOut(t) \/ CopiedOut(t)
    <3>1. worktree' = worktree /\ written' = written /\ Opened(t)
          /\ run'[t].base_commit = run[t].base_commit
      BY <2>6 DEF StartWork, LoadIndex, Commit, Acquire, CopyOut, CopiedOut, wt, Opened, TypeOK,
                  Locals
    <3>2. Publishing(t)' => Publishing(t)
      BY <2>6 DEF StartWork, LoadIndex, Commit, Acquire, CopyOut, CopiedOut, Goto, Publishing,
                  TypeOK
    <3>3. CASE Current(t)
      BY <1>1, <1>3, <3>1, <3>3, CurrentKept
    <3>4. CASE Stale(t)
      BY <2>1, <3>1, <3>2, <3>4 DEF Stale
    <3> QED BY <3>1, <3>3, <3>4 DEF SeenInv
  <2>7. CASE \/ Begin(t) \/ DriftedIndex(t) \/ GiveUp(t) \/ LockTimeout(t) \/ Conflict(t)
             \/ Unlock(t)
    BY <1>7, <2>7 DEF Begin, DriftedIndex, GiveUp, LockTimeout, Conflict, Unlock, Reject, Goto,
                      Opened, TypeOK
  <2> QED BY <2>2, <2>3, <2>4, <2>5, <2>6, <2>7 DEF Setup, Work, Locking, Publish
<1> QED BY <1>6, <1>7 DEF SeenInv

\* Every step keeps the three.
LEMMA SerialStep ==
    ASSUME TwoTasks \/ NoReturn, TypeOK, LockProtects, SerialInv, [Next]_vars
    PROVE  SerialInv'
<1> SUFFICES ASSUME Undisturbed' PROVE FreshInv' /\ BaseInv' /\ SeenInv'
  BY DEF SerialInv
<1>1. Undisturbed /\ \A t \in Tasks : ~Crash(t)
  BY UndisturbedBefore
<1>2. FreshInv /\ BaseInv /\ SeenInv
  BY <1>1 DEF SerialInv
<1>3. FreshInv' /\ BaseInv'
  BY <1>2, FreshStep, BaseStep
<1>4. ASSUME NEW t \in Tasks, Setup(t) \/ Work(t) \/ Locking(t) \/ Publish(t) PROVE SeenInv'
  BY <1>1, <1>2, <1>4, AdvanceSeen, TaskSeen
<1>5. CASE BuildIndex \/ UNCHANGED vars
  <2>1. UNCHANGED <<base, head, worktree, written, outcome, pc, run>>
    BY <1>5 DEF BuildIndex, vars, disk, wt
  <2>2. ASSUME NEW t \in Tasks, Opened(t)' PROVE Current(t)' \/ Stale(t)'
    <3>1. Opened(t) /\ (Current(t) \/ Stale(t))
      BY <1>2, <2>1, <2>2 DEF Opened, SeenInv
    <3>2. Current(t) => Current(t)'
      <4>1. \A u \in Tasks : Publishing(u) => Publishing(u)' /\ worktree'[u] = worktree[u]
        BY <2>1 DEF Publishing
      <4> QED BY <2>1, <4>1, CurrentKept
    <3>3. Stale(t) => Stale(t)'
      <4>1. ~Publishing(t) => ~Publishing(t)'
        BY <2>1 DEF Publishing
      <4>2. \A u \in Tasks \ {t} : Advanced(u) => Advanced(u)'
        BY <2>1 DEF Advanced
      <4> QED BY <2>1, <4>1, <4>2, StaleKept DEF Stale
    <3> QED BY <3>1, <3>2, <3>3
  <2> QED BY <1>3, <2>2 DEF SeenInv
<1> QED BY <1>1, <1>3, <1>4, <1>5 DEF Next, Quiescent

\* What the head becomes: the tree before with the edits of whoever holds the lock.
LEMMA SerialHeads ==
    ASSUME TypeOK, LockProtects, SerialInv, [Next]_vars, head' # head, Undisturbed
    PROVE  \E t \in Tasks : lock = t /\ head' = WithEditsOf(t, head)
<1>1. PICK t \in Tasks : Advance(t)
  BY DEF Next, Setup, Work, Locking, Publish, Begin, OpenWorktree, CopyIn, StartWork, Edit,
         LoadIndex, DriftedIndex, GiveUp, Commit, Acquire, LockTimeout, Conflict, ListWorktree,
         CopyOut, CopiedOut, Unlock, Crash, BuildIndex, Quiescent, vars, disk
<1>2. pc[t] = "advance" /\ head' = base /\ Publishing(t) /\ Opened(t) /\ pc[t] \in Critical
  BY <1>1 DEF Advance, Publishing, Opened, Critical
<1>3. lock = t
  BY <1>2 DEF LockProtects
<1>4. base = [p \in Paths |-> IF worktree[t][p] # NoFile THEN worktree[t][p] ELSE head[p]]
  BY <1>2 DEF SerialInv, BaseInv, Final
<1>5. Current(t)
  BY <1>2 DEF SerialInv, SeenInv, Stale
<1>6. \A p \in Paths \ written[t] : worktree[t][p] \in {NoFile, head[p]}
  BY <1>2, <1>5, OnePublisher DEF Current
<1>7. base = WithEditsOf(t, head)
  BY <1>4, <1>6 DEF WithEditsOf
<1> QED BY <1>2, <1>3, <1>7

LEMMA SerialBegins == Init => SerialInv
BY DEF Init, SerialInv, FreshInv, BaseInv, SeenInv, Opened, Publishing

\* Commits of two tasks serialize: the head moves only under the lock, to the previous
\* head's tree with exactly the committing task's edits.
THEOREM HeadsSerialize ==
    ASSUME TwoTasks
    PROVE  Spec => CommitsSerialize
<1>1. TypeOK /\ LockProtects /\ SerialInv /\ [Next]_vars
      => [(faults = 0 /\ \A t \in Tasks : runs[t] <= 1) =>
             \E t \in Tasks : lock = t /\ head' = WithEditsOf(t, head)]_head
  BY SerialHeads DEF Undisturbed
<1>2. TypeOK /\ LockProtects /\ SerialInv /\ [Next]_vars => SerialInv'
  BY SerialStep
<1> QED BY <1>1, <1>2, SerialBegins, CommitIsExclusive, WorkspaceTypeCorrect, PTL
        DEF Spec, CommitsSerialize

\* No commit takes the head back to where the worktree of a task still at work began.
HeadsNeverReturn == [][NoReturn]_vars

\* Commits of any number of tasks serialize while no head returns: the one hole in the
\* check of the base commit is that it compares trees, and not how often the head moved.
THEOREM HeadsSerializeUnlessOneReturns == Spec /\ HeadsNeverReturn => CommitsSerialize
<1>1. TypeOK /\ LockProtects /\ SerialInv /\ [Next]_vars
      => [(faults = 0 /\ \A t \in Tasks : runs[t] <= 1) =>
             \E t \in Tasks : lock = t /\ head' = WithEditsOf(t, head)]_head
  BY SerialHeads DEF Undisturbed
<1>2. TypeOK /\ LockProtects /\ SerialInv /\ [Next]_vars /\ [NoReturn]_vars => SerialInv'
  <2>1. UNCHANGED vars => NoReturn
    BY DEF NoReturn, vars, disk
  <2> QED BY <2>1, SerialStep
<1> QED BY <1>1, <1>2, SerialBegins, CommitIsExclusive, WorkspaceTypeCorrect, PTL
        DEF Spec, HeadsNeverReturn, CommitsSerialize

=============================================================================
