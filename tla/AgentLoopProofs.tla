--------------------------- MODULE AgentLoopProofs ---------------------------
(***************************************************************************)
(* What AgentLoop guarantees for every budget, every set of model answers, *)
(* and every number of runs and faults.                                    *)
(***************************************************************************)
EXTENDS AgentLoop, FoldTheorems, FiniteSetTheorems, WellFoundedInduction, TLAPS

-----------------------------------------------------------------------------
(* The helpers on sets of step indices                                     *)

\* A nonempty bounded set of naturals has a greatest element: Last, which
\* _next_step_index takes of the trace, is a member.
LEMMA LastIsLast ==
    ASSUME NEW n \in Nat, NEW S \in SUBSET (0 .. n), S # {}
    PROVE  Last(S) \in S /\ \A q \in S : q <= Last(S)
<1> DEFINE Above(s) == {q \in S : q > s}
           R == StrictSubsetOrdering(S)
           T == {Above(s) : s \in S}
<1>1. IsFiniteSet(S)
  BY FS_BoundedSetOfNaturals, S \in SUBSET Nat, \A s \in S : s <= n
<1>2. IsWellFoundedOn(R, SUBSET S)
  BY <1>1, FS_StrictSubsetOrderingWellFounded, FS_FiniteSubsetsOfFinite
<1>3. T \subseteq SUBSET S /\ T # {}
  OBVIOUS
<1> HIDE DEF R, T
<1>4. PICK x \in T : \A y \in T : ~(<<y, x>> \in R)
  BY <1>2, <1>3, WFMin
<1>5. PICK s \in S : x = Above(s)
  BY <1>4 DEF T
<1>6. \A q \in S : ~(q > s)
  <2> SUFFICES ASSUME NEW q \in S, q > s PROVE FALSE
    OBVIOUS
  <2>0. q \in Nat /\ s \in Nat /\ \A z \in S : z \in Nat
    OBVIOUS
  <2>a. \A z \in Above(q) : z \in Above(s)
    BY <2>0
  <2>b. q \in Above(s) /\ q \notin Above(q)
    BY <2>0
  <2>1. Above(q) \subseteq Above(s) /\ q \in Above(s) /\ q \notin Above(q)
    BY <2>a, <2>b
  <2>2. Above(q) \in T /\ Above(q) \in SUBSET S /\ Above(s) \in SUBSET S
    BY DEF T
  <2> HIDE DEF Above
  <2>3. <<Above(q), x>> \in R
    BY <2>1, <2>2, <1>5 DEF R, StrictSubsetOrdering
  <2> QED BY <2>2, <2>3, <1>4
<1>7. \A q \in S : q <= s
  BY <1>6
<1> QED BY <1>7 DEF Last

\* A nonempty bounded set of naturals has a least element.
LEMMA FirstIsFirst ==
    ASSUME NEW S \in SUBSET Nat, IsFiniteSet(S), S # {}
    PROVE  First(S) \in S /\ \A q \in S : First(S) <= q
<1> DEFINE Below(s) == {q \in S : q < s}
           R == StrictSubsetOrdering(S)
           T == {Below(s) : s \in S}
<1>2. IsWellFoundedOn(R, SUBSET S)
  BY FS_StrictSubsetOrderingWellFounded, FS_FiniteSubsetsOfFinite
<1>3. T \subseteq SUBSET S /\ T # {}
  OBVIOUS
<1> HIDE DEF R, T
<1>4. PICK x \in T : \A y \in T : ~(<<y, x>> \in R)
  BY <1>2, <1>3, WFMin
<1>5. PICK s \in S : x = Below(s)
  BY <1>4 DEF T
<1>6. \A q \in S : ~(q < s)
  <2> SUFFICES ASSUME NEW q \in S, q < s PROVE FALSE
    OBVIOUS
  <2>0. q \in Nat /\ s \in Nat /\ \A z \in S : z \in Nat
    OBVIOUS
  <2>a. \A z \in Below(q) : z \in Below(s)
    BY <2>0
  <2>b. q \in Below(s) /\ q \notin Below(q)
    BY <2>0
  <2>1. Below(q) \subseteq Below(s) /\ q \in Below(s) /\ q \notin Below(q)
    BY <2>a, <2>b
  <2>2. Below(q) \in T /\ Below(q) \in SUBSET S /\ Below(s) \in SUBSET S
    BY DEF T
  <2> HIDE DEF Below
  <2>3. <<Below(q), x>> \in R
    BY <2>1, <2>2, <1>5 DEF R, StrictSubsetOrdering
  <2> QED BY <2>2, <2>3, <1>4
<1>7. \A q \in S : s <= q
  BY <1>6
<1> QED BY <1>7 DEF First

-----------------------------------------------------------------------------
(* Type correctness                                                        *)

\* The steps of a run, no answer and the locals of a run that has not begun.
LEMMA ConstantTypes ==
    /\ Steps \subseteq Nat /\ IsFiniteSet(Steps)
    /\ NoResp \in Responses /\ NoResp \in ResponseType
    /\ NoLocals \in Locals
<1>1. Steps \subseteq Nat /\ IsFiniteSet(Steps)
  <2>1. StepBudget - 1 \in Nat
    BY BudgetAssumption
  <2> QED BY <2>1, FS_Interval DEF Steps
<1>2. NoResp \in Responses /\ NoResp \in ResponseType
  BY ResponseAssumption DEF NoResp
<1>3. NoResp.op \in Ops
  BY <1>2 DEF ResponseType
<1>4. NoLocals \in Locals
  BY <1>2, <1>3, BudgetAssumption DEF NoLocals, Locals, Terminal
<1> QED BY <1>1, <1>2, <1>4

\* What the journal says to a starting run has the type of its locals.
LEMMA JournalReads ==
    ASSUME TypeOK
    PROVE  /\ next_step_index \in Nat
           /\ count_repair_attempts \in Nat
           /\ replay_data_spans \in [Steps -> {"none", "marker", "full"}]
<1>1. next_step_index \in Nat
  <2>1. CASE Journaled = {}
    BY <2>1, BudgetAssumption DEF next_step_index
  <2>2. CASE Journaled # {}
    <3>1. Journaled \in SUBSET (0 .. (StepBudget - 1)) /\ StepBudget - 1 \in Nat
      BY BudgetAssumption DEF Journaled, Steps
    <3>2. Last(Journaled) \in 0 .. (StepBudget - 1)
      BY <2>2, <3>1, LastIsLast
    <3> QED BY <2>2, <3>2, BudgetAssumption DEF next_step_index
  <2> QED BY <2>1, <2>2
<1>2. count_repair_attempts \in Nat
  <2>1. FailedVerify \in SUBSET Steps
    BY DEF FailedVerify, Journaled
  <2> QED BY <2>1, ConstantTypes, FS_Subset, FS_CardinalityType
          DEF count_repair_attempts
<1>3. replay_data_spans \in [Steps -> {"none", "marker", "full"}]
  BY DEF replay_data_spans
<1> QED BY <1>1, <1>2, <1>3

\* The row submit creates, with an empty journal and ledger.
LEMMA InitTypeOK == Init => TypeOK
<1> SUFFICES ASSUME Init PROVE TypeOK
  OBVIOUS
<1>1. run \in [Runners -> Locals]
  BY ConstantTypes DEF Init
<1>2. journal \in [Steps -> Row \cup {NoRow}] /\ commits \in [Steps -> Nat]
  BY DEF Init
<1>3. /\ worktree \in [Paths -> FileValues] /\ base \in [Paths -> FileValues]
      /\ tested \in [Paths -> FileValues]
  BY DEF Init, FileValues
<1>4. pc \in [Runners -> Labels] /\ state \in TaskStates
  BY DEF Init, Labels, TaskStates
<1>5. /\ mode \in Modes /\ toolCalls \in Nat /\ spent \in Nat
      /\ artifacts \subseteq Ops /\ opened \in BOOLEAN
  BY DEF Init
<1>6. /\ runs \in 0 .. MaxRuns /\ faults \in 0 .. MaxFaults
      /\ aborts \in Nat /\ calls \in Nat
  BY BudgetAssumption DEF Init
<1> QED BY <1>1, <1>2, <1>3, <1>4, <1>5, <1>6 DEF TypeOK

\* TypeOK, with the rows a reconciling run has still to charge: the journal is
\* append-only, so a row read into todo is still there when it is charged.
TypeInv == TypeOK /\ \A r \in Runners : run[r].todo \subseteq Journaled

\* Where a run is inside a step: past the budget gate, before the next one.
InStep == {"lookup", "call", "retrieve", "read_span", "edit", "record", "apply",
           "plan_rename", "rename", "verify", "append", "charge", "commit", "bump",
           "decide", "merge"}

\* The step budget bounds the step index of a run that has passed the gate.
StepsInRange == \A r \in Runners : pc[r] \in InStep => run[r].step \in Steps

\* A step that replaces one runner's locals and removes no row.
LEMMA SetLocals ==
    ASSUME TypeInv, NEW r \in Runners, NEW L \in Locals,
           run' = [run EXCEPT ![r] = L],
           L.todo \subseteq Journaled', Journaled \subseteq Journaled'
    PROVE  /\ run' \in [Runners -> Locals]
           /\ \A q \in Runners : run'[q].todo \subseteq Journaled'
BY DEF TypeInv, TypeOK

\* The tree sent to the sandbox is made of file contents.
LEMMA SandboxTreeType ==
    ASSUME TypeOK
    PROVE  SandboxTree \in [Paths -> FileValues]
<1> SUFFICES ASSUME NEW p \in Paths
             PROVE  SandboxTree[p] \in FileValues
  BY DEF SandboxTree
<1> DEFINE by == {s \in Journaled : PatchesPath(s, p)}
<1>1. worktree[p] \in FileValues
  BY DEF TypeOK
<1>2. ASSUME by # {} PROVE journal[Last(by)].resp.op.content \in FileValues
  <2>1. by \in SUBSET (0 .. (StepBudget - 1)) /\ StepBudget - 1 \in Nat
    BY BudgetAssumption DEF Journaled, Steps
  <2>2. Last(by) \in by
    BY <1>2, <2>1, LastIsLast
  <2>3. journal[Last(by)] \in Row
    BY <2>2 DEF TypeOK, Journaled
  <2> QED BY <2>3 DEF Row, ResponseType, Ops
<1>3. SandboxTree[p] = IF by = {} \/ KindAt(Last(by)) = "RENAME" THEN worktree[p]
                       ELSE journal[Last(by)].resp.op.content
  BY DEF SandboxTree
<1> HIDE DEF by
<1> QED BY <1>1, <1>2, <1>3

\* The head of run(), up to the first iteration, keeps the types.
LEMMA BootTypeInv ==
    ASSUME TypeInv, NEW r \in Runners, Boot(r)
    PROVE  TypeInv'
<1> USE DEF TypeInv, Goto, durable, task, ledger, tree, history
<1>0. run[r] \in Locals
  BY DEF TypeOK
<1>1. CASE ReadCommitted(r)
  <2> DEFINE L == [run[r] EXCEPT !.seen = Charged]
  <2>1. L \in Locals /\ L.todo = run[r].todo
    BY <1>0 DEF Locals, Charged
  <2>2. run' = [run EXCEPT ![r] = L] /\ UNCHANGED journal
    BY <1>1 DEF ReadCommitted
  <2> HIDE DEF L
  <2>3. run' \in [Runners -> Locals] /\ \A q \in Runners : run'[q].todo \subseteq Journaled'
    BY <2>1, <2>2, SetLocals DEF TypeOK, Journaled
  <2> QED BY <1>1, <2>1, <2>2, <2>3 DEF TypeOK, ReadCommitted, Labels
<1>2. CASE ReadTrace(r)
  <2> DEFINE L == [run[r] EXCEPT !.todo = Journaled \ run[r].seen]
  <2>1. L \in Locals /\ L.todo \subseteq Journaled
    BY <1>0 DEF Locals, Journaled
  <2>2. run' = [run EXCEPT ![r] = L] /\ UNCHANGED journal
    BY <1>2 DEF ReadTrace
  <2> HIDE DEF L
  <2>3. run' \in [Runners -> Locals] /\ \A q \in Runners : run'[q].todo \subseteq Journaled'
    BY <2>1, <2>2, SetLocals DEF TypeOK, Journaled
  <2> QED BY <1>2, <2>1, <2>2, <2>3 DEF TypeOK, ReadTrace, Labels
<1>3. CASE Reconcile(r)
  <2> DEFINE s == First(run[r].todo)
             L == [run[r] EXCEPT !.todo = @ \ {s}]
  <2>1. s \in Steps /\ s \in Journaled
    <3>1. run[r].todo \subseteq Steps /\ run[r].todo # {}
      BY <1>3, <1>0 DEF Reconcile, Locals
    <3>2. s \in run[r].todo
      BY <3>1, ConstantTypes, FirstIsFirst, FS_Subset
    <3> QED BY <3>1, <3>2
  <2>2. journal[s].resp.cost \in Nat
    BY <2>1 DEF TypeOK, Journaled, Row, ResponseType
  <2>3. L \in Locals /\ L.todo \subseteq run[r].todo
    BY <1>0 DEF Locals
  <2>4. run' = [run EXCEPT ![r] = L] /\ UNCHANGED journal
    BY <1>3 DEF Reconcile
  <2>5. commits' \in [Steps -> Nat] /\ spent' \in Nat
    BY <1>3, <2>1, <2>2 DEF Reconcile, AppendCommit, TypeOK
  <2> HIDE DEF L
  <2>6. run' \in [Runners -> Locals] /\ \A q \in Runners : run'[q].todo \subseteq Journaled'
    BY <2>3, <2>4, <2>5, SetLocals DEF TypeOK, Journaled
  <2> QED BY <1>3, <2>3, <2>4, <2>5, <2>6 DEF TypeOK, Reconcile
<1>4. CASE SetRunning(r)
  BY <1>4 DEF TypeOK, SetRunning, Labels, Journaled, TaskStates
<1>5. CASE OpenWorktree(r)
  BY <1>5 DEF TypeOK, OpenWorktree, Labels, Journaled
<1>6. CASE LoadContext(r)
  <2> DEFINE L == [run[r] EXCEPT !.spans = replay_data_spans, !.step = next_step_index,
        !.repairs = count_repair_attempts]
  <2>1. L \in Locals /\ L.todo = run[r].todo
    BY <1>0, JournalReads DEF Locals
  <2>2. run' = [run EXCEPT ![r] = L] /\ UNCHANGED journal
    BY <1>6 DEF LoadContext
  <2> HIDE DEF L
  <2>3. run' \in [Runners -> Locals] /\ \A q \in Runners : run'[q].todo \subseteq Journaled'
    BY <2>1, <2>2, SetLocals DEF TypeOK, Journaled
  <2> QED BY <1>6, <2>1, <2>2, <2>3 DEF TypeOK, LoadContext, Labels
<1> QED BY <1>1, <1>2, <1>3, <1>4, <1>5, <1>6 DEF Boot

\* The budget gate, the cached branch and the paid call keep the types.
LEMMA LoopTypeInv ==
    ASSUME TypeInv, StepsInRange, NEW r \in Runners, Loop(r)
    PROVE  TypeInv'
<1> USE DEF TypeInv, Goto, durable, task, ledger, tree, history
<1>0. run[r] \in Locals
  BY DEF TypeOK
<1>1. CASE GateBreach(r)
  <2> DEFINE L == [run[r] EXCEPT !.verdict = "BUDGET_EXHAUSTED"]
  <2>1. L \in Locals /\ L.todo = run[r].todo
    BY <1>0 DEF Locals, Terminal, StopWith
  <2>2. run' = [run EXCEPT ![r] = L] /\ UNCHANGED journal
    BY <1>1 DEF GateBreach, StopWith
  <2> HIDE DEF L
  <2>3. run' \in [Runners -> Locals] /\ \A q \in Runners : run'[q].todo \subseteq Journaled'
    BY <2>1, <2>2, SetLocals DEF TypeOK, Journaled
  <2> QED BY <1>1, <2>1, <2>2, <2>3 DEF TypeOK, GateBreach, Labels, StopWith
<1>2. CASE GatePass(r)
  BY <1>2 DEF TypeOK, GatePass, Labels, Journaled
<1>3. CASE ReplayStep(r)
  <2> DEFINE s == run[r].step
             L == [run[r] EXCEPT
                     !.resp = journal[s].resp,
                     !.spans[s] = IF KindAt(s) = "RETRIEVE" THEN "marker"
                                  ELSE IF s \in FailedVerify THEN "full" ELSE @,
                     !.repairs = IF s \in FailedVerify
                                 THEN count_repair_attempts ELSE @]
  <2>0. s \in Steps
    BY <1>3 DEF ReplayStep, StepsInRange, InStep
  <2>1. journal[s].resp \in ResponseType
    BY <1>3, <2>0 DEF ReplayStep, TypeOK, Row
  <2>2. L \in Locals /\ L.todo = run[r].todo
    BY <1>0, <2>1, JournalReads DEF Locals
  <2>3. run' = [run EXCEPT ![r] = L] /\ UNCHANGED journal
    BY <1>3 DEF ReplayStep
  <2> HIDE DEF L
  <2>4. run' \in [Runners -> Locals] /\ \A q \in Runners : run'[q].todo \subseteq Journaled'
    BY <2>2, <2>3, SetLocals DEF TypeOK, Journaled
  <2>5. pc' \in [Runners -> Labels]
    BY <1>3 DEF TypeOK, ReplayStep, Labels
  <2> QED BY <1>3, <2>3, <2>4, <2>5 DEF TypeOK, ReplayStep
<1>4. CASE FreshStep(r)
  BY <1>4 DEF TypeOK, FreshStep, Labels, Journaled
<1>5. CASE CallModel(r)
  <2>1. PICK a \in Responses :
          /\ run' = [run EXCEPT ![r] = [run[r] EXCEPT
                        !.resp = a, !.renamed = {}, !.verified = FALSE]]
          /\ Goto(r, EffectOf(a.kind))
    BY <1>5 DEF CallModel
  <2> DEFINE L == [run[r] EXCEPT !.resp = a, !.renamed = {}, !.verified = FALSE]
  <2>2. a \in ResponseType
    BY ResponseAssumption
  <2>3. L \in Locals /\ L.todo = run[r].todo
    BY <1>0, <2>2 DEF Locals
  <2>4. EffectOf(a.kind) \in Labels
    BY <2>2 DEF ResponseType, ActionKinds, EffectOf, Labels
  <2>5. pc' \in [Runners -> Labels]
    BY <2>1, <2>4 DEF TypeOK
  <2> HIDE DEF L
  <2>6. run' = [run EXCEPT ![r] = L] /\ UNCHANGED journal
    BY <1>5, <2>1 DEF CallModel, L
  <2>7. run' \in [Runners -> Locals] /\ \A q \in Runners : run'[q].todo \subseteq Journaled'
    BY <2>3, <2>5, <2>6, SetLocals DEF TypeOK, Journaled
  <2> QED BY <1>5, <2>3, <2>5, <2>6, <2>7 DEF TypeOK, CallModel
<1> QED BY <1>1, <1>2, <1>3, <1>4, <1>5 DEF Loop

\* The effects of _run_effect keep the types.
LEMMA EffectTypeInv ==
    ASSUME TypeInv, NEW r \in Runners, Effect(r)
    PROVE  TypeInv'
<1> USE DEF TypeInv, Goto, durable, task, ledger, tree, history
<1>0. run[r] \in Locals
  BY DEF TypeOK
<1>1. CASE RetrieveDefinition(r)
  <2> DEFINE L == [run[r] EXCEPT !.spans[run[r].step] = "marker"]
  <2>1. L \in Locals /\ L.todo = run[r].todo
    BY <1>0 DEF Locals
  <2>2. UNCHANGED run \/ run' = [run EXCEPT ![r] = L]
    BY <1>1 DEF RetrieveDefinition, AddSpan
  <2>3. spent' \in Nat /\ UNCHANGED journal
    BY <1>1, RetrievalAssumption DEF RetrieveDefinition, charge_atomic, TypeOK
  <2>4. pc' \in [Runners -> Labels]
    BY <1>1 DEF RetrieveDefinition, TypeOK, Labels
  <2> HIDE DEF L
  <2>5. run' \in [Runners -> Locals] /\ \A q \in Runners : run'[q].todo \subseteq Journaled'
    BY <2>1, <2>2, <2>3, SetLocals DEF TypeOK, Journaled
  <2> QED BY <1>1, <2>3, <2>4, <2>5 DEF TypeOK, RetrieveDefinition
<1>2. CASE RetrieveOther(r)
  <2> DEFINE L == [run[r] EXCEPT !.spans[run[r].step] = "marker"]
  <2>1. L \in Locals /\ L.todo = run[r].todo
    BY <1>0 DEF Locals, AddSpan
  <2>2. run' = [run EXCEPT ![r] = L] /\ UNCHANGED journal
    BY <1>2 DEF RetrieveOther, AddSpan
  <2> HIDE DEF L
  <2>3. run' \in [Runners -> Locals] /\ \A q \in Runners : run'[q].todo \subseteq Journaled'
    BY <2>1, <2>2, SetLocals DEF TypeOK, Journaled
  <2> QED BY <1>2, <2>1, <2>2, <2>3 DEF TypeOK, RetrieveOther, Labels
<1>3. CASE ReadSpan(r)
  <2> DEFINE L == [run[r] EXCEPT !.spans[run[r].step] = "full"]
  <2>1. L \in Locals /\ L.todo = run[r].todo
    BY <1>0 DEF Locals
  <2>2. run' = [run EXCEPT ![r] = L] /\ UNCHANGED journal
    BY <1>3 DEF ReadSpan, AddSpan
  <2>3. spent' \in Nat
    BY <1>3, RetrievalAssumption DEF ReadSpan, charge_atomic, TypeOK
  <2> HIDE DEF L
  <2>4. run' \in [Runners -> Locals] /\ \A q \in Runners : run'[q].todo \subseteq Journaled'
    BY <2>1, <2>2, <2>3, SetLocals DEF TypeOK, Journaled
  <2> QED BY <1>3, <2>1, <2>2, <2>3, <2>4 DEF TypeOK, ReadSpan, Labels
<1>4. CASE CheckArtifact(r)
  <2> DEFINE L == [run[r] EXCEPT !.op = run[r].resp.op]
  <2>1. L \in Locals /\ L.todo = run[r].todo
    BY <1>0 DEF Locals, ResponseType
  <2>2. run' = [run EXCEPT ![r] = L] /\ UNCHANGED journal
    BY <1>4 DEF CheckArtifact
  <2> HIDE DEF L
  <2>3. run' \in [Runners -> Locals] /\ \A q \in Runners : run'[q].todo \subseteq Journaled'
    BY <2>1, <2>2, SetLocals DEF TypeOK, Journaled
  <2> QED BY <1>4, <2>1, <2>2, <2>3 DEF TypeOK, CheckArtifact, Labels, ResponseType
<1>5. CASE RecordArtifact(r)
  <2>1. run[r].op \in Ops
    BY <1>0 DEF Locals
  <2> QED BY <1>5, <2>1 DEF TypeOK, RecordArtifact, Labels, Journaled
<1>6. CASE ApplyOp(r)
  <2> DEFINE L == [run[r] EXCEPT !.renamed = @ \cup {run[r].op.path}]
  <2>1. run[r].op \in Ops
    BY <1>0 DEF Locals
  <2>2. L \in Locals /\ L.todo = run[r].todo
    BY <1>0, <2>1 DEF Locals, Ops
  <2>3. (UNCHANGED run \/ run' = [run EXCEPT ![r] = L]) /\ UNCHANGED journal
    BY <1>6 DEF ApplyOp
  <2>4. worktree' \in [Paths -> FileValues]
    BY <1>6, <2>1 DEF ApplyOp, TypeOK, Ops
  <2>5. pc' \in [Runners -> Labels]
    BY <1>6 DEF ApplyOp, TypeOK, Labels
  <2> HIDE DEF L
  <2>6. run' \in [Runners -> Locals] /\ \A q \in Runners : run'[q].todo \subseteq Journaled'
    BY <2>2, <2>3, SetLocals DEF TypeOK, Journaled
  <2> QED BY <1>6, <2>4, <2>5, <2>6 DEF TypeOK, ApplyOp
<1>7. CASE PlanRename(r)
  <2> DEFINE L == [run[r] EXCEPT !.files = {p \in Paths : Mentions(base[p])}]
  <2>1. L \in Locals /\ L.todo = run[r].todo
    BY <1>0 DEF Locals
  <2>2. run' = [run EXCEPT ![r] = L] /\ UNCHANGED journal
    BY <1>7 DEF PlanRename
  <2> HIDE DEF L
  <2>3. run' \in [Runners -> Locals] /\ \A q \in Runners : run'[q].todo \subseteq Journaled'
    BY <2>1, <2>2, SetLocals DEF TypeOK, Journaled
  <2>4. pc' \in [Runners -> Labels]
    BY <1>7 DEF TypeOK, PlanRename, Labels
  <2> QED BY <1>7, <2>2, <2>3, <2>4 DEF TypeOK, PlanRename
<1>8. CASE RenameSkip(r)
  <2> DEFINE L == [run[r] EXCEPT !.files = @ \ {First(run[r].files)}]
  <2>1. L \in Locals /\ L.todo = run[r].todo
    BY <1>0 DEF Locals
  <2>2. run' = [run EXCEPT ![r] = L] /\ UNCHANGED journal
    BY <1>8 DEF RenameSkip
  <2> HIDE DEF L
  <2>3. run' \in [Runners -> Locals] /\ \A q \in Runners : run'[q].todo \subseteq Journaled'
    BY <2>1, <2>2, SetLocals DEF TypeOK, Journaled
  <2> QED BY <1>8, <2>1, <2>2, <2>3 DEF TypeOK, RenameSkip, Labels
<1>9. CASE RenameFile(r)
  <2> DEFINE p == First(run[r].files)
             o == [path |-> p, content |-> RenamedTo[worktree[p]]]
             L == [run[r] EXCEPT
                     !.files = @ \ {p}, !.op = o,
                     !.renamed = IF o \in artifacts THEN @ \cup {p} ELSE @]
  <2>1. p \in Paths
    <3>1. run[r].files \in SUBSET Paths /\ run[r].files # {}
      BY <1>9, <1>0 DEF RenameFile, Locals
    <3> QED BY <3>1, PathAssumption, FirstIsFirst, FS_Subset
  <2>2. o \in Ops
    BY <1>9, <2>1, RenameAssumption DEF RenameFile, Mentions, Ops, FileValues
  <2>3. run' = [run EXCEPT ![r] = L] /\ UNCHANGED journal
    BY <1>9 DEF RenameFile
  <2>4. pc' \in [Runners -> Labels]
    BY <1>9 DEF RenameFile, TypeOK, Labels
  <2> HIDE DEF p, o
  <2>5. L \in Locals /\ L.todo = run[r].todo
    BY <1>0, <2>1, <2>2 DEF Locals
  <2> HIDE DEF L
  <2>6. run' \in [Runners -> Locals] /\ \A q \in Runners : run'[q].todo \subseteq Journaled'
    BY <2>3, <2>4, <2>5, SetLocals DEF TypeOK, Journaled
  <2> QED BY <1>9, <2>3, <2>4, <2>5, <2>6 DEF TypeOK, RenameFile
<1>10. CASE RenameDone(r)
  BY <1>10 DEF TypeOK, RenameDone, Labels, Journaled
<1>11. CASE Verify(r)
  <2>1. PICK v \in BOOLEAN :
          /\ run' = [run EXCEPT ![r] = [run[r] EXCEPT !.verified = v]]
          /\ tested' = IF v THEN SandboxTree ELSE tested
    BY <1>11 DEF Verify
  <2> DEFINE L == [run[r] EXCEPT !.verified = v]
  <2>2. L \in Locals /\ L.todo = run[r].todo
    BY <1>0 DEF Locals
  <2>3. tested' \in [Paths -> FileValues]
    BY <2>1, SandboxTreeType DEF TypeOK
  <2> HIDE DEF L
  <2>4. run' = [run EXCEPT ![r] = L] /\ UNCHANGED journal
    BY <1>11, <2>1 DEF Verify, L
  <2>5. run' \in [Runners -> Locals] /\ \A q \in Runners : run'[q].todo \subseteq Journaled'
    BY <2>2, <2>3, <2>4, SetLocals DEF TypeOK, Journaled
  <2> QED BY <1>11, <2>2, <2>3, <2>4, <2>5 DEF TypeOK, Verify, Labels
<1> QED BY <1>1, <1>2, <1>3, <1>4, <1>5, <1>6, <1>7, <1>8, <1>9, <1>10, <1>11 DEF Effect

\* The journal row, its charge and the token columns keep the types.
LEMMA RecordTypeInv ==
    ASSUME TypeInv, StepsInRange, NEW r \in Runners, Record(r)
    PROVE  TypeInv'
<1> USE DEF TypeInv, Goto, durable, task, ledger, tree, history
<1>0. run[r] \in Locals
  BY DEF TypeOK
<1>1. CASE AppendRow(r)
  <2> DEFINE row == [resp |-> run[r].resp, renamed |-> run[r].renamed,
                     verified |-> run[r].verified]
  <2>1. row \in Row /\ row # NoRow
    BY <1>0, PathAssumption DEF Locals, Row
  <2>2. journal' = [journal EXCEPT ![run[r].step] = IF @ = NoRow THEN row ELSE @]
    BY <1>1 DEF AppendRow
  <2> HIDE DEF row
  <2>3. journal' \in [Steps -> Row \cup {NoRow}] /\ Journaled \subseteq Journaled'
    BY <2>1, <2>2 DEF TypeOK, Journaled
  <2> QED BY <1>1, <2>3 DEF TypeOK, AppendRow, Labels
<1>2. CASE CheckCharge(r)
  BY <1>2 DEF TypeOK, CheckCharge, Labels, Journaled
<1>3. CASE CommitCharge(r)
  <2>1. run[r].resp.cost \in Nat
    BY <1>0 DEF Locals, ResponseType
  <2>2. run[r].step \in Steps
    BY <1>3 DEF CommitCharge, StepsInRange, InStep
  <2>3. commits' \in [Steps -> Nat] /\ spent' \in Nat
    BY <1>3, <2>1, <2>2 DEF CommitCharge, AppendCommit, TypeOK
  <2> QED BY <1>3, <2>3 DEF TypeOK, CommitCharge, Labels, Journaled
<1>4. CASE BumpTokens(r)
  BY <1>4 DEF TypeOK, BumpTokens, Labels, Journaled
<1> QED BY <1>1, <1>2, <1>3, <1>4 DEF Record

\* The decisions on a recorded step keep the types.
LEMMA DecideTypeInv ==
    ASSUME TypeInv, StepsInRange, NEW r \in Runners, Decide(r)
    PROVE  TypeInv'
<1> USE DEF TypeInv, Goto, durable, task, ledger, tree, history
<1>0. run[r] \in Locals
  BY DEF TypeOK
<1>1. CASE GiveUp(r)
  <2> DEFINE L == [run[r] EXCEPT !.verdict = "GAVE_UP"]
  <2>1. L \in Locals /\ L.todo = run[r].todo
    BY <1>0 DEF Locals, Terminal, StopWith
  <2>2. run' = [run EXCEPT ![r] = L] /\ UNCHANGED journal
    BY <1>1 DEF GiveUp, StopWith
  <2> HIDE DEF L
  <2>3. run' \in [Runners -> Locals] /\ \A q \in Runners : run'[q].todo \subseteq Journaled'
    BY <2>1, <2>2, SetLocals DEF TypeOK, Journaled
  <2> QED BY <1>1, <2>1, <2>2, <2>3 DEF TypeOK, GiveUp, Labels, StopWith
<1>2. CASE Succeed(r)
  <2> DEFINE L == [run[r] EXCEPT !.verdict = "VERIFIED_SUCCESS"]
  <2>1. L \in Locals /\ L.todo = run[r].todo
    BY <1>0 DEF Locals, Terminal
  <2>2. (UNCHANGED run \/ run' = [run EXCEPT ![r] = L]) /\ UNCHANGED journal
    BY <1>2 DEF Succeed, StopWith
  <2>3. pc' \in [Runners -> Labels]
    BY <1>2 DEF Succeed, StopWith, TypeOK, Labels
  <2> HIDE DEF L
  <2>4. run' \in [Runners -> Locals] /\ \A q \in Runners : run'[q].todo \subseteq Journaled'
    BY <2>1, <2>2, SetLocals DEF TypeOK, Journaled
  <2> QED BY <1>2, <2>3, <2>4 DEF TypeOK, Succeed
<1>3. CASE OutOfRepairs(r)
  <2> DEFINE L == [run[r] EXCEPT !.verdict = "GAVE_UP"]
  <2>1. L \in Locals /\ L.todo = run[r].todo
    BY <1>0 DEF Locals, Terminal, StopWith
  <2>2. run' = [run EXCEPT ![r] = L] /\ UNCHANGED journal
    BY <1>3 DEF OutOfRepairs, StopWith
  <2> HIDE DEF L
  <2>3. run' \in [Runners -> Locals] /\ \A q \in Runners : run'[q].todo \subseteq Journaled'
    BY <2>1, <2>2, SetLocals DEF TypeOK, Journaled
  <2> QED BY <1>3, <2>1, <2>2, <2>3 DEF TypeOK, OutOfRepairs, Labels, StopWith
<1>4. CASE Repair(r)
  <2> DEFINE L == [run[r] EXCEPT !.spans[run[r].step] = "full", !.repairs = @ + 1,
        !.step = @ + 1]
  <2>3. run[r].step + 1 \in Nat /\ run[r].repairs + 1 \in Nat
    BY <1>0 DEF Locals
  <2>4. run[r].spans \in [Steps -> {"none", "marker", "full"}]
    BY <1>0 DEF Locals
  <2>0. [run[r].spans EXCEPT ![run[r].step] = "full"]
              \in [Steps -> {"none", "marker", "full"}]
    BY <2>4
  <2>1. L \in Locals /\ L.todo = run[r].todo
    BY <1>0, <2>0, <2>3 DEF Locals
  <2>2. run' = [run EXCEPT ![r] = L] /\ UNCHANGED journal
    BY <1>4 DEF Repair
  <2> HIDE DEF L
  <2>5. run' \in [Runners -> Locals] /\ \A q \in Runners : run'[q].todo \subseteq Journaled'
    BY <2>1, <2>2, SetLocals DEF TypeOK, Journaled
  <2> QED BY <1>4, <2>1, <2>2, <2>5 DEF TypeOK, Repair, Labels
<1>5. CASE Advance(r)
  <2> DEFINE L == [run[r] EXCEPT !.step = @ + 1]
  <2>1. L \in Locals /\ L.todo = run[r].todo
    BY <1>0 DEF Locals
  <2>2. run' = [run EXCEPT ![r] = L] /\ UNCHANGED journal
    BY <1>5 DEF Advance
  <2> HIDE DEF L
  <2>3. run' \in [Runners -> Locals] /\ \A q \in Runners : run'[q].todo \subseteq Journaled'
    BY <2>1, <2>2, SetLocals DEF TypeOK, Journaled
  <2> QED BY <1>5, <2>1, <2>2, <2>3 DEF TypeOK, Advance, Labels
<1>6. CASE MergeWorktree(r)
  <2> DEFINE L == [run[r] EXCEPT !.verdict = "VERIFIED_SUCCESS"]
  <2>1. L \in Locals /\ L.todo = run[r].todo
    BY <1>0 DEF Locals, Terminal
  <2>2. run' = [run EXCEPT ![r] = L] /\ UNCHANGED journal
    BY <1>6 DEF MergeWorktree, StopWith
  <2>3. base' \in [Paths -> FileValues]
    BY <1>6 DEF MergeWorktree, Overlay, TypeOK
  <2> HIDE DEF L
  <2>4. run' \in [Runners -> Locals] /\ \A q \in Runners : run'[q].todo \subseteq Journaled'
    BY <2>1, <2>2, SetLocals DEF TypeOK, Journaled
  <2> QED BY <1>6, <2>2, <2>3, <2>4 DEF TypeOK, MergeWorktree, StopWith, Labels
<1>7. CASE MergeConflict(r)
  <2> DEFINE L == [run[r] EXCEPT !.verdict = "GAVE_UP"]
  <2>1. L \in Locals /\ L.todo = run[r].todo
    BY <1>0 DEF Locals, Terminal, StopWith
  <2>2. run' = [run EXCEPT ![r] = L] /\ UNCHANGED journal
    BY <1>7 DEF MergeConflict, StopWith
  <2> HIDE DEF L
  <2>3. run' \in [Runners -> Locals] /\ \A q \in Runners : run'[q].todo \subseteq Journaled'
    BY <2>1, <2>2, SetLocals DEF TypeOK, Journaled
  <2> QED BY <1>7, <2>2, <2>3 DEF TypeOK, MergeConflict, Labels, StopWith
<1> QED BY <1>1, <1>2, <1>3, <1>4, <1>5, <1>6, <1>7 DEF Decide

\* The terminal write and a refused retrieval keep the types.
LEMMA FinishTypeInv ==
    ASSUME TypeInv, NEW r \in Runners, Finish(r)
    PROVE  TypeInv'
<1> USE DEF TypeInv, Goto, durable, task, ledger, tree, history
<1>0. run[r] \in Locals
  BY DEF TypeOK
<1>1. CASE Terminate(r)
  <2>1. NoLocals \in Locals /\ NoLocals.todo = {} /\ run[r].verdict \in TaskStates
    BY <1>0, ConstantTypes DEF Locals, NoLocals, TaskStates
  <2>2. run' = [run EXCEPT ![r] = NoLocals] /\ UNCHANGED journal
    BY <1>1 DEF Terminate, Forget
  <2>3. run' \in [Runners -> Locals] /\ \A q \in Runners : run'[q].todo \subseteq Journaled'
    BY <2>1, <2>2, SetLocals DEF TypeOK, Journaled
  <2> QED BY <1>1, <2>1, <2>2, <2>3 DEF TypeOK, Terminate, Forget, Labels
<1>2. CASE RefuseRetrieval(r)
  <2>1. NoLocals \in Locals /\ NoLocals.todo = {}
    BY ConstantTypes DEF NoLocals
  <2>2. run' = [run EXCEPT ![r] = NoLocals] /\ UNCHANGED journal
    BY <1>2 DEF RefuseRetrieval, Forget
  <2>3. run' \in [Runners -> Locals] /\ \A q \in Runners : run'[q].todo \subseteq Journaled'
    BY <2>1, <2>2, SetLocals DEF TypeOK, Journaled
  <2> QED BY <1>2, <2>2, <2>3 DEF TypeOK, RefuseRetrieval, Forget, Labels
<1> QED BY <1>1, <1>2 DEF Finish

\* Only GatePass enters a step, and it has compared the index with the budget.
LEMMA StepsStayInRange ==
    ASSUME TypeOK, StepsInRange, [Next]_vars
    PROVE  StepsInRange'
<1> USE DEF StepsInRange, InStep, Goto
<1>1. CASE UNCHANGED vars
  BY <1>1 DEF vars
<1>2. ASSUME NEW r \in Runners, run[r] \in Locals, Start(r) PROVE StepsInRange'
  BY <1>2 DEF Start, TypeOK
<1>3. ASSUME NEW r \in Runners, run[r] \in Locals, Die(r) \/ Finish(r)
      PROVE  StepsInRange'
  BY <1>3 DEF Die, Finish, Terminate, RefuseRetrieval, Forget, TypeOK
<1>4. ASSUME NEW r \in Runners, run[r] \in Locals, Boot(r) PROVE StepsInRange'
  BY <1>4 DEF Boot, ReadCommitted, ReadTrace, Reconcile, SetRunning, OpenWorktree,
              LoadContext, TypeOK
<1>5. ASSUME NEW r \in Runners, run[r] \in Locals, Loop(r) PROVE StepsInRange'
  <2>1. CASE GatePass(r)
    <3>1. run[r].step \in Steps
      BY <1>5, <2>1, BudgetAssumption DEF GatePass, budget_breach, Locals, Steps, TypeOK
    <3> QED BY <2>1, <3>1 DEF GatePass, TypeOK
  <2>2. CASE GateBreach(r)
    BY <2>2 DEF GateBreach, StopWith, TypeOK
  <2>3. CASE ReplayStep(r) \/ FreshStep(r)
    <3>1. pc[r] \in InStep /\ pc' = [pc EXCEPT ![r] = pc'[r]]
      BY <2>3 DEF ReplayStep, FreshStep, TypeOK
    <3>2. run' = [run EXCEPT ![r] = run'[r]] /\ run'[r].step = run[r].step
      BY <1>5, <2>3 DEF ReplayStep, FreshStep, TypeOK, Locals
    <3> QED BY <3>1, <3>2 DEF TypeOK
  <2>4. CASE CallModel(r)
    BY <1>5, <2>4 DEF CallModel, TypeOK, Locals
  <2> QED BY <1>5, <2>1, <2>2, <2>3, <2>4 DEF Loop
<1>6. ASSUME NEW r \in Runners, run[r] \in Locals, Effect(r) PROVE StepsInRange'
  <2>1. pc[r] \in InStep /\ pc' = [pc EXCEPT ![r] = pc'[r]]
    BY <1>6 DEF Effect, RetrieveDefinition, RetrieveOther, ReadSpan, CheckArtifact,
         RecordArtifact, ApplyOp, PlanRename, RenameSkip, RenameFile, RenameDone,
         Verify, TypeOK
  <2>2. CASE RetrieveDefinition(r) \/ RetrieveOther(r) \/ ReadSpan(r)
    <3>1. run' = [run EXCEPT ![r] = run'[r]] /\ run'[r].step = run[r].step
      BY <1>6, <2>2 DEF RetrieveDefinition, RetrieveOther, ReadSpan, AddSpan, TypeOK, Locals
    <3> QED BY <2>1, <3>1 DEF TypeOK
  <2>3. CASE \/ CheckArtifact(r) \/ RecordArtifact(r) \/ ApplyOp(r) \/ PlanRename(r)
             \/ RenameSkip(r) \/ RenameFile(r) \/ RenameDone(r) \/ Verify(r)
    <3>1. run' = [run EXCEPT ![r] = run'[r]] /\ run'[r].step = run[r].step
      BY <1>6, <2>3 DEF CheckArtifact, RecordArtifact, ApplyOp, PlanRename, RenameSkip,
           RenameFile, RenameDone, Verify, TypeOK, Locals
    <3> QED BY <2>1, <3>1 DEF TypeOK
  <2> QED BY <1>6, <2>2, <2>3 DEF Effect
<1>7. ASSUME NEW r \in Runners, run[r] \in Locals, Record(r) PROVE StepsInRange'
  BY <1>7 DEF Record, AppendRow, CheckCharge, CommitCharge, BumpTokens, TypeOK
<1>8. ASSUME NEW r \in Runners, run[r] \in Locals, Decide(r) PROVE StepsInRange'
  BY <1>8 DEF Decide, GiveUp, Succeed, OutOfRepairs, Repair, Advance, MergeWorktree,
              MergeConflict, StopWith, TypeOK
<1>9. \A r \in Runners : run[r] \in Locals
  BY DEF TypeOK
<1> QED BY <1>1, <1>2, <1>3, <1>4, <1>5, <1>6, <1>7, <1>8, <1>9
        DEF Next, Run, ResumeTerminal, Abandoned

\* The types, with steps in range past the gate, hold of every run.
LEMMA TypeInvariant == Spec => [](TypeInv /\ StepsInRange)
<1>1. Init => TypeInv /\ StepsInRange
  <2> SUFFICES ASSUME Init PROVE TypeInv /\ StepsInRange
    OBVIOUS
  <2>1. \A r \in Runners : run[r].todo = {} /\ pc[r] = "idle"
    BY DEF Init, NoLocals
  <2> QED BY <2>1, InitTypeOK DEF TypeInv, StepsInRange, InStep
<1>2. TypeInv /\ StepsInRange /\ [Next]_vars => TypeInv'
  <2> SUFFICES ASSUME TypeInv, StepsInRange, [Next]_vars PROVE TypeInv'
    OBVIOUS
  <2> USE DEF TypeInv, Goto, durable, task, ledger, tree, history
  <2>1. CASE UNCHANGED vars
    BY <2>1 DEF vars, TypeOK, Journaled
  <2>2. ASSUME NEW r \in Runners, Start(r) PROVE TypeInv'
    BY <2>2, BudgetAssumption DEF TypeOK, Start, Labels, Journaled
  <2>3. ASSUME NEW r \in Runners, Die(r) PROVE TypeInv'
    <3>1. NoLocals \in Locals /\ NoLocals.todo = {}
      BY ConstantTypes DEF NoLocals
    <3>2. run' = [run EXCEPT ![r] = NoLocals] /\ UNCHANGED journal
      BY <2>3 DEF Die, Forget
    <3> QED BY <2>3, <3>1, <3>2, SetLocals, BudgetAssumption
            DEF TypeOK, Die, Forget, Labels, Journaled
  <2>4. ASSUME NEW r \in Runners, Run(r) PROVE TypeInv'
    BY <2>4, BootTypeInv, LoopTypeInv, EffectTypeInv, RecordTypeInv, DecideTypeInv,
       FinishTypeInv DEF Run
  <2> QED BY <2>1, <2>2, <2>3, <2>4 DEF Next, ResumeTerminal, Abandoned
<1>3. TypeInv /\ StepsInRange /\ [Next]_vars => StepsInRange'
  BY StepsStayInRange DEF TypeInv
<1> QED BY <1>1, <1>2, <1>3, PTL DEF Spec

\* Every reachable state is well typed, with any number of runners: in particular the
\* journal's readers (_next_step_index, _combined_patch) never meet a missing row, and a
\* run never charges a row that is not there.
THEOREM TypeCorrect == Spec => []TypeOK
<1>1. TypeInv => TypeOK
  BY DEF TypeInv
<1> QED BY <1>1, TypeInvariant, PTL

-----------------------------------------------------------------------------
(* One runner: the journal and the ledger agree                            *)

\* Where a run is with respect to the journal and the ledger.
Opening == {"open", "load"}
Calling == {"gate", "lookup", "call", "retrieve", "read_span", "edit", "record",
            "apply", "plan_rename", "rename", "verify", "append"}
Owing   == {"charge", "commit"}
Paid    == {"bump", "decide", "merge"}

Unpaid == Journaled \ Charged

\* What each phase of the run knows: before the loop, which rows the reconciliation
\* has still to charge; in the loop, that the rows are exactly the steps below (or up
\* to) the current one, and that only the row just written may be unpaid.
PhaseInv(r) ==
    /\ pc[r] = "trace" => run[r].seen = Charged
    /\ pc[r] = "reconcile" => run[r].todo = Unpaid
    /\ pc[r] \in Opening \cup Calling \cup Paid \cup {"terminate"} => Unpaid = {}
    /\ pc[r] \in Owing => Unpaid = {run[r].step}
    /\ pc[r] \in Calling =>
          \A s \in Steps : s \in Journaled <=> s < run[r].step
    /\ pc[r] \in Owing \cup Paid =>
          \A s \in Steps : s \in Journaled <=> s <= run[r].step

Contiguous == \A s \in Journaled : \A q \in Steps : q < s => q \in Journaled

\* The inductive invariant behind effectively-once charging.
LedgerInv ==
    /\ \A s \in Steps : commits[s] <= 1
    /\ Charged \subseteq Journaled
    /\ Contiguous
    /\ \A s, q \in Unpaid : s = q
    /\ state \in Terminal => Unpaid = {}
    /\ \A r \in Runners : PhaseInv(r) /\ (state \in Terminal => pc[r] = "idle")

\* A step that touches neither the journal nor the ledger only has to keep what the
\* run knows about them.
LEMMA LedgerQuiet ==
    ASSUME SingleRunner, LedgerInv, NEW r \in Runners,
           UNCHANGED <<journal, commits>>, PhaseInv(r)',
           state' \in Terminal => Unpaid = {} /\ pc'[r] = "idle"
    PROVE  LedgerInv'
<1>1. Journaled' = Journaled /\ Charged' = Charged /\ Unpaid' = Unpaid
  BY DEF Journaled, Charged, Unpaid
<1>2. \A q \in Runners : q = r
  BY DEF SingleRunner
<1>3. \A q \in Runners : PhaseInv(q)' /\ (state' \in Terminal => pc'[q] = "idle")
  BY <1>2
<1> QED BY <1>1, <1>3 DEF LedgerInv, Contiguous

\* Moving on within a step, or from the last step's row to the end of the run.
LEMMA SamePhase ==
    ASSUME NEW r \in Runners, PhaseInv(r), UNCHANGED <<journal, commits>>,
           \/ pc[r] \in Calling /\ pc'[r] \in Calling \cup {"terminate"}
           \/ pc[r] \in Paid /\ pc'[r] \in Paid \cup {"terminate"}
           \/ pc[r] \in Opening /\ pc'[r] \in Opening,
           pc'[r] # "terminate" => run'[r].step = run[r].step
    PROVE  PhaseInv(r)'
<1>1. Journaled' = Journaled /\ Charged' = Charged /\ Unpaid' = Unpaid
  BY DEF Journaled, Charged, Unpaid
<1> QED BY <1>1 DEF PhaseInv, Calling, Paid, Opening, Owing

\* A contiguous journal holds exactly the steps below next_step_index.
LEMMA NextStepIsFresh ==
    ASSUME TypeOK, Contiguous
    PROVE  \A s \in Steps : s \in Journaled <=> s < next_step_index
<1>1. CASE Journaled = {}
  BY <1>1, ConstantTypes DEF next_step_index
<1>2. CASE Journaled # {}
  <2>1. Journaled \in SUBSET (0 .. (StepBudget - 1)) /\ StepBudget - 1 \in Nat
    BY BudgetAssumption DEF Journaled, Steps
  <2>2. Last(Journaled) \in Journaled /\ \A q \in Journaled : q <= Last(Journaled)
    BY <1>2, <2>1, LastIsLast
  <2>3. Last(Journaled) \in Nat
    BY <2>2, ConstantTypes DEF Journaled
  <2>4. next_step_index = Last(Journaled) + 1
    BY <1>2 DEF next_step_index
  <2> QED BY <2>2, <2>3, <2>4, ConstantTypes DEF Contiguous
<1> QED BY <1>1, <1>2

\* Reconciling on resume charges what the crash left uncharged, and only that.
LEMMA BootLedgerInv ==
    ASSUME TypeOK, SingleRunner, LedgerInv, NEW r \in Runners, Boot(r)
    PROVE  LedgerInv'
<1> USE DEF Goto, durable, task, ledger, tree, history
<1>0. run[r] \in Locals /\ PhaseInv(r) /\ (state \in Terminal => pc[r] = "idle")
  BY DEF TypeOK, LedgerInv
<1>1. CASE ReadCommitted(r)
  <2>1. PhaseInv(r)'
    BY <1>1, <1>0 DEF ReadCommitted, PhaseInv, TypeOK, Locals, Calling, Paid, Opening, Owing,
              Charged
  <2> QED BY <1>0, <1>1, <2>1, LedgerQuiet DEF ReadCommitted
<1>2. CASE ReadTrace(r)
  <2>1. run'[r].todo = Unpaid /\ pc'[r] = "reconcile"
    BY <1>2, <1>0 DEF ReadTrace, PhaseInv, TypeOK, Locals, Unpaid
  <2>2. Unpaid' = Unpaid
    BY <1>2 DEF ReadTrace, Unpaid, Journaled, Charged
  <2>3. PhaseInv(r)'
    BY <2>1, <2>2 DEF PhaseInv, Calling, Paid, Opening, Owing
  <2> QED BY <1>0, <1>2, <2>3, LedgerQuiet DEF ReadTrace
<1>3. CASE Reconcile(r)
  <2> DEFINE s == First(run[r].todo)
  <2>1. s \in Unpaid
    <3>1. run[r].todo = Unpaid /\ run[r].todo # {} /\ run[r].todo \subseteq Steps
      BY <1>0, <1>3 DEF Reconcile, PhaseInv, Opening, Calling, Paid, Owing, Locals
    <3> QED BY <3>1, ConstantTypes, FirstIsFirst, FS_Subset
  <2>2. s \in Steps /\ commits[s] = 0 /\ s \in Journaled
    BY <2>1 DEF Unpaid, Charged, Journaled, TypeOK
  <2>3. commits' = [commits EXCEPT ![s] = 1] /\ journal' = journal
    BY <1>3, <2>2 DEF Reconcile, AppendCommit
  <2>4. /\ run' = [run EXCEPT ![r] = [run[r] EXCEPT !.todo = @ \ {s}]]
        /\ pc' = pc /\ pc[r] = "reconcile" /\ state' = state
    BY <1>3 DEF Reconcile
  <2> HIDE DEF s
  <2>5. Journaled' = Journaled /\ Charged' = Charged \cup {s}
    BY <2>2, <2>3 DEF Journaled, Charged, TypeOK
  <2>6. Unpaid' = Unpaid \ {s} /\ Unpaid' = {}
    BY <2>1, <2>5 DEF Unpaid, LedgerInv
  <2>7. run'[r].todo = run[r].todo \ {s}
    BY <2>4, <1>0 DEF TypeOK, Locals
  <2>8. PhaseInv(r)'
    BY <2>4, <2>6, <2>7, <1>0 DEF PhaseInv, Opening, Calling, Paid, Owing
  <2>9. \A q \in Steps : commits'[q] <= 1
    BY <2>2, <2>3 DEF LedgerInv, TypeOK
  <2> QED BY <2>2, <2>4, <2>5, <2>6, <2>8, <2>9 DEF LedgerInv, SingleRunner, Contiguous
<1>4. CASE SetRunning(r)
  <2>1. Unpaid = {} /\ pc'[r] = "open" /\ state' = "RUNNING"
    BY <1>0, <1>4 DEF SetRunning, PhaseInv, TypeOK
  <2>2. Unpaid' = Unpaid
    BY <1>4 DEF SetRunning, Unpaid, Journaled, Charged
  <2>3. PhaseInv(r)'
    BY <2>1, <2>2 DEF PhaseInv, Opening, Calling, Paid, Owing
  <2> QED BY <1>4, <2>1, <2>3, LedgerQuiet DEF SetRunning, Terminal
<1>5. CASE OpenWorktree(r)
  <2>1. PhaseInv(r)'
    BY <1>0, <1>5, SamePhase DEF OpenWorktree, TypeOK, Opening
  <2> QED BY <1>0, <1>5, <2>1, LedgerQuiet DEF OpenWorktree
<1>6. CASE LoadContext(r)
  <2>1. run'[r].step = next_step_index /\ pc'[r] = "gate"
    BY <1>0, <1>6 DEF LoadContext, TypeOK, Locals
  <2>2. Journaled' = Journaled /\ Unpaid' = Unpaid /\ Unpaid = {}
    BY <1>0, <1>6 DEF LoadContext, Journaled, Unpaid, Charged, PhaseInv, Opening
  <2>3. \A s \in Steps : s \in Journaled <=> s < next_step_index
    BY NextStepIsFresh DEF LedgerInv
  <2>4. PhaseInv(r)'
    BY <2>1, <2>2, <2>3 DEF PhaseInv, Opening, Calling, Paid, Owing
  <2> QED BY <1>0, <1>6, <2>4, LedgerQuiet DEF LoadContext
<1> QED BY <1>1, <1>2, <1>3, <1>4, <1>5, <1>6 DEF Boot

\* Gate, cached branch and paid call touch no charge.
LEMMA LoopLedgerInv ==
    ASSUME TypeOK, StepsInRange, SingleRunner, LedgerInv, NEW r \in Runners, Loop(r)
    PROVE  LedgerInv'
<1> USE DEF Goto, durable, task, ledger, tree, history
<1>0. run[r] \in Locals /\ PhaseInv(r) /\ (state \in Terminal => pc[r] = "idle")
  BY DEF TypeOK, LedgerInv
<1>1. CASE GateBreach(r)
  <2>1. PhaseInv(r)'
    BY <1>0, <1>1, SamePhase DEF GateBreach, StopWith, TypeOK, Calling
  <2> QED BY <1>0, <1>1, <2>1, LedgerQuiet DEF GateBreach
<1>2. CASE GatePass(r)
  <2>1. PhaseInv(r)'
    BY <1>0, <1>2, SamePhase DEF GatePass, TypeOK, Calling
  <2> QED BY <1>0, <1>2, <2>1, LedgerQuiet DEF GatePass
<1>3. CASE ReplayStep(r)
  \* The row would have to be a step below run[r].step.
  <2>1. run[r].step \in Steps /\ run[r].step \in Journaled /\ pc[r] \in Calling
    BY <1>3 DEF ReplayStep, StepsInRange, InStep, Journaled, Calling
  <2>2. run[r].step < run[r].step
    BY <1>0, <2>1 DEF PhaseInv
  <2>3. run[r].step \in Nat
    BY <2>1, ConstantTypes
  <2>4. FALSE
    BY <2>2, <2>3
  <2> QED BY <2>4
<1>4. CASE FreshStep(r)
  <2>1. PhaseInv(r)'
    BY <1>0, <1>4, SamePhase DEF FreshStep, TypeOK, Calling
  <2> QED BY <1>0, <1>4, <2>1, LedgerQuiet DEF FreshStep
<1>5. CASE CallModel(r)
  <2>1. pc'[r] \in Calling
    BY <1>5 DEF CallModel, EffectOf, TypeOK, Calling
  <2>2. run'[r].step = run[r].step
    BY <1>0, <1>5 DEF CallModel, TypeOK, Locals
  <2>3. PhaseInv(r)'
    BY <1>0, <1>5, <2>1, <2>2, SamePhase DEF CallModel, Calling
  <2> QED BY <1>0, <1>5, <2>3, LedgerQuiet DEF CallModel
<1> QED BY <1>1, <1>2, <1>3, <1>4, <1>5 DEF Loop

\* No effect touches the journal or the model COMMITs.
LEMMA EffectLedgerInv ==
    ASSUME TypeOK, SingleRunner, LedgerInv, NEW r \in Runners, Effect(r)
    PROVE  LedgerInv'
<1> USE DEF Goto, durable, task, ledger, tree, history
<1>0. run[r] \in Locals /\ PhaseInv(r) /\ (state \in Terminal => pc[r] = "idle")
  BY DEF TypeOK, LedgerInv
<1>1. pc[r] \in Calling /\ pc'[r] \in Calling /\ pc'[r] # "terminate"
  BY DEF Effect, RetrieveDefinition, RetrieveOther, ReadSpan, CheckArtifact,
         RecordArtifact, ApplyOp, PlanRename, RenameSkip, RenameFile, RenameDone,
         Verify, TypeOK, Calling
<1>2. run'[r].step = run[r].step
  BY <1>0 DEF Effect, RetrieveDefinition, RetrieveOther, ReadSpan, CheckArtifact,
         RecordArtifact, ApplyOp, PlanRename, RenameSkip, RenameFile, RenameDone,
         Verify, AddSpan, TypeOK, Locals
<1>3. UNCHANGED <<journal, commits, state>>
  BY DEF Effect, RetrieveDefinition, RetrieveOther, ReadSpan, CheckArtifact,
         RecordArtifact, ApplyOp, PlanRename, RenameSkip, RenameFile, RenameDone, Verify
<1>4. PhaseInv(r)'
  BY <1>0, <1>1, <1>2, <1>3, SamePhase
<1>5. state' \notin Terminal
  BY <1>0, <1>1, <1>3 DEF Calling
<1> QED BY <1>3, <1>4, <1>5, LedgerQuiet

\* The row opens one charge, and the COMMIT closes it.
LEMMA RecordLedgerInv ==
    ASSUME TypeOK, StepsInRange, SingleRunner, LedgerInv, NEW r \in Runners, Record(r)
    PROVE  LedgerInv'
<1> USE DEF Goto, durable, task, ledger, tree, history
<1>0. run[r] \in Locals /\ PhaseInv(r) /\ (state \in Terminal => pc[r] = "idle")
  BY DEF TypeOK, LedgerInv
<1> DEFINE s == run[r].step
<1>1. CASE AppendRow(r)
  <2> DEFINE row == [resp |-> run[r].resp, renamed |-> run[r].renamed,
                     verified |-> run[r].verified]
  <2>1. row # NoRow
    BY <1>0, PathAssumption DEF Locals, Row
  <2>2. /\ s \in Steps /\ pc[r] \in Calling /\ pc'[r] = "charge"
        /\ journal' = [journal EXCEPT ![s] = IF @ = NoRow THEN row ELSE @]
        /\ commits' = commits /\ run' = run /\ state' = state
    BY <1>1 DEF AppendRow, StepsInRange, InStep, Calling, TypeOK
  <2> HIDE DEF row, s
  <2>3. Unpaid = {} /\ \A q \in Steps : q \in Journaled <=> q < s
    BY <1>0, <2>2 DEF PhaseInv, s
  <2>4. s \notin Journaled
    BY <2>2, <2>3, ConstantTypes
  <2>5. Journaled' = Journaled \cup {s} /\ Charged' = Charged
    BY <2>1, <2>2, <2>4 DEF Journaled, Charged, TypeOK
  <2>6. Unpaid' = {s}
    BY <2>3, <2>4, <2>5 DEF Unpaid, LedgerInv
  <2>7. \A q \in Steps : q \in Journaled' <=> q <= s
    BY <2>2, <2>3, <2>5, ConstantTypes
  <2>8. PhaseInv(r)'
    BY <2>2, <2>6, <2>7 DEF PhaseInv, Opening, Calling, Paid, Owing, s
  <2>9. Contiguous'
    BY <2>2, <2>7, ConstantTypes DEF Contiguous, Journaled
  <2> QED BY <1>0, <2>2, <2>5, <2>6, <2>8, <2>9 DEF LedgerInv, SingleRunner, Calling
<1>2. CASE CheckCharge(r)
  <2>1. s \in Unpaid /\ pc[r] \in Owing
    BY <1>0, <1>2 DEF CheckCharge, PhaseInv, Owing
  <2>2. pc'[r] = "commit"
    BY <1>2, <2>1 DEF CheckCharge, Unpaid, TypeOK
  <2>3. Journaled' = Journaled /\ Unpaid' = Unpaid /\ run' = run
    BY <1>2 DEF CheckCharge, Unpaid, Journaled, Charged
  <2>4. PhaseInv(r)'
    BY <1>0, <2>1, <2>2, <2>3 DEF PhaseInv, Opening, Calling, Paid, Owing
  <2> QED BY <1>0, <1>2, <2>4, LedgerQuiet DEF CheckCharge
<1>3. CASE CommitCharge(r)
  <2>1. /\ s \in Unpaid /\ Unpaid = {s} /\ s \in Steps
        /\ \A q \in Steps : q \in Journaled <=> q <= s
    BY <1>0, <1>3 DEF CommitCharge, PhaseInv, Owing, StepsInRange, InStep
  <2>2. commits[s] = 0
    BY <2>1 DEF Unpaid, Charged, TypeOK
  <2>3. /\ commits' = [commits EXCEPT ![s] = 1] /\ journal' = journal
        /\ pc'[r] = "bump" /\ run' = run /\ state' = state /\ pc[r] = "commit"
    BY <1>3, <2>2 DEF CommitCharge, AppendCommit, TypeOK
  <2>4. Journaled' = Journaled /\ Charged' = Charged \cup {s}
    BY <2>1, <2>3 DEF Journaled, Charged, TypeOK
  <2>5. Unpaid' = {}
    BY <2>1, <2>4 DEF Unpaid
  <2>6. PhaseInv(r)'
    BY <2>1, <2>3, <2>4, <2>5 DEF PhaseInv, Opening, Calling, Paid, Owing
  <2>7. \A q \in Steps : commits'[q] <= 1
    BY <2>1, <2>3 DEF LedgerInv, TypeOK
  <2> HIDE DEF s
  <2>8. s \in Journaled
    BY <2>1 DEF Unpaid
  <2> QED BY <1>0, <2>3, <2>4, <2>5, <2>6, <2>7, <2>8
          DEF LedgerInv, SingleRunner, Contiguous
<1>4. CASE BumpTokens(r)
  <2>1. PhaseInv(r)'
    BY <1>0, <1>4, SamePhase DEF BumpTokens, TypeOK, Paid
  <2> QED BY <1>0, <1>4, <2>1, LedgerQuiet DEF BumpTokens
<1> QED BY <1>1, <1>2, <1>3, <1>4 DEF Record

\* A decision is taken with every row charged.
LEMMA DecideLedgerInv ==
    ASSUME TypeOK, StepsInRange, SingleRunner, LedgerInv, NEW r \in Runners, Decide(r)
    PROVE  LedgerInv'
<1> USE DEF Goto, durable, task, ledger, tree, history
<1>0. run[r] \in Locals /\ PhaseInv(r) /\ (state \in Terminal => pc[r] = "idle")
  BY DEF TypeOK, LedgerInv
<1>1. CASE GiveUp(r) \/ OutOfRepairs(r) \/ MergeWorktree(r) \/ MergeConflict(r)
  <2>1. PhaseInv(r)'
    BY <1>0, <1>1, SamePhase
       DEF GiveUp, OutOfRepairs, MergeWorktree, MergeConflict, StopWith, TypeOK, Paid
  <2> QED BY <1>0, <1>1, <2>1, LedgerQuiet
          DEF GiveUp, OutOfRepairs, MergeWorktree, MergeConflict
<1>2. CASE Succeed(r)
  <2>1. PhaseInv(r)'
    BY <1>0, <1>2, SamePhase DEF Succeed, StopWith, TypeOK, Paid
  <2> QED BY <1>0, <1>2, <2>1, LedgerQuiet DEF Succeed
<1>3. CASE Repair(r) \/ Advance(r)
  <2>1. /\ run'[r].step = run[r].step + 1 /\ pc[r] \in Paid /\ pc'[r] = "gate"
        /\ run[r].step \in Steps
    BY <1>0, <1>3 DEF Repair, Advance, TypeOK, Locals, Paid, StepsInRange, InStep
  <2>2. Journaled' = Journaled /\ Unpaid' = Unpaid
    BY <1>3 DEF Repair, Advance, Journaled, Unpaid, Charged
  <2>3. Unpaid = {} /\ \A s \in Steps : s \in Journaled <=> s <= run[r].step
    BY <1>0, <2>1 DEF PhaseInv
  <2>4. ASSUME NEW s \in Steps PROVE s \in Journaled' <=> s < run'[r].step
    <3>1. s \in Nat /\ run[r].step \in Nat
      BY <2>1, ConstantTypes
    <3>2. s <= run[r].step <=> s < run[r].step + 1
      BY <3>1
    <3> QED BY <2>1, <2>2, <2>3, <3>2
  <2>5. PhaseInv(r)'
    BY <2>1, <2>2, <2>3, <2>4 DEF PhaseInv, Opening, Calling, Paid, Owing
  <2> QED BY <1>0, <1>3, <2>5, LedgerQuiet DEF Repair, Advance
<1> QED BY <1>1, <1>2, <1>3 DEF Decide

\* Starting, dying and ending a run change no row and no charge.
LEMMA EndLedgerInv ==
    ASSUME TypeOK, SingleRunner, LedgerInv, NEW r \in Runners,
           Start(r) \/ Die(r) \/ Finish(r)
    PROVE  LedgerInv'
<1> USE DEF Goto, durable, task, ledger, tree, history
<1>0. run[r] \in Locals /\ PhaseInv(r) /\ (state \in Terminal => pc[r] = "idle")
  BY DEF TypeOK, LedgerInv
<1>1. PhaseInv(r)'
  BY DEF Start, Die, Finish, Terminate, RefuseRetrieval, Forget, TypeOK,
         PhaseInv, Opening, Calling, Paid, Owing
<1>2. UNCHANGED <<journal, commits>>
  BY DEF Start, Die, Finish, Terminate, RefuseRetrieval
<1>3. state' \in Terminal => Unpaid = {} /\ pc'[r] = "idle"
  BY <1>0 DEF Start, Die, Finish, Terminate, RefuseRetrieval, Forget, TypeOK, PhaseInv
<1> QED BY <1>1, <1>2, <1>3, LedgerQuiet

\* Every step of a single runner keeps journal and charges in phase.
LEMMA LedgerInvInductive ==
    ASSUME TypeOK, StepsInRange, SingleRunner, LedgerInv, [Next]_vars
    PROVE  LedgerInv'
<1>1. CASE UNCHANGED vars
  <2>1. UNCHANGED <<state, journal, commits, pc, run>>
    BY <1>1 DEF vars, durable, task, ledger
  <2>2. Journaled' = Journaled /\ Charged' = Charged /\ Unpaid' = Unpaid
    BY <2>1 DEF Journaled, Charged, Unpaid
  <2>3. ASSUME NEW r \in Runners PROVE PhaseInv(r)' /\ (state' \in Terminal => pc'[r] = "idle")
    BY <2>1, <2>2 DEF LedgerInv, PhaseInv
  <2> QED BY <2>1, <2>2, <2>3 DEF LedgerInv, Contiguous
<1>2. ASSUME NEW r \in Runners, Run(r) PROVE LedgerInv'
  BY <1>2, BootLedgerInv, LoopLedgerInv, EffectLedgerInv, RecordLedgerInv,
     DecideLedgerInv, EndLedgerInv DEF Run
<1>3. ASSUME NEW r \in Runners, Start(r) \/ Die(r) PROVE LedgerInv'
  BY <1>3, EndLedgerInv
<1> QED BY <1>1, <1>2, <1>3 DEF Next, ResumeTerminal, Abandoned

\* A task that has not run owes nothing.
LEMMA InitLedgerInv == Init => LedgerInv
<1> SUFFICES ASSUME Init PROVE LedgerInv
  OBVIOUS
<1>1. Journaled = {} /\ Charged = {} /\ state \notin Terminal
  BY DEF Init, Journaled, Charged, Terminal
<1>2. \A s \in Steps : commits[s] <= 1
  BY DEF Init
<1>3. \A r \in Runners : PhaseInv(r)
  BY DEF Init, PhaseInv, Opening, Calling, Paid, Owing
<1> QED BY <1>1, <1>2, <1>3 DEF LedgerInv, Unpaid, Contiguous

\* Every reachable state of a single runner satisfies LedgerInv.
LEMMA LedgerInvariant ==
    ASSUME SingleRunner
    PROVE  Spec => []LedgerInv
<1>1. TypeInv /\ StepsInRange /\ LedgerInv /\ [Next]_vars => LedgerInv'
  BY LedgerInvInductive DEF TypeInv
<1> QED BY <1>1, InitLedgerInv, TypeInvariant, PTL DEF Spec

\* Charging is effectively-once (_charge_from_journal, _commit_step_charge), for every
\* budget and any number of crashes and resumes of a task run by one process at a time.
THEOREM EffectivelyOnceCharging ==
    ASSUME SingleRunner
    PROVE  Spec => []ChargedExactlyOnce
<1>1. LedgerInv => ChargedExactlyOnce
  BY DEF LedgerInv, PhaseInv, Calling, Unpaid, ChargedExactlyOnce
<1> QED BY <1>1, LedgerInvariant, PTL

\* A terminal task is never changed again: run() returns before its first write.
THEOREM TerminalIsFinal ==
    ASSUME SingleRunner
    PROVE  Spec => TerminalAbsorbing
<1>1. LedgerInv /\ [Next]_vars => [state \notin Terminal]_<<task, journal, ledger, tree>>
  <2> SUFFICES ASSUME LedgerInv, [Next]_vars, state \in Terminal
               PROVE  UNCHANGED <<task, journal, ledger, tree>>
    OBVIOUS
  <2>1. \A r \in Runners : pc[r] = "idle"
    BY DEF LedgerInv
  <2>2. ASSUME NEW r \in Runners, Run(r) \/ Die(r) \/ Start(r) PROVE FALSE
    BY <2>1, <2>2
       DEF Run, Boot, ReadCommitted, ReadTrace, Reconcile, SetRunning, OpenWorktree,
           LoadContext, Loop, GateBreach, GatePass, ReplayStep, FreshStep, CallModel,
           Effect, RetrieveDefinition, RetrieveOther, ReadSpan, CheckArtifact,
           RecordArtifact, ApplyOp, PlanRename, RenameSkip, RenameFile, RenameDone,
           Verify, Record, AppendRow, CheckCharge, CommitCharge, BumpTokens, Decide,
           GiveUp, Succeed, OutOfRepairs, Repair, Advance, MergeWorktree,
           MergeConflict, Finish, Terminate, RefuseRetrieval, Die, Start
  <2> QED BY <2>2 DEF Next, ResumeTerminal, Abandoned, vars, durable
<1> QED BY <1>1, LedgerInvariant, PTL DEF Spec, TerminalAbsorbing

-----------------------------------------------------------------------------
(* One runner: the token budget                                            *)

\* Past the gate, before the row of the step is written.
Spending == Calling \ {"gate"}

\* The gate lets a step start only with budget left, and only the one row that is not
\* yet charged can carry the spend past the budget.
BudgetInv ==
    /\ \A s \in Journaled : journal[s].resp.cost <= MaxCost
    /\ \A r \in Runners : /\ run[r].resp.cost <= MaxCost
                          /\ pc[r] \in Spending => spent <= TokenBudget
    /\ Unpaid # {} => spent <= TokenBudget
    /\ SpendBounded

\* A step that neither journals nor spends keeps the spend bounded.
LEMMA BudgetQuiet ==
    ASSUME SingleRunner, BudgetInv, NEW r \in Runners,
           UNCHANGED <<journal, commits, spent>>,
           run'[r].resp.cost <= MaxCost,
           pc'[r] \in Spending => spent <= TokenBudget
    PROVE  BudgetInv'
<1>1. Journaled' = Journaled /\ Unpaid' = Unpaid
  BY DEF Journaled, Charged, Unpaid
<1>2. \A q \in Runners : q = r
  BY DEF SingleRunner
<1>3. \A q \in Runners : /\ run'[q].resp.cost <= MaxCost
                         /\ pc'[q] \in Spending => spent <= TokenBudget
  BY <1>2
<1> QED BY <1>1, <1>3 DEF BudgetInv, SpendBounded

\* The actions that neither write a row nor spend.
LEMMA BudgetInvQuietActions ==
    ASSUME TypeOK, StepsInRange, SingleRunner, LedgerInv, BudgetInv, NEW r \in Runners,
           \/ ReadCommitted(r) \/ ReadTrace(r) \/ SetRunning(r) \/ OpenWorktree(r)
           \/ LoadContext(r) \/ GateBreach(r) \/ GatePass(r) \/ FreshStep(r)
           \/ CallModel(r) \/ CheckCharge(r) \/ BumpTokens(r) \/ Decide(r) \/ Finish(r)
           \/ Start(r) \/ Die(r)
    PROVE  BudgetInv'
<1> USE DEF Goto, durable, task, ledger, tree, history
<1>0. /\ run[r] \in Locals /\ run[r].resp.cost <= MaxCost
      /\ pc[r] \in Spending => spent <= TokenBudget
      /\ spent \in Nat /\ TokenBudget \in Nat
  BY BudgetAssumption DEF TypeOK, BudgetInv
<1>1. CASE \/ ReadCommitted(r) \/ ReadTrace(r) \/ SetRunning(r) \/ OpenWorktree(r)
           \/ LoadContext(r) \/ CheckCharge(r) \/ BumpTokens(r) \/ Start(r)
  <2>1. pc'[r] \notin Spending /\ run'[r].resp = run[r].resp
    BY <1>0, <1>1 DEF ReadCommitted, ReadTrace, SetRunning, OpenWorktree, LoadContext,
         CheckCharge, BumpTokens, Start, TypeOK, Locals, Spending, Calling
  <2>2. UNCHANGED <<journal, commits, spent>>
    BY <1>1 DEF ReadCommitted, ReadTrace, SetRunning, OpenWorktree, LoadContext,
         CheckCharge, BumpTokens, Start
  <2> QED BY <1>0, <2>1, <2>2, BudgetQuiet
<1>2. CASE GateBreach(r) \/ GatePass(r) \/ FreshStep(r)
  <2>1. run'[r].resp = run[r].resp
    <3>1. CASE GatePass(r) \/ FreshStep(r)
      BY <3>1 DEF GatePass, FreshStep
    <3>2. CASE GateBreach(r)
      BY <1>0, <3>2 DEF GateBreach, StopWith, TypeOK, Locals
    <3> QED BY <1>2, <3>1, <3>2
  <2>2. UNCHANGED <<journal, commits, spent>>
    BY <1>2 DEF GateBreach, GatePass, FreshStep
  <2>3. pc'[r] \in Spending => spent <= TokenBudget
    BY <1>0, <1>2 DEF GateBreach, GatePass, FreshStep, StopWith, budget_breach, TypeOK,
         Spending, Calling
  <2> QED BY <1>0, <2>1, <2>2, <2>3, BudgetQuiet
<1>3. CASE CallModel(r)
  <2>1. PICK a \in Responses : run' = [run EXCEPT ![r] = [run[r] EXCEPT
                        !.resp = a, !.renamed = {}, !.verified = FALSE]]
    BY <1>3 DEF CallModel
  <2>2. run'[r].resp = a
    BY <1>0, <2>1 DEF TypeOK, Locals
  <2>3. pc[r] \in Spending
    BY <1>3 DEF CallModel, Spending, Calling
  <2> QED BY <1>0, <1>3, <2>2, <2>3, ResponseAssumption, BudgetQuiet DEF CallModel
<1>4. CASE Decide(r)
  <2>1. pc'[r] \notin Spending /\ run'[r].resp = run[r].resp
    BY <1>0, <1>4 DEF Decide, GiveUp, Succeed, OutOfRepairs, Repair, Advance,
         MergeWorktree, MergeConflict, StopWith, TypeOK, Locals, Spending, Calling
  <2>2. UNCHANGED <<journal, commits, spent>>
    BY <1>4 DEF Decide, GiveUp, Succeed, OutOfRepairs, Repair, Advance,
         MergeWorktree, MergeConflict
  <2> QED BY <1>0, <2>1, <2>2, BudgetQuiet
<1>5. CASE Finish(r) \/ Die(r)
  <2>1. pc'[r] \notin Spending /\ run'[r].resp = NoResp
    BY <1>5 DEF Finish, Terminate, RefuseRetrieval, Die, Forget, NoLocals, TypeOK,
         Spending, Calling
  <2>2. UNCHANGED <<journal, commits, spent>>
    BY <1>5 DEF Finish, Terminate, RefuseRetrieval, Die
  <2> QED BY <2>1, <2>2, ConstantTypes, ResponseAssumption, BudgetQuiet
<1> QED BY <1>1, <1>2, <1>3, <1>4, <1>5

\* Every step of a single runner keeps the spend within one call of the budget.
LEMMA BudgetInvInductive ==
    ASSUME TypeOK, StepsInRange, SingleRunner, LedgerInv, BudgetInv, [Next]_vars
    PROVE  BudgetInv'
<1> USE DEF Goto, durable, task, ledger, tree, history
<1>0. /\ \A r \in Runners : run[r] \in Locals
      /\ spent \in Nat /\ TokenBudget \in Nat /\ MaxCost \in Nat
  BY BudgetAssumption, ResponseAssumption DEF TypeOK
<1>1. CASE UNCHANGED vars
  <2>1. UNCHANGED <<journal, commits, spent, pc, run>>
    BY <1>1 DEF vars
  <2>2. Journaled' = Journaled /\ Unpaid' = Unpaid
    BY <2>1 DEF Journaled, Charged, Unpaid
  <2> QED BY <2>1, <2>2 DEF BudgetInv, SpendBounded
<1>2. ASSUME NEW r \in Runners, Reconcile(r) PROVE BudgetInv'
  <2> DEFINE s == First(run[r].todo)
  <2>1. s \in Unpaid
    <3>1. run[r].todo = Unpaid /\ run[r].todo # {} /\ run[r].todo \subseteq Steps
      BY <1>0, <1>2 DEF Reconcile, LedgerInv, PhaseInv, Locals
    <3> QED BY <3>1, ConstantTypes, FirstIsFirst, FS_Subset
  <2>2. /\ s \in Steps /\ s \in Journaled /\ spent <= TokenBudget
        /\ journal[s].resp.cost \in Nat /\ journal[s].resp.cost <= MaxCost
    BY <2>1 DEF Unpaid, Journaled, BudgetInv, TypeOK, Row, ResponseType
  <2>3. /\ spent' = spent + journal[s].resp.cost /\ journal' = journal
        /\ commits' = [commits EXCEPT ![s] = @ + 1] /\ pc' = pc
        /\ pc[r] \notin Spending
    BY <1>2 DEF Reconcile, AppendCommit, Spending, Calling
  <2>4. run'[r].resp = run[r].resp
    BY <1>2, <1>0 DEF Reconcile, TypeOK, Locals
  <2> HIDE DEF s
  <2>5. SpendBounded'
    BY <1>0, <2>2, <2>3 DEF SpendBounded
  <2>6. Journaled' = Journaled /\ Charged' = Charged \cup {s}
    BY <2>2, <2>3 DEF Journaled, Charged, TypeOK
  <2>7. Unpaid' = {}
    BY <2>1, <2>6 DEF Unpaid, LedgerInv
  <2>8. \A q \in Runners : run'[q].resp.cost <= MaxCost /\ pc'[q] \notin Spending
    BY <2>3, <2>4 DEF BudgetInv, SingleRunner
  <2> QED BY <2>3, <2>5, <2>6, <2>7, <2>8 DEF BudgetInv
<1>3. ASSUME NEW r \in Runners, CommitCharge(r) PROVE BudgetInv'
  <2> DEFINE s == run[r].step
  <2>1. s \in Unpaid /\ Unpaid = {s} /\ s \in Steps
    BY <1>3 DEF CommitCharge, LedgerInv, PhaseInv, Owing, StepsInRange, InStep
  <2>2. /\ spent <= TokenBudget /\ run[r].resp.cost \in Nat
        /\ run[r].resp.cost <= MaxCost
    BY <1>0, <2>1 DEF BudgetInv, Locals, ResponseType
  <2>3. /\ spent' = spent + run[r].resp.cost /\ journal' = journal /\ run' = run
        /\ commits' = [commits EXCEPT ![s] = @ + 1]
        /\ pc' = [pc EXCEPT ![r] = "bump"]
    BY <1>3 DEF CommitCharge, AppendCommit
  <2> HIDE DEF s
  <2>4. SpendBounded'
    BY <1>0, <2>2, <2>3 DEF SpendBounded
  <2>5. Journaled' = Journaled /\ Charged' = Charged \cup {s}
    BY <2>1, <2>3 DEF Journaled, Charged, TypeOK
  <2>6. Unpaid' = {}
    BY <2>1, <2>5 DEF Unpaid
  <2>7. \A q \in Runners : pc'[q] \notin Spending
    BY <2>3 DEF SingleRunner, TypeOK, Spending, Calling
  <2> QED BY <2>3, <2>4, <2>5, <2>6, <2>7 DEF BudgetInv
<1>4. ASSUME NEW r \in Runners, AppendRow(r) PROVE BudgetInv'
  <2> DEFINE s == run[r].step
             row == [resp |-> run[r].resp, renamed |-> run[r].renamed,
                     verified |-> run[r].verified]
  <2>1. /\ spent <= TokenBudget /\ s \in Steps /\ run[r].resp.cost <= MaxCost
        /\ pc' = [pc EXCEPT ![r] = "charge"] /\ run' = run
        /\ journal' = [journal EXCEPT ![s] = IF @ = NoRow THEN row ELSE @]
        /\ spent' = spent
    BY <1>4 DEF AppendRow, BudgetInv, Spending, Calling, StepsInRange, InStep
  <2>2. row.resp = run[r].resp
    OBVIOUS
  <2> HIDE DEF s, row
  <2>3. \A q \in Journaled' : journal'[q].resp.cost <= MaxCost
    BY <2>1, <2>2 DEF Journaled, BudgetInv, TypeOK
  <2>4. \A q \in Runners : pc'[q] \notin Spending
    BY <2>1 DEF SingleRunner, TypeOK, Spending, Calling
  <2> QED BY <2>1, <2>3, <2>4 DEF BudgetInv, SpendBounded
<1>5. ASSUME NEW r \in Runners, Effect(r) PROVE BudgetInv'
  <2>1. pc[r] \in Spending
    BY <1>5 DEF Effect, RetrieveDefinition, RetrieveOther, ReadSpan, CheckArtifact,
         RecordArtifact, ApplyOp, PlanRename, RenameSkip, RenameFile, RenameDone,
         Verify, Spending, Calling
  <2>2. run'[r].resp = run[r].resp
    BY <1>0, <1>5 DEF Effect, RetrieveDefinition, RetrieveOther, ReadSpan, CheckArtifact,
         RecordArtifact, ApplyOp, PlanRename, RenameSkip, RenameFile, RenameDone,
         Verify, AddSpan, TypeOK, Locals
  <2>3. UNCHANGED <<journal, commits>>
    BY <1>5 DEF Effect, RetrieveDefinition, RetrieveOther, ReadSpan, CheckArtifact,
         RecordArtifact, ApplyOp, PlanRename, RenameSkip, RenameFile, RenameDone, Verify
  <2>4. spent' <= TokenBudget
    BY <1>0, <1>5, <2>1 DEF Effect, RetrieveDefinition, RetrieveOther, ReadSpan, CheckArtifact,
         RecordArtifact, ApplyOp, PlanRename, RenameSkip, RenameFile, RenameDone,
         Verify, charge_atomic, BudgetInv
  <2>5. spent' \in Nat
    BY <1>0, <1>5, RetrievalAssumption DEF Effect, RetrieveDefinition, RetrieveOther,
         ReadSpan, CheckArtifact, RecordArtifact, ApplyOp, PlanRename, RenameSkip,
         RenameFile, RenameDone, Verify, charge_atomic
  <2>6. Journaled' = Journaled /\ Unpaid' = Unpaid
    BY <2>3 DEF Journaled, Charged, Unpaid
  <2>7. SpendBounded'
    BY <1>0, <2>4, <2>5 DEF SpendBounded
  <2>8. \A q \in Runners : run'[q].resp.cost <= MaxCost
    BY <2>2 DEF BudgetInv, SingleRunner
  <2> QED BY <2>3, <2>4, <2>6, <2>7, <2>8 DEF BudgetInv
<1>6. ASSUME NEW r \in Runners, ReplayStep(r) PROVE FALSE
  <2>1. run[r].step \in Steps /\ run[r].step \in Journaled /\ pc[r] \in Calling
    BY <1>6 DEF ReplayStep, StepsInRange, InStep, Journaled, Calling
  <2>2. run[r].step < run[r].step /\ run[r].step \in Nat
    BY <2>1, ConstantTypes DEF LedgerInv, PhaseInv
  <2> QED BY <2>2
<1> QED BY <1>1, <1>2, <1>3, <1>4, <1>5, <1>6, BudgetInvQuietActions
        DEF Next, Run, Boot, Loop, Record, ResumeTerminal, Abandoned

\* Every reachable state of a single runner satisfies BudgetInv.
LEMMA BudgetInvariant ==
    ASSUME SingleRunner
    PROVE  Spec => []BudgetInv
<1>1. Init => BudgetInv
  <2> SUFFICES ASSUME Init PROVE BudgetInv
    OBVIOUS
  <2>1. Journaled = {} /\ Unpaid = {}
    BY DEF Init, Journaled, Unpaid
  <2>2. \A r \in Runners : run[r].resp.cost <= MaxCost /\ pc[r] \notin Spending
    BY ConstantTypes, ResponseAssumption DEF Init, NoLocals, Spending, Calling
  <2>3. SpendBounded
    BY BudgetAssumption, ResponseAssumption DEF Init, SpendBounded
  <2> QED BY <2>1, <2>2, <2>3 DEF BudgetInv
<1>2. TypeInv /\ StepsInRange /\ LedgerInv /\ BudgetInv /\ [Next]_vars => BudgetInv'
  BY BudgetInvInductive DEF TypeInv
<1> QED BY <1>1, <1>2, TypeInvariant, LedgerInvariant, PTL DEF Spec

\* The committed spend passes the token budget by at most one model call (_budget_breach
\* runs before a call whose cost is not known), whatever crashes in between.
THEOREM OverrunIsOneCall ==
    ASSUME SingleRunner
    PROVE  Spec => []SpendBounded
<1>1. BudgetInv => SpendBounded
  BY DEF BudgetInv
<1> QED BY <1>1, BudgetInvariant, PTL

-----------------------------------------------------------------------------
(* One runner: what success rests on                                       *)

\* The last journaled step is a VERIFY the sandbox passed.
JudgedLast ==
    /\ Journaled # {}
    /\ KindAt(Last(Journaled)) = "VERIFY"
    /\ journal[Last(Journaled)].verified

\* Between the append and the decision the row is the response the run holds, and a run
\* that is about to merge or to write VERIFIED_SUCCESS has read its verdict from it.
VerdictInv ==
    /\ state = "VERIFIED_SUCCESS" => JudgedLast
    /\ \A r \in Runners :
          /\ pc[r] \in Owing \cup {"bump", "decide"} =>
                journal[run[r].step].resp = run[r].resp
          /\ (pc[r] = "merge" \/
              (pc[r] = "terminate" /\ run[r].verdict = "VERIFIED_SUCCESS")) => JudgedLast

\* If the journal ends at k, its last row is that of k.
LEMMA LastRowIsCurrent ==
    ASSUME TypeOK, NEW k \in Steps, \A s \in Steps : s \in Journaled <=> s <= k
    PROVE  Journaled # {} /\ Last(Journaled) = k
<1>1. k \in Nat /\ k \in Journaled
  BY ConstantTypes
<1>2. Journaled \in SUBSET (0 .. (StepBudget - 1)) /\ StepBudget - 1 \in Nat
  BY BudgetAssumption DEF Journaled, Steps
<1>3. Last(Journaled) \in Journaled /\ \A q \in Journaled : q <= Last(Journaled)
  BY <1>1, <1>2, LastIsLast
<1>4. Last(Journaled) \in Steps /\ Last(Journaled) \in Nat
  BY <1>3, ConstantTypes DEF Journaled
<1>5. Last(Journaled) <= k /\ k <= Last(Journaled)
  BY <1>1, <1>3, <1>4
<1> QED BY <1>1, <1>4, <1>5

\* Steps that leave the journal and the task state alone.
LEMMA VerdictQuiet ==
    ASSUME SingleRunner, VerdictInv, NEW r \in Runners, UNCHANGED <<journal, state>>,
           pc'[r] \in Owing \cup {"bump", "decide"} =>
                journal[run'[r].step].resp = run'[r].resp,
           (pc'[r] = "merge" \/
              (pc'[r] = "terminate" /\ run'[r].verdict = "VERIFIED_SUCCESS")) => JudgedLast
    PROVE  VerdictInv'
<1>1. JudgedLast' = JudgedLast
  BY DEF JudgedLast, Journaled, KindAt, Last
<1>2. \A q \in Runners : q = r
  BY DEF SingleRunner
<1>3. \A q \in Runners :
          /\ pc'[q] \in Owing \cup {"bump", "decide"} =>
                journal[run'[q].step].resp = run'[q].resp
          /\ (pc'[q] = "merge" \/
              (pc'[q] = "terminate" /\ run'[q].verdict = "VERIFIED_SUCCESS")) => JudgedLast
  BY <1>2
<1> QED BY <1>1, <1>3 DEF VerdictInv

\* Every step carries the verdict of the last VERIFY to the terminal write.
LEMMA VerdictInvInductive ==
    ASSUME TypeOK, StepsInRange, SingleRunner, LedgerInv, VerdictInv, [Next]_vars
    PROVE  VerdictInv'
<1> USE DEF Goto, durable, task, ledger, tree, history
<1>0. \A r \in Runners : /\ run[r] \in Locals /\ PhaseInv(r)
                         /\ state \in Terminal => pc[r] = "idle"
  BY DEF TypeOK, LedgerInv
<1>1. CASE UNCHANGED vars
  <2>1. UNCHANGED <<journal, state, pc, run>>
    BY <1>1 DEF vars
  <2>2. JudgedLast' = JudgedLast
    BY <2>1 DEF JudgedLast, Journaled, KindAt, Last
  <2> QED BY <2>1, <2>2 DEF VerdictInv
<1>2. ASSUME NEW r \in Runners,
             \/ Start(r) \/ Die(r) \/ RefuseRetrieval(r) \/ ReadCommitted(r)
             \/ ReadTrace(r) \/ Reconcile(r) \/ OpenWorktree(r) \/ LoadContext(r)
             \/ GatePass(r) \/ FreshStep(r) \/ Repair(r) \/ Advance(r)
      PROVE  VerdictInv'
  <2>1. pc'[r] \notin Owing \cup {"bump", "decide", "merge", "terminate"}
    BY <1>2 DEF Start, Die, RefuseRetrieval, Forget, ReadCommitted, ReadTrace, Reconcile,
         OpenWorktree, LoadContext, GatePass, FreshStep, Repair, Advance, TypeOK, Owing
  <2>2. UNCHANGED <<journal, state>>
    BY <1>2 DEF Start, Die, RefuseRetrieval, ReadCommitted, ReadTrace, Reconcile,
         OpenWorktree, LoadContext, GatePass, FreshStep, Repair, Advance
  <2> QED BY <2>1, <2>2, VerdictQuiet
<1>3. ASSUME NEW r \in Runners, SetRunning(r) PROVE VerdictInv'
  <2>1. pc'[r] = "open" /\ state' = "RUNNING"
    BY <1>3 DEF SetRunning, TypeOK
  <2>2. \A q \in Runners : pc'[q] = "open"
    BY <2>1 DEF SingleRunner
  <2> QED BY <2>1, <2>2 DEF VerdictInv, Owing
<1>4. ASSUME NEW r \in Runners, CallModel(r) \/ Effect(r) PROVE VerdictInv'
  <2>1. pc'[r] \notin Owing \cup {"bump", "decide", "merge", "terminate"}
    <3>1. CASE CallModel(r)
      BY <3>1 DEF CallModel, EffectOf, TypeOK, Owing
    <3>2. CASE Effect(r)
      BY <3>2 DEF Effect, RetrieveDefinition, RetrieveOther, ReadSpan, CheckArtifact,
         RecordArtifact, ApplyOp, PlanRename, RenameSkip, RenameFile, RenameDone,
         Verify, TypeOK, Owing
    <3> QED BY <1>4, <3>1, <3>2
  <2>2. UNCHANGED <<journal, state>>
    BY <1>4 DEF CallModel, Effect, RetrieveDefinition, RetrieveOther, ReadSpan, CheckArtifact,
         RecordArtifact, ApplyOp, PlanRename, RenameSkip, RenameFile, RenameDone, Verify
  <2> QED BY <2>1, <2>2, VerdictQuiet
<1>5. ASSUME NEW r \in Runners,
             GateBreach(r) \/ GiveUp(r) \/ OutOfRepairs(r) \/ MergeConflict(r)
      PROVE  VerdictInv'
  <2>1. pc'[r] = "terminate"
    BY <1>5 DEF GateBreach, GiveUp, OutOfRepairs, MergeConflict, StopWith, TypeOK
  <2>2. run'[r].verdict # "VERIFIED_SUCCESS"
    BY <1>0, <1>5 DEF GateBreach, GiveUp, OutOfRepairs, MergeConflict, StopWith, TypeOK,
         Locals
  <2>3. UNCHANGED <<journal, state>>
    BY <1>5 DEF GateBreach, GiveUp, OutOfRepairs, MergeConflict
  <2> QED BY <2>1, <2>2, <2>3, VerdictQuiet DEF Owing
<1>6. ASSUME NEW r \in Runners, ReplayStep(r) PROVE FALSE
  <2>1. run[r].step \in Steps /\ run[r].step \in Journaled /\ pc[r] \in Calling
    BY <1>6 DEF ReplayStep, StepsInRange, InStep, Journaled, Calling
  <2>2. run[r].step < run[r].step /\ run[r].step \in Nat
    BY <2>1, ConstantTypes DEF LedgerInv, PhaseInv
  <2> QED BY <2>2
<1>7. ASSUME NEW r \in Runners, AppendRow(r) PROVE VerdictInv'
  <2> DEFINE s == run[r].step
             row == [resp |-> run[r].resp, renamed |-> run[r].renamed,
                     verified |-> run[r].verified]
  <2>1. /\ s \in Steps /\ pc[r] \in Calling /\ pc'[r] = "charge" /\ run' = run
        /\ journal' = [journal EXCEPT ![s] = IF @ = NoRow THEN row ELSE @]
        /\ state' = state /\ state \notin Terminal
    BY <1>0, <1>7 DEF AppendRow, StepsInRange, InStep, Calling, TypeOK
  <2>2. row.resp = run[r].resp
    OBVIOUS
  <2> HIDE DEF s, row
  <2>3. s \in Journaled => s < s
    BY <1>0, <2>1 DEF PhaseInv, s
  <2>4. s \in Nat
    BY <2>1, ConstantTypes
  <2>5. journal[s] = NoRow
    BY <2>1, <2>3, <2>4 DEF Journaled
  <2>6. journal'[s].resp = run[r].resp
    BY <2>1, <2>2, <2>5 DEF TypeOK
  <2> QED BY <2>1, <2>6 DEF VerdictInv, SingleRunner, Terminal, s
<1>8. ASSUME NEW r \in Runners, CheckCharge(r) \/ CommitCharge(r) \/ BumpTokens(r)
      PROVE  VerdictInv'
  <2>1. /\ pc[r] \in Owing \cup {"bump", "decide"} /\ run' = run
        /\ pc'[r] \notin {"merge", "terminate"} /\ UNCHANGED <<journal, state>>
    BY <1>8 DEF CheckCharge, CommitCharge, BumpTokens, TypeOK, Owing
  <2> QED BY <2>1, VerdictQuiet DEF VerdictInv
<1>9. ASSUME NEW r \in Runners, Succeed(r) PROVE VerdictInv'
  <2>1. /\ pc[r] \in Paid /\ pc[r] \in Owing \cup {"bump", "decide"}
        /\ run[r].step \in Steps /\ run[r].resp.kind = "VERIFY"
        /\ journal[run[r].step].verified
    BY <1>9 DEF Succeed, Passed, Paid, StepsInRange, InStep
  <2>2. Journaled # {} /\ Last(Journaled) = run[r].step
    BY <1>0, <2>1, LastRowIsCurrent DEF PhaseInv
  <2>3. JudgedLast
    BY <2>1, <2>2 DEF JudgedLast, KindAt, VerdictInv
  <2>4. pc'[r] \in {"merge", "terminate"} /\ UNCHANGED <<journal, state>>
    BY <1>9 DEF Succeed, StopWith, TypeOK
  <2> QED BY <2>3, <2>4, VerdictQuiet DEF Owing
<1>10. ASSUME NEW r \in Runners, MergeWorktree(r) PROVE VerdictInv'
  <2>1. JudgedLast
    BY <1>10 DEF MergeWorktree, VerdictInv
  <2>2. pc'[r] = "terminate" /\ UNCHANGED <<journal, state>>
    BY <1>10 DEF MergeWorktree, StopWith, TypeOK
  <2> QED BY <2>1, <2>2, VerdictQuiet DEF Owing
<1>11. ASSUME NEW r \in Runners, Terminate(r) PROVE VerdictInv'
  <2>1. /\ pc[r] = "terminate" /\ pc'[r] = "idle" /\ state' = run[r].verdict
        /\ journal' = journal
    BY <1>11 DEF Terminate, Forget, TypeOK
  <2>2. JudgedLast' = JudgedLast
    BY <2>1 DEF JudgedLast, Journaled, KindAt, Last
  <2> QED BY <2>1, <2>2 DEF VerdictInv, SingleRunner, Owing
<1> QED BY <1>1, <1>2, <1>3, <1>4, <1>5, <1>6, <1>7, <1>8, <1>9, <1>10, <1>11
        DEF Next, Run, Boot, Loop, Record, Decide, Finish, ResumeTerminal, Abandoned

\* A run on its way to success has a verified last row.
LEMMA VerdictInvariant ==
    ASSUME SingleRunner
    PROVE  Spec => []VerdictInv
<1>1. Init => VerdictInv
  BY DEF Init, VerdictInv, Owing
<1>2. TypeInv /\ StepsInRange /\ LedgerInv /\ VerdictInv /\ [Next]_vars => VerdictInv'
  BY VerdictInvInductive DEF TypeInv
<1> QED BY <1>1, <1>2, TypeInvariant, LedgerInvariant, PTL DEF Spec

\* VERIFIED_SUCCESS derives only from the sandbox's verdict on the last journaled step
\* (_verified_from_journal), through crashes between the verdict and the terminal write.
THEOREM SuccessIsTheSandboxs ==
    ASSUME SingleRunner
    PROVE  Spec => []SuccessIsLastVerdict
<1>1. VerdictInv => SuccessIsLastVerdict
  BY DEF VerdictInv, JudgedLast, SuccessIsLastVerdict
<1> QED BY <1>1, VerdictInvariant, PTL

-----------------------------------------------------------------------------
(* One runner: the loop implements the abstract promise                    *)

\* Every step of the loop is a step of EffectivelyOnce or changes nothing it sees: an
\* append records the next step, a reconciled or committed charge pays for one, and the
\* terminal write closes the task.
THEOREM LoopImplementsEffectivelyOnce ==
    ASSUME SingleRunner
    PROVE  Spec => ImplementsEffectivelyOnce
<1>1. Init => EO!Init
  BY DEF Init, EO!Init, Journaled, Terminal
<1>2. TypeInv /\ StepsInRange /\ LedgerInv /\ [Next]_vars => [EO!Next]_(EO!vars)
  <2> SUFFICES ASSUME TypeOK, StepsInRange, LedgerInv, [Next]_vars
               PROVE  [EO!Next]_(EO!vars)
    BY DEF TypeInv
  <2> USE DEF Goto, durable, task, ledger, tree, history
  <2>0. \A r \in Runners : /\ run[r] \in Locals /\ PhaseInv(r)
                           /\ state \in Terminal => pc[r] = "idle"
    BY DEF TypeOK, LedgerInv
  <2>1. ASSUME UNCHANGED <<journal, commits, state>> PROVE UNCHANGED EO!vars
    BY <2>1 DEF EO!vars, Journaled
  <2>2. Unpaid = {} => EO!Settled
    BY DEF EO!Settled, Unpaid, Charged, LedgerInv, TypeOK, Journaled
  <2>3. ASSUME NEW r \in Runners, AppendRow(r) PROVE EO!Next
    <3> DEFINE s == run[r].step
               row == [resp |-> run[r].resp, renamed |-> run[r].renamed,
                       verified |-> run[r].verified]
    <3>1. row # NoRow
      BY <2>0, PathAssumption DEF Locals, Row
    <3>2. /\ s \in Steps /\ pc[r] \in Calling /\ state' = state /\ commits' = commits
          /\ journal' = [journal EXCEPT ![s] = IF @ = NoRow THEN row ELSE @]
          /\ state \notin Terminal
      BY <2>0, <2>3 DEF AppendRow, StepsInRange, InStep, Calling
    <3> HIDE DEF s, row
    <3>3. Unpaid = {} /\ \A q \in Steps : q \in Journaled <=> q < s
      BY <2>0, <3>2 DEF PhaseInv, s
    <3>4. s \notin Journaled
      BY <3>2, <3>3, ConstantTypes
    <3>5. Journaled' = Journaled \cup {s}
      BY <3>1, <3>2, <3>4 DEF Journaled, TypeOK
    <3>6. EO!RecordStep(s)
      BY <2>2, <3>2, <3>3, <3>4, <3>5 DEF EO!RecordStep
    <3> QED BY <3>2, <3>6 DEF EO!Next
  <2>4. ASSUME NEW s \in Unpaid, commits' = [commits EXCEPT ![s] = @ + 1],
               UNCHANGED <<journal, state>>
        PROVE  EO!Next
    <3>1. s \in Steps /\ s \in Journaled /\ commits[s] = 0
      BY DEF Unpaid, Journaled, Charged, TypeOK
    <3>2. commits' = [commits EXCEPT ![s] = 1] /\ Journaled' = Journaled
      BY <2>4, <3>1 DEF Journaled
    <3>3. EO!ChargeStep(s)
      BY <2>4, <3>1, <3>2 DEF EO!ChargeStep
    <3> QED BY <3>1, <3>3 DEF EO!Next
  <2>5. ASSUME NEW r \in Runners, Reconcile(r) PROVE EO!Next
    <3>1. run[r].todo = Unpaid /\ run[r].todo # {} /\ run[r].todo \subseteq Steps
      BY <2>0, <2>5 DEF Reconcile, PhaseInv, Locals
    <3>2. First(run[r].todo) \in Unpaid
      BY <3>1, ConstantTypes, FirstIsFirst, FS_Subset
    <3> QED BY <2>4, <2>5, <3>2 DEF Reconcile, AppendCommit
  <2>6. ASSUME NEW r \in Runners, CommitCharge(r) PROVE EO!Next
    <3>1. run[r].step \in Unpaid
      BY <2>0, <2>6 DEF CommitCharge, PhaseInv, Owing
    <3> QED BY <2>4, <2>6, <3>1 DEF CommitCharge, AppendCommit
  <2>7. ASSUME NEW r \in Runners, Terminate(r) PROVE EO!Next
    <3>1. /\ run[r].verdict \in Terminal /\ state' = run[r].verdict /\ state \notin Terminal
          /\ UNCHANGED <<journal, commits>> /\ Unpaid = {}
      BY <2>0, <2>7 DEF Terminate, PhaseInv, Locals
    <3>2. EO!Close(run[r].verdict)
      BY <2>2, <3>1 DEF EO!Close, Journaled
    <3> QED BY <3>1, <3>2 DEF EO!Next
  <2>8. ASSUME NEW r \in Runners, SetRunning(r) PROVE UNCHANGED EO!vars
    BY <2>0, <2>8 DEF SetRunning, EO!vars, Journaled, Terminal
  <2>9. ASSUME NEW r \in Runners,
               \/ Start(r) \/ Die(r) \/ RefuseRetrieval(r) \/ ReadCommitted(r)
               \/ ReadTrace(r) \/ OpenWorktree(r) \/ LoadContext(r) \/ Loop(r)
               \/ Effect(r) \/ CheckCharge(r) \/ BumpTokens(r) \/ Decide(r)
        PROVE  UNCHANGED <<journal, commits, state>>
    BY <2>9
       DEF Start, Die, RefuseRetrieval, ReadCommitted, ReadTrace, OpenWorktree,
           LoadContext, Loop, GateBreach, GatePass, ReplayStep, FreshStep, CallModel,
           Effect, RetrieveDefinition, RetrieveOther, ReadSpan, CheckArtifact,
           RecordArtifact, ApplyOp, PlanRename, RenameSkip, RenameFile, RenameDone,
           Verify, CheckCharge, BumpTokens, Decide, GiveUp, Succeed, OutOfRepairs,
           Repair, Advance, MergeWorktree, MergeConflict
  <2>10. CASE UNCHANGED vars
    BY <2>1, <2>10 DEF vars
  <2> QED BY <2>1, <2>3, <2>5, <2>6, <2>7, <2>8, <2>9, <2>10
          DEF Next, Run, Boot, Record, Finish, ResumeTerminal, Abandoned
<1> QED BY <1>1, <1>2, TypeInvariant, LedgerInvariant, PTL
        DEF Spec, ImplementsEffectivelyOnce, EO!Spec

-----------------------------------------------------------------------------
(* One runner: the counters                                                *)

\* A paid call is between its answer and its row; a row is between its append and the
\* metering of its step.
Flight    == {"retrieve", "read_span", "edit", "record", "apply", "plan_rename",
              "rename", "verify", "append"}
Unmetered == Owing \cup {"bump"}

\* The counters against the rows: a call without a row, or a row that was never metered,
\* is either the one the run is busy with or the loss of an aborted run; a reconciled
\* charge is never metered, so metering trails charging.
CountInv ==
    /\ calls <= Cardinality(Journaled) + aborts + (IF InFlight THEN 1 ELSE 0)
    /\ toolCalls + (IF \E r \in Runners : pc[r] = "bump" THEN 1 ELSE 0)
          <= Cardinality(Charged)
    /\ Cardinality(Journaled)
          <= toolCalls + aborts + (IF \E r \in Runners : pc[r] \in Unmetered THEN 1 ELSE 0)

\* The sets that are counted are finite, and the counters are naturals.
LEMMA CountTypes ==
    ASSUME TypeOK
    PROVE  /\ IsFiniteSet(Journaled) /\ Cardinality(Journaled) \in Nat
           /\ IsFiniteSet(Charged) /\ Cardinality(Charged) \in Nat
           /\ IsFiniteSet(FailedVerify) /\ Cardinality(FailedVerify) \in Nat
           /\ calls \in Nat /\ aborts \in Nat /\ toolCalls \in Nat /\ faults \in Nat
<1>1. Journaled \in SUBSET Steps /\ Charged \in SUBSET Steps /\ FailedVerify \in SUBSET Steps
  BY DEF Journaled, Charged, FailedVerify
<1>2. IsFiniteSet(Journaled) /\ IsFiniteSet(Charged) /\ IsFiniteSet(FailedVerify)
  BY <1>1, ConstantTypes, FS_Subset
<1>3. calls \in Nat /\ aborts \in Nat /\ toolCalls \in Nat /\ faults \in Nat
  BY BudgetAssumption DEF TypeOK
<1> QED BY <1>2, <1>3, FS_CardinalityType

\* A single runner never meets a row at its own step (get_step returns None): the loop
\* starts past the last row.
LEMMA NoReplay ==
    ASSUME StepsInRange, LedgerInv, NEW r \in Runners
    PROVE  ~ReplayStep(r)
<1> SUFFICES ASSUME ReplayStep(r) PROVE FALSE
  OBVIOUS
<1>1. run[r].step \in Steps /\ run[r].step \in Journaled /\ pc[r] \in Calling
  BY DEF ReplayStep, StepsInRange, InStep, Journaled, Calling
<1>2. run[r].step < run[r].step /\ run[r].step \in Nat
  BY <1>1, ConstantTypes DEF LedgerInv, PhaseInv
<1> QED BY <1>2

\* JournalRepo.append of a single runner inserts: its step had no row.
LEMMA AppendInserts ==
    ASSUME TypeOK, StepsInRange, LedgerInv, NEW r \in Runners, AppendRow(r)
    PROVE  /\ run[r].step \in Steps /\ run[r].step \notin Journaled
           /\ Journaled' = Journaled \cup {run[r].step} /\ Charged' = Charged
           /\ journal'[run[r].step].resp = run[r].resp
           /\ \A s \in Journaled : journal'[s] = journal[s]
           /\ run' = run /\ pc[r] = "append" /\ pc' = [pc EXCEPT ![r] = "charge"]
<1> USE DEF durable, task, ledger, tree, history
<1> DEFINE s == run[r].step
           row == [resp |-> run[r].resp, renamed |-> run[r].renamed,
                   verified |-> run[r].verified]
<1>0. run[r] \in Locals /\ PhaseInv(r)
  BY DEF TypeOK, LedgerInv
<1>1. row # NoRow /\ row.resp = run[r].resp
  BY <1>0, PathAssumption DEF Locals, Row
<1>2. /\ s \in Steps /\ pc[r] = "append" /\ pc' = [pc EXCEPT ![r] = "charge"]
      /\ journal' = [journal EXCEPT ![s] = IF @ = NoRow THEN row ELSE @]
      /\ commits' = commits /\ run' = run
  BY DEF AppendRow, StepsInRange, InStep, Goto
<1>3. s \in Journaled => s < s
  BY <1>0, <1>2 DEF PhaseInv, Calling
<1> HIDE DEF row, s
<1>4. s \notin Journaled
  BY <1>2, <1>3, ConstantTypes
<1>5. Journaled' = Journaled \cup {s} /\ Charged' = Charged
  BY <1>1, <1>2, <1>4 DEF Journaled, Charged, TypeOK
<1>6. journal[s] = NoRow
  BY <1>2, <1>4 DEF Journaled
<1>7. journal'[s].resp = run[r].resp /\ \A q \in Journaled : journal'[q] = journal[q]
  BY <1>1, <1>2, <1>4, <1>6 DEF Journaled, TypeOK
<1> QED BY <1>2, <1>4, <1>5, <1>7 DEF s

\* What the flags of CountInv mean for a single runner.
LEMMA OneRunnerFlags ==
    ASSUME SingleRunner, NEW r \in Runners
    PROVE  /\ InFlight <=> pc[r] \in Flight
           /\ InFlight' <=> pc'[r] \in Flight
           /\ (\E q \in Runners : pc[q] = "bump") <=> pc[r] = "bump"
           /\ (\E q \in Runners : pc'[q] = "bump") <=> pc'[r] = "bump"
           /\ (\E q \in Runners : pc[q] \in Unmetered) <=> pc[r] \in Unmetered
           /\ (\E q \in Runners : pc'[q] \in Unmetered) <=> pc'[r] \in Unmetered
<1>1. \A q \in Runners : q = r
  BY DEF SingleRunner
<1> QED BY <1>1 DEF InFlight, Flight

\* A step that counts nothing, and one that ends the run without returning.
LEMMA CountQuiet ==
    ASSUME TypeOK, SingleRunner, CountInv, NEW r \in Runners,
           UNCHANGED <<journal, commits, calls, toolCalls>>,
           \/ /\ aborts' = aborts
              /\ pc[r] \in Flight <=> pc'[r] \in Flight
              /\ pc[r] \in Unmetered <=> pc'[r] \in Unmetered
              /\ pc[r] = "bump" <=> pc'[r] = "bump"
           \/ aborts' = aborts + 1 /\ pc'[r] = "idle"
    PROVE  CountInv'
<1>1. Journaled' = Journaled /\ Charged' = Charged
  BY DEF Journaled, Charged
<1>2. "idle" \notin Flight /\ "idle" \notin Unmetered
  BY DEF Flight, Unmetered, Owing
<1>3. CASE aborts' = aborts + 1 /\ pc'[r] = "idle"
  BY <1>1, <1>2, <1>3, CountTypes, OneRunnerFlags DEF CountInv
<1>4. CASE /\ aborts' = aborts
           /\ pc[r] \in Flight <=> pc'[r] \in Flight
           /\ pc[r] \in Unmetered <=> pc'[r] \in Unmetered
           /\ pc[r] = "bump" <=> pc'[r] = "bump"
  BY <1>1, <1>4, CountTypes, OneRunnerFlags DEF CountInv
<1> QED BY <1>3, <1>4

\* Every step keeps paid calls, rows and token updates within one another.
LEMMA CountInvInductive ==
    ASSUME TypeOK, StepsInRange, SingleRunner, LedgerInv, CountInv, [Next]_vars
    PROVE  CountInv'
<1> USE DEF Goto, durable, task, ledger, tree, history
<1>0. \A r \in Runners : run[r] \in Locals /\ PhaseInv(r)
  BY DEF TypeOK, LedgerInv
<1>1. CASE UNCHANGED vars
  <2>1. UNCHANGED <<journal, commits, calls, toolCalls, aborts, pc>>
    BY <1>1 DEF vars
  <2>2. Journaled' = Journaled /\ Charged' = Charged /\ InFlight' = InFlight
    BY <2>1 DEF Journaled, Charged, InFlight
  <2> QED BY <2>1, <2>2 DEF CountInv
<1>2. ASSUME NEW r \in Runners,
             \/ Start(r) \/ ReadCommitted(r) \/ ReadTrace(r) \/ SetRunning(r)
             \/ OpenWorktree(r) \/ LoadContext(r) \/ GateBreach(r) \/ GatePass(r)
             \/ FreshStep(r) \/ Terminate(r) \/ Decide(r)
      PROVE  CountInv'
  <2>1. /\ pc[r] \notin Flight /\ pc'[r] \notin Flight
        /\ pc[r] \notin Unmetered /\ pc'[r] \notin Unmetered
        /\ pc[r] # "bump" /\ pc'[r] # "bump"
    BY <1>2 DEF Start, ReadCommitted, ReadTrace, SetRunning, OpenWorktree, LoadContext,
         GateBreach, GatePass, FreshStep, Terminate, Forget, StopWith, Decide, GiveUp,
         Succeed, OutOfRepairs, Repair, Advance, MergeWorktree, MergeConflict, TypeOK,
         Flight, Unmetered, Owing
  <2>2. UNCHANGED <<journal, commits, calls, toolCalls, aborts>>
    BY <1>2 DEF Start, ReadCommitted, ReadTrace, SetRunning, OpenWorktree, LoadContext,
         GateBreach, GatePass, FreshStep, Terminate, Decide, GiveUp, Succeed,
         OutOfRepairs, Repair, Advance, MergeWorktree, MergeConflict
  <2> QED BY <2>1, <2>2, CountQuiet
<1>3. ASSUME NEW r \in Runners, Effect(r) PROVE CountInv'
  <2>1. /\ pc[r] \in Flight /\ pc'[r] \in Flight
        /\ UNCHANGED <<journal, commits, calls, toolCalls, aborts>>
    BY <1>3 DEF Effect, RetrieveDefinition, RetrieveOther, ReadSpan, CheckArtifact,
         RecordArtifact, ApplyOp, PlanRename, RenameSkip, RenameFile, RenameDone,
         Verify, TypeOK, Flight
  <2>2. \A l \in Flight : l \notin Unmetered /\ l # "bump"
    BY DEF Flight, Unmetered, Owing
  <2> QED BY <2>1, <2>2, CountQuiet
<1>4. ASSUME NEW r \in Runners, Die(r) \/ RefuseRetrieval(r) PROVE CountInv'
  <2>1. /\ aborts' = aborts + 1 /\ pc'[r] = "idle"
        /\ UNCHANGED <<journal, commits, calls, toolCalls>>
    BY <1>4 DEF Die, RefuseRetrieval, Forget, TypeOK
  <2> QED BY <2>1, CountQuiet
<1>5. ASSUME NEW r \in Runners, CheckCharge(r) PROVE CountInv'
  \* The row is unpaid, so the check never finds its COMMIT.
  <2>1. Unpaid = {run[r].step}
    BY <1>0, <1>5 DEF CheckCharge, PhaseInv, Owing
  <2>2. pc[r] = "charge" /\ pc'[r] = "commit"
    BY <1>5, <2>1 DEF CheckCharge, Unpaid, TypeOK
  <2>3. UNCHANGED <<journal, commits, calls, toolCalls, aborts>>
    BY <1>5 DEF CheckCharge
  <2> QED BY <2>2, <2>3, CountQuiet DEF Flight, Unmetered, Owing
<1>6. ASSUME NEW r \in Runners, CallModel(r) PROVE CountInv'
  <2>1. /\ pc[r] = "call" /\ pc'[r] \in Flight /\ calls' = calls + 1
        /\ UNCHANGED <<journal, commits, toolCalls, aborts>>
    BY <1>6 DEF CallModel, EffectOf, TypeOK, Flight
  <2>2. Journaled' = Journaled /\ Charged' = Charged
    BY <2>1 DEF Journaled, Charged
  <2>3. /\ pc[r] \notin Flight \cup Unmetered \cup {"bump"}
        /\ pc'[r] \notin Unmetered \cup {"bump"}
    BY <2>1 DEF Flight, Unmetered, Owing
  <2> QED BY <2>1, <2>2, <2>3, CountTypes, OneRunnerFlags DEF CountInv
<1>7. ASSUME NEW r \in Runners, AppendRow(r) PROVE CountInv'
  <2>1. /\ run[r].step \notin Journaled /\ Journaled' = Journaled \cup {run[r].step}
        /\ Charged' = Charged /\ pc[r] = "append" /\ pc'[r] = "charge"
    BY <1>7, AppendInserts DEF TypeOK
  <2>2. UNCHANGED <<calls, toolCalls, aborts>>
    BY <1>7 DEF AppendRow
  <2>3. Cardinality(Journaled') = Cardinality(Journaled) + 1
    BY <2>1, CountTypes, FS_AddElement
  <2>4. /\ pc[r] \in Flight /\ pc[r] \notin Unmetered \cup {"bump"}
        /\ pc'[r] \notin Flight \cup {"bump"} /\ pc'[r] \in Unmetered
    BY <2>1 DEF Flight, Unmetered, Owing
  <2> QED BY <2>1, <2>2, <2>3, <2>4, CountTypes, OneRunnerFlags DEF CountInv
<1>8. ASSUME NEW r \in Runners, NEW s \in Unpaid,
             commits' = [commits EXCEPT ![s] = @ + 1]
      PROVE  Charged' = Charged \cup {s} /\ Cardinality(Charged') = Cardinality(Charged) + 1
  <2>1. s \in Steps /\ s \notin Charged
    BY DEF Unpaid, Journaled
  <2>2. Charged' = Charged \cup {s}
    BY <1>8, <2>1 DEF Charged, TypeOK
  <2> QED BY <2>1, <2>2, CountTypes, FS_AddElement
<1>9. ASSUME NEW r \in Runners, Reconcile(r) PROVE CountInv'
  <2>1. run[r].todo = Unpaid /\ run[r].todo # {} /\ run[r].todo \subseteq Steps
    BY <1>0, <1>9 DEF Reconcile, PhaseInv, Locals
  <2>2. First(run[r].todo) \in Unpaid
    BY <2>1, ConstantTypes, FirstIsFirst, FS_Subset
  <2>3. Cardinality(Charged') = Cardinality(Charged) + 1
    BY <1>8, <1>9, <2>2 DEF Reconcile, AppendCommit
  <2>4. pc[r] = "reconcile" /\ UNCHANGED <<journal, calls, toolCalls, aborts, pc>>
    BY <1>9 DEF Reconcile
  <2>5. Journaled' = Journaled /\ pc[r] \notin Flight \cup Unmetered \cup {"bump"}
    BY <2>4 DEF Journaled, Flight, Unmetered, Owing
  <2> QED BY <2>3, <2>4, <2>5, CountTypes, OneRunnerFlags DEF CountInv
<1>10. ASSUME NEW r \in Runners, CommitCharge(r) PROVE CountInv'
  <2>1. run[r].step \in Unpaid
    BY <1>0, <1>10 DEF CommitCharge, PhaseInv, Owing
  <2>2. Cardinality(Charged') = Cardinality(Charged) + 1
    BY <1>8, <1>10, <2>1 DEF CommitCharge, AppendCommit
  <2>3. /\ pc[r] = "commit" /\ pc'[r] = "bump"
        /\ UNCHANGED <<journal, calls, toolCalls, aborts>>
    BY <1>10 DEF CommitCharge, TypeOK
  <2>4. /\ Journaled' = Journaled /\ pc[r] \notin Flight \cup {"bump"}
        /\ pc[r] \in Unmetered /\ pc'[r] \notin Flight /\ pc'[r] \in Unmetered
    BY <2>3 DEF Journaled, Flight, Unmetered, Owing
  <2> QED BY <2>2, <2>3, <2>4, CountTypes, OneRunnerFlags DEF CountInv
<1>11. ASSUME NEW r \in Runners, BumpTokens(r) PROVE CountInv'
  <2>1. /\ pc[r] = "bump" /\ pc'[r] = "decide" /\ toolCalls' = toolCalls + 1
        /\ UNCHANGED <<journal, commits, calls, aborts>>
    BY <1>11 DEF BumpTokens, TypeOK
  <2>2. /\ Journaled' = Journaled /\ Charged' = Charged /\ pc[r] \notin Flight
        /\ pc[r] \in Unmetered /\ pc'[r] \notin Flight \cup Unmetered \cup {"bump"}
    BY <2>1 DEF Journaled, Charged, Flight, Unmetered, Owing
  <2> QED BY <2>1, <2>2, CountTypes, OneRunnerFlags DEF CountInv
<1> QED BY <1>1, <1>2, <1>3, <1>4, <1>5, <1>6, <1>7, <1>9, <1>10, <1>11, NoReplay
        DEF Next, Run, Boot, Loop, Record, Finish, ResumeTerminal, Abandoned

\* Paid calls, rows and token updates stay within one another.
LEMMA CountInvariant ==
    ASSUME SingleRunner
    PROVE  Spec => []CountInv
<1>1. Init => CountInv
  <2> SUFFICES ASSUME Init PROVE CountInv
    OBVIOUS
  <2>1. Journaled = {} /\ Charged = {}
    BY DEF Init, Journaled, Charged
  <2>2. Cardinality(Journaled) = 0 /\ Cardinality(Charged) = 0
    BY <2>1, FS_EmptySet
  <2>3. \A r \in Runners : pc[r] = "idle"
    BY DEF Init
  <2> QED BY <2>2, <2>3 DEF Init, CountInv, InFlight, Unmetered, Owing
<1>2. TypeInv /\ StepsInRange /\ LedgerInv /\ CountInv /\ [Next]_vars => CountInv'
  BY CountInvInductive DEF TypeInv
<1> QED BY <1>1, <1>2, TypeInvariant, LedgerInvariant, PTL DEF Spec

\* A model call is paid twice for the same step only because a run died between the call
\* and its row (_issue_model_call, JournalRepo.append): the calls that left no row number
\* at most one per aborted run, besides the one in flight.
THEOREM CallsAreAccounted ==
    ASSUME SingleRunner
    PROVE  Spec => []PaidCallsAccounted
<1>1. CountInv => PaidCallsAccounted
  BY DEF CountInv, PaidCallsAccounted
<1> QED BY <1>1, CountInvariant, PTL

\* The metering row (_bump_task_tokens, the last write of a step) never runs ahead of the
\* ledger, and a finished task has lost at most one step's metering per aborted run.
THEOREM MeteringTrailsCharging ==
    ASSUME SingleRunner
    PROVE  Spec => []MeteringBounded
<1>1. TypeInv /\ LedgerInv /\ CountInv => MeteringBounded
  <2> SUFFICES ASSUME TypeOK, LedgerInv, CountInv PROVE MeteringBounded
    BY DEF TypeInv
  <2>1. toolCalls <= Cardinality(Charged)
    BY CountTypes DEF CountInv
  <2>2. ASSUME state \in Terminal PROVE Cardinality(Journaled) <= toolCalls + aborts
    <3>1. \A r \in Runners : pc[r] \notin Unmetered
      BY <2>2 DEF LedgerInv, Unmetered, Owing
    <3> QED BY <3>1, CountTypes DEF CountInv
  <2> QED BY <2>1, <2>2 DEF MeteringBounded
<1> QED BY <1>1, TypeInvariant, LedgerInvariant, CountInvariant, PTL

-----------------------------------------------------------------------------
(* One runner: the repair ceiling                                          *)

\* From the append of a row to the end of its step, or of the run.
Judging == Owing \cup {"bump", "decide"}
Judged  == Owing \cup Paid \cup {"terminate"}

\* The counter run() keeps is the number of failed verdicts in the journal, but for the
\* row of the step being decided; a failed verdict beyond the ceiling is followed by the
\* end of the task unless the run dies before it has written the terminal state.
RepairInv ==
    /\ RepairsBounded
    /\ \A r \in Runners :
          /\ pc[r] \notin Judged /\ state \notin Terminal =>
                Cardinality(FailedVerify) <= MaxRepairAttempts + faults
          /\ pc[r] \in Calling => run[r].repairs = Cardinality(FailedVerify)
          /\ pc[r] \in Judging =>
                /\ run[r].repairs = Cardinality(FailedVerify \ {run[r].step})
                /\ run[r].repairs <= MaxRepairAttempts + faults

\* A step that writes no row.
LEMMA RepairQuiet ==
    ASSUME TypeOK, SingleRunner, RepairInv, NEW r \in Runners, UNCHANGED journal,
           faults' = faults \/ faults' = faults + 1,
           pc'[r] \notin Judged /\ state' \notin Terminal =>
                Cardinality(FailedVerify) <= MaxRepairAttempts + faults',
           pc'[r] \in Calling => run'[r].repairs = Cardinality(FailedVerify),
           pc'[r] \in Judging =>
                /\ run'[r].repairs = Cardinality(FailedVerify \ {run'[r].step})
                /\ run'[r].repairs <= MaxRepairAttempts + faults'
    PROVE  RepairInv'
<1>1. FailedVerify' = FailedVerify
  BY DEF FailedVerify, Journaled, KindAt
<1>2. \A q \in Runners : q = r
  BY DEF SingleRunner
<1>3. RepairsBounded'
  BY <1>1, CountTypes, BudgetAssumption DEF RepairInv, RepairsBounded
<1>4. \A q \in Runners :
          /\ pc'[q] \notin Judged /\ state' \notin Terminal =>
                Cardinality(FailedVerify) <= MaxRepairAttempts + faults'
          /\ pc'[q] \in Calling => run'[q].repairs = Cardinality(FailedVerify)
          /\ pc'[q] \in Judging =>
                /\ run'[q].repairs = Cardinality(FailedVerify \ {run'[q].step})
                /\ run'[q].repairs <= MaxRepairAttempts + faults'
  BY <1>2
<1> QED BY <1>1, <1>3, <1>4 DEF RepairInv

\* Every step keeps the count of repairs that of the failed verifications.
LEMMA RepairInvInductive ==
    ASSUME TypeOK, StepsInRange, SingleRunner, LedgerInv, VerdictInv, RepairInv,
           [Next]_vars
    PROVE  RepairInv'
<1> USE DEF Goto, durable, task, ledger, tree, history
<1> DEFINE Failed == Cardinality(FailedVerify)
<1>0. \A r \in Runners : /\ run[r] \in Locals
                         /\ state \in Terminal => pc[r] = "idle"
  BY DEF TypeOK, LedgerInv
<1>a. \A l \in Calling : l \notin Judged /\ l \notin Judging /\ l # "idle"
  BY DEF Calling, Judged, Judging, Owing, Paid
<1>b. Failed \in Nat /\ faults \in Nat /\ MaxRepairAttempts \in Nat
  BY CountTypes, BudgetAssumption
<1>1. CASE UNCHANGED vars
  <2>1. UNCHANGED <<journal, state, faults, pc, run>>
    BY <1>1 DEF vars
  <2>2. FailedVerify' = FailedVerify
    BY <2>1 DEF FailedVerify, Journaled, KindAt
  <2> QED BY <2>1, <2>2 DEF RepairInv, RepairsBounded
<1>2. ASSUME NEW r \in Runners,
             \/ Start(r) \/ ReadCommitted(r) \/ ReadTrace(r) \/ Reconcile(r)
             \/ SetRunning(r) \/ OpenWorktree(r) \/ LoadContext(r) \/ RefuseRetrieval(r)
      PROVE  RepairInv'
  <2>1. /\ pc[r] \notin Judged /\ pc'[r] \notin Judging
        /\ pc'[r] \in Calling => LoadContext(r)
    BY <1>2 DEF Start, ReadCommitted, ReadTrace, Reconcile, SetRunning, OpenWorktree,
         LoadContext, RefuseRetrieval, Forget, TypeOK, Calling, Judged, Judging, Owing, Paid
  <2>2. state \notin Terminal
    BY <1>0, <1>2 DEF Start, ReadCommitted, ReadTrace, Reconcile, SetRunning, OpenWorktree,
         LoadContext, RefuseRetrieval
  <2>3. UNCHANGED <<journal, faults>>
    BY <1>2 DEF Start, ReadCommitted, ReadTrace, Reconcile, SetRunning, OpenWorktree,
         LoadContext, RefuseRetrieval
  <2>4. LoadContext(r) => run'[r].repairs = Failed
    BY <1>0 DEF LoadContext, count_repair_attempts, TypeOK, Locals
  <2> QED BY <2>1, <2>2, <2>3, <2>4, RepairQuiet DEF RepairInv
<1>3. ASSUME NEW r \in Runners, GatePass(r) \/ FreshStep(r) \/ CallModel(r) \/ Effect(r)
      PROVE  RepairInv'
  <2>1. pc[r] \in Calling /\ pc'[r] \in Calling
    <3>1. CASE GatePass(r) \/ FreshStep(r)
      BY <3>1 DEF GatePass, FreshStep, TypeOK, Calling
    <3>2. CASE CallModel(r)
      BY <3>2 DEF CallModel, EffectOf, TypeOK, Calling
    <3>3. CASE Effect(r)
      BY <3>3 DEF Effect, RetrieveDefinition, RetrieveOther, ReadSpan, CheckArtifact,
         RecordArtifact, ApplyOp, PlanRename, RenameSkip, RenameFile, RenameDone,
         Verify, TypeOK, Calling
    <3> QED BY <1>3, <3>1, <3>2, <3>3
  <2>2. run'[r].repairs = run[r].repairs
    <3>1. CASE GatePass(r) \/ FreshStep(r)
      BY <3>1 DEF GatePass, FreshStep
    <3>2. CASE CallModel(r)
      BY <1>0, <3>2 DEF CallModel, TypeOK, Locals
    <3>3. CASE Effect(r)
      BY <1>0, <3>3 DEF Effect, RetrieveDefinition, RetrieveOther, ReadSpan,
         CheckArtifact, RecordArtifact, ApplyOp, PlanRename, RenameSkip, RenameFile,
         RenameDone, Verify, AddSpan, TypeOK, Locals
    <3> QED BY <1>3, <3>1, <3>2, <3>3
  <2>3. UNCHANGED <<journal, faults, state>>
    BY <1>3 DEF GatePass, FreshStep, CallModel, Effect, RetrieveDefinition,
         RetrieveOther, ReadSpan, CheckArtifact, RecordArtifact, ApplyOp, PlanRename,
         RenameSkip, RenameFile, RenameDone, Verify
  <2>4. Failed <= MaxRepairAttempts + faults
    BY <1>0, <1>a, <2>1 DEF RepairInv
  <2> QED BY <1>a, <2>1, <2>2, <2>3, <2>4, RepairQuiet DEF RepairInv
<1>4. ASSUME NEW r \in Runners,
             \/ GateBreach(r) \/ GiveUp(r) \/ OutOfRepairs(r) \/ Succeed(r)
             \/ MergeWorktree(r) \/ MergeConflict(r)
      PROVE  RepairInv'
  <2>1. pc'[r] \in {"merge", "terminate"} /\ UNCHANGED <<journal, faults>>
    BY <1>4 DEF GateBreach, GiveUp, OutOfRepairs, Succeed, MergeWorktree, MergeConflict,
         StopWith, TypeOK
  <2>2. pc'[r] \in Judged /\ pc'[r] \notin Judging /\ pc'[r] \notin Calling
    BY <2>1 DEF Judged, Judging, Calling, Owing, Paid
  <2> QED BY <2>1, <2>2, RepairQuiet
<1>5. ASSUME NEW r \in Runners, Terminate(r) PROVE RepairInv'
  <2>1. state' \in Terminal /\ pc'[r] = "idle" /\ UNCHANGED <<journal, faults>>
    BY <1>0, <1>5 DEF Terminate, Forget, TypeOK, Locals
  <2>2. pc'[r] \notin Judging /\ pc'[r] \notin Calling
    BY <2>1 DEF Judging, Calling, Owing
  <2> QED BY <2>1, <2>2, RepairQuiet
<1>6. ASSUME NEW r \in Runners, Die(r) PROVE RepairInv'
  \* The fault pays for the verdict that would have ended the task.
  <2>1. pc'[r] = "idle" /\ faults' = faults + 1 /\ UNCHANGED journal
    BY <1>6 DEF Die, Forget, TypeOK
  <2>2. Failed <= MaxRepairAttempts + faults'
    BY <1>b, <2>1 DEF RepairInv, RepairsBounded
  <2>3. pc'[r] \notin Judging /\ pc'[r] \notin Calling
    BY <2>1 DEF Judging, Calling, Owing
  <2> QED BY <2>1, <2>2, <2>3, RepairQuiet
<1>7. ASSUME NEW r \in Runners, CheckCharge(r) \/ CommitCharge(r) \/ BumpTokens(r)
      PROVE  RepairInv'
  <2>1. /\ pc[r] \in Judging /\ pc'[r] \in Judging /\ run' = run
        /\ UNCHANGED <<journal, faults>>
    BY <1>7 DEF CheckCharge, CommitCharge, BumpTokens, TypeOK, Judging, Owing
  <2>2. pc'[r] \in Judged /\ pc'[r] \notin Calling
    BY <2>1 DEF Judging, Judged, Calling, Owing, Paid
  <2> QED BY <2>1, <2>2, RepairQuiet DEF RepairInv
<1>8. ASSUME NEW r \in Runners, Repair(r) \/ Advance(r) PROVE RepairInv'
  <2> DEFINE s == run[r].step
  <2>1. /\ pc[r] = "decide" /\ pc'[r] = "gate" /\ UNCHANGED <<journal, faults, state>>
    BY <1>8 DEF Repair, Advance, TypeOK
  <2>2. /\ pc[r] \in Judging /\ pc[r] \in Paid /\ s \in Steps /\ s \in Nat
        /\ pc'[r] \in Calling
    BY <2>1, ConstantTypes DEF Judging, Paid, Owing, StepsInRange, InStep, Calling
  <2>3. /\ s \in Journaled /\ journal[s].resp = run[r].resp
    BY <2>2 DEF LedgerInv, PhaseInv, VerdictInv, Judging
  <2>4. /\ run[r].repairs = Cardinality(FailedVerify \ {s}) /\ run[r].repairs \in Nat
        /\ run[r].repairs <= MaxRepairAttempts + faults
    BY <1>0, <2>2 DEF RepairInv, Locals
  <2>5. run'[r].repairs = Failed /\ Failed <= MaxRepairAttempts + faults
    <3>1. CASE Repair(r)
      <4>1. s \in FailedVerify
        BY <2>3, <3>1 DEF Repair, Passed, FailedVerify, KindAt, Journaled
      <4>2. Cardinality(FailedVerify \ {s}) = Failed - 1
        BY <4>1, CountTypes, FS_RemoveElement
      <4>3. /\ run'[r].repairs = run[r].repairs + 1
            /\ run[r].repairs < MaxRepairAttempts
        BY <1>0, <3>1 DEF Repair, TypeOK, Locals
      <4> QED BY <1>b, <2>4, <4>2, <4>3
    <3>2. CASE Advance(r)
      <4>1. FailedVerify \ {s} = FailedVerify
        BY <2>3, <3>2 DEF Advance, FailedVerify, KindAt
      <4>2. run'[r].repairs = run[r].repairs
        BY <1>0, <3>2 DEF Advance, TypeOK, Locals
      <4> QED BY <2>4, <4>1, <4>2
    <3> QED BY <1>8, <3>1, <3>2
  <2> QED BY <1>a, <2>1, <2>2, <2>5, RepairQuiet
<1>9. ASSUME NEW r \in Runners, AppendRow(r) PROVE RepairInv'
  <2> DEFINE s == run[r].step
  <2>1. /\ s \in Steps /\ s \notin Journaled /\ Journaled' = Journaled \cup {s}
        /\ \A q \in Journaled : journal'[q] = journal[q]
        /\ run' = run /\ pc[r] = "append" /\ pc' = [pc EXCEPT ![r] = "charge"]
    BY <1>9, AppendInserts
  <2>2. faults' = faults /\ pc'[r] = "charge" /\ pc[r] \in Calling
    BY <1>9, <2>1 DEF AppendRow, TypeOK, Calling
  <2>3. Failed <= MaxRepairAttempts + faults /\ run[r].repairs = Failed
    BY <1>0, <1>a, <2>2 DEF RepairInv
  <2> HIDE DEF s
  <2>4. \A q \in Steps : q \in FailedVerify' /\ q # s <=> q \in FailedVerify
    BY <2>1 DEF FailedVerify, KindAt, Journaled
  <2>5. FailedVerify' \subseteq Steps /\ FailedVerify \subseteq Steps
    BY DEF FailedVerify, Journaled
  <2>6. FailedVerify' \ {s} = FailedVerify /\ FailedVerify' \subseteq FailedVerify \cup {s}
    BY <2>4, <2>5
  <2>7. Cardinality(FailedVerify') <= Failed + 1
    <3>1. IsFiniteSet(FailedVerify \cup {s})
          /\ Cardinality(FailedVerify \cup {s}) <= Failed + 1
          /\ Cardinality(FailedVerify \cup {s}) \in Nat
      <4>1. IsFiniteSet(FailedVerify)
        BY CountTypes
      <4>2. /\ IsFiniteSet(FailedVerify \cup {s})
            /\ Cardinality(FailedVerify \cup {s}) =
                 IF s \in FailedVerify THEN Failed ELSE Failed + 1
        BY <4>1, FS_AddElement
      <4> QED BY <1>b, <4>2
    <3>2. /\ Cardinality(FailedVerify') <= Cardinality(FailedVerify \cup {s})
          /\ IsFiniteSet(FailedVerify')
      BY <2>6, <3>1, FS_Subset
    <3>3. Cardinality(FailedVerify') \in Nat
      BY <3>2, FS_CardinalityType
    <3> QED BY <1>b, <3>1, <3>2, <3>3
  <2>8. RepairsBounded'
    <3>1. Cardinality(FailedVerify') \in Nat
      BY <2>5, ConstantTypes, FS_Subset, FS_CardinalityType
    <3> QED BY <1>b, <2>2, <2>3, <2>7, <3>1 DEF RepairsBounded
  <2>9. "charge" \in Judged /\ "charge" \notin Calling
    BY DEF Judged, Owing, Calling
  <2>10. \A q \in Runners : q = r
    BY DEF SingleRunner
  <2> QED BY <2>1, <2>2, <2>3, <2>6, <2>8, <2>9, <2>10 DEF RepairInv, s
<1> QED BY <1>1, <1>2, <1>3, <1>4, <1>5, <1>6, <1>7, <1>8, <1>9, NoReplay
        DEF Next, Run, Boot, Loop, Record, Decide, Finish, ResumeTerminal, Abandoned

\* The repair ceiling (_MAX_REPAIR_ATTEMPTS, count_repair_attempts) holds across resumes:
\* only a fault between a failed verdict and the end of the task it should have caused
\* buys the task another attempt.
THEOREM RepairCeiling ==
    ASSUME SingleRunner
    PROVE  Spec => []RepairsBounded
<1>1. Init => RepairInv
  <2> SUFFICES ASSUME Init PROVE RepairInv
    OBVIOUS
  <2>1. FailedVerify = {}
    BY DEF Init, FailedVerify, Journaled
  <2>2. Cardinality(FailedVerify) = 0
    BY <2>1, FS_EmptySet
  <2>3. \A r \in Runners : pc[r] \notin Calling /\ pc[r] \notin Judging
    BY DEF Init, Calling, Judging, Owing
  <2> QED BY <2>2, <2>3, BudgetAssumption DEF Init, RepairInv, RepairsBounded
<1>2. /\ TypeInv /\ StepsInRange /\ LedgerInv /\ VerdictInv /\ RepairInv
      /\ [Next]_vars
      => RepairInv'
  BY RepairInvInductive DEF TypeInv
<1>3. RepairInv => RepairsBounded
  BY DEF RepairInv
<1> QED BY <1>1, <1>2, <1>3, TypeInvariant, LedgerInvariant, VerdictInvariant, PTL DEF Spec

-----------------------------------------------------------------------------
(* One runner: what reaches the base                                       *)

\* Past set_state(RUNNING) the row stays RUNNING until the terminal write, and only an
\* APPLY task gets as far as the merge.
MergeInv ==
    \A r \in Runners :
        /\ pc[r] \in Opening \cup Calling \cup Judged => state = "RUNNING"
        /\ pc[r] = "merge" => mode = "apply"

\* No step merges outside apply mode or after the terminal write.
LEMMA MergeInvInductive ==
    ASSUME TypeOK, SingleRunner, MergeInv, [Next]_vars
    PROVE  MergeInv'
<1> USE DEF Goto, durable, task, ledger, tree, history
<1> DEFINE Inside == Opening \cup Calling \cup Judged
<1>1. CASE UNCHANGED vars
  BY <1>1 DEF vars, MergeInv
<1>2. ASSUME NEW r \in Runners, UNCHANGED mode,
             pc'[r] \in Inside => state' = "RUNNING",
             pc'[r] = "merge" => mode = "apply"
      PROVE  MergeInv'
  <2>1. \A q \in Runners : q = r
    BY DEF SingleRunner
  <2> QED BY <1>2, <2>1 DEF MergeInv
<1>3. ASSUME NEW r \in Runners,
             \/ Start(r) \/ Die(r) \/ Finish(r) \/ ReadCommitted(r) \/ ReadTrace(r)
             \/ Reconcile(r)
      PROVE  MergeInv'
  <2>1. pc'[r] \notin Inside /\ pc'[r] # "merge" /\ UNCHANGED mode
    BY <1>3 DEF Start, Die, Finish, Terminate, RefuseRetrieval, Forget, ReadCommitted,
         ReadTrace, Reconcile, TypeOK, Opening, Calling, Judged, Owing, Paid
  <2> QED BY <1>2, <2>1
<1>4. ASSUME NEW r \in Runners, SetRunning(r) PROVE MergeInv'
  <2>1. pc'[r] = "open" /\ state' = "RUNNING" /\ UNCHANGED mode
    BY <1>4 DEF SetRunning, TypeOK
  <2> QED BY <1>2, <2>1
<1>5. ASSUME NEW r \in Runners,
             OpenWorktree(r) \/ LoadContext(r) \/ Loop(r) \/ Record(r)
      PROVE  MergeInv'
  <2>1. pc[r] \in Inside /\ UNCHANGED <<mode, state>> /\ pc'[r] # "merge"
    BY <1>5 DEF OpenWorktree, LoadContext, Loop, GateBreach, GatePass, ReplayStep,
         FreshStep, CallModel, EffectOf, StopWith, Record, AppendRow, CheckCharge,
         CommitCharge, BumpTokens, TypeOK, Opening, Calling, Judged, Owing, Paid
  <2> QED BY <1>2, <2>1 DEF MergeInv
<1>6. ASSUME NEW r \in Runners, Effect(r) PROVE MergeInv'
  <2>1. pc[r] \in Inside /\ UNCHANGED <<mode, state>> /\ pc'[r] # "merge"
    BY <1>6 DEF Effect, RetrieveDefinition, RetrieveOther, ReadSpan, CheckArtifact,
         RecordArtifact, ApplyOp, PlanRename, RenameSkip, RenameFile, RenameDone,
         Verify, TypeOK, Calling
  <2> QED BY <1>2, <2>1 DEF MergeInv
<1>7. ASSUME NEW r \in Runners, Decide(r) PROVE MergeInv'
  <2>1. pc[r] \in Inside /\ UNCHANGED <<mode, state>>
    BY <1>7 DEF Decide, GiveUp, Succeed, OutOfRepairs, Repair, Advance, MergeWorktree,
         MergeConflict, Judged, Paid
  <2>2. pc'[r] = "merge" => mode = "apply"
    BY <1>7, ModeAssumption DEF Decide, GiveUp, Succeed, OutOfRepairs, Repair, Advance,
         MergeWorktree, MergeConflict, StopWith, TypeOK
  <2> QED BY <1>2, <2>1, <2>2 DEF MergeInv
<1> QED BY <1>1, <1>3, <1>4, <1>5, <1>6, <1>7
        DEF Next, Run, Boot, ResumeTerminal, Abandoned

\* Nothing unverified reaches the base (_commit_if_apply is the only writer of the
\* workspace repository): it changes only under a RUNNING APPLY task whose last journaled
\* step is a VERIFY the sandbox passed, through any crash and resume.
THEOREM OnlyVerifiedIsMerged ==
    ASSUME SingleRunner
    PROVE  Spec => BaseChangesOnlyVerified
<1> DEFINE Verified == /\ mode = "apply" /\ state = "RUNNING" /\ Journaled # {}
                       /\ KindAt(Last(Journaled)) = "VERIFY"
                       /\ journal[Last(Journaled)].verified
<1>1. Init => MergeInv
  BY DEF Init, MergeInv, Opening, Calling, Judged, Owing, Paid
<1>2. TypeInv /\ StepsInRange /\ MergeInv /\ [Next]_vars => MergeInv'
  BY MergeInvInductive DEF TypeInv
<1>3. VerdictInv /\ MergeInv /\ [Next]_vars => [Verified]_base
  <2> SUFFICES ASSUME VerdictInv, MergeInv, [Next]_vars, base' # base PROVE Verified
    OBVIOUS
  <2> USE DEF durable, tree
  <2>1. ASSUME NEW r \in Runners, Start(r) \/ Die(r) \/ Finish(r) \/ Boot(r)
        PROVE  UNCHANGED base
    BY <2>1 DEF Start, Die, Finish, Terminate, RefuseRetrieval, Boot, ReadCommitted,
         ReadTrace, Reconcile, SetRunning, OpenWorktree, LoadContext
  <2>2. ASSUME NEW r \in Runners, Loop(r) \/ Record(r) PROVE UNCHANGED base
    BY <2>2 DEF Loop, GateBreach, GatePass, ReplayStep, FreshStep, CallModel, Record,
         AppendRow, CheckCharge, CommitCharge, BumpTokens
  <2>3. ASSUME NEW r \in Runners, Effect(r) PROVE UNCHANGED base
    BY <2>3 DEF Effect, RetrieveDefinition, RetrieveOther, ReadSpan, CheckArtifact,
         RecordArtifact, ApplyOp, PlanRename, RenameSkip, RenameFile, RenameDone, Verify
  <2>4. ASSUME NEW r \in Runners, Decide(r), ~MergeWorktree(r) PROVE UNCHANGED base
    BY <2>4 DEF Decide, GiveUp, Succeed, OutOfRepairs, Repair, Advance, MergeConflict
  <2>5. PICK r \in Runners : MergeWorktree(r)
    BY <2>1, <2>2, <2>3, <2>4 DEF Next, Run, ResumeTerminal, Abandoned, vars
  <2>6. pc[r] = "merge" /\ pc[r] \in Judged
    BY <2>5 DEF MergeWorktree, Judged, Paid
  <2> QED BY <2>6 DEF VerdictInv, JudgedLast, MergeInv
<1> QED BY <1>1, <1>2, <1>3, TypeInvariant, VerdictInvariant, PTL
        DEF Spec, BaseChangesOnlyVerified

-----------------------------------------------------------------------------
(* One runner: what has been spent, row by row                             *)

\* What the rows cost, and what those cost that have been charged.
RowCosts == [s \in Steps |-> IF s \in Journaled THEN journal[s].resp.cost ELSE 0]
Booked == SumOf(RowCosts, Charged)

\* The ledger of the task as charge_atomic sees it, the loop's own COMMITs added up.
Atomic == INSTANCE AtomicLedger
            WITH Budget <- TokenBudget, Costs <- RetrievalCosts, Spends <- 0 .. MaxCost,
                 appended <- Booked

ImplementsAtomicLedger == Atomic!ALSpec

\* The costs of rows are numbers, and their sum over any steps is one.
LEMMA RowCostsAreNumbers ==
    ASSUME TypeOK
    PROVE  /\ RowCosts \in [Steps -> Nat] /\ RowCosts \in [Steps -> Int]
           /\ Charged \in SUBSET Steps /\ Booked \in Nat
<1>1. ASSUME NEW s \in Steps PROVE (IF s \in Journaled THEN journal[s].resp.cost ELSE 0) \in Nat
  <2>1. CASE s \in Journaled
    <3>1. journal[s] \in Row
      BY <2>1 DEF Journaled, TypeOK
    <3> QED BY <2>1, <3>1 DEF Row, ResponseType
  <2>2. CASE s \notin Journaled
    BY <2>2
  <2> QED BY <2>1, <2>2
<1>2. RowCosts \in [Steps -> Nat] /\ RowCosts \in [Steps -> Int]
  BY <1>1 DEF RowCosts
<1>3. Charged \in SUBSET Steps /\ Steps \in SUBSET Steps
  BY DEF Charged
<1>4. Booked \in Nat
  BY <1>2, <1>3, ConstantTypes, SumMonotone DEF Booked
<1> QED BY <1>2, <1>3, <1>4

\* The charged rows keep their costs: the sum stands while nothing is charged.
LEMMA BookedStands ==
    ASSUME TypeOK, TypeOK', Charged \subseteq Journaled, UNCHANGED commits,
           \A s \in Journaled : journal'[s] = journal[s]
    PROVE  UNCHANGED Booked
<1>1. Charged' = Charged
  BY DEF Charged
<1>2. \A s \in Charged : RowCosts'[s] = RowCosts[s]
  <2> SUFFICES ASSUME NEW s \in Charged PROVE RowCosts'[s] = RowCosts[s]
    OBVIOUS
  <2>1. s \in Steps /\ s \in Journaled /\ journal'[s] = journal[s] /\ s \in Journaled'
    BY DEF Charged, Journaled
  <2> QED BY <2>1 DEF RowCosts
<1>3. RowCosts \in [Steps -> Int] /\ Charged \in SUBSET Steps
  BY RowCostsAreNumbers
<1>4. RowCosts' \in [Steps -> Int]
  <2>1. ASSUME NEW s \in Steps
        PROVE  (IF s \in Journaled' THEN journal'[s].resp.cost ELSE 0) \in Int
    <3>1. CASE s \in Journaled'
      <4>1. journal'[s] \in Row
        BY <3>1 DEF Journaled, TypeOK
      <4> QED BY <3>1, <4>1 DEF Row, ResponseType
    <3> QED BY <3>1
  <2> QED BY <2>1 DEF RowCosts
<1>5. ASSUME NEW f \in [Steps -> Int], NEW g \in [Steps -> Int], NEW S \in SUBSET Steps,
             \A s \in S : f[s] = g[s]
      PROVE  SumOf(f, S) = SumOf(g, S)
  <2>1. IsFiniteSet(Steps)
    BY ConstantTypes
  <2> QED BY ONLY <1>5, <2>1, SumAgree
<1>6. SumOf(RowCosts', Charged) = SumOf(RowCosts, Charged)
  BY <1>2, <1>3, <1>4, <1>5
<1> QED BY <1>1, <1>6 DEF Booked

\* Charging a row that was not charged adds its cost, once.
LEMMA BookedGrows ==
    ASSUME TypeOK, NEW s \in Unpaid, commits' = [commits EXCEPT ![s] = @ + 1], UNCHANGED journal
    PROVE  Booked' = Booked + journal[s].resp.cost
<1>1. s \in Steps /\ s \in Journaled /\ s \notin Charged /\ commits[s] = 0
  BY DEF Unpaid, Journaled, Charged, TypeOK
<1>2. Charged' = Charged \cup {s}
  BY <1>1 DEF Charged, TypeOK
<1>3. RowCosts' = RowCosts /\ RowCosts[s] = journal[s].resp.cost
  BY <1>1 DEF RowCosts, Journaled
<1>4. ASSUME NEW f \in [Steps -> Int], NEW S \in SUBSET Steps, s \notin S
      PROVE  SumOf(f, S \cup {s}) = SumOf(f, S) + f[s]
  <2>1. IsFiniteSet(Steps) /\ s \in Steps
    BY <1>1, ConstantTypes
  <2> QED BY ONLY <1>4, <2>1, SumAdd
<1>5. SumOf(RowCosts, Charged \cup {s}) = SumOf(RowCosts, Charged) + RowCosts[s]
  <2>1. RowCosts \in [Steps -> Int] /\ Charged \in SUBSET Steps
    BY RowCostsAreNumbers
  <2> QED BY <1>1, <1>4, <2>1
<1> QED BY <1>2, <1>3, <1>5 DEF Booked

\* Every step of the loop is one step of the ledger, or none.
LEMMA LedgerSteps ==
    ASSUME TypeOK, TypeOK', StepsInRange, SingleRunner, LedgerInv, BudgetInv, VerdictInv,
           [Next]_vars
    PROVE  [Atomic!ALNext]_(Atomic!ALvars)
<1> USE DEF Goto, durable, task, ledger, tree, history
<1>0. \A r \in Runners : run[r] \in Locals /\ PhaseInv(r)
  BY DEF TypeOK, LedgerInv
<1>1. Charged \subseteq Journaled
  BY DEF LedgerInv
<1>2. ASSUME UNCHANGED <<commits, spent>>, \A s \in Journaled : journal'[s] = journal[s]
      PROVE  UNCHANGED Atomic!ALvars
  BY <1>1, <1>2, BookedStands DEF Atomic!ALvars
<1>3. ASSUME UNCHANGED <<journal, commits, spent>> PROVE UNCHANGED Atomic!ALvars
  BY <1>2, <1>3
<1>4. ASSUME NEW c \in RetrievalCosts, charge_atomic(c), UNCHANGED <<journal, commits>>
      PROVE  Atomic!ALNext
  <2>1. UNCHANGED Booked
    BY <1>1, <1>4, BookedStands
  <2>2. Atomic!ALCharge(c)
    BY <1>4, <2>1 DEF charge_atomic, Atomic!ALCharge
  <2> QED BY <2>2 DEF Atomic!ALNext
<1>5. ASSUME NEW s \in Unpaid, NEW c, c = journal[s].resp.cost, AppendCommit(s, c),
             UNCHANGED journal
      PROVE  Atomic!ALNext
  <2>1. s \in Journaled /\ s \in Steps
    BY DEF Unpaid, Journaled
  <2>2. journal[s] \in Row
    BY <2>1 DEF TypeOK, Journaled
  <2>3. c \in Nat /\ MaxCost \in Nat
    BY <1>5, <2>2, ResponseAssumption DEF Row, ResponseType
  <2>4. c <= MaxCost
    BY <1>5, <2>1 DEF BudgetInv
  <2>5. Booked' = Booked + c
    BY <1>5, BookedGrows DEF AppendCommit
  <2>6. c \in 0 .. MaxCost
    BY <2>3, <2>4
  <2>7. Atomic!ALAppend(c)
    BY <1>5, <2>5 DEF AppendCommit, Atomic!ALAppend
  <2> QED BY <2>6, <2>7 DEF Atomic!ALNext
<1>6. ASSUME NEW r \in Runners, RetrieveDefinition(r) \/ ReadSpan(r) PROVE Atomic!ALNext
  BY <1>4, <1>6 DEF RetrieveDefinition, ReadSpan
<1>7. ASSUME NEW r \in Runners, Reconcile(r) PROVE Atomic!ALNext
  <2>1. run[r].todo = Unpaid /\ run[r].todo # {} /\ run[r].todo \subseteq Steps
    BY <1>0, <1>7 DEF Reconcile, PhaseInv, Locals
  <2>2. First(run[r].todo) \in Unpaid
    BY <2>1, ConstantTypes, FirstIsFirst, FS_Subset
  <2> QED BY <1>5, <1>7, <2>2 DEF Reconcile
<1>8. ASSUME NEW r \in Runners, CommitCharge(r) PROVE Atomic!ALNext
  <2>1. run[r].step \in Unpaid
    BY <1>0, <1>8 DEF CommitCharge, PhaseInv, Owing
  <2>2. run[r].resp.cost = journal[run[r].step].resp.cost
    BY <1>8 DEF CommitCharge, VerdictInv, Owing
  <2> QED BY <1>5, <1>8, <2>1, <2>2 DEF CommitCharge
<1>9. ASSUME NEW r \in Runners, AppendRow(r) PROVE UNCHANGED Atomic!ALvars
  <2>1. \A s \in Journaled : journal'[s] = journal[s]
    BY <1>9 DEF AppendRow, Journaled, TypeOK
  <2> QED BY <1>2, <1>9, <2>1 DEF AppendRow
<1>10. ASSUME NEW r \in Runners,
              \/ Start(r) \/ Die(r) \/ Finish(r) \/ ReadCommitted(r) \/ ReadTrace(r)
              \/ SetRunning(r) \/ OpenWorktree(r) \/ LoadContext(r) \/ Loop(r)
              \/ CheckCharge(r) \/ BumpTokens(r) \/ Decide(r)
       PROVE  UNCHANGED <<journal, commits, spent>>
  BY <1>10
     DEF Start, Die, Finish, Terminate, RefuseRetrieval, ReadCommitted, ReadTrace,
         SetRunning, OpenWorktree, LoadContext, Loop, GateBreach, GatePass, ReplayStep,
         FreshStep, CallModel, CheckCharge, BumpTokens, Decide, GiveUp, Succeed,
         OutOfRepairs, Repair, Advance, MergeWorktree, MergeConflict
<1>11. ASSUME NEW r \in Runners,
              \/ RetrieveOther(r) \/ CheckArtifact(r) \/ RecordArtifact(r) \/ ApplyOp(r)
              \/ PlanRename(r) \/ RenameSkip(r) \/ RenameFile(r) \/ RenameDone(r)
              \/ Verify(r)
       PROVE  UNCHANGED <<journal, commits, spent>>
  BY <1>11 DEF RetrieveOther, CheckArtifact, RecordArtifact, ApplyOp, PlanRename,
       RenameSkip, RenameFile, RenameDone, Verify
<1>12. CASE UNCHANGED vars
  BY <1>3, <1>12 DEF vars
<1> QED BY <1>3, <1>6, <1>7, <1>8, <1>9, <1>10, <1>11, <1>12
        DEF Next, Run, Boot, Effect, Record, ResumeTerminal, Abandoned

\* What has been spent is what the retrievals cost and what the charged rows cost: the
\* loop writes the ledger only as AtomicLedger says, which charge_atomic implements
\* statement by statement.
THEOREM LoopImplementsAtomicLedger ==
    ASSUME SingleRunner
    PROVE  Spec => ImplementsAtomicLedger
<1>1. Init => Atomic!ALInit
  <2> SUFFICES ASSUME Init PROVE spent = 0 /\ Booked = 0
    BY DEF Atomic!ALInit
  <2>1. TypeOK /\ Charged = {}
    BY InitTypeOK DEF Init, Charged
  <2>2. SumOf(RowCosts, {}) = 0
    BY <2>1, RowCostsAreNumbers, ConstantTypes, SumType
  <2> QED BY <2>1, <2>2 DEF Init, Booked
<1>2. /\ TypeInv /\ TypeInv' /\ StepsInRange /\ LedgerInv /\ BudgetInv /\ VerdictInv
      /\ [Next]_vars
      => [Atomic!ALNext]_(Atomic!ALvars)
  BY LedgerSteps DEF TypeInv
<1> QED BY <1>1, <1>2, TypeInvariant, LedgerInvariant, BudgetInvariant, VerdictInvariant, PTL
        DEF Spec, ImplementsAtomicLedger, Atomic!ALSpec

\* So retrievals never pass the budget: beyond it there are only the loop's own COMMITs.
THEOREM RetrievalsWithinBudget ==
    ASSUME SingleRunner
    PROVE  Spec => [](spent <= TokenBudget + Booked /\ Booked <= spent)
<1>1. Init => TypeInv /\ (spent <= TokenBudget + Booked /\ Booked <= spent)
  <2> SUFFICES ASSUME Init PROVE TypeInv /\ spent = 0 /\ Booked = 0 /\ TokenBudget \in Nat
    OBVIOUS
  <2>1. TypeOK /\ Charged = {} /\ \A r \in Runners : run[r].todo = {}
    BY InitTypeOK DEF Init, Charged, NoLocals
  <2>2. SumOf(RowCosts, {}) = 0
    BY <2>1, RowCostsAreNumbers, ConstantTypes, SumType
  <2> QED BY <2>1, <2>2, BudgetAssumption DEF Init, Booked, TypeInv
<1>2. TypeInv /\ (spent <= TokenBudget + Booked /\ Booked <= spent)
        /\ [Atomic!ALNext]_(Atomic!ALvars)
        => (spent <= TokenBudget + Booked /\ Booked <= spent)'
  <2> SUFFICES ASSUME TypeOK, spent <= TokenBudget + Booked, Booked <= spent,
                      [Atomic!ALNext]_(Atomic!ALvars)
               PROVE  spent' <= TokenBudget + Booked' /\ Booked' <= spent'
    BY DEF TypeInv
  <2>0. spent \in Nat /\ Booked \in Nat /\ TokenBudget \in Nat
    BY RowCostsAreNumbers, BudgetAssumption DEF TypeOK
  <2>1. ASSUME NEW n \in RetrievalCosts, Atomic!ALCharge(n)
        PROVE  spent' <= TokenBudget + Booked' /\ Booked' <= spent'
    BY <2>0, <2>1, RetrievalAssumption DEF Atomic!ALCharge
  <2>2. ASSUME NEW n \in 0 .. MaxCost, Atomic!ALAppend(n)
        PROVE  spent' <= TokenBudget + Booked' /\ Booked' <= spent'
    BY <2>0, <2>2 DEF Atomic!ALAppend
  <2>3. CASE UNCHANGED Atomic!ALvars
    BY <2>3 DEF Atomic!ALvars
  <2> QED BY <2>1, <2>2, <2>3 DEF Atomic!ALNext
<1> QED BY <1>1, <1>2, TypeInvariant, LoopImplementsAtomicLedger, PTL
        DEF ImplementsAtomicLedger, Atomic!ALSpec, Spec

-----------------------------------------------------------------------------
(* Any number of runners                                                   *)

\* A runner that is about to write a file has recorded it.
ArtifactInv ==
    /\ ArtifactPrecedesWrite
    /\ \A r \in Runners : pc[r] = "apply" => run[r].op \in artifacts

\* No step reaches the write of an op that is not recorded.
LEMMA ArtifactInvInductive ==
    ASSUME TypeOK, ArtifactInv, [Next]_vars
    PROVE  ArtifactInv'
<1> USE DEF Goto, durable, task, ledger, tree, history
<1>0. \A r \in Runners : run[r] \in Locals
  BY DEF TypeOK
<1>1. CASE UNCHANGED vars
  BY <1>1 DEF vars, ArtifactInv, ArtifactPrecedesWrite
<1>2. ASSUME UNCHANGED tree, NEW r \in Runners, pc' = [pc EXCEPT ![r] = pc'[r]],
             run' = [run EXCEPT ![r] = run'[r]], pc'[r] # "apply"
      PROVE  ArtifactInv'
  BY <1>2 DEF ArtifactInv, ArtifactPrecedesWrite, TypeOK
<1>3. ASSUME NEW r \in Runners, Start(r) \/ Die(r) \/ Finish(r) PROVE ArtifactInv'
  BY <1>2, <1>3 DEF Start, Die, Finish, Terminate, RefuseRetrieval, Forget, TypeOK
<1>4. ASSUME NEW r \in Runners,
             ReadCommitted(r) \/ ReadTrace(r) \/ Reconcile(r) \/ SetRunning(r) \/ LoadContext(r)
      PROVE  ArtifactInv'
  BY <1>2, <1>4 DEF ReadCommitted, ReadTrace, Reconcile, SetRunning, LoadContext, TypeOK
<1>5. ASSUME NEW r \in Runners, OpenWorktree(r) PROVE ArtifactInv'
  BY <1>5 DEF OpenWorktree, ArtifactInv, ArtifactPrecedesWrite, TypeOK
<1>6. ASSUME NEW r \in Runners, Loop(r) PROVE ArtifactInv'
  <2>1. UNCHANGED tree /\ pc'[r] # "apply" /\ pc' = [pc EXCEPT ![r] = pc'[r]]
    BY <1>6 DEF Loop, GateBreach, GatePass, ReplayStep, FreshStep, CallModel, StopWith,
         EffectOf, TypeOK
  <2>2. run' = [run EXCEPT ![r] = run'[r]]
    BY <1>6 DEF Loop, GateBreach, GatePass, ReplayStep, FreshStep, CallModel, StopWith,
         TypeOK
  <2> QED BY <1>2, <2>1, <2>2
<1>7. ASSUME NEW r \in Runners,
             \/ RetrieveDefinition(r) \/ RetrieveOther(r) \/ ReadSpan(r)
             \/ CheckArtifact(r) \/ PlanRename(r) \/ RenameSkip(r) \/ RenameFile(r)
             \/ RenameDone(r) \/ Verify(r)
      PROVE  ArtifactInv'
  <2>1. UNCHANGED tree /\ pc'[r] # "apply" /\ pc' = [pc EXCEPT ![r] = pc'[r]]
    BY <1>7 DEF RetrieveDefinition, RetrieveOther, ReadSpan, CheckArtifact, PlanRename,
         RenameSkip, RenameFile, RenameDone, Verify, TypeOK
  <2>2. run' = [run EXCEPT ![r] = run'[r]]
    BY <1>7 DEF RetrieveDefinition, RetrieveOther, ReadSpan, CheckArtifact, PlanRename,
         RenameSkip, RenameFile, RenameDone, Verify, AddSpan, TypeOK
  <2> QED BY <1>2, <2>1, <2>2
<1>8. ASSUME NEW r \in Runners, RecordArtifact(r) PROVE ArtifactInv'
  BY <1>8 DEF RecordArtifact, ArtifactInv, ArtifactPrecedesWrite, TypeOK
<1>9. ASSUME NEW r \in Runners, ApplyOp(r) PROVE ArtifactInv'
  <2> DEFINE o == run[r].op
  <2>1. o \in Ops /\ o \in artifacts
    BY <1>0, <1>9 DEF ApplyOp, ArtifactInv, Locals
  <2>2. o = [path |-> o.path, content |-> o.content] /\ o.path \in Paths
    BY <2>1 DEF Ops
  <2>3. /\ worktree' = [worktree EXCEPT ![o.path] = o.content]
        /\ UNCHANGED <<artifacts, opened, base>>
    BY <1>9 DEF ApplyOp
  <2>4. /\ pc' = [pc EXCEPT ![r] = pc'[r]] /\ pc'[r] # "apply"
        /\ run' = [run EXCEPT ![r] = run'[r]]
    BY <1>9 DEF ApplyOp, TypeOK
  <2> HIDE DEF o
  <2>5. ArtifactPrecedesWrite'
    <3> SUFFICES ASSUME opened, NEW p \in Paths, worktree'[p] # base[p]
                 PROVE  [path |-> p, content |-> worktree'[p]] \in artifacts
      BY <2>3 DEF ArtifactPrecedesWrite
    <3>1. CASE p = o.path
      BY <2>1, <2>2, <2>3, <3>1 DEF TypeOK
    <3>2. CASE p # o.path
      BY <2>3, <3>2 DEF TypeOK, ArtifactInv, ArtifactPrecedesWrite
    <3> QED BY <3>1, <3>2
  <2>6. \A q \in Runners : pc'[q] = "apply" => run'[q].op \in artifacts'
    BY <2>3, <2>4 DEF ArtifactInv, TypeOK
  <2> QED BY <2>5, <2>6 DEF ArtifactInv
<1>10. ASSUME NEW r \in Runners, Record(r) PROVE ArtifactInv'
  BY <1>2, <1>10 DEF Record, AppendRow, CheckCharge, CommitCharge, BumpTokens, TypeOK
<1>11. ASSUME NEW r \in Runners,
              \/ GiveUp(r) \/ Succeed(r) \/ OutOfRepairs(r) \/ Repair(r) \/ Advance(r)
              \/ MergeConflict(r)
       PROVE  ArtifactInv'
  BY <1>2, <1>11 DEF GiveUp, Succeed, OutOfRepairs, Repair, Advance, MergeConflict,
       StopWith, TypeOK
<1>12. ASSUME NEW r \in Runners, MergeWorktree(r) PROVE ArtifactInv'
  <2>1. /\ base' = Overlay(base, worktree) /\ UNCHANGED <<artifacts, opened, worktree>>
        /\ pc' = [pc EXCEPT ![r] = "terminate"] /\ run' = [run EXCEPT ![r] = run'[r]]
    BY <1>12 DEF MergeWorktree, StopWith, TypeOK
  <2>2. \A p \in Paths : worktree[p] # base'[p] => worktree[p] # base[p]
    BY <2>1 DEF Overlay
  <2> QED BY <2>1, <2>2 DEF ArtifactInv, ArtifactPrecedesWrite, TypeOK
<1> QED BY <1>1, <1>3, <1>4, <1>5, <1>6, <1>7, <1>8, <1>9, <1>10, <1>11, <1>12
        DEF Next, Run, Boot, Effect, Decide, ResumeTerminal, Abandoned

\* The record-then-write order of _do_edit and _do_rename holds across crashes and with
\* concurrent runs: the worktree never differs from the base by an unrecorded write.
THEOREM RecordedBeforeWritten == Spec => []ArtifactPrecedesWrite
<1>1. Init => ArtifactInv
  BY DEF Init, ArtifactInv, ArtifactPrecedesWrite
<1>2. TypeInv /\ StepsInRange /\ ArtifactInv /\ [Next]_vars => ArtifactInv'
  BY ArtifactInvInductive DEF TypeInv
<1>3. ArtifactInv => ArtifactPrecedesWrite
  BY DEF ArtifactInv
<1> QED BY <1>1, <1>2, <1>3, TypeInvariant, PTL DEF Spec

\* What a run knows of the journal, whoever else runs the task: the rows below the step it
\* is in are there, and so is that step's own once the run is past writing it.
RowsBelow(r) ==
    /\ pc[r] \in Calling => \A q \in Steps : q < run[r].step => q \in Journaled
    /\ pc[r] \in Owing \cup Paid => \A q \in Steps : q <= run[r].step => q \in Journaled

JournalInv == Contiguous /\ \A r \in Runners : RowsBelow(r)

\* Rows only come: what the other runs know stays true, whatever one run does.
LEMMA OthersKnowTheSame ==
    ASSUME TypeOK, JournalInv, NEW r \in Runners,
           pc' = [pc EXCEPT ![r] = pc'[r]], run' = [run EXCEPT ![r] = run'[r]],
           Journaled \subseteq Journaled', Contiguous', RowsBelow(r)'
    PROVE  JournalInv'
<1> SUFFICES ASSUME NEW p \in Runners PROVE RowsBelow(p)'
  BY DEF JournalInv
<1>1. CASE p = r
  BY <1>1
<1>2. CASE p # r
  <2>1. pc'[p] = pc[p] /\ run'[p] = run[p]
    BY <1>2 DEF TypeOK
  <2> QED BY <2>1 DEF JournalInv, RowsBelow
<1> QED BY <1>1, <1>2

\* A run that leaves the journal alone and stays on its side of the append knows what it
\* knew.
LEMMA SameStep ==
    ASSUME TypeOK, JournalInv, NEW r \in Runners, UNCHANGED journal,
           pc' = [pc EXCEPT ![r] = pc'[r]], run' = [run EXCEPT ![r] = run'[r]],
           \/ pc[r] \in Calling /\ pc'[r] \in Calling
           \/ pc[r] \in Owing \cup Paid /\ pc'[r] \in Owing \cup Paid
           \/ pc'[r] \notin Calling \cup Owing \cup Paid,
           pc'[r] \in Calling \cup Owing \cup Paid => run'[r].step = run[r].step
    PROVE  JournalInv'
<1>1. Journaled' = Journaled
  BY DEF Journaled
<1>2. Contiguous'
  BY <1>1 DEF Contiguous, JournalInv
<1>3. RowsBelow(r)'
  BY <1>1 DEF RowsBelow, JournalInv, Calling, Owing, Paid
<1> QED BY <1>1, <1>2, <1>3, OthersKnowTheSame

\* No step of any run leaves a hole in the journal: a run starts after the last row it
\* reads, and reaches the next step only over a row, its own or another run's.
LEMMA JournalInvInductive ==
    ASSUME TypeOK, StepsInRange, JournalInv, [Next]_vars
    PROVE  JournalInv'
<1> USE DEF Goto, durable, task, ledger, tree, history
<1>0. \A r \in Runners : run[r] \in Locals
  BY DEF TypeOK
<1>1. CASE UNCHANGED vars
  BY <1>1 DEF vars, JournalInv, Contiguous, RowsBelow, Journaled
<1>2. ASSUME NEW r \in Runners, Start(r) \/ Die(r) \/ Finish(r) PROVE JournalInv'
  <2>1. /\ UNCHANGED journal /\ pc'[r] \in {"committed", "idle"}
        /\ pc' = [pc EXCEPT ![r] = pc'[r]] /\ run' = [run EXCEPT ![r] = run'[r]]
    BY <1>2 DEF Start, Die, Finish, Terminate, RefuseRetrieval, Forget, TypeOK
  <2> QED BY <2>1, SameStep DEF Calling, Owing, Paid
<1>3. ASSUME NEW r \in Runners, Boot(r), ~LoadContext(r) PROVE JournalInv'
  <2>1. /\ UNCHANGED journal /\ pc'[r] \in {"trace", "reconcile", "open", "load"}
        /\ pc' = [pc EXCEPT ![r] = pc'[r]] /\ run' = [run EXCEPT ![r] = run'[r]]
    BY <1>3 DEF Boot, ReadCommitted, ReadTrace, Reconcile, SetRunning, OpenWorktree, TypeOK
  <2> QED BY <2>1, SameStep DEF Calling, Owing, Paid
<1>4. ASSUME NEW r \in Runners, LoadContext(r) PROVE JournalInv'
  <2>1. /\ UNCHANGED journal /\ pc'[r] = "gate" /\ run'[r].step = next_step_index
        /\ pc' = [pc EXCEPT ![r] = pc'[r]] /\ run' = [run EXCEPT ![r] = run'[r]]
    BY <1>0, <1>4 DEF LoadContext, TypeOK, Locals
  <2>2. Journaled' = Journaled /\ Contiguous /\ Contiguous'
    BY <2>1 DEF Journaled, Contiguous, JournalInv
  <2>3. RowsBelow(r)'
    BY <2>1, <2>2, NextStepIsFresh DEF RowsBelow, Calling, Owing, Paid
  <2> QED BY <2>1, <2>2, <2>3, OthersKnowTheSame
<1>5. ASSUME NEW r \in Runners, Loop(r), ~ReplayStep(r) PROVE JournalInv'
  <2>1. /\ UNCHANGED journal /\ pc[r] \in Calling /\ pc'[r] \in Calling \cup {"terminate"}
        /\ pc' = [pc EXCEPT ![r] = pc'[r]]
    BY <1>5 DEF Loop, GateBreach, GatePass, FreshStep, CallModel, StopWith, EffectOf,
         Calling, TypeOK
  <2>2. run' = [run EXCEPT ![r] = run'[r]]
    BY <1>5 DEF Loop, GateBreach, GatePass, FreshStep, CallModel, StopWith, TypeOK
  <2>3. run'[r].step = run[r].step
    <3>1. CASE CallModel(r)
      BY <1>0, <3>1 DEF CallModel, TypeOK, Locals
    <3>2. CASE GateBreach(r)
      BY <1>0, <3>2 DEF GateBreach, StopWith, TypeOK, Locals
    <3>3. CASE GatePass(r) \/ FreshStep(r)
      BY <3>3 DEF GatePass, FreshStep
    <3> QED BY <1>5, <3>1, <3>2, <3>3 DEF Loop
  <2> QED BY <2>1, <2>2, <2>3, SameStep DEF Calling, Owing, Paid
<1>6. ASSUME NEW r \in Runners, ReplayStep(r) PROVE JournalInv'
  <2>1. /\ UNCHANGED journal /\ pc[r] = "lookup" /\ pc'[r] = "decide"
        /\ pc' = [pc EXCEPT ![r] = pc'[r]]
    BY <1>6 DEF ReplayStep, TypeOK
  <2>2. run' = [run EXCEPT ![r] = run'[r]] /\ run'[r].step = run[r].step
    BY <1>0, <1>6 DEF ReplayStep, TypeOK, Locals
  <2>3. run[r].step \in Steps /\ run[r].step \in Journaled
    BY <1>6, <2>1 DEF ReplayStep, StepsInRange, InStep, Journaled
  <2>4. Journaled' = Journaled /\ Contiguous'
    BY <2>1 DEF Journaled, Contiguous, JournalInv
  <2>5. ASSUME NEW q \in Steps, q <= run[r].step PROVE q \in Journaled
    <3>1. q \in Nat /\ run[r].step \in Nat
      BY <2>3, ConstantTypes
    <3>2. q = run[r].step \/ q < run[r].step
      BY <2>5, <3>1
    <3> QED BY <2>3, <3>2 DEF JournalInv, Contiguous
  <2>6. RowsBelow(r)'
    BY <2>1, <2>2, <2>4, <2>5 DEF RowsBelow, Calling, Owing, Paid
  <2> QED BY <2>1, <2>2, <2>4, <2>6, OthersKnowTheSame
<1>7. ASSUME NEW r \in Runners, Effect(r) PROVE JournalInv'
  <2>1. /\ UNCHANGED journal /\ pc[r] \in Calling /\ pc'[r] \in Calling
        /\ pc' = [pc EXCEPT ![r] = pc'[r]]
    BY <1>7 DEF Effect, RetrieveDefinition, RetrieveOther, ReadSpan, CheckArtifact,
         RecordArtifact, ApplyOp, PlanRename, RenameSkip, RenameFile, RenameDone, Verify,
         Calling, TypeOK
  <2>2. run' = [run EXCEPT ![r] = run'[r]] /\ run'[r].step = run[r].step
    BY <1>0, <1>7 DEF Effect, RetrieveDefinition, RetrieveOther, ReadSpan, CheckArtifact,
         RecordArtifact, ApplyOp, PlanRename, RenameSkip, RenameFile, RenameDone, Verify,
         AddSpan, TypeOK, Locals
  <2> QED BY <2>1, <2>2, SameStep
<1>8. ASSUME NEW r \in Runners, AppendRow(r) PROVE JournalInv'
  <2> DEFINE s == run[r].step
  <2>1. s \in Steps /\ pc[r] = "append" /\ pc'[r] = "charge" /\ run' = run
        /\ pc' = [pc EXCEPT ![r] = pc'[r]]
    BY <1>8 DEF AppendRow, StepsInRange, InStep, TypeOK
  <2>2. Journaled' = Journaled \cup {s}
    <3>1. [resp |-> run[r].resp, renamed |-> run[r].renamed, verified |-> run[r].verified]
             # NoRow
      BY <1>0, PathAssumption DEF Row, Locals
    <3> QED BY <1>8, <2>1, <3>1 DEF AppendRow, Journaled, TypeOK
  <2>3. \A q \in Steps : q < s => q \in Journaled
    BY <2>1 DEF JournalInv, RowsBelow, Calling
  <2>4. Contiguous'
    <3> HIDE DEF s
    <3> QED BY <2>2, <2>3 DEF JournalInv, Contiguous
  <2>5. ASSUME NEW q \in Steps, q <= s PROVE q \in Journaled'
    <3>1. q \in Nat /\ s \in Nat
      BY <2>1, ConstantTypes
    <3>2. q = s \/ q < s
      BY <2>5, <3>1
    <3> QED BY <2>2, <2>3, <3>2
  <2>6. RowsBelow(r)'
    BY <2>1, <2>5 DEF RowsBelow, Calling
  <2>7. run' = [run EXCEPT ![r] = run'[r]] /\ Journaled \subseteq Journaled'
    BY <2>1, <2>2 DEF TypeOK
  <2> HIDE DEF s
  <2> QED BY <2>1, <2>4, <2>6, <2>7, OthersKnowTheSame
<1>9. ASSUME NEW r \in Runners, Record(r), ~AppendRow(r) PROVE JournalInv'
  <2>1. /\ UNCHANGED <<journal, run>> /\ pc[r] \in Owing \cup Paid
        /\ pc'[r] \in Owing \cup Paid /\ pc' = [pc EXCEPT ![r] = pc'[r]]
    BY <1>9 DEF Record, CheckCharge, CommitCharge, BumpTokens, Owing, Paid, TypeOK
  <2> QED BY <2>1, SameStep DEF TypeOK
<1>10. ASSUME NEW r \in Runners, Repair(r) \/ Advance(r) PROVE JournalInv'
  <2>1. /\ UNCHANGED journal /\ pc[r] = "decide" /\ pc'[r] = "gate"
        /\ pc' = [pc EXCEPT ![r] = pc'[r]]
    BY <1>10 DEF Repair, Advance, TypeOK
  <2>2. run' = [run EXCEPT ![r] = run'[r]] /\ run'[r].step = run[r].step + 1
    BY <1>0, <1>10 DEF Repair, Advance, TypeOK, Locals
  <2>3. Journaled' = Journaled /\ Contiguous'
    BY <2>1 DEF Journaled, Contiguous, JournalInv
  <2>4. run[r].step \in Nat
    BY <1>0 DEF Locals
  <2>5. ASSUME NEW q \in Steps, q < run[r].step + 1 PROVE q \in Journaled
    <3>1. q <= run[r].step
      BY <2>4, <2>5, ConstantTypes
    <3> QED BY <2>1, <3>1 DEF JournalInv, RowsBelow, Paid
  <2>6. RowsBelow(r)'
    BY <2>1, <2>2, <2>3, <2>5 DEF RowsBelow, Owing, Paid
  <2> QED BY <2>1, <2>2, <2>3, <2>6, OthersKnowTheSame
<1>11. ASSUME NEW r \in Runners, Decide(r), ~Repair(r), ~Advance(r) PROVE JournalInv'
  <2>1. /\ UNCHANGED journal /\ pc[r] \in Paid /\ pc'[r] \in Paid \cup {"terminate"}
        /\ pc' = [pc EXCEPT ![r] = pc'[r]]
    BY <1>11 DEF Decide, GiveUp, Succeed, OutOfRepairs, MergeWorktree, MergeConflict,
         StopWith, Paid, TypeOK
  <2>2. run' = [run EXCEPT ![r] = run'[r]] /\ run'[r].step = run[r].step
    BY <1>0, <1>11 DEF Decide, GiveUp, Succeed, OutOfRepairs, MergeWorktree, MergeConflict,
         StopWith, TypeOK, Locals
  <2> QED BY <2>1, <2>2, SameStep DEF Calling, Owing, Paid
<1> QED BY <1>1, <1>2, <1>3, <1>4, <1>5, <1>6, <1>7, <1>8, <1>9, <1>10, <1>11
        DEF Next, Run, ResumeTerminal, Abandoned

\* Every reachable state satisfies JournalInv.
LEMMA JournalInvariant == Spec => []JournalInv
<1>1. Init => JournalInv
  BY DEF Init, JournalInv, Contiguous, RowsBelow, Journaled, Calling, Owing, Paid
<1>2. TypeInv /\ StepsInRange /\ JournalInv /\ [Next]_vars => JournalInv'
  BY JournalInvInductive DEF TypeInv
<1> QED BY <1>1, <1>2, TypeInvariant, PTL DEF Spec

\* The journal never has a hole (_next_step_index), however the runs ended and however
\* many of them overlapped.
THEOREM NoJournalHole == Spec => []JournalContiguous
<1>1. JournalInv => JournalContiguous
  <2> SUFFICES ASSUME Contiguous, NEW s \in Journaled, NEW q \in 0 .. s
               PROVE  q \in Journaled
    BY DEF JournalInv, JournalContiguous
  <2>1. s \in 0 .. (StepBudget - 1)
    BY DEF Journaled, Steps
  <2>2. q \in Steps /\ (q < s \/ q = s)
    BY <2>1, BudgetAssumption DEF Steps
  <2> QED BY <2>2 DEF Contiguous
<1> QED BY <1>1, JournalInvariant, PTL

\* Nothing is charged that has no row: the rows to reconcile were read from the journal,
\* and a step is charged after its append, which leaves a row whoever wrote it.  So a
\* charge can always be traced to a recorded step, also where overlapping runs charge one
\* step twice.
LEMMA ChargesHaveRows == Spec => [](Charged \subseteq Journaled)
<1>1. Init => Charged \subseteq Journaled
  BY DEF Init, Charged
<1>2. TypeInv /\ TypeInv' /\ StepsInRange /\ JournalInv /\ Charged \subseteq Journaled /\ [Next]_vars
         => (Charged \subseteq Journaled)'
  <2> SUFFICES ASSUME TypeInv, TypeInv', StepsInRange, JournalInv, Charged \subseteq Journaled,
                      [Next]_vars
               PROVE  Charged' \subseteq Journaled'
    OBVIOUS
  <2> USE DEF Goto, durable, task, ledger, tree, history
  <2>0. \A r \in Runners : run[r] \in Locals /\ run[r].todo \subseteq Journaled
    BY DEF TypeInv, TypeOK
  <2>1. ASSUME UNCHANGED <<journal, commits>> PROVE Charged' \subseteq Journaled'
    BY <2>1 DEF Charged, Journaled
  <2>2. ASSUME NEW s \in Journaled, commits' = [commits EXCEPT ![s] = @ + 1], UNCHANGED journal
        PROVE  Charged' \subseteq Journaled'
    BY <2>2 DEF Charged, Journaled, TypeInv, TypeOK
  <2>3. ASSUME NEW r \in Runners, Reconcile(r) PROVE Charged' \subseteq Journaled'
    <3>1. run[r].todo \subseteq Steps /\ run[r].todo # {} /\ run[r].todo \subseteq Journaled
      BY <2>0, <2>3 DEF Reconcile, Locals
    <3>2. First(run[r].todo) \in Journaled
      BY <3>1, ConstantTypes, FirstIsFirst, FS_Subset
    <3> QED BY <2>2, <2>3, <3>2 DEF Reconcile, AppendCommit
  <2>4. ASSUME NEW r \in Runners, CommitCharge(r) PROVE Charged' \subseteq Journaled'
    <3>1. run[r].step \in Steps /\ pc[r] \in Owing
      BY <2>4 DEF CommitCharge, StepsInRange, InStep, Owing
    <3>2. run[r].step \in Nat
      BY <3>1, ConstantTypes
    <3>3. run[r].step \in Journaled
      BY <3>1, <3>2 DEF JournalInv, RowsBelow
    <3> QED BY <2>2, <2>4, <3>3 DEF CommitCharge, AppendCommit
  <2>5. ASSUME NEW r \in Runners, AppendRow(r) PROVE Charged' \subseteq Journaled'
    <3> DEFINE row == [resp |-> run[r].resp, renamed |-> run[r].renamed,
                       verified |-> run[r].verified]
    <3>1. journal' = [journal EXCEPT ![run[r].step] = IF @ = NoRow THEN row ELSE @]
      BY <2>5 DEF AppendRow
    <3>2. row # NoRow /\ journal \in [Steps -> Row \cup {NoRow}]
      BY <2>0, PathAssumption DEF Locals, Row, TypeInv, TypeOK
    <3> HIDE DEF row
    <3>3. Journaled \subseteq Journaled'
      BY <3>1, <3>2 DEF Journaled
    <3>4. Charged' = Charged
      BY <2>5 DEF AppendRow, Charged
    <3> QED BY <3>3, <3>4
  <2>6. ASSUME NEW r \in Runners,
               \/ Start(r) \/ Die(r) \/ Finish(r) \/ ReadCommitted(r) \/ ReadTrace(r)
               \/ SetRunning(r) \/ OpenWorktree(r) \/ LoadContext(r) \/ Loop(r)
               \/ CheckCharge(r) \/ BumpTokens(r) \/ Decide(r)
        PROVE  UNCHANGED <<journal, commits>>
    BY <2>6
       DEF Start, Die, Finish, Terminate, RefuseRetrieval, ReadCommitted, ReadTrace,
           SetRunning, OpenWorktree, LoadContext, Loop, GateBreach, GatePass, ReplayStep,
           FreshStep, CallModel, CheckCharge, BumpTokens, Decide, GiveUp, Succeed,
           OutOfRepairs, Repair, Advance, MergeWorktree, MergeConflict
  <2>7. ASSUME NEW r \in Runners, Effect(r) PROVE UNCHANGED <<journal, commits>>
    BY <2>7 DEF Effect, RetrieveDefinition, RetrieveOther, ReadSpan, charge_atomic,
         CheckArtifact, RecordArtifact, ApplyOp, PlanRename, RenameSkip, RenameFile,
         RenameDone, Verify
  <2>8. CASE UNCHANGED vars
    BY <2>1, <2>8 DEF vars
  <2> QED BY <2>1, <2>3, <2>4, <2>5, <2>6, <2>7, <2>8
          DEF Next, Run, Boot, Record, ResumeTerminal, Abandoned
<1> QED BY <1>1, <1>2, TypeInvariant, JournalInvariant, PTL DEF Spec

\* Run r has found no COMMIT of step s and will append one without looking again.
Decided(r, s) ==
    \/ pc[r] = "trace" /\ s \notin run[r].seen
    \/ pc[r] = "reconcile" /\ s \in run[r].todo
    \/ pc[r] = "commit" /\ run[r].step = s

Deciders(s) == {r \in Runners : Decided(r, s)}

\* A run decides only while the step has no COMMIT, and is out of the race with its own.
OverlapInv ==
    \A s \in Steps : commits[s] + Cardinality(Deciders(s)) <= Cardinality(Runners)

\* The runs that are about to charge a step are finitely many.
LEMMA DecidersAreFew ==
    ASSUME NEW s
    PROVE  /\ IsFiniteSet(Runners) /\ Cardinality(Runners) \in Nat
           /\ IsFiniteSet(Deciders(s)) /\ Cardinality(Deciders(s)) \in Nat
           /\ Cardinality(Deciders(s)) <= Cardinality(Runners)
           /\ Deciders(s) \subseteq Runners
<1>1. Deciders(s) \subseteq Runners
  BY DEF Deciders
<1> QED BY <1>1, RunnerAssumption, FS_Subset, FS_CardinalityType

\* A step of run r leaves what the others have decided.
LEMMA OthersDecided ==
    ASSUME TypeOK, NEW r \in Runners, NEW q \in Runners, q # r, NEW s,
           pc' = [pc EXCEPT ![r] = pc'[r]], run' = [run EXCEPT ![r] = run'[r]]
    PROVE  Decided(q, s)' <=> Decided(q, s)
<1>1. pc'[q] = pc[q] /\ run'[q] = run[q]
  BY DEF TypeOK
<1> QED BY <1>1 DEF Decided

\* A step that charges nothing, after which r has decided on nothing new but steps
\* without a COMMIT.
LEMMA DecidesOnly ==
    ASSUME TypeOK, TypeOK', OverlapInv, UNCHANGED commits, NEW r \in Runners,
           pc' = [pc EXCEPT ![r] = pc'[r]], run' = [run EXCEPT ![r] = run'[r]],
           \A s \in Steps : Decided(r, s)' => s \notin Charged \/ Decided(r, s)
    PROVE  OverlapInv'
<1> SUFFICES ASSUME NEW s \in Steps
             PROVE  commits'[s] + Cardinality(Deciders(s)') <= Cardinality(Runners)
  BY DEF OverlapInv
<1>1. commits'[s] = commits[s] /\ commits[s] \in Nat
  BY DEF TypeOK
<1>2. /\ Cardinality(Deciders(s)) \in Nat /\ IsFiniteSet(Deciders(s))
      /\ commits[s] + Cardinality(Deciders(s)) <= Cardinality(Runners)
      /\ Cardinality(Runners) \in Nat /\ IsFiniteSet(Runners)
  BY DecidersAreFew DEF OverlapInv
<1>3. Deciders(s)' \subseteq Runners
  BY DEF Deciders
<1>4. CASE s \notin Charged
  <2>1. commits[s] = 0
    BY <1>1, <1>4 DEF Charged
  <2>2. Cardinality(Deciders(s)') <= Cardinality(Runners) /\ Cardinality(Deciders(s)') \in Nat
    BY <1>2, <1>3, FS_Subset, FS_CardinalityType
  <2> QED BY <1>1, <2>1, <2>2
<1>5. CASE s \in Charged
  <2>1. Deciders(s)' \subseteq Deciders(s)
    BY <1>5, OthersDecided DEF Deciders
  <2>2. Cardinality(Deciders(s)') <= Cardinality(Deciders(s)) /\ Cardinality(Deciders(s)') \in Nat
    BY <1>2, <2>1, FS_Subset, FS_CardinalityType
  <2> QED BY <1>1, <1>2, <2>2
<1> QED BY <1>4, <1>5

\* A charge: the run that had decided on it has not any more.
LEMMA DecidedCharges ==
    ASSUME TypeOK, TypeOK', OverlapInv, NEW r \in Runners, NEW c \in Steps,
           commits' = [commits EXCEPT ![c] = @ + 1], Decided(r, c), ~Decided(r, c)',
           pc' = [pc EXCEPT ![r] = pc'[r]], run' = [run EXCEPT ![r] = run'[r]],
           \A s \in Steps : Decided(r, s)' => Decided(r, s)
    PROVE  OverlapInv'
<1> SUFFICES ASSUME NEW s \in Steps
             PROVE  commits'[s] + Cardinality(Deciders(s)') <= Cardinality(Runners)
  BY DEF OverlapInv
<1>1. commits[s] \in Nat /\ commits'[s] = IF s = c THEN commits[s] + 1 ELSE commits[s]
  BY DEF TypeOK
<1>2. /\ Cardinality(Deciders(s)) \in Nat /\ IsFiniteSet(Deciders(s))
      /\ commits[s] + Cardinality(Deciders(s)) <= Cardinality(Runners)
      /\ Cardinality(Runners) \in Nat
  BY DecidersAreFew DEF OverlapInv
<1>3. Deciders(s)' \subseteq Deciders(s)
  BY OthersDecided DEF Deciders
<1>4. Cardinality(Deciders(s)') <= Cardinality(Deciders(s)) /\ Cardinality(Deciders(s)') \in Nat
  BY <1>2, <1>3, FS_Subset, FS_CardinalityType
<1>5. CASE s = c
  <2>1. r \in Deciders(s) /\ Deciders(s)' \subseteq Deciders(s) \ {r}
    BY <1>3, <1>5 DEF Deciders
  <2>2. /\ IsFiniteSet(Deciders(s) \ {r})
        /\ Cardinality(Deciders(s) \ {r}) = Cardinality(Deciders(s)) - 1
    BY <1>2, <2>1, FS_RemoveElement
  <2>3. Cardinality(Deciders(s)') <= Cardinality(Deciders(s)) - 1
    BY <2>1, <2>2, FS_Subset
  <2> QED BY <1>1, <1>2, <1>4, <1>5, <2>3
<1>6. CASE s # c
  BY <1>1, <1>2, <1>4, <1>6
<1> QED BY <1>5, <1>6

\* No step of any run breaks the account of charges and decisions.
LEMMA OverlapInductive ==
    ASSUME TypeOK, TypeOK', StepsInRange, OverlapInv, [Next]_vars
    PROVE  OverlapInv'
<1> USE DEF Goto, durable, task, ledger, tree, history
<1>0. \A r \in Runners : run[r] \in Locals
  BY DEF TypeOK
<1>1. CASE UNCHANGED vars
  BY <1>1 DEF vars, OverlapInv, Deciders, Decided
<1>2. ASSUME NEW r \in Runners, ReadCommitted(r) PROVE OverlapInv'
  <2>1. /\ UNCHANGED commits /\ pc'[r] = "trace" /\ run'[r].seen = Charged
        /\ pc' = [pc EXCEPT ![r] = pc'[r]] /\ run' = [run EXCEPT ![r] = run'[r]]
    BY <1>0, <1>2 DEF ReadCommitted, TypeOK, Locals
  <2>2. \A s \in Steps : Decided(r, s)' => s \notin Charged
    BY <2>1 DEF Decided
  <2> QED BY <2>1, <2>2, DecidesOnly
<1>3. ASSUME NEW r \in Runners, ReadTrace(r) PROVE OverlapInv'
  <2>1. /\ UNCHANGED commits /\ pc[r] = "trace" /\ pc'[r] = "reconcile"
        /\ run'[r].todo = Journaled \ run[r].seen
        /\ pc' = [pc EXCEPT ![r] = pc'[r]] /\ run' = [run EXCEPT ![r] = run'[r]]
    BY <1>0, <1>3 DEF ReadTrace, TypeOK, Locals
  <2>2. \A s \in Steps : Decided(r, s)' => Decided(r, s)
    BY <2>1 DEF Decided
  <2> QED BY <2>1, <2>2, DecidesOnly
<1>4. ASSUME NEW r \in Runners, Reconcile(r) PROVE OverlapInv'
  <2>1. PICK c \in Steps : c = First(run[r].todo) /\ c \in run[r].todo
    BY <1>0, <1>4, ConstantTypes, FirstIsFirst, FS_Subset DEF Reconcile, Locals
  <2>2. /\ commits' = [commits EXCEPT ![c] = @ + 1]
        /\ pc[r] = "reconcile" /\ pc'[r] = "reconcile" /\ run'[r].todo = run[r].todo \ {c}
        /\ pc' = [pc EXCEPT ![r] = pc'[r]] /\ run' = [run EXCEPT ![r] = run'[r]]
    BY <1>0, <1>4, <2>1 DEF Reconcile, AppendCommit, TypeOK, Locals
  <2>3. Decided(r, c) /\ ~Decided(r, c)' /\ \A s \in Steps : Decided(r, s)' => Decided(r, s)
    BY <2>1, <2>2 DEF Decided
  <2> QED BY <2>1, <2>2, <2>3, DecidedCharges
<1>5. ASSUME NEW r \in Runners, CheckCharge(r) PROVE OverlapInv'
  <2>1. /\ UNCHANGED commits /\ run' = run
        /\ pc'[r] = IF run[r].step \in Charged THEN "bump" ELSE "commit"
        /\ pc' = [pc EXCEPT ![r] = pc'[r]] /\ run' = [run EXCEPT ![r] = run'[r]]
    BY <1>5 DEF CheckCharge, TypeOK
  <2>2. \A s \in Steps : Decided(r, s)' => s \notin Charged
    BY <2>1 DEF Decided
  <2> QED BY <2>1, <2>2, DecidesOnly
<1>6. ASSUME NEW r \in Runners, CommitCharge(r) PROVE OverlapInv'
  <2>1. PICK c \in Steps : c = run[r].step /\ pc[r] = "commit"
    BY <1>6 DEF CommitCharge, StepsInRange, InStep
  <2>2. /\ commits' = [commits EXCEPT ![c] = @ + 1] /\ pc'[r] = "bump"
        /\ pc' = [pc EXCEPT ![r] = pc'[r]] /\ run' = [run EXCEPT ![r] = run'[r]]
    BY <1>6, <2>1 DEF CommitCharge, AppendCommit, TypeOK
  <2>3. Decided(r, c) /\ \A s \in Steps : ~Decided(r, s)'
    BY <2>1, <2>2 DEF Decided
  <2> QED BY <2>1, <2>2, <2>3, DecidedCharges
<1>7. ASSUME NEW r \in Runners, UNCHANGED commits, pc'[r] \notin {"trace", "reconcile", "commit"},
             pc' = [pc EXCEPT ![r] = pc'[r]], run' = [run EXCEPT ![r] = run'[r]]
      PROVE  OverlapInv'
  <2>1. \A s \in Steps : ~Decided(r, s)'
    BY <1>7 DEF Decided
  <2> QED BY <1>7, <2>1, DecidesOnly
<1>8. ASSUME NEW r \in Runners,
             \/ Start(r) \/ Die(r) \/ Finish(r) \/ SetRunning(r) \/ OpenWorktree(r)
             \/ LoadContext(r) \/ AppendRow(r) \/ BumpTokens(r)
      PROVE  OverlapInv'
  <2>1. /\ UNCHANGED commits /\ pc'[r] \notin {"trace", "reconcile", "commit"}
        /\ pc' = [pc EXCEPT ![r] = pc'[r]] /\ run' = [run EXCEPT ![r] = run'[r]]
    BY <1>8 DEF Start, Die, Finish, Terminate, RefuseRetrieval, Forget, SetRunning,
         OpenWorktree, LoadContext, AppendRow, BumpTokens, TypeOK
  <2> QED BY <1>7, <2>1
<1>9. ASSUME NEW r \in Runners, Loop(r) \/ Decide(r) PROVE OverlapInv'
  <2>1. /\ UNCHANGED commits /\ pc'[r] \notin {"trace", "reconcile", "commit"}
        /\ pc' = [pc EXCEPT ![r] = pc'[r]] /\ run' = [run EXCEPT ![r] = run'[r]]
    BY <1>9 DEF Loop, GateBreach, GatePass, ReplayStep, FreshStep, CallModel, EffectOf,
         StopWith, Decide, GiveUp, Succeed, OutOfRepairs, Repair, Advance, MergeWorktree,
         MergeConflict, TypeOK
  <2> QED BY <1>7, <2>1
<1>10. ASSUME NEW r \in Runners, Effect(r) PROVE OverlapInv'
  <2>1. /\ UNCHANGED commits /\ pc'[r] \notin {"trace", "reconcile", "commit"}
        /\ pc' = [pc EXCEPT ![r] = pc'[r]] /\ run' = [run EXCEPT ![r] = run'[r]]
    BY <1>10 DEF Effect, RetrieveDefinition, RetrieveOther, ReadSpan, charge_atomic, AddSpan,
         CheckArtifact, RecordArtifact, ApplyOp, PlanRename, RenameSkip, RenameFile,
         RenameDone, Verify, TypeOK
  <2> QED BY <1>7, <2>1
<1> QED BY <1>1, <1>2, <1>3, <1>4, <1>5, <1>6, <1>8, <1>9, <1>10
        DEF Next, Run, Boot, Record, ResumeTerminal, Abandoned

\* However many runs of a task overlap, die and are resumed, no step is charged more often
\* than runs may overlap, nor without a row: the damage of a resume that meets a live run
\* is bounded although the look for a COMMIT and the append are two transactions.
THEOREM OverlapIsBounded == Spec => []OverlapCharges
<1>1. Init => OverlapInv
  <2> SUFFICES ASSUME Init, NEW s \in Steps
               PROVE  commits[s] + Cardinality(Deciders(s)) <= Cardinality(Runners)
    BY DEF OverlapInv
  <2>1. commits[s] = 0
    BY DEF Init
  <2> QED BY <2>1, DecidersAreFew
<1>2. TypeInv /\ TypeInv' /\ StepsInRange /\ OverlapInv /\ [Next]_vars => OverlapInv'
  BY OverlapInductive DEF TypeInv
<1>3. TypeInv /\ OverlapInv /\ Charged \subseteq Journaled => OverlapCharges
  <2> SUFFICES ASSUME TypeOK, OverlapInv, NEW s \in Steps
               PROVE  commits[s] <= Cardinality(Runners)
    BY DEF TypeInv, OverlapCharges
  <2>1. commits[s] \in Nat /\ commits[s] + Cardinality(Deciders(s)) <= Cardinality(Runners)
    BY DEF TypeOK, OverlapInv
  <2> QED BY <2>1, DecidersAreFew
<1> QED BY <1>1, <1>2, <1>3, TypeInvariant, ChargesHaveRows, PTL DEF Spec

-----------------------------------------------------------------------------
(* Any number of runners: what run() promises of the task's row            *)

\* The phase of run() a label belongs to.
PhaseOf(label) ==
    CASE label = "idle"                              -> "off"
      [] label \in {"committed", "trace", "reconcile"} -> "starting"
      [] OTHER                                       -> "running"

RC == INSTANCE RunContract
        WITH Runs <- Runners, phase <- [r \in Runners |-> PhaseOf(pc[r])]

ImplementsRunContract == RC!Spec

\* A run that goes from one label to another goes from one phase to another.
LEMMA PhaseMoves ==
    ASSUME TypeOK, NEW r \in Runners, NEW to \in Labels, pc' = [pc EXCEPT ![r] = to]
    PROVE  RC!Move(r, PhaseOf(pc[r]), PhaseOf(to))
<1>1. \A q \in Runners : pc'[q] = IF q = r THEN to ELSE pc[q]
  BY DEF TypeOK
<1>2. \A q \in Runners : PhaseOf(pc'[q]) = IF q = r THEN PhaseOf(to) ELSE PhaseOf(pc[q])
  BY <1>1
<1>3. [q \in Runners |-> PhaseOf(pc'[q])]
        = [[q \in Runners |-> PhaseOf(pc[q])] EXCEPT ![r] = PhaseOf(to)]
  BY <1>2
<1> QED BY <1>3 DEF RC!Move

\* However many runs of a task overlap, each of them treats the task's row as RunContract
\* says: it goes on only from an open row, sets it RUNNING once, and its last write, if
\* it lives to make one, is a terminal state.
THEOREM LoopKeepsTheContract == Spec => ImplementsRunContract
<1>1. Init => RC!Init
  BY DEF Init, RC!Init, PhaseOf
<1>2. TypeInv /\ [Next]_vars => [RC!Next]_(RC!vars)
  <2> SUFFICES ASSUME TypeOK, [Next]_vars PROVE [RC!Next]_(RC!vars)
    BY DEF TypeInv
  <2> USE DEF Goto, durable, task, ledger, tree, history
  <2>0. \A r \in Runners : run[r] \in Locals /\ pc[r] \in Labels
    BY DEF TypeOK
  <2>1. ASSUME NEW r \in Runners, Start(r) PROVE RC!Begin(r)
    <3>1. pc[r] = "idle" /\ state \notin Terminal /\ pc' = [pc EXCEPT ![r] = "committed"]
          /\ UNCHANGED state
      BY <2>1 DEF Start
    <3>2. PhaseOf(pc[r]) = "off" /\ PhaseOf("committed") = "starting" /\ "committed" \in Labels
      BY <3>1 DEF PhaseOf, Labels
    <3>3. RC!Move(r, "off", "starting")
      BY <3>1, <3>2, PhaseMoves
    <3> QED BY <3>1, <3>3 DEF RC!Begin
  <2>2. ASSUME NEW r \in Runners, SetRunning(r) PROVE RC!SetRunning(r)
    <3>1. pc[r] = "reconcile" /\ state' = "RUNNING" /\ pc' = [pc EXCEPT ![r] = "open"]
      BY <2>2 DEF SetRunning
    <3>2. PhaseOf(pc[r]) = "starting" /\ PhaseOf("open") = "running" /\ "open" \in Labels
      BY <3>1 DEF PhaseOf, Labels
    <3>3. RC!Move(r, "starting", "running")
      BY <3>1, <3>2, PhaseMoves
    <3> QED BY <3>1, <3>3 DEF RC!SetRunning
  <2>3. ASSUME NEW r \in Runners, Terminate(r) PROVE RC!End(r)
    <3>1. pc[r] = "terminate" /\ state' = run[r].verdict /\ pc' = [pc EXCEPT ![r] = "idle"]
      BY <2>3 DEF Terminate, Forget
    <3>2. PhaseOf(pc[r]) = "running" /\ PhaseOf("idle") = "off" /\ "idle" \in Labels
      BY <3>1 DEF PhaseOf, Labels
    <3>3. RC!Move(r, "running", "off")
      BY <3>1, <3>2, PhaseMoves
    <3>4. state' \in Terminal
      BY <2>0, <3>1 DEF Locals
    <3> QED BY <3>3, <3>4 DEF RC!End
  <2>4. ASSUME NEW r \in Runners, Die(r) \/ RefuseRetrieval(r) PROVE RC!Leave(r)
    <3>1. pc[r] # "idle" /\ UNCHANGED state /\ pc' = [pc EXCEPT ![r] = "idle"]
      BY <2>4 DEF Die, RefuseRetrieval, Forget
    <3>2. PhaseOf(pc[r]) \in {"starting", "running"} /\ PhaseOf("idle") = "off" /\ "idle" \in Labels
      BY <3>1 DEF PhaseOf, Labels
    <3>3. RC!Move(r, PhaseOf(pc[r]), "off")
      BY <3>1, <3>2, PhaseMoves
    <3> QED BY <3>1, <3>2, <3>3 DEF RC!Leave
  <2>5. ASSUME UNCHANGED state, \A r \in Runners : PhaseOf(pc'[r]) = PhaseOf(pc[r])
        PROVE  UNCHANGED RC!vars
    BY <2>5 DEF RC!vars
  <2>6. ASSUME NEW r \in Runners, NEW to \in Labels, UNCHANGED state,
               pc' = [pc EXCEPT ![r] = to], PhaseOf(to) = PhaseOf(pc[r])
        PROVE  UNCHANGED RC!vars
    <3>1. \A q \in Runners : PhaseOf(pc'[q]) = PhaseOf(pc[q])
      BY <2>6 DEF TypeOK
    <3> QED BY <2>5, <2>6, <3>1
  <2>7. ASSUME UNCHANGED <<state, pc>> PROVE UNCHANGED RC!vars
    BY <2>5, <2>7
  <2>8. ASSUME NEW r \in Runners, Boot(r), ~SetRunning(r) PROVE UNCHANGED RC!vars
    <3>1. CASE Reconcile(r)
      BY <2>7, <3>1 DEF Reconcile
    <3>2. CASE ReadCommitted(r) \/ ReadTrace(r) \/ OpenWorktree(r) \/ LoadContext(r)
      <4>1. PICK to \in Labels : /\ UNCHANGED state /\ pc' = [pc EXCEPT ![r] = to]
                                 /\ \/ pc[r] \in {"committed", "trace"} /\ to \in {"trace", "reconcile"}
                                    \/ pc[r] \in {"open", "load"} /\ to \in {"load", "gate"}
        BY <3>2 DEF ReadCommitted, ReadTrace, OpenWorktree, LoadContext, Labels
      <4>2. PhaseOf(to) = PhaseOf(pc[r])
        BY <4>1 DEF PhaseOf
      <4> QED BY <2>6, <4>1, <4>2
    <3> QED BY <2>8, <3>1, <3>2 DEF Boot
  <2>9. ASSUME NEW r \in Runners, Loop(r) \/ Effect(r) \/ Record(r) \/ Decide(r)
        PROVE  UNCHANGED RC!vars
    <3> DEFINE Inside == Labels \ {"idle", "committed", "trace", "reconcile"}
    <3>1. UNCHANGED state /\ pc[r] \in Inside
      <4>1. CASE Loop(r)
        BY <4>1 DEF Loop, GateBreach, GatePass, ReplayStep, FreshStep, CallModel, Labels
      <4>2. CASE Effect(r)
        BY <4>2 DEF Effect, RetrieveDefinition, RetrieveOther, ReadSpan, CheckArtifact,
             RecordArtifact, ApplyOp, PlanRename, RenameSkip, RenameFile, RenameDone,
             Verify, Labels
      <4>3. CASE Record(r)
        BY <4>3 DEF Record, AppendRow, CheckCharge, CommitCharge, BumpTokens, Labels
      <4>4. CASE Decide(r)
        BY <4>4 DEF Decide, GiveUp, Succeed, OutOfRepairs, Repair, Advance,
             MergeWorktree, MergeConflict, Labels
      <4> QED BY <2>9, <4>1, <4>2, <4>3, <4>4
    <3>2. \E to \in Inside : pc' = [pc EXCEPT ![r] = to]
      <4>1. CASE Loop(r)
        BY <4>1 DEF Loop, GateBreach, GatePass, ReplayStep, FreshStep, CallModel,
             StopWith, EffectOf, Labels
      <4>2. CASE Effect(r)
        <5>1. CASE pc' = pc
          BY <3>1, <5>1 DEF TypeOK
        <5>2. CASE pc' # pc
          BY <4>2, <5>2 DEF Effect, RetrieveDefinition, RetrieveOther, ReadSpan,
               CheckArtifact, RecordArtifact, ApplyOp, PlanRename, RenameSkip, RenameFile,
               RenameDone, Verify, Labels
        <5> QED BY <5>1, <5>2
      <4>3. CASE Record(r)
        BY <4>3 DEF Record, AppendRow, CheckCharge, CommitCharge, BumpTokens, Labels
      <4>4. CASE Decide(r)
        BY <4>4 DEF Decide, GiveUp, Succeed, OutOfRepairs, Repair, Advance,
             MergeWorktree, MergeConflict, StopWith, Labels
      <4> QED BY <2>9, <4>1, <4>2, <4>3, <4>4
    <3>3. PICK to \in Inside : pc' = [pc EXCEPT ![r] = to]
      BY <3>2
    <3>4. to \in Labels /\ PhaseOf(to) = "running" /\ PhaseOf(pc[r]) = "running"
      BY <3>1 DEF PhaseOf
    <3> QED BY <2>6, <3>1, <3>3, <3>4
  <2>10. CASE UNCHANGED vars
    BY <2>7, <2>10 DEF vars
  <2> QED BY <2>1, <2>2, <2>3, <2>4, <2>8, <2>9, <2>10
          DEF Next, Run, Finish, ResumeTerminal, Abandoned, RC!Next
<1> QED BY <1>1, <1>2, TypeInvariant, PTL DEF Spec, ImplementsRunContract, RC!Spec

=============================================================================
