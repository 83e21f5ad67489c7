--------------------------- MODULE GatewayProofs ---------------------------
(***************************************************************************)
(* Theorems about the HTTP gateway, for any number of pool threads, users, *)
(* keys, tasks and requests, and any limit and window: what a caller is    *)
(* shown, what create_task answers, and how far threads that enter the     *)
(* limiter out of the order of their stamps can push it.                   *)
(***************************************************************************)
EXTENDS Gateway, FiniteSetTheorems, WellFoundedInduction, TLAPS

-----------------------------------------------------------------------------
(* Types                                                                   *)

LoopStates == {"off", "reading", "starting", "running", "ended", "raised"}
RowStates  == {"PENDING", "RUNNING"} \union Terminal

TaskRow == [user : {KeyUser[k] : k \in Keys}, state : RowStates]
Runs    == [submit : LoopStates, resume : LoopStates]
Reply   == [status : Nat, shown : SUBSET Nat, state : RowStates \union {"none"}]

\* Where a thread is once it has authenticated, and before its answer.
Serving == {"stamp", "limit", "handle", "submit", "trace", "traces"}

ThreadTypes ==
  /\ pc \in [Threads -> {"idle", "open", "auth", "answered"} \union Serving]
  /\ key \in [Threads -> Keys \union {NoKey}]
  /\ stamp \in [Threads -> Nat] /\ task \in [Threads -> Nat]
  /\ resp \in [Threads -> Reply]

TableTypes ==
  /\ tasks \in Seq(TaskRow) /\ loop \in Seq(Runs) /\ Len(loop) = Len(tasks)
  /\ resumed \subseteq Nat

LimitTypes ==
  /\ clock \in Nat
  /\ hits \in [Keys -> Seq(Nat)] /\ admitted \in [Keys -> Seq(Nat)]

\* The thread has a key exactly while it serves one, and no answer before one
\* is given; a task it is about to read is there and is its caller's.
ThreadInv ==
  \A t \in Threads :
    /\ pc[t] \in Serving => key[t] \in Keys
    /\ pc[t] \notin {"traces", "answered"} => resp[t] = NoAnswer
    /\ pc[t] = "traces" => resp[t].status = 0
    /\ pc[t] \in {"submit", "trace"} =>
         task[t] \in DOMAIN tasks /\ tasks[task[t]].user = Caller(t)

GTypeInv == ThreadTypes /\ TableTypes /\ LimitTypes /\ ThreadInv /\ OwnRowsOnly

-----------------------------------------------------------------------------
\* Ownership and types hold of the empty system.
LEMMA GatewayInit == Init => GTypeInv
<1> SUFFICES ASSUME Init PROVE GTypeInv
  OBVIOUS
<1>1. ThreadTypes
  BY DEF Init, ThreadTypes, Reply, NoAnswer, NoTask, RowStates
<1>2. TableTypes
  BY DEF Init, TableTypes
<1>3. LimitTypes
  BY DEF Init, LimitTypes
<1>4. ThreadInv /\ OwnRowsOnly
  BY DEF Init, ThreadInv, OwnRowsOnly, NoAnswer, Serving
<1> QED BY <1>1, <1>2, <1>3, <1>4 DEF GTypeInv

\* Rows are added, never removed or given away.
RowsKept ==
  /\ DOMAIN tasks \subseteq DOMAIN tasks'
  /\ \A x \in DOMAIN tasks : tasks'[x].user = tasks[x].user

\* What ThreadInv and OwnRowsOnly say of one thread.
ThreadGood(t) ==
  /\ pc[t] \in Serving => key[t] \in Keys
  /\ pc[t] \notin {"traces", "answered"} => resp[t] = NoAnswer
  /\ pc[t] = "traces" => resp[t].status = 0
  /\ pc[t] \in {"submit", "trace"} =>
       task[t] \in DOMAIN tasks /\ tasks[task[t]].user = Caller(t)
  /\ \A x \in resp[t].shown :
       key[t] \in Keys /\ x \in DOMAIN tasks /\ tasks[x].user = Caller(t)

\* A step of one thread: the others' state stands as it was.
LEMMA OtherThreads ==
  ASSUME ThreadTypes, ThreadInv, OwnRowsOnly, NEW t \in Threads, RowsKept,
         \A u \in Threads \ {t} : /\ pc'[u] = pc[u] /\ key'[u] = key[u]
                                  /\ task'[u] = task[u] /\ resp'[u] = resp[u],
         ThreadGood(t)'
  PROVE  ThreadInv' /\ OwnRowsOnly'
<1>1. \A u \in Threads \ {t} : ThreadGood(u)'
  BY DEF ThreadGood, ThreadInv, OwnRowsOnly, RowsKept, Caller
<1>2. \A u \in Threads : ThreadGood(u)'
  BY <1>1
<1> QED BY <1>2 DEF ThreadGood, ThreadInv, OwnRowsOnly

\* A thread that has answered shows its caller's rows, or nothing.
LEMMA GoodAnswer ==
  ASSUME NEW t \in Threads, pc'[t] = "answered",
         \A x \in resp'[t].shown :
           key'[t] \in Keys /\ x \in DOMAIN tasks' /\ tasks'[x].user = Caller(t)'
  PROVE  ThreadGood(t)'
BY DEF ThreadGood, Serving

\* A thread on its way to an answer has none, and knows its caller.
LEMMA GoodProgress ==
  ASSUME NEW t \in Threads, resp'[t] = NoAnswer,
         pc'[t] \notin {"answered", "traces", "submit", "trace"},
         pc'[t] \in Serving => key'[t] \in Keys
  PROVE  ThreadGood(t)'
BY DEF ThreadGood, NoAnswer

\* What a thread does before its handler.
LEMMA BeforeHandler ==
  ASSUME GTypeInv, NEW t \in Threads,
         (\E r \in Requests : Receive(t, r)) \/ Authenticate(t) \/ ReadClock(t) \/ CheckLimit(t)
  PROVE  ThreadTypes' /\ TableTypes' /\ ThreadInv' /\ OwnRowsOnly'
<1> USE DEF GTypeInv
<1>0. RowsKept /\ TableTypes'
  BY DEF Receive, Authenticate, ReadClock, CheckLimit, Goto, Answer, db, limits, RowsKept, TableTypes
<1>1. /\ pc[t] \in Serving => key[t] \in Keys
      /\ pc[t] \notin {"traces", "answered"} => resp[t] = NoAnswer
  BY DEF ThreadInv
<1>2. ASSUME NEW r \in Requests, Receive(t, r)
      PROVE  ThreadTypes' /\ ThreadInv' /\ OwnRowsOnly'
  <2>1. ThreadTypes'
    BY <1>2 DEF Receive, Goto, ThreadTypes, Serving
  <2>2. ThreadGood(t)'
    BY <1>1, <1>2, GoodProgress DEF Receive, Goto, ThreadTypes, Serving
  <2> QED BY <1>0, <1>2, <2>1, <2>2, OtherThreads DEF Receive, Goto, ThreadTypes
<1>3. CASE Authenticate(t)
  <2>1. ThreadTypes'
    BY <1>3 DEF Authenticate, Goto, Answer, ThreadTypes, Serving, Reply
  <2>2. CASE resp' = resp
    <3>1. pc'[t] \in {"handle", "stamp"} /\ key'[t] \in Keys /\ resp'[t] = NoAnswer
      BY <1>1, <1>3, <2>2 DEF Authenticate, Goto, Answer, ThreadTypes, NoAnswer, Reply
    <3>2. ThreadGood(t)'
      BY <3>1, GoodProgress
    <3> QED BY <1>0, <1>3, <2>1, <3>2, OtherThreads DEF Authenticate, Goto, Answer, ThreadTypes
  <2>3. CASE resp' # resp
    <3>1. pc'[t] = "answered" /\ resp'[t].shown = {}
      BY <1>3, <2>3 DEF Authenticate, Answer, ThreadTypes
    <3>2. ThreadGood(t)'
      BY <3>1, GoodAnswer
    <3> QED BY <1>0, <1>3, <2>1, <3>2, OtherThreads DEF Authenticate, Goto, Answer, ThreadTypes
  <2> QED BY <2>1, <2>2, <2>3
<1>4. CASE ReadClock(t)
  <2>1. ThreadTypes'
    BY <1>4 DEF ReadClock, Goto, ThreadTypes, Serving, LimitTypes
  <2>2. ThreadGood(t)'
    BY <1>1, <1>4, GoodProgress DEF ReadClock, Goto, ThreadTypes, Serving
  <2> QED BY <1>0, <1>4, <2>1, <2>2, OtherThreads DEF ReadClock, Goto, ThreadTypes
<1>5. CASE CheckLimit(t)
  <2> DEFINE refusal == [status |-> 429, shown |-> {}, state |-> "none"]
  <2>0. /\ pc[t] = "limit" /\ UNCHANGED <<key, stamp, task>>
        /\ \/ pc' = [pc EXCEPT ![t] = "answered"] /\ resp' = [resp EXCEPT ![t] = refusal]
           \/ pc' = [pc EXCEPT ![t] = "handle"] /\ resp' = resp
    BY <1>5 DEF CheckLimit, Goto, Answer
  <2>1. refusal \in Reply
    BY DEF Reply
  <2>2. ThreadTypes'
    BY <2>0, <2>1 DEF ThreadTypes, Serving
  <2>3. \/ pc'[t] = "answered" /\ resp'[t].shown = {}
        \/ pc'[t] = "handle" /\ key'[t] \in Keys /\ resp'[t] = NoAnswer
    BY <2>0, <1>1 DEF ThreadTypes, Serving
  <2>4. ThreadGood(t)'
    BY <2>3, GoodAnswer, GoodProgress
  <2> QED BY <1>0, <2>0, <2>2, <2>4, OtherThreads DEF ThreadTypes
<1> QED BY <1>0, <1>2, <1>3, <1>4, <1>5

\* What is shown of a set of rows the caller owns, the rows standing still.
LEMMA OwnedAnswer ==
  ASSUME GTypeInv, NEW t \in Threads, NEW shown \in SUBSET Owned(Caller(t)), key[t] \in Keys,
         NEW status \in Nat, NEW state \in RowStates \union {"none"},
         Answer(t, status, shown, state), UNCHANGED <<tasks, key>>
  PROVE  ThreadGood(t)' /\ resp' \in [Threads -> Reply] /\ pc' = [pc EXCEPT ![t] = "answered"]
<1> USE DEF GTypeInv
<1>1. shown \in SUBSET Nat
  BY DEF Owned, TableTypes
<1>2. [status |-> status, shown |-> shown, state |-> state] \in Reply
  BY <1>1 DEF Reply
<1>3. resp' \in [Threads -> Reply] /\ pc' = [pc EXCEPT ![t] = "answered"]
  BY <1>2 DEF Answer, ThreadTypes
<1>4. pc'[t] = "answered" /\ resp'[t].shown = shown
  BY <1>3 DEF Answer, ThreadTypes
<1>5. ThreadGood(t)'
  BY <1>4, GoodAnswer DEF Owned, Caller
<1> QED BY <1>3, <1>5

\* An answer that shows nothing.
LEMMA EmptyAnswer ==
  ASSUME GTypeInv, NEW t \in Threads, NEW status \in Nat, Answer(t, status, {}, "none")
  PROVE  ThreadGood(t)' /\ resp' \in [Threads -> Reply] /\ pc' = [pc EXCEPT ![t] = "answered"]
<1> USE DEF GTypeInv
<1>1. [status |-> status, shown |-> {}, state |-> "none"] \in Reply
  BY DEF Reply
<1>2. resp' \in [Threads -> Reply] /\ pc' = [pc EXCEPT ![t] = "answered"]
  BY <1>1 DEF Answer, ThreadTypes
<1>3. pc'[t] = "answered" /\ resp'[t].shown = {}
  BY <1>2 DEF Answer, ThreadTypes
<1>4. ThreadGood(t)'
  BY <1>3, GoodAnswer
<1> QED BY <1>2, <1>4

\* The handlers, each a read of its own or an insert.
LEMMA Handlers ==
  ASSUME GTypeInv, NEW t \in Threads,
         \/ ServeOpen(t) \/ CreateTask(t) \/ Reread(t) \/ SubmitRaised(t)
         \/ FindTask(t) \/ ReadTrace(t) \/ ListTasks(t) \/ ReadTraces(t) \/ Respond(t)
  PROVE  ThreadTypes' /\ TableTypes' /\ ThreadInv' /\ OwnRowsOnly'
<1>a. \A shown \in SUBSET Owned(Caller(t)) :
        key[t] \in Keys /\ Answer(t, 200, shown, "none") /\ UNCHANGED <<tasks, key>> =>
          ThreadGood(t)' /\ resp' \in [Threads -> Reply] /\ pc' = [pc EXCEPT ![t] = "answered"]
  BY OwnedAnswer, 200 \in Nat
<1>b. \A shown \in SUBSET Owned(Caller(t)), state \in RowStates :
        key[t] \in Keys /\ Answer(t, 200, shown, state) /\ UNCHANGED <<tasks, key>> =>
          ThreadGood(t)' /\ resp' \in [Threads -> Reply] /\ pc' = [pc EXCEPT ![t] = "answered"]
  BY OwnedAnswer, 200 \in Nat
<1> USE DEF GTypeInv
<1>0. ASSUME UNCHANGED db PROVE RowsKept /\ TableTypes'
  BY <1>0 DEF db, RowsKept, TableTypes
<1>1. /\ pc[t] \in Serving => key[t] \in Keys
      /\ pc[t] \notin {"traces", "answered"} => resp[t] = NoAnswer
      /\ pc[t] \in {"submit", "trace"} => task[t] \in Owned(Caller(t))
      /\ key[t] \in Keys => resp[t].shown \subseteq Owned(Caller(t))
      /\ resp[t].shown # {} => key[t] \in Keys
  BY DEF ThreadInv, OwnRowsOnly, Owned
<1>2. ASSUME RowsKept, TableTypes', ThreadGood(t)', resp' \in [Threads -> Reply],
             pc' = [pc EXCEPT ![t] = "answered"], UNCHANGED <<key, stamp>>,
             task' = task \/ \E x \in Nat : task' = [task EXCEPT ![t] = x],
             \A u \in Threads \ {t} : resp'[u] = resp[u]
      PROVE  ThreadTypes' /\ TableTypes' /\ ThreadInv' /\ OwnRowsOnly'
  <2>1. ThreadTypes'
    BY <1>2 DEF ThreadTypes, Serving
  <2> QED BY <1>2, <2>1, OtherThreads DEF ThreadTypes
<1>3. ASSUME NEW status, NEW shown, NEW state, Answer(t, status, shown, state)
      PROVE  \A u \in Threads \ {t} : resp'[u] = resp[u]
  BY <1>3 DEF Answer, ThreadTypes
<1>4. CASE ServeOpen(t)
  <2>1. PICK status \in {200, 503} : Answer(t, status, {}, "none")
    BY <1>4 DEF ServeOpen
  <2> QED BY <1>0, <1>2, <1>3, <1>4, <2>1, EmptyAnswer DEF ServeOpen
<1>5. CASE Reread(t)
  <2>1. pc[t] = "submit" /\ task[t] \in Owned(Caller(t)) /\ key[t] \in Keys
    BY <1>1, <1>5 DEF Reread, Serving
  <2>2. Answer(t, 202, {task[t]}, tasks[task[t]].state)
    BY <1>5, <2>1 DEF Reread
  <2>3. tasks[task[t]].state \in RowStates
    <3>1. tasks[task[t]] \in TaskRow
      BY <2>1 DEF Owned, TableTypes
    <3> QED BY <3>1 DEF TaskRow
  <2>4. UNCHANGED <<db, tasks, key, stamp, task>>
    BY <1>5 DEF Reread, db
  <2>5. ThreadGood(t)' /\ resp' \in [Threads -> Reply] /\ pc' = [pc EXCEPT ![t] = "answered"]
    BY <2>1, <2>2, <2>3, <2>4, OwnedAnswer
  <2> QED BY <1>0, <1>2, <1>3, <2>2, <2>4, <2>5
<1>6. CASE SubmitRaised(t)
  <2>1. PICK status \in {402, 500} : Answer(t, status, {}, "none")
    BY <1>6 DEF SubmitRaised
  <2> QED BY <1>0, <1>2, <1>3, <1>6, <2>1, EmptyAnswer DEF SubmitRaised
<1>7. CASE ReadTrace(t)
  <2>1. key[t] \in Keys /\ {task[t]} \in SUBSET Owned(Caller(t))
    BY <1>1, <1>7 DEF ReadTrace, Serving
  <2>2. UNCHANGED <<db, tasks, key, stamp, task>> /\ Answer(t, 200, {task[t]}, "none")
    BY <1>7 DEF ReadTrace, db
  <2>3. ThreadGood(t)' /\ resp' \in [Threads -> Reply] /\ pc' = [pc EXCEPT ![t] = "answered"]
    <3> HIDE DEF GTypeInv
    <3> QED BY <2>1, <2>2, <1>a
  <2> QED BY <1>0, <1>2, <1>3, <2>2, <2>3
<1>8. CASE ReadTraces(t)
  <2>1. key[t] \in Keys /\ resp[t].shown \in SUBSET Owned(Caller(t))
    BY <1>1, <1>8 DEF ReadTraces, Serving
  <2>2. UNCHANGED <<db, tasks, key, stamp, task>> /\ Answer(t, 200, resp[t].shown, "none")
    BY <1>8 DEF ReadTraces, db
  <2>3. ThreadGood(t)' /\ resp' \in [Threads -> Reply] /\ pc' = [pc EXCEPT ![t] = "answered"]
    BY <2>1, <2>2, <1>a
  <2>4. \A u \in Threads \ {t} : resp'[u] = resp[u]
    BY <2>2 DEF Answer, ThreadTypes
  <2>5. RowsKept /\ TableTypes'
    BY <1>0, <2>2
  <2> QED BY <1>2, <2>2, <2>3, <2>4, <2>5
<1>9. CASE Respond(t)
  <2>1. ThreadTypes'
    BY <1>9 DEF Respond, Goto, ThreadTypes, Reply, NoAnswer, NoTask, RowStates
  <2>2. pc'[t] = "idle" /\ resp'[t] = NoAnswer
    BY <1>9 DEF Respond, Goto, ThreadTypes
  <2>3. ThreadGood(t)'
    BY <2>2, GoodProgress DEF Serving
  <2> QED BY <1>0, <1>9, <2>1, <2>3, OtherThreads DEF Respond, Goto, ThreadTypes
<1>10. CASE ListTasks(t)
  <2>1. pc[t] = "handle" /\ key[t] \in Keys /\ UNCHANGED <<db, tasks, key, stamp, task>>
    BY <1>1, <1>10 DEF ListTasks, Serving, db
  <2>2. CASE Answer(t, 200, Owned(Caller(t)), "none")
    <3>1. ThreadGood(t)' /\ resp' \in [Threads -> Reply] /\ pc' = [pc EXCEPT ![t] = "answered"]
      BY <2>1, <2>2, OwnedAnswer
    <3> QED BY <1>0, <1>2, <1>3, <2>1, <2>2, <3>1
  <2>3. CASE /\ Goto(t, "handle", "traces")
             /\ resp' = [resp EXCEPT ![t].shown = Owned(Caller(t))]
    <3>1. Owned(Caller(t)) \in SUBSET Nat
      BY DEF Owned, TableTypes
    <3>2. [resp[t] EXCEPT !.shown = Owned(Caller(t))] \in Reply
      BY <3>1 DEF ThreadTypes, Reply
    <3>3. ThreadTypes'
      BY <2>1, <2>3, <3>2 DEF Goto, ThreadTypes, Serving
    <3>4. pc'[t] = "traces" /\ resp'[t].shown = Owned(Caller(t)) /\ resp'[t].status = 0
      BY <1>1, <2>1, <2>3 DEF Goto, ThreadTypes, Reply, NoAnswer
    <3>5. ThreadGood(t)'
      BY <2>1, <3>4 DEF ThreadGood, Owned, Caller, Serving
    <3> QED BY <1>0, <2>1, <2>3, <3>3, <3>5, OtherThreads DEF Goto, ThreadTypes
  <2> QED BY <1>10, <2>2, <2>3 DEF ListTasks
<1>11. CASE FindTask(t)
  <2> DEFINE x == req[t].arg
  <2>1. pc[t] = "handle" /\ key[t] \in Keys /\ UNCHANGED <<db, tasks, key, stamp>>
    BY <1>1, <1>11 DEF FindTask, Serving, db
  <2>2. CASE x \notin Owned(Caller(t))
    <3>1. task' = task
      BY <1>11, <2>2 DEF FindTask
    <3>2. PICK status \in {200, 404} : Answer(t, status, {}, "none")
      BY <1>11, <2>2 DEF FindTask
    <3>3. ThreadGood(t)' /\ resp' \in [Threads -> Reply] /\ pc' = [pc EXCEPT ![t] = "answered"]
      BY <3>2, EmptyAnswer
    <3> QED BY <1>0, <1>2, <1>3, <2>1, <3>1, <3>2, <3>3
  <2>3. CASE x \in Owned(Caller(t))
    <3>1. x \in Nat /\ tasks[x].state \in RowStates /\ {x} \in SUBSET Owned(Caller(t))
      <4>1. x \in DOMAIN tasks
        BY <2>3 DEF Owned
      <4>2. tasks[x] \in TaskRow /\ x \in Nat
        BY <4>1 DEF TableTypes
      <4> QED BY <2>3, <4>2 DEF TaskRow
    <3>2. task' = [task EXCEPT ![t] = x]
      BY <1>11, <2>3 DEF FindTask
    <3>3. CASE Answer(t, 200, {x}, tasks[x].state)
      <4>1. ThreadGood(t)' /\ resp' \in [Threads -> Reply] /\ pc' = [pc EXCEPT ![t] = "answered"]
        <5> HIDE DEF GTypeInv, x
        <5>1. UNCHANGED <<tasks, key>>
          BY <2>1
        <5> QED BY <2>1, <3>1, <3>3, <5>1, <1>b
      <4> QED BY <1>0, <1>2, <1>3, <2>1, <3>1, <3>2, <3>3, <4>1
    <3>4. CASE Goto(t, "handle", "trace") /\ UNCHANGED resp
      <4>1. ThreadTypes'
        BY <2>1, <3>1, <3>2, <3>4 DEF Goto, ThreadTypes, Serving
      <4>2. pc'[t] = "trace" /\ resp'[t] = NoAnswer /\ task'[t] = x
        BY <1>1, <2>1, <3>2, <3>4 DEF Goto, ThreadTypes
      <4>3. ThreadGood(t)'
        BY <2>1, <2>3, <4>2 DEF ThreadGood, Owned, Caller, Serving, NoAnswer
      <4> QED BY <1>0, <2>1, <3>2, <3>4, <4>1, <4>3, OtherThreads DEF Goto, ThreadTypes
    <3> QED BY <1>11, <2>3, <3>3, <3>4 DEF FindTask
  <2> QED BY <2>2, <2>3
<1>12. CASE CreateTask(t)
  <2>1. pc[t] = "handle" /\ key[t] \in Keys /\ UNCHANGED <<key, stamp>>
    BY <1>1, <1>12 DEF CreateTask, Serving
  <2>2. CASE Answer(t, 404, {}, "none") /\ UNCHANGED <<db, task>>
    <3>1. ThreadGood(t)' /\ resp' \in [Threads -> Reply] /\ pc' = [pc EXCEPT ![t] = "answered"]
      BY <2>2, EmptyAnswer
    <3> QED BY <1>0, <1>2, <1>3, <2>1, <2>2, <3>1
  <2>3. CASE /\ Goto(t, "handle", "submit")
             /\ tasks' = Append(tasks, [user |-> Caller(t), state |-> "PENDING"])
             /\ loop' = Append(loop, [submit |-> "reading", resume |-> "off"])
             /\ task' = [task EXCEPT ![t] = Len(tasks) + 1]
             /\ UNCHANGED <<resp, resumed>>
    <3>1. [user |-> Caller(t), state |-> "PENDING"] \in TaskRow
      BY <2>1 DEF TaskRow, Caller, RowStates
    <3>2. [submit |-> "reading", resume |-> "off"] \in Runs
      BY DEF Runs, LoopStates
    <3>3. TableTypes'
      BY <2>3, <3>1, <3>2 DEF TableTypes
    <3>4. /\ RowsKept /\ Len(tasks) + 1 \in DOMAIN tasks'
          /\ tasks'[Len(tasks) + 1].user = Caller(t)
      BY <2>3, <3>1 DEF TableTypes, RowsKept
    <3>5. ThreadTypes'
      BY <2>1, <2>3 DEF Goto, ThreadTypes, TableTypes, Serving
    <3>6. pc'[t] = "submit" /\ resp'[t] = NoAnswer /\ task'[t] = Len(tasks) + 1
      BY <1>1, <2>1, <2>3 DEF Goto, ThreadTypes
    <3>7. ThreadGood(t)'
      BY <2>1, <3>4, <3>6 DEF ThreadGood, Caller, Serving, NoAnswer
    <3> QED BY <2>1, <2>3, <3>3, <3>4, <3>5, <3>7, OtherThreads DEF Goto, ThreadTypes
  <2> QED BY <1>12, <2>2, <2>3 DEF CreateTask
<1> QED BY <1>4, <1>5, <1>6, <1>7, <1>8, <1>9, <1>10, <1>11, <1>12

-----------------------------------------------------------------------------
(* The limiter's deque                                                     *)

\* A finite set of naturals that is not empty has a least element: the one with
\* the fewest members below it.
LEMMA LeastExists ==
  ASSUME NEW S \in SUBSET Nat, IsFiniteSet(S), S # {}
  PROVE  \E i \in S : \A j \in S : i <= j
<1> DEFINE Under(s) == {q \in S : q < s}
           R == StrictSubsetOrdering(S)
           Unders == {Under(s) : s \in S}
<1>1. IsWellFoundedOn(R, SUBSET S)
  BY FS_StrictSubsetOrderingWellFounded, FS_FiniteSubsetsOfFinite
<1>2. Unders \subseteq SUBSET S /\ Unders # {}
  OBVIOUS
<1> HIDE DEF R, Unders
<1>3. PICK least \in Unders : \A y \in Unders : ~(<<y, least>> \in R)
  BY <1>1, <1>2, WFMin
<1>4. PICK i \in S : least = Under(i)
  BY <1>3 DEF Unders
<1>5. ASSUME NEW j \in S, j < i PROVE FALSE
  <2>0. \A z \in Under(j) : z \in Under(i)
    BY <1>5
  <2>a. j \in Under(i) /\ j \notin Under(j)
    BY <1>5
  <2>1. Under(j) \subseteq Under(i) /\ j \in Under(i) /\ j \notin Under(j)
    BY <2>0, <2>a
  <2>2. Under(j) \in Unders /\ Under(j) \in SUBSET S /\ Under(i) \in SUBSET S
    BY DEF Unders
  <2> HIDE DEF Under
  <2>3. <<Under(j), least>> \in R
    BY <2>1, <2>2, <1>4 DEF R, StrictSubsetOrdering
  <2> QED BY <2>2, <2>3, <1>3
<1>6. \A j \in S : i <= j
  BY <1>5
<1> QED BY <1>6

\* popleft drops a prefix, of stamps outside the window; what is left is empty
\* or begins with one inside it.
LEMMA PrunedIsSuffix ==
  ASSUME NEW dq \in Seq(Nat), NEW c \in Int
  PROVE  LET left == Pruned(dq, c)
             off  == Len(dq) - Len(left)
         IN  /\ left \in Seq(Nat) /\ off \in 0..Len(dq)
             /\ \A i \in 1..Len(left) : left[i] = dq[off + i]
             /\ \A i \in 1..off : dq[i] <= c
             /\ Len(left) > 0 => left[1] > c
<1> DEFINE keep == {i \in DOMAIN dq : dq[i] > c}
<1>1. CASE keep = {}
  <2>1. Pruned(dq, c) = <<>>
    BY <1>1 DEF Pruned
  <2>2. \A i \in 1..Len(dq) : dq[i] <= c
    BY <1>1
  <2> QED BY <2>1, <2>2
<1>2. CASE keep # {}
  <2> DEFINE h == CHOOSE i \in keep : \A j \in keep : i <= j
  <2>1. h \in keep /\ \A j \in keep : h <= j
    <3>0. IsFiniteSet(1..Len(dq))
      BY FS_Interval, Len(dq) \in Int
    <3>1. keep \in SUBSET Nat /\ keep \subseteq 1..Len(dq)
      OBVIOUS
    <3>2. IsFiniteSet(keep)
      BY <3>0, <3>1, FS_Subset
    <3> QED BY <1>2, <3>1, <3>2, LeastExists
  <2>2. Pruned(dq, c) = SubSeq(dq, h, Len(dq))
    BY <1>2 DEF Pruned
  <2> HIDE DEF h
  <2>3. h \in 1..Len(dq) /\ dq[h] > c /\ \A i \in 1..(h - 1) : dq[i] <= c
    BY <2>1
  <2> DEFINE left == SubSeq(dq, h, Len(dq))
  <2>4. left \in Seq(Nat) /\ Len(left) = Len(dq) - h + 1
    BY <2>3
  <2>5. \A i \in 1..Len(left) : left[i] = dq[h - 1 + i]
    BY <2>3, <2>4
  <2> QED BY <2>2, <2>3, <2>4, <2>5
<1> QED BY <1>1, <1>2

\* CheckLimit, in the terms of the limiter: the deque pruned by the stamp, and
\* the stamp refused or appended.
LEMMA CheckLimitStep ==
  ASSUME GTypeInv, NEW t \in Threads, CheckLimit(t)
  PROVE  /\ pc[t] = "limit" /\ key[t] \in Keys /\ pc'[t] # "limit"
         /\ \A u \in Threads \ {t} : pc'[u] = pc[u] /\ resp'[u] = resp[u]
         /\ UNCHANGED <<clock, key, stamp>>
         /\ LET k == key[t]
                dq == Pruned(hits[k], stamp[t] - Window)
            IN  \/ /\ Len(dq) >= KeyLimit[k]
                   /\ hits' = [hits EXCEPT ![k] = dq] /\ admitted' = admitted
                \/ /\ Len(dq) < KeyLimit[k]
                   /\ hits' = [hits EXCEPT ![k] = Append(dq, stamp[t])]
                   /\ admitted' = [admitted EXCEPT ![k] = Append(@, stamp[t])]
                   /\ resp' = resp
<1>1. pc[t] = "limit" /\ key[t] \in Keys
  BY DEF CheckLimit, GTypeInv, ThreadInv, Serving
<1>2. pc'[t] # "limit" /\ \A u \in Threads \ {t} : pc'[u] = pc[u] /\ resp'[u] = resp[u]
  BY DEF CheckLimit, Goto, Answer, GTypeInv, ThreadTypes
<1> QED BY <1>1, <1>2 DEF CheckLimit

\* The limiter's clock and stamps are numbers.
LEMMA LimitTypesKept ==
  ASSUME GTypeInv, Next
  PROVE  LimitTypes'
<1> USE DEF GTypeInv
<1>1. ASSUME UNCHANGED <<hits, admitted>>, clock' \in Nat PROVE LimitTypes'
  BY <1>1 DEF LimitTypes
<1>2. CASE Tick
  BY <1>1, <1>2 DEF Tick, LimitTypes
<1>3. ASSUME NEW t \in Threads, CheckLimit(t) PROVE LimitTypes'
  <2> DEFINE k == key[t]
             dq == Pruned(hits[k], stamp[t] - Window)
  <2>1. stamp[t] \in Nat /\ hits[k] \in Seq(Nat) /\ admitted[k] \in Seq(Nat) /\ k \in Keys
    BY <1>3, CheckLimitStep DEF ThreadTypes, LimitTypes
  <2>a. stamp[t] - Window \in Int
    BY <2>1, GatewayAssumption
  <2>2. dq \in Seq(Nat)
    BY <2>1, <2>a, PrunedIsSuffix
  <2> HIDE DEF dq
  <2>3. Append(dq, stamp[t]) \in Seq(Nat) /\ Append(admitted[k], stamp[t]) \in Seq(Nat)
    BY <2>1, <2>2
  <2>4. \/ hits' = [hits EXCEPT ![k] = dq] /\ admitted' = admitted
        \/ /\ hits' = [hits EXCEPT ![k] = Append(dq, stamp[t])]
           /\ admitted' = [admitted EXCEPT ![k] = Append(admitted[k], stamp[t])]
    BY <1>3, CheckLimitStep DEF dq
  <2>5. clock' = clock
    BY <1>3, CheckLimitStep
  <2> QED BY <2>1, <2>2, <2>3, <2>4, <2>5 DEF LimitTypes
<1>4. ASSUME NEW t \in Threads, (\E r \in Requests : Receive(t, r)) \/ ThreadStep(t), ~CheckLimit(t)
      PROVE  UNCHANGED limits
  BY <1>4 DEF Receive, ThreadStep, Authenticate, ReadClock, ServeOpen, CreateTask, Reread,
     SubmitRaised, FindTask, ReadTrace, ListTasks, ReadTraces, Respond
<1>5. ASSUME NEW x \in DOMAIN tasks, Resume(x) \/ \E w \in {"submit", "resume"} : Run(x, w)
      PROVE  UNCHANGED limits
  BY <1>5 DEF Resume, Run, BeginRun, SetRunning, EndRun, Raise, outside
<1> QED BY <1>1, <1>2, <1>3, <1>4, <1>5 DEF Next, limits, LimitTypes

\* A run of a task writes its state and where the run is; the row stays where it
\* is and whose it is.
LEMMA TaskSteps ==
  ASSUME GTypeInv, NEW x \in DOMAIN tasks,
         Resume(x) \/ \E w \in {"submit", "resume"} : Run(x, w)
  PROVE  TableTypes' /\ RowsKept /\ UNCHANGED outside /\ Len(tasks') = Len(tasks)
<1> USE DEF GTypeInv
<1>1. UNCHANGED outside
  BY DEF Resume, Run, BeginRun, SetRunning, EndRun, Raise
<1>2. PICK w \in {"submit", "resume"}, to \in LoopStates : loop' = [loop EXCEPT ![x][w] = to]
  BY DEF Resume, Run, BeginRun, SetRunning, EndRun, Raise, LoopAt, LoopStates
<1>3. tasks' = tasks \/ \E s \in RowStates : tasks' = [tasks EXCEPT ![x].state = s]
  BY DEF Resume, Run, BeginRun, SetRunning, EndRun, Raise, RowStates
<1>4. resumed' \subseteq resumed \union {x}
  BY DEF Resume, Run, BeginRun, SetRunning, EndRun, Raise
<1>5. tasks[x] \in TaskRow /\ loop[x] \in Runs /\ x \in Nat /\ x \in 1..Len(tasks)
  BY DEF TableTypes
<1>6. [loop[x] EXCEPT ![w] = to] \in Runs
  BY <1>5 DEF Runs
<1>7. loop' \in Seq(Runs) /\ Len(loop') = Len(loop)
  BY <1>2, <1>5, <1>6 DEF TableTypes
<1>8. tasks' \in Seq(TaskRow) /\ Len(tasks') = Len(tasks) /\ RowsKept
  <2>1. CASE tasks' = tasks
    BY <2>1 DEF TableTypes, RowsKept
  <2>2. ASSUME NEW s \in RowStates, tasks' = [tasks EXCEPT ![x].state = s]
        PROVE  tasks' \in Seq(TaskRow) /\ Len(tasks') = Len(tasks) /\ RowsKept
    <3>1. [tasks[x] EXCEPT !.state = s] \in TaskRow /\ [tasks[x] EXCEPT !.state = s].user = tasks[x].user
      BY <1>5 DEF TaskRow
    <3>2. tasks' = [tasks EXCEPT ![x] = [tasks[x] EXCEPT !.state = s]]
      BY <2>2
    <3> QED BY <1>5, <3>1, <3>2 DEF TableTypes, RowsKept
  <2> QED BY <1>3, <2>1, <2>2
<1> QED BY <1>1, <1>4, <1>5, <1>7, <1>8 DEF TableTypes

\* Types and ownership are kept by every step.
LEMMA GatewayStep == GTypeInv /\ [Next]_vars => GTypeInv'
<1> SUFFICES ASSUME GTypeInv, [Next]_vars PROVE GTypeInv'
  OBVIOUS
<1>1. CASE UNCHANGED vars
  BY <1>1 DEF vars, GTypeInv, ThreadTypes, TableTypes, LimitTypes, ThreadInv, OwnRowsOnly, Caller
<1>2. CASE Next
  <2>1. LimitTypes'
    BY <1>2, LimitTypesKept
  <2>2. ASSUME RowsKept, TableTypes', UNCHANGED <<pc, key, stamp, task, resp>>
        PROVE  ThreadTypes' /\ TableTypes' /\ ThreadInv' /\ OwnRowsOnly'
    BY <2>2 DEF GTypeInv, RowsKept, ThreadTypes, ThreadInv, OwnRowsOnly, Caller
  <2>3. CASE Tick
    <3>1. RowsKept /\ TableTypes' /\ UNCHANGED <<pc, key, stamp, task, resp>>
      BY <2>3 DEF Tick, db, RowsKept, GTypeInv, TableTypes
    <3> QED BY <2>1, <2>2, <3>1 DEF GTypeInv
  <2>4. ASSUME NEW t \in Threads, (\E r \in Requests : Receive(t, r)) \/ ThreadStep(t)
        PROVE  ThreadTypes' /\ TableTypes' /\ ThreadInv' /\ OwnRowsOnly'
    BY <2>4, BeforeHandler, Handlers DEF ThreadStep
  <2>5. ASSUME NEW x \in DOMAIN tasks, Resume(x) \/ \E w \in {"submit", "resume"} : Run(x, w)
        PROVE  ThreadTypes' /\ TableTypes' /\ ThreadInv' /\ OwnRowsOnly'
    BY <2>2, <2>5, TaskSteps DEF outside
  <2> QED BY <1>2, <2>1, <2>3, <2>4, <2>5 DEF Next, GTypeInv
<1> QED BY <1>1, <1>2

\* The gateway's types and each thread's place are as GTypeInv says, always.
THEOREM GatewayTypes == Spec => []GTypeInv
BY GatewayInit, GatewayStep, PTL DEF Spec

\* No caller is ever shown a row of another user's, whatever the threads, the
\* runs and the order of the reads each route makes.
THEOREM CallersSeeTheirOwn == Spec => []OwnRowsOnly
<1>1. GTypeInv => OwnRowsOnly
  BY DEF GTypeInv
<1> QED BY <1>1, GatewayTypes, PTL

-----------------------------------------------------------------------------
(* What create_task answers                                                *)

\* A submit that has returned left its row terminal, or a resume that found the
\* task unfinished is writing the row too.
RunInv ==
  \A x \in DOMAIN tasks :
    /\ loop[x].submit = "ended" => tasks[x].state \in Terminal \/ x \in resumed
    /\ loop[x].resume \in {"starting", "running"} => x \in resumed

\* The rows the runs write: RunInv through each step of a run.
LEMMA RunInvRuns ==
  ASSUME GTypeInv, RunInv, NEW x \in DOMAIN tasks,
         Resume(x) \/ \E w \in {"submit", "resume"} : Run(x, w)
  PROVE  RunInv' /\ resumed \subseteq resumed'
<1> DEFINE Good(y) == /\ loop[y].submit = "ended" => tasks[y].state \in Terminal \/ y \in resumed
                      /\ loop[y].resume \in {"starting", "running"} => y \in resumed
<1>1. /\ tasks \in Seq(TaskRow) /\ loop \in Seq(Runs) /\ Len(loop) = Len(tasks)
      /\ x \in 1..Len(tasks) /\ loop[x] \in Runs /\ tasks[x] \in TaskRow
  BY DEF GTypeInv, TableTypes
<1>2. DOMAIN tasks' = DOMAIN tasks
  BY <1>1, TaskSteps DEF GTypeInv, TableTypes
<1>3. Good(x)
  BY DEF RunInv
<1>4. resumed \subseteq resumed'
  BY DEF Resume, Run, BeginRun, SetRunning, EndRun, Raise
<1>5. PICK w \in {"submit", "resume"} : Resume(x) \/ Run(x, w)
  OBVIOUS
<1>6. \A y \in DOMAIN tasks \ {x} : tasks'[y] = tasks[y] /\ loop'[y] = loop[y]
  BY <1>1, <1>5 DEF Resume, Run, BeginRun, SetRunning, EndRun, Raise, LoopAt
<1>7. ASSUME NEW v \in {"submit", "resume"}, NEW to \in LoopStates, loop' = [loop EXCEPT ![x][v] = to]
      PROVE  loop'[x] = [loop[x] EXCEPT ![v] = to]
  BY <1>1, <1>7
<1>8. ASSUME NEW s \in RowStates, tasks' = [tasks EXCEPT ![x].state = s]
      PROVE  tasks'[x].state = s
  BY <1>1, <1>8 DEF TaskRow
<1>9. Good(x)'
  <2>1. CASE Resume(x)
    BY <1>1, <1>3, <1>7, <2>1 DEF Resume, LoopAt, Runs, LoopStates
  <2>2. CASE BeginRun(x, w)
    <3>1. CASE tasks[x].state \in Terminal
      BY <1>1, <1>3, <1>7, <2>2, <3>1 DEF BeginRun, LoopAt, Runs, LoopStates
    <3>2. CASE tasks[x].state \notin Terminal
      <4>1. loop'[x] = [loop[x] EXCEPT ![w] = "starting"] /\ tasks' = tasks
        BY <1>7, <2>2, <3>2 DEF BeginRun, LoopAt, LoopStates
      <4>2. resumed' = IF w = "resume" THEN resumed \union {x} ELSE resumed
        BY <2>2, <3>2 DEF BeginRun
      <4> QED BY <1>1, <1>3, <4>1, <4>2 DEF Runs
    <3> QED BY <3>1, <3>2
  <2>3. CASE SetRunning(x, w)
    <3>1. loop[x][w] = "starting" /\ loop'[x] = [loop[x] EXCEPT ![w] = "running"] /\ resumed' = resumed
      BY <1>7, <2>3 DEF SetRunning, LoopAt, LoopStates
    <3> QED BY <1>1, <1>3, <3>1 DEF Runs
  <2>4. CASE EndRun(x, w)
    <3>1. loop'[x] = [loop[x] EXCEPT ![w] = "ended"] /\ resumed' = resumed
      BY <1>7, <2>4 DEF EndRun, LoopAt, LoopStates
    <3>2. tasks'[x].state \in Terminal
      BY <1>8, <2>4 DEF EndRun, RowStates
    <3> QED BY <1>1, <1>3, <3>1, <3>2 DEF Runs
  <2>5. CASE Raise(x, w)
    <3>1. loop'[x] = [loop[x] EXCEPT ![w] = "raised"] /\ resumed' = resumed /\ tasks' = tasks
      BY <1>7, <2>5 DEF Raise, LoopAt, LoopStates
    <3> QED BY <1>1, <1>3, <3>1 DEF Runs
  <2> QED BY <1>5, <2>1, <2>2, <2>3, <2>4, <2>5 DEF Run
<1>10. \A y \in DOMAIN tasks \ {x} : Good(y)'
  BY <1>4, <1>6 DEF RunInv
<1> QED BY <1>2, <1>4, <1>9, <1>10 DEF RunInv

\* A thread's answer becomes a 202 in Reread alone, and a 429 in the limiter alone.
LEMMA WhoAnswersWhat ==
  ASSUME GTypeInv, NEW t \in Threads, (\E r \in Requests : Receive(t, r)) \/ ThreadStep(t)
  PROVE  /\ resp'[t].status = 202 => Reread(t)
         /\ resp'[t].status = 429 => CheckLimit(t)
<1> USE DEF GTypeInv
<1>1. /\ resp \in [Threads -> Reply] /\ pc \in [Threads -> {"idle", "open", "auth", "answered"} \union Serving]
      /\ pc[t] \notin {"traces", "answered"} => resp[t].status = 0
      /\ pc[t] = "traces" => resp[t].status = 0
  BY DEF ThreadInv, ThreadTypes, NoAnswer
<1>2. ASSUME NEW status, NEW shown, NEW state, Answer(t, status, shown, state)
      PROVE  resp'[t].status = status
  BY <1>1, <1>2 DEF Answer
<1>3. CASE \/ (\E r \in Requests : Receive(t, r)) \/ ReadClock(t)
  BY <1>1, <1>3 DEF Receive, ReadClock, Goto
<1>4. CASE Authenticate(t)
  <2>1. pc[t] = "auth" /\ (resp' = resp \/ Answer(t, 401, {}, "none"))
    BY <1>4 DEF Authenticate
  <2> QED BY <1>1, <1>2, <2>1
<1>5. CASE CheckLimit(t)
  <2>1. pc[t] = "limit" /\ (resp' = resp \/ Answer(t, 429, {}, "none"))
    BY <1>5 DEF CheckLimit
  <2> QED BY <1>1, <1>2, <1>5, <2>1
<1>6. CASE ServeOpen(t) \/ SubmitRaised(t) \/ ReadTrace(t) \/ ReadTraces(t)
  <2>1. \E status \in {200, 503, 402, 500}, shown \in {{}, {task[t]}, resp[t].shown} :
          Answer(t, status, shown, "none")
    BY <1>6 DEF ServeOpen, SubmitRaised, ReadTrace, ReadTraces
  <2> QED BY <1>2, <2>1
<1>7. CASE CreateTask(t)
  <2>1. pc[t] = "handle" /\ (resp' = resp \/ Answer(t, 404, {}, "none"))
    BY <1>7 DEF CreateTask
  <2> QED BY <1>1, <1>2, <2>1
<1>8. CASE FindTask(t)
  <2>1. /\ pc[t] = "handle"
        /\ \/ resp' = resp
           \/ Answer(t, 200, {}, "none") \/ Answer(t, 404, {}, "none")
           \/ Answer(t, 200, {req[t].arg}, tasks[req[t].arg].state)
    BY <1>8 DEF FindTask
  <2> QED BY <1>1, <1>2, <2>1
<1>9. CASE ListTasks(t)
  <2>1. /\ pc[t] = "handle"
        /\ \/ Answer(t, 200, Owned(Caller(t)), "none")
           \/ resp' = [resp EXCEPT ![t].shown = Owned(Caller(t))]
    BY <1>9 DEF ListTasks
  <2> QED BY <1>1, <1>2, <2>1 DEF Reply
<1>10. CASE Respond(t)
  BY <1>1, <1>10 DEF Respond, NoAnswer
<1>11. CASE Reread(t)
  <2>1. \/ Answer(t, 202, {task[t]}, tasks[task[t]].state)
        \/ Answer(t, 404, {}, "none")
    BY <1>11 DEF Reread
  <2> QED BY <1>2, <1>11, <2>1
<1> QED BY <1>3, <1>4, <1>5, <1>6, <1>7, <1>8, <1>9, <1>10, <1>11 DEF ThreadStep

CreateInv == GTypeInv /\ RunInv /\ CreateAnswersTerminal

\* RunInv and what create_task answers are kept by every step.
LEMMA CreateStep == CreateInv /\ [Next]_vars => CreateInv'
<1> SUFFICES ASSUME CreateInv, [Next]_vars PROVE CreateInv'
  OBVIOUS
<1> USE DEF CreateInv
<1>0. GTypeInv'
  BY GatewayStep
<1>1. CASE UNCHANGED vars
  BY <1>0, <1>1 DEF vars, RunInv, CreateAnswersTerminal
<1>2. CASE Tick
  BY <1>0, <1>2 DEF Tick, db, RunInv, CreateAnswersTerminal
<1>3. ASSUME NEW x \in DOMAIN tasks, Resume(x) \/ \E w \in {"submit", "resume"} : Run(x, w)
      PROVE  CreateInv'
  <2>1. RunInv' /\ resumed \subseteq resumed' /\ UNCHANGED <<resp, task>>
    BY <1>3, RunInvRuns, TaskSteps DEF outside
  <2> QED BY <1>0, <2>1 DEF CreateAnswersTerminal
<1>4. ASSUME NEW t \in Threads, (\E r \in Requests : Receive(t, r)) \/ ThreadStep(t)
      PROVE  CreateInv'
  <2>1. resumed' = resumed
    BY <1>4 DEF Receive, ThreadStep, Authenticate, ReadClock, CheckLimit, ServeOpen, CreateTask,
       Reread, SubmitRaised, FindTask, ReadTrace, ListTasks, ReadTraces, Respond, db
  <2>2. RunInv'
    <3>1. CASE UNCHANGED <<tasks, loop>>
      BY <2>1, <3>1 DEF RunInv
    <3>2. CASE /\ tasks' = Append(tasks, [user |-> Caller(t), state |-> "PENDING"])
               /\ loop' = Append(loop, [submit |-> "reading", resume |-> "off"])
      <4>1. \A x \in DOMAIN tasks : tasks'[x] = tasks[x] /\ loop'[x] = loop[x]
        BY <3>2 DEF GTypeInv, TableTypes
      <4>2. /\ DOMAIN tasks' = DOMAIN tasks \union {Len(tasks) + 1}
            /\ loop'[Len(tasks) + 1] = [submit |-> "reading", resume |-> "off"]
        BY <3>2 DEF GTypeInv, TableTypes
      <4> QED BY <2>1, <4>1, <4>2 DEF RunInv
    <3> QED BY <1>4, <3>1, <3>2 DEF Receive, ThreadStep, Authenticate, ReadClock, CheckLimit,
            ServeOpen, CreateTask, Reread, SubmitRaised, FindTask, ReadTrace, ListTasks,
            ReadTraces, Respond, db
  <2>3. \A u \in Threads \ {t} : resp'[u] = resp[u] /\ task'[u] = task[u]
    BY <1>4 DEF Receive, ThreadStep, Authenticate, ReadClock, CheckLimit, ServeOpen, CreateTask,
       Reread, SubmitRaised, FindTask, ReadTrace, ListTasks, ReadTraces, Respond, Answer,
       GTypeInv, ThreadTypes
  <2>4. resp'[t].status = 202 => resp'[t].state \in Terminal \/ task'[t] \in resumed'
    <3>1. CASE Reread(t)
      <4>1. pc[t] = "submit" /\ loop[task[t]].submit = "ended" /\ task' = task
        BY <3>1 DEF Reread
      <4>2. task[t] \in DOMAIN tasks
        BY <4>1 DEF GTypeInv, ThreadInv
      <4>3. tasks[task[t]].state \in Terminal \/ task[t] \in resumed
        BY <4>1, <4>2 DEF RunInv
      <4>4. resp'[t].status = 202 => resp'[t].state = tasks[task[t]].state
        BY <3>1 DEF Reread, Answer, GTypeInv, ThreadTypes
      <4> QED BY <2>1, <4>1, <4>3, <4>4
    <3>2. CASE ~Reread(t)
      BY <1>4, <3>2, WhoAnswersWhat
    <3> QED BY <3>1, <3>2
  <2> QED BY <1>0, <2>1, <2>2, <2>3, <2>4 DEF CreateAnswersTerminal
<1> QED BY <1>1, <1>2, <1>3, <1>4 DEF Next

\* What create_task answers with 202 is a finished task, whatever runs beside
\* it, unless a resume found the task unfinished.
THEOREM CreatedIsFinished == Spec => []CreateAnswersTerminal
<1>1. Init => CreateInv
  BY GatewayInit DEF Init, CreateInv, RunInv, CreateAnswersTerminal, NoAnswer
<1>2. CreateInv => CreateAnswersTerminal
  BY DEF CreateInv
<1> QED BY <1>1, <1>2, CreateStep, PTL DEF Spec

-----------------------------------------------------------------------------
(* The runs of a task                                                      *)

Callers == {"submit", "resume"}

StateOf(x) == IF x \in DOMAIN tasks THEN tasks[x].state ELSE "PENDING"

PhaseOf(x, w) ==
  IF x \in DOMAIN tasks /\ loop[x][w] \in {"starting", "running"} THEN loop[x][w] ELSE "off"

RC(x) == INSTANCE RunContract
           WITH Runs <- Callers, state <- StateOf(x), phase <- [w \in Callers |-> PhaseOf(x, w)]

\* A row that no step touches, and a row that is just created, look the same to the
\* contract.
LEMMA RowUntouched ==
  ASSUME NEW x, StateOf(x)' = StateOf(x), \A w \in Callers : PhaseOf(x, w)' = PhaseOf(x, w)
  PROVE  UNCHANGED RC(x)!vars
<1>1. [w \in Callers |-> PhaseOf(x, w)]' = [w \in Callers |-> PhaseOf(x, w)]
  OBVIOUS
<1> QED BY <1>1 DEF RC!vars

\* One caller's run moves; the other's stays where it is.
LEMMA RunMoves ==
  ASSUME GTypeInv, NEW x \in DOMAIN tasks, NEW w \in Callers, NEW from, NEW to \in LoopStates,
         LoopAt(x, w, from, to), Len(tasks') = Len(tasks), GTypeInv'
  PROVE  /\ RC(x)!Move(w, PhaseOf(x, w), PhaseOf(x, w)')
         /\ PhaseOf(x, w) = IF from \in {"starting", "running"} THEN from ELSE "off"
         /\ PhaseOf(x, w)' = IF to \in {"starting", "running"} THEN to ELSE "off"
         /\ \A v \in Callers \ {w} : PhaseOf(x, v)' = PhaseOf(x, v)
<1>1. /\ loop \in Seq(Runs) /\ Len(loop) = Len(tasks) /\ x \in 1..Len(tasks) /\ loop[x] \in Runs
      /\ tasks' \in Seq(TaskRow) /\ tasks \in Seq(TaskRow)
  BY DEF GTypeInv, TableTypes
<1>2. loop'[x] = [loop[x] EXCEPT ![w] = to] /\ loop[x][w] = from /\ x \in DOMAIN tasks'
  BY <1>1 DEF LoopAt
<1>3. loop'[x][w] = to /\ \A v \in Callers \ {w} : loop'[x][v] = loop[x][v]
  BY <1>1, <1>2 DEF Runs, Callers
<1>4. /\ PhaseOf(x, w) = IF from \in {"starting", "running"} THEN from ELSE "off"
      /\ PhaseOf(x, w)' = IF to \in {"starting", "running"} THEN to ELSE "off"
      /\ \A v \in Callers \ {w} : PhaseOf(x, v)' = PhaseOf(x, v)
  BY <1>2, <1>3 DEF PhaseOf
<1>5. [v \in Callers |-> PhaseOf(x, v)]'
        = [[v \in Callers |-> PhaseOf(x, v)] EXCEPT ![w] = PhaseOf(x, w)']
  BY <1>4
<1> QED BY <1>4, <1>5 DEF RC!Move

\* What the loop's runs promise of a row (RunContract, which AgentLoop implements) is what
\* the gateway lets them do to it: of every task, from before it is created, and whatever
\* the threads do.
THEOREM GatewayKeepsTheContract ==
  ASSUME NEW x \in Nat
  PROVE  Spec => RC(x)!Spec
<1>1. Init => RC(x)!Init
  BY DEF Init, RC!Init, StateOf, PhaseOf
<1>2. GTypeInv /\ GTypeInv' /\ [Next]_vars => [RC(x)!Next]_(RC(x)!vars)
  <2> SUFFICES ASSUME GTypeInv, GTypeInv', [Next]_vars PROVE [RC(x)!Next]_(RC(x)!vars)
    OBVIOUS
  <2>0. tasks \in Seq(TaskRow) /\ loop \in Seq(Runs) /\ Len(loop) = Len(tasks)
    BY DEF GTypeInv, TableTypes
  <2>1. ASSUME UNCHANGED <<tasks, loop>> PROVE UNCHANGED RC(x)!vars
    <3>1. StateOf(x)' = StateOf(x) /\ \A w \in Callers : PhaseOf(x, w)' = PhaseOf(x, w)
      BY <2>1 DEF StateOf, PhaseOf
    <3> QED BY <3>1, RowUntouched
  <2>2. CASE UNCHANGED vars
    BY <2>1, <2>2 DEF vars
  <2>3. CASE Tick
    BY <2>1, <2>3 DEF Tick, db
  <2>4. ASSUME NEW t \in Threads, (\E r \in Requests : Receive(t, r)) \/ ThreadStep(t)
        PROVE  UNCHANGED RC(x)!vars
    <3>1. CASE ~CreateTask(t)
      BY <2>1, <2>4, <3>1 DEF ThreadStep, Receive, Authenticate, ReadClock, CheckLimit, ServeOpen,
           Reread, SubmitRaised, FindTask, ReadTrace, ListTasks, ReadTraces, Respond, db
    <3>2. CASE CreateTask(t)
      <4>1. CASE UNCHANGED db
        BY <2>1, <4>1 DEF db
      <4>2. CASE /\ tasks' = Append(tasks, [user |-> Caller(t), state |-> "PENDING"])
                 /\ loop' = Append(loop, [submit |-> "reading", resume |-> "off"])
        <5>1. /\ DOMAIN tasks' = DOMAIN tasks \union {Len(tasks) + 1}
              /\ Len(tasks) + 1 \notin DOMAIN tasks
              /\ \A y \in DOMAIN tasks : tasks'[y] = tasks[y] /\ loop'[y] = loop[y]
              /\ tasks'[Len(tasks) + 1].state = "PENDING"
              /\ loop'[Len(tasks) + 1] = [submit |-> "reading", resume |-> "off"]
          BY <2>0, <4>2
        <5>2. StateOf(x)' = StateOf(x)
          BY <5>1 DEF StateOf
        <5>3. \A w \in Callers : PhaseOf(x, w)' = PhaseOf(x, w)
          BY <5>1 DEF PhaseOf, Callers
        <5> QED BY <5>2, <5>3, RowUntouched
      <4> QED BY <3>2, <4>1, <4>2 DEF CreateTask
    <3> QED BY <3>1, <3>2
  <2>5. ASSUME NEW y \in DOMAIN tasks, y # x,
               Resume(y) \/ \E w \in Callers : Run(y, w)
        PROVE  UNCHANGED RC(x)!vars
    <3>1. Len(tasks') = Len(tasks) /\ tasks' \in Seq(TaskRow)
      BY <2>5, TaskSteps DEF Callers, GTypeInv, TableTypes
    <3>2. x \in DOMAIN tasks => tasks'[x] = tasks[x] /\ loop'[x] = loop[x]
      BY <2>0, <2>5 DEF Resume, Run, BeginRun, SetRunning, EndRun, Raise, LoopAt
    <3>3. StateOf(x)' = StateOf(x) /\ \A w \in Callers : PhaseOf(x, w)' = PhaseOf(x, w)
      BY <2>0, <3>1, <3>2 DEF StateOf, PhaseOf
    <3> QED BY <3>3, RowUntouched
  <2>6. ASSUME x \in DOMAIN tasks, Resume(x) PROVE UNCHANGED RC(x)!vars
    <3>1. LoopAt(x, "resume", "off", "reading") /\ tasks' = tasks
      BY <2>6 DEF Resume
    <3>2. \A v \in Callers : PhaseOf(x, v)' = PhaseOf(x, v)
      BY <2>6, <3>1, RunMoves DEF Callers, LoopStates
    <3>3. StateOf(x)' = StateOf(x)
      BY <3>1 DEF StateOf
    <3> QED BY <3>2, <3>3, RowUntouched
  <2>7. ASSUME x \in DOMAIN tasks, NEW w \in Callers, Run(x, w)
        PROVE  [RC(x)!Next]_(RC(x)!vars)
    <3>0. Len(tasks') = Len(tasks) /\ x \in DOMAIN tasks' /\ tasks[x] \in TaskRow
      BY <2>0, <2>7, TaskSteps DEF Callers, GTypeInv, TableTypes
    <3>1. CASE BeginRun(x, w)
      <4>1. StateOf(x)' = StateOf(x) /\ StateOf(x) = tasks[x].state
        BY <2>7, <3>1 DEF BeginRun, StateOf
      <4>2. CASE LoopAt(x, w, "reading", "ended")
        <5>1. \A v \in Callers : PhaseOf(x, v)' = PhaseOf(x, v)
          BY <2>7, <3>0, <4>2, RunMoves DEF LoopStates
        <5> QED BY <4>1, <5>1, RowUntouched
      <4>3. CASE tasks[x].state \notin Terminal /\ LoopAt(x, w, "reading", "starting")
        <5>1. RC(x)!Move(w, "off", "starting")
          BY <2>7, <3>0, <4>3, RunMoves DEF LoopStates
        <5>2. RC(x)!Begin(w)
          BY <4>1, <4>3, <5>1 DEF RC!Begin
        <5> QED BY <5>2 DEF RC!Next
      <4> QED BY <3>1, <4>2, <4>3 DEF BeginRun
    <3>2. CASE SetRunning(x, w)
      <4>1. RC(x)!Move(w, "starting", "running")
        BY <2>7, <3>0, <3>2, RunMoves DEF SetRunning, LoopStates
      <4>2. StateOf(x)' = "RUNNING"
        BY <2>0, <2>7, <3>0, <3>2 DEF SetRunning, StateOf, TaskRow
      <4>3. RC(x)!SetRunning(w)
        BY <4>1, <4>2 DEF RC!SetRunning
      <4> QED BY <4>3 DEF RC!Next
    <3>3. CASE EndRun(x, w)
      <4>1. RC(x)!Move(w, "running", "off")
        BY <2>7, <3>0, <3>3, RunMoves DEF EndRun, LoopStates
      <4>2. StateOf(x)' \in Terminal
        BY <2>0, <2>7, <3>0, <3>3 DEF EndRun, StateOf, TaskRow
      <4>3. RC(x)!End(w)
        BY <4>1, <4>2 DEF RC!End
      <4> QED BY <4>3 DEF RC!Next
    <3>4. CASE Raise(x, w)
      <4>1. PICK at \in {"starting", "running"} : LoopAt(x, w, at, "raised")
        BY <3>4 DEF Raise
      <4>2. RC(x)!Move(w, at, "off")
        BY <2>7, <3>0, <4>1, RunMoves DEF LoopStates
      <4>3. StateOf(x)' = StateOf(x)
        BY <3>4 DEF Raise, StateOf
      <4>4. RC(x)!Leave(w)
        BY <4>2, <4>3 DEF RC!Leave
      <4> QED BY <4>4 DEF RC!Next
    <3> QED BY <2>7, <3>1, <3>2, <3>3, <3>4 DEF Run
  <2> QED BY <2>2, <2>3, <2>4, <2>5, <2>6, <2>7 DEF Next, Callers
<1> QED BY <1>1, <1>2, GatewayTypes, PTL DEF Spec, RC!Spec

-----------------------------------------------------------------------------
(* The rate limiter.  A is the sequence of stamps admitted for a key, dq    *)
(* the deque, L the key's limit.                                           *)

Pool == Cardinality(Threads)

Ordered(A)        == \A i, j \in DOMAIN A : i < j => A[i] <= A[j]
InWindow(A, e)    == {i \in DOMAIN A : e - Window < A[i] /\ A[i] <= e}
Above(A, c)       == {i \in DOMAIN A : c < A[i]}
Laggards(A, i, c) == {j \in DOMAIN A : i < j /\ A[j] <= c}

\* The deque is what is left at the end of the admitted stamps.
SuffixOf(dq, A) ==
  /\ Len(dq) <= Len(A)
  /\ \A i \in 1..Len(dq) : dq[i] = A[Len(A) - Len(dq) + i]

\* Nothing of the window that ends at e has been pruned.
Early(A, dq, e) == \A i \in InWindow(A, e) : i > Len(A) - Len(dq)

\* Something of it may have been: by a stamp after e, so that all that can still
\* be admitted into it are the threads that read the clock before.  If the
\* stamps came in order none can: a later one was admitted, or the deque is full
\* of stamps they cannot prune.
Late(A, dq, e, L, stale, now) ==
  /\ now > e
  /\ Cardinality(InWindow(A, e)) + stale <= L + Pool - 1
  /\ Ordered(A) =>
       /\ Cardinality(InWindow(A, e)) <= L
       /\ \/ \E i \in DOMAIN A : A[i] > e
          \/ Len(dq) >= L /\ \A i \in DOMAIN dq : dq[i] > e - Window

\* The pool's size is a positive number.
LEMMA PoolSize == Pool \in Nat /\ Pool >= 1
<1>1. Pool \in Nat /\ (Pool = 0 <=> Threads = {})
  BY PoolAssumption, FS_CardinalityType, FS_EmptySet DEF Pool
<1> QED BY <1>1, PoolAssumption

\* The sets of indices counted are finite.
LEMMA CountsAreFinite ==
  ASSUME NEW A \in Seq(Nat), NEW S \in SUBSET (DOMAIN A)
  PROVE  IsFiniteSet(S) /\ Cardinality(S) \in Nat
<1>1. IsFiniteSet(1..Len(A)) /\ DOMAIN A = 1..Len(A)
  BY FS_Interval, Len(A) \in Int
<1> QED BY <1>1, FS_Subset, FS_CardinalityType

\* What an admission adds to each count.
LEMMA CountsOfAppend ==
  ASSUME NEW A \in Seq(Nat), NEW s \in Nat, NEW e \in Int, NEW c \in Int
  PROVE  LET B == Append(A, s)
         IN  /\ Cardinality(InWindow(B, e)) <= Cardinality(InWindow(A, e)) + 1
             /\ s > e => Cardinality(InWindow(B, e)) = Cardinality(InWindow(A, e))
             /\ Cardinality(Above(B, c)) >= Cardinality(Above(A, c))
             /\ \A i \in DOMAIN A :
                  /\ Cardinality(Laggards(B, i, c)) <= Cardinality(Laggards(A, i, c)) + 1
                  /\ s > c => Cardinality(Laggards(B, i, c)) = Cardinality(Laggards(A, i, c))
             /\ Cardinality(Laggards(B, Len(A) + 1, c)) = 0
             /\ Ordered(B) => Ordered(A) /\ \A i \in DOMAIN A : A[i] <= s
<1> DEFINE B == Append(A, s)
           n == Len(A) + 1
<1>1. /\ B \in Seq(Nat) /\ DOMAIN B = DOMAIN A \union {n} /\ B[n] = s /\ n \notin DOMAIN A
      /\ \A i \in DOMAIN A : B[i] = A[i] /\ i \in Nat /\ i < n
      /\ n \in Nat
  OBVIOUS
<1> HIDE DEF B, n
<1>2. ASSUME NEW S \in SUBSET (DOMAIN A), NEW Q \in SUBSET (DOMAIN B), Q = S \/ Q = S \union {n}
      PROVE  /\ Cardinality(Q) <= Cardinality(S) + 1 /\ Cardinality(Q) >= Cardinality(S)
             /\ Q = S => Cardinality(Q) = Cardinality(S)
  <2>1. IsFiniteSet(S) /\ Cardinality(S) \in Nat
    BY CountsAreFinite
  <2>2. n \notin S
    BY <1>1
  <2>3. Cardinality(S \union {n}) = Cardinality(S) + 1
    BY <2>1, <2>2, FS_AddElement
  <2>4. CASE Q = S
    BY <2>1, <2>4
  <2>5. CASE Q = S \union {n}
    <3>1. Q # S
      BY <2>2, <2>5
    <3>2. Cardinality(Q) = Cardinality(S) + 1
      BY <2>3, <2>5
    <3> QED BY <2>1, <3>1, <3>2
  <2> QED BY <1>2, <2>4, <2>5
<1>3. /\ InWindow(A, e) \in SUBSET (DOMAIN A) /\ InWindow(B, e) \in SUBSET (DOMAIN B)
      /\ InWindow(B, e) = InWindow(A, e) \/ InWindow(B, e) = InWindow(A, e) \union {n}
      /\ s > e => InWindow(B, e) = InWindow(A, e)
  BY <1>1, GatewayAssumption DEF InWindow
<1>4. /\ Above(A, c) \in SUBSET (DOMAIN A) /\ Above(B, c) \in SUBSET (DOMAIN B)
      /\ Above(B, c) = Above(A, c) \/ Above(B, c) = Above(A, c) \union {n}
  BY <1>1 DEF Above
<1>5. ASSUME NEW i \in DOMAIN A
      PROVE  /\ Laggards(A, i, c) \in SUBSET (DOMAIN A) /\ Laggards(B, i, c) \in SUBSET (DOMAIN B)
             /\ \/ Laggards(B, i, c) = Laggards(A, i, c)
                \/ Laggards(B, i, c) = Laggards(A, i, c) \union {n}
             /\ s > c => Laggards(B, i, c) = Laggards(A, i, c)
  BY <1>1, <1>5 DEF Laggards
<1>6. Cardinality(Laggards(B, n, c)) = 0
  <2>1. Laggards(B, n, c) = {}
    BY <1>1 DEF Laggards
  <2> QED BY <2>1, FS_EmptySet
<1>7. Ordered(B) => Ordered(A) /\ \A i \in DOMAIN A : A[i] <= s
  BY <1>1 DEF Ordered
<1>8. /\ Cardinality(InWindow(B, e)) <= Cardinality(InWindow(A, e)) + 1
      /\ s > e => Cardinality(InWindow(B, e)) = Cardinality(InWindow(A, e))
  BY <1>2, <1>3
<1>9. Cardinality(Above(B, c)) >= Cardinality(Above(A, c))
  BY <1>2, <1>4
<1>10. \A i \in DOMAIN A :
         /\ Cardinality(Laggards(B, i, c)) <= Cardinality(Laggards(A, i, c)) + 1
         /\ s > c => Cardinality(Laggards(B, i, c)) = Cardinality(Laggards(A, i, c))
  BY <1>2, <1>5
<1> QED BY <1>6, <1>7, <1>8, <1>9, <1>10 DEF B, n

\* popleft on a deque that is a suffix leaves a suffix; what it drops of a window
\* it drops by a stamp after the window's end.
LEMMA PruneKeepsSuffix ==
  ASSUME NEW A \in Seq(Nat), NEW dq \in Seq(Nat), SuffixOf(dq, A), NEW s \in Nat
  PROVE  LET d == Pruned(dq, s - Window)
         IN  /\ d \in Seq(Nat) /\ Len(d) <= Len(dq) /\ SuffixOf(d, A)
             /\ \A e \in Int : Early(A, dq, e) /\ e >= s => Early(A, d, e)
             /\ \A c \in Int : (\A i \in DOMAIN dq : dq[i] > c) =>
                  /\ \A i \in DOMAIN d : d[i] > c
                  /\ c >= s - Window => Len(d) = Len(dq)
             /\ Len(d) > 0 => d[1] > s - Window
<1> DEFINE d == Pruned(dq, s - Window)
           off == Len(dq) - Len(d)
           n == Len(A) - Len(dq)
<1>0. s - Window \in Int /\ Window \in Nat
  BY GatewayAssumption
<1>1. /\ d \in Seq(Nat) /\ off \in 0..Len(dq)
      /\ \A i \in 1..Len(d) : d[i] = dq[off + i]
      /\ \A i \in 1..off : dq[i] <= s - Window
      /\ Len(d) > 0 => d[1] > s - Window
  BY <1>0, PrunedIsSuffix
<1> HIDE DEF d
<1>2. n \in Nat /\ \A i \in 1..Len(dq) : dq[i] = A[n + i]
  BY DEF SuffixOf
<1>3. Len(d) \in Nat /\ Len(d) <= Len(dq) /\ off \in Nat
  BY <1>1
<1>4. SuffixOf(d, A)
  <2>1. ASSUME NEW i \in 1..Len(d) PROVE d[i] = A[Len(A) - Len(d) + i]
    <3>1. off + i \in 1..Len(dq) /\ d[i] = dq[off + i]
      BY <1>1, <1>3
    <3>2. dq[off + i] = A[n + (off + i)]
      BY <1>2, <3>1
    <3>3. n + (off + i) = Len(A) - Len(d) + i
      BY <1>3
    <3> QED BY <3>1, <3>2, <3>3
  <2> QED BY <1>2, <1>3, <2>1 DEF SuffixOf
<1>5. ASSUME NEW e \in Int, Early(A, dq, e), e >= s PROVE Early(A, d, e)
  <2> SUFFICES ASSUME NEW i \in InWindow(A, e), i <= Len(A) - Len(d) PROVE FALSE
    BY <1>3 DEF Early, InWindow
  <2>1. i \in Nat /\ i > n /\ A[i] > e - Window /\ A[i] \in Nat
    BY <1>5 DEF Early, InWindow
  <2>2. i - n \in 1..off /\ i - n \in 1..Len(dq)
    BY <1>2, <1>3, <2>1
  <2> HIDE DEF n, off
  <2>3. PICK j \in 1..off : j \in 1..Len(dq) /\ n + j = i
    <3>1. n + (i - n) = i
      BY <1>2, <2>1
    <3> QED BY <2>2, <3>1
  <2>4. dq[j] <= s - Window /\ dq[j] = A[i]
    BY <1>1, <1>2, <2>3
  <2> QED BY <1>0, <1>5, <2>1, <2>4
<1>6. ASSUME NEW c \in Int, \A i \in DOMAIN dq : dq[i] > c
      PROVE  /\ \A i \in DOMAIN d : d[i] > c
             /\ c >= s - Window => Len(d) = Len(dq)
  <2>0. DOMAIN d = 1..Len(d) /\ DOMAIN dq = 1..Len(dq) /\ Len(dq) \in Nat
    BY <1>1
  <2>1. ASSUME NEW i \in DOMAIN d PROVE d[i] > c
    <3>1. i \in 1..Len(d) /\ i \in Nat
      BY <2>0
    <3>2. off + i \in 1..Len(dq)
      BY <1>3, <2>0, <3>1
    <3>3. d[i] = dq[off + i] /\ dq[off + i] > c
      BY <1>1, <1>6, <2>0, <3>1, <3>2
    <3> QED BY <3>3
  <2>2. ASSUME c >= s - Window, off > 0 PROVE FALSE
    <3>1. 1 \in 1..off /\ 1 \in DOMAIN dq /\ dq[1] \in Nat
      BY <1>1, <2>2
    <3>2. dq[1] <= s - Window /\ dq[1] > c
      BY <1>1, <1>6, <3>1
    <3> QED BY <1>0, <2>2, <3>1, <3>2
  <2> QED BY <1>3, <2>1, <2>2
<1> QED BY <1>1, <1>3, <1>4, <1>5, <1>6 DEF d

\* While nothing of a window is pruned, the deque holds all of it.
LEMMA EarlyFitsDeque ==
  ASSUME NEW A \in Seq(Nat), NEW dq \in Seq(Nat), SuffixOf(dq, A), NEW e \in Int, Early(A, dq, e)
  PROVE  Cardinality(InWindow(A, e)) <= Len(dq)
<1> DEFINE n == Len(A) - Len(dq)
<1>1. n \in Nat /\ Len(A) \in Nat /\ Len(dq) \in Nat
  BY DEF SuffixOf
<1>2. \A i \in InWindow(A, e) : i \in (n + 1)..Len(A)
  BY <1>1 DEF Early, InWindow
<1>3. IsFiniteSet((n + 1)..Len(A)) /\ Cardinality((n + 1)..Len(A)) = Len(dq)
  <2>1. n + 1 \in Int /\ Len(A) \in Int
    BY <1>1
  <2>2. /\ IsFiniteSet((n + 1)..Len(A))
        /\ Cardinality((n + 1)..Len(A)) = IF n + 1 > Len(A) THEN 0 ELSE Len(A) - (n + 1) + 1
    BY <2>1, FS_Interval
  <2> QED BY <1>1, <2>2
<1>4. InWindow(A, e) \in SUBSET ((n + 1)..Len(A))
  BY <1>2
<1> HIDE DEF n
<1>5. Cardinality(InWindow(A, e)) <= Cardinality((n + 1)..Len(A))
  BY <1>3, <1>4, FS_Subset
<1> QED BY <1>3, <1>5

\* Positions in the last l of n.
LEMMA OffsetInRange ==
  ASSUME NEW o \in Nat, NEW l \in Nat, NEW n \in Nat, o + l = n, NEW i \in 1..l
  PROVE  1 \in 1..l /\ o + 1 \in 1..n /\ o + i \in 1..n /\ (o + 1 < o + i \/ i = 1)
OBVIOUS

\* The first of a deque is its least stamp while the stamps came in order.
LEMMA SuffixLeast ==
  ASSUME NEW A \in Seq(Nat), Ordered(A), NEW d \in Seq(Nat), SuffixOf(d, A), NEW i \in DOMAIN d
  PROVE  d[1] <= d[i] /\ d[1] \in Nat /\ d[i] \in Nat
<1> DEFINE o == Len(A) - Len(d)
<1>1. o \in Nat /\ Len(d) \in Nat /\ o + Len(d) = Len(A) /\ i \in 1..Len(d)
  BY DEF SuffixOf
<1>2. \A j \in 1..Len(d) : d[j] = A[o + j]
  BY DEF SuffixOf
<1> HIDE DEF o
<1>3. /\ 1 \in 1..Len(d)
      /\ o + 1 \in 1..Len(A) /\ o + i \in 1..Len(A) /\ (o + 1 < o + i \/ i = 1)
  BY <1>1, OffsetInRange, Len(A) \in Nat
<1>4. d[1] = A[o + 1] /\ d[i] = A[o + i]
  BY <1>2, <1>1, <1>3
<1>5. A[o + 1] \in Nat /\ A[o + i] \in Nat
  BY <1>3
<1>6. A[o + 1] <= A[o + i]
  <2>1. CASE i = 1
    BY <1>5, <2>1
  <2>2. CASE o + 1 < o + i
    <3>1. o + 1 \in DOMAIN A /\ o + i \in DOMAIN A
      BY <1>3
    <3> QED BY <2>2, <3>1 DEF Ordered
  <2> QED BY <1>3, <2>1, <2>2
<1> QED BY <1>4, <1>5, <1>6

\* A refusal: the deque is full after the pruning.
LEMMA RefusalKeepsWindow ==
  ASSUME NEW A \in Seq(Nat), NEW dq \in Seq(Nat), SuffixOf(dq, A), NEW L \in Nat, Len(dq) <= L,
         NEW s \in Nat, NEW now \in Nat, s <= now, NEW e \in Int, NEW m \in Nat, NEW n \in Nat,
         n <= m, s > e => n <= Pool - 1,
         Len(Pruned(dq, s - Window)) >= L, L > 0,
         Early(A, dq, e) \/ Late(A, dq, e, L, m, now)
  PROVE  \/ Early(A, Pruned(dq, s - Window), e)
         \/ Late(A, Pruned(dq, s - Window), e, L, n, now)
<1> DEFINE d == Pruned(dq, s - Window)
<1>1. /\ d \in Seq(Nat) /\ Len(d) <= Len(dq) /\ SuffixOf(d, A)
      /\ Early(A, dq, e) /\ e >= s => Early(A, d, e)
      /\ e - Window \in Int
      /\ (\A i \in DOMAIN dq : dq[i] > e - Window) => \A i \in DOMAIN d : d[i] > e - Window
      /\ Len(d) > 0 => d[1] > s - Window
  <2>1. e - Window \in Int
    BY GatewayAssumption
  <2> QED BY <2>1, PruneKeepsSuffix
<1>3. Len(d) >= L
  OBVIOUS
<1> HIDE DEF d
<1>2. Cardinality(InWindow(A, e)) \in Nat
  BY CountsAreFinite DEF InWindow
<1>4. CASE Late(A, dq, e, L, m, now)
  <2> DEFINE C == Cardinality(InWindow(A, e))
  <2>0. /\ now > e /\ C + m <= L + Pool - 1
        /\ Ordered(A) => C <= L
        /\ Ordered(A) => \/ \E i \in DOMAIN A : A[i] > e
                         \/ \A i \in DOMAIN dq : dq[i] > e - Window
    BY <1>4 DEF Late
  <2> HIDE DEF C
  <2>1. C + n <= L + Pool - 1
    BY <1>2, <2>0, PoolSize DEF C
  <2>2. Ordered(A) => \/ \E i \in DOMAIN A : A[i] > e
                      \/ Len(d) >= L /\ \A i \in DOMAIN d : d[i] > e - Window
    BY <1>1, <1>3, <2>0
  <2>3. Late(A, d, e, L, n, now)
    BY <2>0, <2>1, <2>2 DEF Late, C
  <2> QED BY <2>3 DEF d
<1>5. CASE Early(A, dq, e) /\ e < s
  <2>1. Cardinality(InWindow(A, e)) <= L
    BY <1>2, <1>5, EarlyFitsDeque
  <2>2. Ordered(A) => \A i \in DOMAIN d : d[i] > e - Window
    <3> SUFFICES ASSUME Ordered(A), NEW i \in DOMAIN d PROVE d[i] > e - Window
      OBVIOUS
    <3>1. d \in Seq(Nat) /\ Len(d) > 0
      BY <1>1, <1>3
    <3>2. d[1] <= d[i] /\ d[1] \in Nat /\ d[i] \in Nat
      BY <1>1, SuffixLeast
    <3>3. d[1] > s - Window
      BY <1>1, <3>1
    <3> QED BY <1>5, <3>2, <3>3, GatewayAssumption
  <2>3. now > e /\ Cardinality(InWindow(A, e)) + n <= L + Pool - 1
    BY <1>2, <1>5, <2>1, PoolSize
  <2>4. Late(A, d, e, L, n, now)
    BY <1>3, <2>1, <2>2, <2>3 DEF Late
  <2> QED BY <2>4 DEF d
<1>6. CASE Early(A, dq, e) /\ e >= s
  BY <1>1, <1>6 DEF d
<1> QED BY <1>4, <1>5, <1>6

\* An admission: the deque has room after the pruning.
LEMMA AdmissionKeepsWindow ==
  ASSUME NEW A \in Seq(Nat), NEW dq \in Seq(Nat), SuffixOf(dq, A), NEW L \in Nat, Len(dq) <= L,
         NEW s \in Nat, NEW now \in Nat, s <= now, NEW e \in Int, NEW m \in Nat, NEW n \in Nat,
         s <= e => n = m - 1, s > e => n <= m /\ n <= Pool - 1,
         Len(Pruned(dq, s - Window)) < L,
         Early(A, dq, e) \/ Late(A, dq, e, L, m, now)
  PROVE  \/ Early(Append(A, s), Append(Pruned(dq, s - Window), s), e)
         \/ Late(Append(A, s), Append(Pruned(dq, s - Window), s), e, L, n, now)
<1> DEFINE d == Pruned(dq, s - Window)
           B == Append(A, s)
           f == Append(d, s)
<1>1. /\ d \in Seq(Nat) /\ Len(d) <= Len(dq) /\ SuffixOf(d, A)
      /\ Early(A, dq, e) /\ e >= s => Early(A, d, e)
      /\ e - Window \in Int
      /\ (\A i \in DOMAIN dq : dq[i] > e - Window) /\ e - Window >= s - Window => Len(d) = Len(dq)
  BY PruneKeepsSuffix, GatewayAssumption
<1>2. Len(d) < L
  OBVIOUS
<1> HIDE DEF d
<1>3. /\ Cardinality(InWindow(A, e)) \in Nat /\ Cardinality(InWindow(B, e)) \in Nat
      /\ Cardinality(InWindow(B, e)) <= Cardinality(InWindow(A, e)) + 1
      /\ s > e => Cardinality(InWindow(B, e)) = Cardinality(InWindow(A, e))
      /\ Ordered(B) => Ordered(A) /\ \A i \in DOMAIN A : A[i] <= s
  <2>1. InWindow(A, e) \in SUBSET (DOMAIN A) /\ InWindow(B, e) \in SUBSET (DOMAIN B) /\ B \in Seq(Nat)
    BY DEF InWindow
  <2> QED BY <2>1, CountsAreFinite, CountsOfAppend
<1>4. /\ Len(A) + 1 \in DOMAIN B /\ B[Len(A) + 1] = s /\ Len(A) \in Nat /\ Len(d) \in Nat
      /\ Len(B) - Len(f) = Len(A) - Len(d)
      /\ \A i \in DOMAIN A : i \in DOMAIN B /\ B[i] = A[i]
      /\ \A i \in DOMAIN B : i \in DOMAIN A \/ i = Len(A) + 1
  BY <1>1
<1> HIDE DEF B, f
<1>5. CASE Early(A, dq, e) /\ e >= s
  <2>1. \A i \in InWindow(B, e) : i \in InWindow(A, e) \/ i = Len(A) + 1
    BY <1>4 DEF InWindow
  <2>2. Early(A, d, e)
    BY <1>1, <1>5
  <2>3. ASSUME NEW i \in InWindow(B, e) PROVE i > Len(B) - Len(f)
    <3>1. CASE i \in InWindow(A, e)
      BY <1>4, <2>2, <3>1 DEF Early
    <3>2. CASE i = Len(A) + 1
      BY <1>4, <3>2
    <3> QED BY <2>1, <3>1, <3>2
  <2>4. Early(B, f, e)
    BY <2>3 DEF Early
  <2> QED BY <2>4 DEF B, f, d
<1>6. CASE Early(A, dq, e) /\ e < s
  <2>1. Cardinality(InWindow(A, e)) <= L
    BY <1>3, <1>6, EarlyFitsDeque
  <2>2. Cardinality(InWindow(B, e)) + n <= L + Pool - 1
    BY <1>3, <1>6, <2>1, PoolSize
  <2>3. Cardinality(InWindow(B, e)) <= L /\ now > e
    BY <1>3, <1>6, <2>1
  <2>4. \E i \in DOMAIN B : B[i] > e
    BY <1>4, <1>6
  <2>5. Late(B, f, e, L, n, now)
    BY <2>2, <2>3, <2>4 DEF Late
  <2> QED BY <2>5 DEF B, f, d
<1>7. CASE Late(A, dq, e, L, m, now) /\ e < s
  <2>1. /\ now > e /\ Cardinality(InWindow(A, e)) + m <= L + Pool - 1
        /\ Ordered(A) => Cardinality(InWindow(A, e)) <= L
    BY <1>7 DEF Late
  <2>2. Cardinality(InWindow(B, e)) + n <= L + Pool - 1
    BY <1>3, <1>7, <2>1, PoolSize
  <2>3. Ordered(B) => Cardinality(InWindow(B, e)) <= L
    BY <1>3, <1>7, <2>1
  <2>4. \E i \in DOMAIN B : B[i] > e
    BY <1>4, <1>7
  <2>5. Late(B, f, e, L, n, now)
    BY <2>1, <2>2, <2>3, <2>4 DEF Late
  <2> QED BY <2>5 DEF B, f, d
<1>8. CASE Late(A, dq, e, L, m, now) /\ e >= s
  <2>1. Cardinality(InWindow(B, e)) + n <= L + Pool - 1
    BY <1>3, <1>8, PoolSize DEF Late
  <2>2. ~Ordered(B)
    <3> SUFFICES ASSUME Ordered(B) PROVE FALSE
      OBVIOUS
    <3>1. \A i \in DOMAIN A : A[i] <= e
      BY <1>3, <1>8
    <3>2. Len(dq) >= L /\ \A i \in DOMAIN dq : dq[i] > e - Window
      BY <1>3, <1>8, <3>1 DEF Late
    <3>3. Len(d) = Len(dq)
      BY <1>1, <1>8, <3>2, GatewayAssumption
    <3> QED BY <1>2, <3>2, <3>3
  <2>3. Late(B, f, e, L, n, now)
    BY <1>8, <2>1, <2>2 DEF Late
  <2> QED BY <2>3 DEF B, f, d
<1> QED BY <1>5, <1>6, <1>7, <1>8

\* The threads that read the clock at c or before and wait for the lock.
Stale(c) == {t \in Threads : pc[t] = "limit" /\ stamp[t] <= c}

StampInv == \A t \in Threads : pc[t] = "limit" => stamp[t] <= clock

\* What the limiter keeps for key k: the deque, every window, and behind every
\* admitted stamp no more earlier ones than there are other threads.
DequeInv(k) ==
  /\ Len(hits[k]) <= KeyLimit[k] /\ SuffixOf(hits[k], admitted[k])
  /\ \A i \in DOMAIN admitted[k] : admitted[k][i] <= clock

WindowInv(k) ==
  \A e \in Int : \/ Early(admitted[k], hits[k], e)
                 \/ Late(admitted[k], hits[k], e, KeyLimit[k], Cardinality(Stale(e)), clock)

LagInv(k) ==
  \A c \in Int : \A i \in DOMAIN admitted[k] :
    admitted[k][i] > c =>
      Cardinality(Laggards(admitted[k], i, c)) + Cardinality(Stale(c)) <= Pool - 1

KeyInv(k) == DequeInv(k) /\ WindowInv(k) /\ LagInv(k)

\* The second half of WindowHolds: a refusal, and after it.
RefusalInv(k) ==
  \A t \in Threads :
    key[t] = k /\ resp[t].status = 429 =>
      Cardinality(Above(admitted[k], stamp[t] - Window)) >= KeyLimit[k] - Slack(k)

Limited == {k \in Keys : KeyLimit[k] > 0}

LimitInv == GTypeInv /\ StampInv /\ \A k \in Limited : KeyInv(k) /\ RefusalInv(k)

\* How many threads are stale is a number, at most the pool's.
LEMMA StaleCount ==
  \A c \in Int : IsFiniteSet(Stale(c)) /\ Cardinality(Stale(c)) \in Nat
<1> SUFFICES ASSUME NEW c \in Int PROVE IsFiniteSet(Stale(c)) /\ Cardinality(Stale(c)) \in Nat
  OBVIOUS
<1>1. Stale(c) \in SUBSET Threads
  BY DEF Stale
<1> QED BY <1>1, PoolAssumption, FS_Subset, FS_CardinalityType

\* The key's deque stands still, and nobody new is stale.
QuietFor(k) ==
  /\ hits'[k] = hits[k] /\ admitted'[k] = admitted[k]
  /\ clock' \in Nat /\ clock' >= clock
  /\ \A c \in Int : c < clock => Stale(c)' \subseteq Stale(c)

\* Such a step keeps what the limiter keeps.
LEMMA QuietKeepsKey ==
  ASSUME GTypeInv, NEW k \in Limited, KeyInv(k), QuietFor(k)
  PROVE  KeyInv(k)'
<1> DEFINE A == admitted[k]
<1>0. /\ A \in Seq(Nat) /\ clock \in Nat /\ clock' \in Nat /\ clock' >= clock
      /\ KeyLimit[k] \in Int
  BY GatewayAssumption DEF GTypeInv, LimitTypes, QuietFor, Limited
<1>1. ASSUME NEW c \in Int, c < clock
      PROVE  /\ Cardinality(Stale(c)') <= Cardinality(Stale(c))
             /\ Cardinality(Stale(c)') \in Nat /\ Cardinality(Stale(c)) \in Nat
  <2>1. Stale(c)' \in SUBSET Stale(c) /\ IsFiniteSet(Stale(c))
    BY <1>1, StaleCount DEF QuietFor
  <2> QED BY <2>1, FS_Subset, FS_CardinalityType
<1>2. DequeInv(k)'
  BY <1>0 DEF KeyInv, DequeInv, QuietFor
<1>3. WindowInv(k)'
  <2> SUFFICES ASSUME NEW e \in Int, Late(A, hits[k], e, KeyLimit[k], Cardinality(Stale(e)), clock)
               PROVE  Late(A, hits[k], e, KeyLimit[k], Cardinality(Stale(e)'), clock')
    BY DEF WindowInv, KeyInv, QuietFor
  <2>1. Cardinality(InWindow(A, e)) \in Nat
    BY <1>0, CountsAreFinite DEF InWindow
  <2>2. clock > e
    BY DEF Late
  <2> QED BY <1>0, <1>1, <2>1, <2>2, PoolSize DEF Late
<1>4. LagInv(k)'
  <2> SUFFICES ASSUME NEW c \in Int, NEW i \in DOMAIN A, A[i] > c
               PROVE  Cardinality(Laggards(A, i, c)) + Cardinality(Stale(c)') <= Pool - 1
    BY DEF LagInv, QuietFor
  <2>1. Cardinality(Laggards(A, i, c)) \in Nat
    BY <1>0, CountsAreFinite DEF Laggards
  <2>2. c < clock
    BY <1>0 DEF KeyInv, DequeInv
  <2>3. Cardinality(Laggards(A, i, c)) + Cardinality(Stale(c)) <= Pool - 1
    BY DEF KeyInv, LagInv
  <2> QED BY <1>1, <2>1, <2>2, <2>3, PoolSize
<1> QED BY <1>2, <1>3, <1>4 DEF KeyInv

\* The thread that enters the limiter leaves the threads that wait for it.
LEMMA StaleAfterLimiter ==
  ASSUME GTypeInv, NEW t \in Threads, CheckLimit(t), NEW c \in Int
  PROVE  /\ Stale(c)' \subseteq Stale(c)
         /\ Cardinality(Stale(c)') \in Nat /\ Cardinality(Stale(c)) \in Nat
         /\ stamp[t] <= c => Cardinality(Stale(c)') = Cardinality(Stale(c)) - 1
         /\ stamp[t] > c => Cardinality(Stale(c)') <= Cardinality(Stale(c))
         /\ Cardinality(Stale(c)') <= Pool - 1
<1>1. /\ pc[t] = "limit" /\ pc'[t] # "limit" /\ stamp' = stamp /\ stamp[t] \in Nat
      /\ \A u \in Threads \ {t} : pc'[u] = pc[u]
  BY CheckLimitStep DEF GTypeInv, ThreadTypes
<1>2. Stale(c)' = Stale(c) \ {t} /\ (stamp[t] <= c <=> t \in Stale(c))
  BY <1>1 DEF Stale
<1>3. IsFiniteSet(Stale(c)) /\ Cardinality(Stale(c)) \in Nat
  BY StaleCount
<1>4. Cardinality(Stale(c)') = IF t \in Stale(c) THEN Cardinality(Stale(c)) - 1 ELSE Cardinality(Stale(c))
  BY <1>2, <1>3, FS_RemoveElement
<1>5. Cardinality(Stale(c)') \in Nat
  BY <1>2, <1>3, FS_RemoveElement, FS_CardinalityType
<1>6. Cardinality(Stale(c)') <= Pool - 1
  <2>1. Stale(c)' \in SUBSET (Threads \ {t})
    BY <1>2 DEF Stale
  <2>2. IsFiniteSet(Threads \ {t}) /\ Cardinality(Threads \ {t}) = Pool - 1
    BY PoolAssumption, FS_RemoveElement DEF Pool
  <2> QED BY <2>1, <2>2, FS_Subset
<1> QED BY <1>1, <1>2, <1>3, <1>4, <1>5, <1>6

\* The limiter's own step keeps what it keeps for the key it serves.
LEMMA LimiterKeepsKey ==
  ASSUME GTypeInv, StampInv, NEW t \in Threads, CheckLimit(t), key[t] \in Limited, KeyInv(key[t])
  PROVE  KeyInv(key[t])'
<1> DEFINE k == key[t]
           s == stamp[t]
           A == admitted[k]
           dq == hits[k]
           d == Pruned(dq, s - Window)
           L == KeyLimit[k]
           m(e) == Cardinality(Stale(e))
           n(e) == Cardinality(Stale(e)')
<1>0. /\ s \in Nat /\ clock \in Nat /\ s <= clock /\ A \in Seq(Nat) /\ dq \in Seq(Nat)
      /\ L \in Nat /\ L > 0 /\ k \in Keys /\ clock' = clock /\ key' = key
  BY CheckLimitStep, GatewayAssumption DEF GTypeInv, ThreadTypes, LimitTypes, StampInv, Limited
<1>1. /\ Len(dq) <= L /\ SuffixOf(dq, A) /\ \A i \in DOMAIN A : A[i] <= clock
      /\ \A e \in Int : Early(A, dq, e) \/ Late(A, dq, e, L, m(e), clock)
      /\ \A c \in Int : \A i \in DOMAIN A :
           A[i] > c => Cardinality(Laggards(A, i, c)) + m(c) <= Pool - 1
  BY DEF KeyInv, DequeInv, WindowInv, LagInv
<1>2. \A e \in Int : /\ m(e) \in Nat /\ n(e) \in Nat /\ n(e) <= Pool - 1 /\ n(e) <= m(e)
                     /\ s <= e => n(e) = m(e) - 1
  <2> SUFFICES ASSUME NEW e \in Int
               PROVE  /\ m(e) \in Nat /\ n(e) \in Nat /\ n(e) <= Pool - 1 /\ n(e) <= m(e)
                      /\ s <= e => n(e) = m(e) - 1
    OBVIOUS
  <2>1. /\ m(e) \in Nat /\ n(e) \in Nat /\ n(e) <= Pool - 1
        /\ s <= e => n(e) = m(e) - 1
        /\ s > e => n(e) <= m(e)
    BY StaleAfterLimiter
  <2> HIDE DEF s, m, n
  <2> QED BY <1>0, <2>1
<1>3. d \in Seq(Nat) /\ Len(d) <= Len(dq) /\ SuffixOf(d, A)
  BY <1>0, <1>1, PruneKeepsSuffix
<1>4. \/ /\ Len(d) >= L
         /\ hits' = [hits EXCEPT ![k] = d] /\ admitted' = admitted
      \/ /\ Len(d) < L
         /\ hits' = [hits EXCEPT ![k] = Append(d, s)]
         /\ admitted' = [admitted EXCEPT ![k] = Append(A, s)]
  BY CheckLimitStep
<1>5. hits \in [Keys -> Seq(Nat)] /\ admitted \in [Keys -> Seq(Nat)]
  BY DEF GTypeInv, LimitTypes
<1> HIDE DEF s, A, dq, L, m, n
<1>6. SUFFICES ASSUME NEW hq \in Seq(Nat), NEW B \in Seq(Nat), hits'[k] = hq, admitted'[k] = B,
                      \/ hq = d /\ B = A /\ Len(d) >= L
                      \/ hq = Append(d, s) /\ B = Append(A, s) /\ Len(d) < L
               PROVE  /\ Len(hq) <= L /\ SuffixOf(hq, B) /\ \A i \in DOMAIN B : B[i] <= clock
                      /\ \A e \in Int : Early(B, hq, e) \/ Late(B, hq, e, L, n(e), clock)
                      /\ \A c \in Int : \A i \in DOMAIN B :
                           B[i] > c => Cardinality(Laggards(B, i, c)) + n(c) <= Pool - 1
  <2>1. \/ hits'[k] = d /\ admitted'[k] = A /\ Len(d) >= L
        \/ hits'[k] = Append(d, s) /\ admitted'[k] = Append(A, s) /\ Len(d) < L
    <3> HIDE DEF k, d
    <3> QED BY <1>0, <1>4, <1>5 DEF A
  <2>2. hits'[k] \in Seq(Nat) /\ admitted'[k] \in Seq(Nat)
    <3>1. d \in Seq(Nat) /\ A \in Seq(Nat) /\ Append(d, s) \in Seq(Nat) /\ Append(A, s) \in Seq(Nat)
      BY <1>0, <1>3
    <3> HIDE DEF k, d
    <3> QED BY <2>1, <3>1
  <2>3. /\ Len(hits'[k]) <= L /\ SuffixOf(hits'[k], admitted'[k])
        /\ \A i \in DOMAIN admitted'[k] : admitted'[k][i] <= clock
        /\ \A e \in Int : \/ Early(admitted'[k], hits'[k], e)
                          \/ Late(admitted'[k], hits'[k], e, L, n(e), clock)
        /\ \A c \in Int : \A i \in DOMAIN admitted'[k] :
             admitted'[k][i] > c => Cardinality(Laggards(admitted'[k], i, c)) + n(c) <= Pool - 1
    BY <1>6, <2>1, <2>2
  <2> QED BY <1>0, <2>3 DEF KeyInv, DequeInv, WindowInv, LagInv, L, n
<1> HIDE DEF k
<1>7. CASE hq = d /\ B = A /\ Len(d) >= L
  <2>1. Len(hq) <= L /\ SuffixOf(hq, B) /\ \A i \in DOMAIN B : B[i] <= clock
    BY <1>0, <1>1, <1>3, <1>7
  <2>2. ASSUME NEW e \in Int PROVE Early(B, hq, e) \/ Late(B, hq, e, L, n(e), clock)
    BY <1>0, <1>1, <1>2, <1>7, RefusalKeepsWindow
  <2>3. ASSUME NEW c \in Int, NEW i \in DOMAIN B, B[i] > c
        PROVE  Cardinality(Laggards(B, i, c)) + n(c) <= Pool - 1
    <3>1. Cardinality(Laggards(A, i, c)) \in Nat
      BY <1>0, CountsAreFinite DEF Laggards
    <3>2. Cardinality(Laggards(A, i, c)) + m(c) <= Pool - 1
      BY <1>1, <1>7, <2>3
    <3>3. n(c) \in Nat /\ m(c) \in Nat /\ n(c) <= m(c)
      BY <1>2
    <3> QED BY <1>7, <3>1, <3>2, <3>3, PoolSize
  <2> QED BY <2>1, <2>2, <2>3
<1>8. CASE hq = Append(d, s) /\ B = Append(A, s) /\ Len(d) < L
  <2>0. /\ \A i \in DOMAIN B : i \in DOMAIN A \/ i = Len(A) + 1
        /\ \A i \in DOMAIN A : B[i] = A[i]
        /\ B[Len(A) + 1] = s
    BY <1>0, <1>8
  <2>1. Len(hq) <= L /\ SuffixOf(hq, B) /\ \A i \in DOMAIN B : B[i] <= clock
    <3>0. Len(d) \in Nat /\ Len(A) \in Nat /\ Len(d) <= Len(A) /\ Len(hq) = Len(d) + 1 /\ Len(B) = Len(A) + 1
      BY <1>0, <1>3, <1>8 DEF SuffixOf
    <3>1. Len(hq) <= L /\ Len(hq) <= Len(B)
      BY <1>0, <1>8, <3>0
    <3>2. \A i \in DOMAIN B : B[i] <= clock
      BY <1>0, <1>1, <2>0
    <3>3. ASSUME NEW i \in 1..Len(hq) PROVE hq[i] = B[Len(B) - Len(hq) + i]
      <4>1. Len(B) - Len(hq) + i = Len(A) - Len(d) + i
        BY <3>0
      <4>2. CASE i = Len(d) + 1
        <5>1. Len(A) - Len(d) + i = Len(A) + 1
          BY <3>0, <4>2
        <5> QED BY <1>0, <1>3, <1>8, <4>1, <4>2, <5>1
      <4>3. CASE i \in 1..Len(d)
        <5>1. Len(A) - Len(d) + i \in 1..Len(A) /\ d[i] = A[Len(A) - Len(d) + i]
          BY <1>3, <3>0, <4>3 DEF SuffixOf
        <5>2. hq[i] = d[i]
          BY <1>0, <1>3, <1>8, <4>3
        <5>3. B[Len(A) - Len(d) + i] = A[Len(A) - Len(d) + i]
          BY <1>0, <1>8, <5>1
        <5> QED BY <4>1, <5>1, <5>2, <5>3
      <4> QED BY <3>0, <4>2, <4>3
    <3> QED BY <3>1, <3>2, <3>3 DEF SuffixOf
  <2>2. ASSUME NEW e \in Int PROVE Early(B, hq, e) \/ Late(B, hq, e, L, n(e), clock)
    BY <1>0, <1>1, <1>2, <1>8, AdmissionKeepsWindow
  <2>3. ASSUME NEW c \in Int, NEW i \in DOMAIN B, B[i] > c
        PROVE  Cardinality(Laggards(B, i, c)) + n(c) <= Pool - 1
    <3>0. /\ Cardinality(Laggards(B, Len(A) + 1, c)) = 0
          /\ \A j \in DOMAIN A :
               /\ Cardinality(Laggards(B, j, c)) <= Cardinality(Laggards(A, j, c)) + 1
               /\ s > c => Cardinality(Laggards(B, j, c)) = Cardinality(Laggards(A, j, c))
      BY <1>0, <1>8, CountsOfAppend
    <3>1. CASE i = Len(A) + 1
      BY <1>2, <3>0, <3>1, PoolSize
    <3>2. CASE i \in DOMAIN A
      <4>1. Cardinality(Laggards(A, i, c)) \in Nat /\ Cardinality(Laggards(B, i, c)) \in Nat
        BY <1>0, CountsAreFinite DEF Laggards
      <4>2. Cardinality(Laggards(A, i, c)) + m(c) <= Pool - 1
        BY <1>1, <2>0, <2>3, <3>2
      <4>3. n(c) \in Nat /\ m(c) \in Nat /\ n(c) <= m(c) /\ (s <= c => n(c) = m(c) - 1)
        BY <1>2
      <4>4. /\ Cardinality(Laggards(B, i, c)) <= Cardinality(Laggards(A, i, c)) + 1
            /\ s > c => Cardinality(Laggards(B, i, c)) = Cardinality(Laggards(A, i, c))
        BY <3>0, <3>2
      <4> HIDE DEF m, n
      <4>5. CASE s > c
        BY <4>1, <4>2, <4>3, <4>4, <4>5, PoolSize
      <4>6. CASE s <= c
        BY <4>1, <4>2, <4>3, <4>4, <4>6, PoolSize
      <4>7. s \in Int
        BY <1>0
      <4> QED BY <4>5, <4>6, <4>7
    <3> QED BY <2>0, <3>1, <3>2
  <2> QED BY <2>1, <2>2, <2>3
<1> QED BY <1>6, <1>7, <1>8

\* The limiter refuses when the key's window is full, but for the stamps that
\* came after a later one.
LEMMA RefusalIsDeserved ==
  ASSUME GTypeInv, StampInv, NEW t \in Threads, CheckLimit(t), key[t] \in Limited,
         KeyInv(key[t]), resp'[t].status = 429
  PROVE  /\ admitted' = admitted
         /\ Cardinality(Above(admitted[key[t]], stamp[t] - Window)) >= KeyLimit[key[t]] - Slack(key[t])
<1> DEFINE k == key[t]
           A == admitted[k]
           c == stamp[t] - Window
           d == Pruned(hits[k], c)
           o == Len(A) - Len(d)
           L == KeyLimit[k]
<1>0. /\ stamp[t] \in Nat /\ c \in Int /\ A \in Seq(Nat) /\ hits[k] \in Seq(Nat)
      /\ L \in Nat /\ L > 0
  BY CheckLimitStep, GatewayAssumption DEF GTypeInv, ThreadTypes, LimitTypes, Limited
<1>1. resp[t].status = 0
  BY CheckLimitStep DEF GTypeInv, ThreadInv, NoAnswer
<1>2. Len(d) >= L /\ admitted' = admitted
  BY <1>1, CheckLimitStep
<1>3. d \in Seq(Nat) /\ SuffixOf(d, A) /\ (Len(d) > 0 => d[1] > c)
  <2>1. SuffixOf(hits[k], A)
    BY DEF KeyInv, DequeInv
  <2>2. d \in Seq(Nat) /\ SuffixOf(d, A)
    <3> DEFINE s == stamp[t]
               dq == hits[k]
    <3>1. SuffixOf(dq, A) /\ dq \in Seq(Nat) /\ A \in Seq(Nat) /\ s \in Nat
      BY <1>0, <2>1
    <3> HIDE DEF s, dq, A, k
    <3>2. Pruned(dq, s - Window) \in Seq(Nat) /\ SuffixOf(Pruned(dq, s - Window), A)
      BY <3>1, PruneKeepsSuffix
    <3> QED BY <3>2 DEF s, dq
  <2>3. Len(d) > 0 => d[1] > c
    BY <1>0, PrunedIsSuffix
  <2> QED BY <2>2, <2>3
<1>4. \A i \in DOMAIN A : A[i] > c => Cardinality(Laggards(A, i, c)) + Cardinality(Stale(c)) <= Pool - 1
  BY <1>0 DEF KeyInv, LagInv
<1>5. Slack(k) = IF Ordered(A) THEN 0 ELSE Pool - 1
  BY DEF Slack, InOrder, Ordered, Pool
<1>6. Cardinality(Stale(c)) \in Nat
  BY <1>0, StaleCount
<1> HIDE DEF k, A, c, d, L
<1>7. /\ Len(d) \in Nat /\ Len(A) \in Nat /\ o \in Nat /\ 1 \in 1..Len(d)
  BY <1>0, <1>2, <1>3 DEF SuffixOf
<1>8. o + 1 \in 1..Len(A) /\ d[1] = A[o + 1]
  BY <1>3, <1>7 DEF SuffixOf
<1>9. A[o + 1] > c
  BY <1>3, <1>7, <1>8
<1> DEFINE D == (o + 1)..Len(A)
           Late1 == Laggards(A, o + 1, c)
           Up == Above(A, c)
<1>10. /\ IsFiniteSet(D) /\ Cardinality(D) = Len(d)
  <2>1. o + 1 \in Int /\ Len(A) \in Int
    BY <1>7
  <2> HIDE DEF o
  <2>2. IsFiniteSet(D) /\ Cardinality(D) = IF o + 1 > Len(A) THEN 0 ELSE Len(A) - (o + 1) + 1
    BY <2>1, FS_Interval
  <2> QED BY <1>7, <1>8, <2>2 DEF o
<1>11. /\ Cardinality(Late1) \in Nat /\ Cardinality(Up) \in Nat
       /\ IsFiniteSet(Late1) /\ IsFiniteSet(Up)
  BY <1>0, CountsAreFinite DEF Laggards, Above
<1>12. D \subseteq Up \union Late1
  <2> SUFFICES ASSUME NEW i \in D, i \notin Up PROVE i \in Late1
    OBVIOUS
  <2>1. i \in DOMAIN A /\ A[i] \in Nat /\ i \in Nat
    BY <1>0, <1>7
  <2>2. A[i] <= c
    BY <1>0, <2>1 DEF Above
  <2>3. i # o + 1
    BY <1>0, <1>9, <2>1, <2>2
  <2>4. o + 1 < i
    BY <1>7, <2>3
  <2> QED BY <2>1, <2>2, <2>4 DEF Laggards
<1> HIDE DEF D, Up, Late1
<1>13. Cardinality(D) <= Cardinality(Up) + Cardinality(Late1)
  <2>1. /\ IsFiniteSet(Up \union Late1)
        /\ Cardinality(Up \union Late1) = Cardinality(Up) + Cardinality(Late1) - Cardinality(Up \cap Late1)
    BY <1>11, FS_Union
  <2>2. Cardinality(Up \cap Late1) \in Nat
    BY <1>11, FS_Intersection, FS_CardinalityType
  <2>3. Cardinality(D) <= Cardinality(Up \union Late1)
    BY <1>12, <2>1, FS_Subset
  <2> QED BY <1>7, <1>10, <1>11, <2>1, <2>2, <2>3
<1>14. Cardinality(Late1) <= Pool - 1
  <2>1. Cardinality(Laggards(A, o + 1, c)) + Cardinality(Stale(c)) <= Pool - 1
    BY <1>0, <1>4, <1>8, <1>9
  <2> QED BY <1>6, <1>11, <2>1, PoolSize DEF Late1
<1>15. Ordered(A) => Cardinality(Late1) = 0
  <2>1. Ordered(A) => Late1 = {}
    BY <1>0, <1>8, <1>9 DEF Ordered, Late1, Laggards
  <2> QED BY <2>1, FS_EmptySet
<1>16. Cardinality(Up) >= L - (IF Ordered(A) THEN 0 ELSE Pool - 1)
  BY <1>0, <1>2, <1>7, <1>10, <1>11, <1>13, <1>14, <1>15, PoolSize
<1> QED BY <1>2, <1>5, <1>16 DEF k, A, c, L, Up

\* Slack never shrinks and what was admitted stays admitted.
LEMMA HistoryGrows ==
  ASSUME GTypeInv, NEW t \in Threads, CheckLimit(t), NEW k \in Keys, NEW c \in Int
  PROVE  /\ Cardinality(Above(admitted'[k], c)) >= Cardinality(Above(admitted[k], c))
         /\ Cardinality(Above(admitted'[k], c)) \in Nat /\ Cardinality(Above(admitted[k], c)) \in Nat
         /\ Slack(k)' >= Slack(k) /\ Slack(k) \in Nat /\ Slack(k)' \in Nat
<1> DEFINE A == admitted[k]
           B == admitted'[k]
<1>0. /\ A \in Seq(Nat) /\ stamp[t] \in Nat
  BY DEF GTypeInv, LimitTypes, ThreadTypes
<1>1. B = A \/ B = Append(A, stamp[t])
  BY CheckLimitStep DEF GTypeInv, LimitTypes
<1>2. /\ Slack(k) = IF Ordered(A) THEN 0 ELSE Pool - 1
      /\ Slack(k)' = IF Ordered(B) THEN 0 ELSE Pool - 1
  BY DEF Slack, InOrder, Ordered, Pool
<1> HIDE DEF A, B
<1>3. B \in Seq(Nat)
  BY <1>0, <1>1
<1>4. Cardinality(Above(A, c)) \in Nat /\ Cardinality(Above(B, c)) \in Nat
  BY <1>0, <1>3, CountsAreFinite DEF Above
<1>5. Cardinality(Above(B, c)) >= Cardinality(Above(A, c)) /\ (Ordered(B) => Ordered(A))
  <2>1. CASE B = A
    BY <1>4, <2>1
  <2>2. CASE B = Append(A, stamp[t])
    <3>1. /\ Cardinality(Above(Append(A, stamp[t]), c)) >= Cardinality(Above(A, c))
          /\ Ordered(Append(A, stamp[t])) => Ordered(A)
      BY <1>0, CountsOfAppend
    <3> QED BY <2>2, <3>1
  <2> QED BY <1>1, <2>1, <2>2
<1>6. Slack(k)' >= Slack(k) /\ Slack(k) \in Nat /\ Slack(k)' \in Nat
  BY <1>2, <1>5, PoolSize
<1> QED BY <1>4, <1>5, <1>6 DEF A, B

\* Outside the limiter every step is quiet for every key, and no thread is
\* newly refused.
LEMMA OutsideLimiter ==
  ASSUME GTypeInv, StampInv, Next, \A t \in Threads : ~CheckLimit(t)
  PROVE  /\ UNCHANGED <<hits, admitted>> /\ StampInv'
         /\ \A k \in Keys : QuietFor(k)
         /\ \A u \in Threads : resp'[u].status = 429 =>
              resp[u].status = 429 /\ key'[u] = key[u] /\ stamp'[u] = stamp[u]
<1> USE DEF GTypeInv
<1>0. /\ pc \in [Threads -> {"idle", "open", "auth", "answered"} \union Serving]
      /\ stamp \in [Threads -> Nat] /\ resp \in [Threads -> Reply] /\ clock \in Nat
      /\ key \in [Threads -> Keys \union {NoKey}]
  BY DEF ThreadTypes, LimitTypes
<1>1. ASSUME UNCHANGED <<hits, admitted>>, clock' \in Nat, clock' >= clock,
             \A u \in Threads : pc'[u] = "limit" =>
               \/ pc[u] = "limit" /\ stamp'[u] = stamp[u]
               \/ stamp'[u] = clock
      PROVE  StampInv' /\ \A k \in Keys : QuietFor(k)
  <2>1. StampInv'
    BY <1>0, <1>1 DEF StampInv
  <2>2. ASSUME NEW c \in Int, c < clock PROVE Stale(c)' \subseteq Stale(c)
    BY <1>0, <1>1, <2>2 DEF Stale
  <2> QED BY <1>1, <2>1, <2>2 DEF QuietFor
<1>2. CASE Tick
  <2>1. UNCHANGED <<hits, admitted, pc, stamp, resp, key>> /\ clock' = clock + 1
    BY <1>2 DEF Tick
  <2>2. StampInv' /\ \A k \in Keys : QuietFor(k)
    BY <1>0, <1>1, <2>1
  <2> QED BY <2>1, <2>2
<1>3. ASSUME NEW x \in DOMAIN tasks, Resume(x) \/ \E w \in {"submit", "resume"} : Run(x, w)
      PROVE  /\ UNCHANGED <<hits, admitted, pc, stamp, resp, key>> /\ StampInv'
             /\ \A k \in Keys : QuietFor(k)
  <2>1. UNCHANGED <<hits, admitted, pc, stamp, resp, key, clock>>
    BY <1>3, TaskSteps DEF outside, limits
  <2>2. StampInv' /\ \A k \in Keys : QuietFor(k)
    BY <1>0, <1>1, <2>1
  <2> QED BY <2>1, <2>2
<1>4. ASSUME NEW t \in Threads, (\E r \in Requests : Receive(t, r)) \/ ThreadStep(t)
      PROVE  /\ UNCHANGED <<hits, admitted>> /\ StampInv'
             /\ \A k \in Keys : QuietFor(k)
             /\ \A u \in Threads : resp'[u].status = 429 =>
                  resp[u].status = 429 /\ key'[u] = key[u] /\ stamp'[u] = stamp[u]
  <2>1. UNCHANGED limits
    BY <1>4 DEF ThreadStep, Receive, Authenticate, ReadClock, ServeOpen, CreateTask, Reread,
       SubmitRaised, FindTask, ReadTrace, ListTasks, ReadTraces, Respond
  <2>2. \A u \in Threads \ {t} : pc'[u] = pc[u] /\ resp'[u] = resp[u]
    BY <1>0, <1>4 DEF ThreadStep, Receive, Authenticate, ReadClock, ServeOpen, CreateTask, Reread,
       SubmitRaised, FindTask, ReadTrace, ListTasks, ReadTraces, Respond, Goto, Answer
  <2>3. \A u \in Threads \ {t} : stamp'[u] = stamp[u] /\ key'[u] = key[u]
    BY <1>0, <1>4 DEF ThreadStep, Receive, Authenticate, ReadClock, ServeOpen, CreateTask, Reread,
       SubmitRaised, FindTask, ReadTrace, ListTasks, ReadTraces, Respond
  <2>4. pc'[t] = "limit" => stamp'[t] = clock
    BY <1>0, <1>4 DEF ThreadStep, Receive, Authenticate, ReadClock, ServeOpen, CreateTask, Reread,
       SubmitRaised, FindTask, ReadTrace, ListTasks, ReadTraces, Respond, Goto, Answer
  <2>5. StampInv' /\ \A k \in Keys : QuietFor(k)
    BY <1>0, <1>1, <2>1, <2>2, <2>3, <2>4 DEF limits
  <2>6. resp'[t].status # 429
    BY <1>4, WhoAnswersWhat
  <2> QED BY <2>1, <2>2, <2>3, <2>5, <2>6 DEF limits
<1> QED BY <1>2, <1>3, <1>4 DEF Next

\* The limiter's invariants are kept by every step.
LEMMA LimitStep == LimitInv /\ [Next]_vars => LimitInv'
<1> SUFFICES ASSUME LimitInv, [Next]_vars PROVE LimitInv'
  OBVIOUS
<1> USE DEF LimitInv
<1>0. GTypeInv' /\ Limited \subseteq Keys /\ Limited' = Limited
  BY GatewayStep DEF Limited
<1>1. CASE UNCHANGED vars
  BY <1>0, <1>1 DEF vars, StampInv, KeyInv, DequeInv, WindowInv, LagInv, Stale, RefusalInv, Slack, InOrder
<1>2. CASE Next /\ \A t \in Threads : ~CheckLimit(t)
  <2>1. ASSUME NEW k \in Limited PROVE KeyInv(k)' /\ RefusalInv(k)'
    <3>1. KeyInv(k)'
      BY <1>0, <1>2, <2>1, OutsideLimiter, QuietKeepsKey
    <3>2. Slack(k)' = Slack(k) /\ admitted' = admitted
      BY <1>2, OutsideLimiter DEF Slack, InOrder
    <3>3. RefusalInv(k)'
      BY <1>2, <2>1, <3>2, OutsideLimiter DEF RefusalInv
    <3> QED BY <3>1, <3>3
  <2> QED BY <1>0, <1>2, <2>1, OutsideLimiter
<1>3. ASSUME NEW t \in Threads, CheckLimit(t) PROVE LimitInv'
  <2>0. /\ pc[t] = "limit" /\ key[t] \in Keys /\ pc'[t] # "limit" /\ clock' = clock /\ key' = key
        /\ stamp' = stamp /\ \A u \in Threads \ {t} : pc'[u] = pc[u] /\ resp'[u] = resp[u]
        /\ clock \in Nat /\ stamp \in [Threads -> Nat]
    BY <1>3, CheckLimitStep DEF GTypeInv, LimitTypes, ThreadTypes
  <2>1. StampInv'
    BY <2>0 DEF StampInv
  <2>2. ASSUME NEW k \in Limited PROVE KeyInv(k)'
    <3>1. CASE k = key[t]
      BY <1>3, <2>2, <3>1, <2>0, LimiterKeepsKey
    <3>2. CASE k # key[t]
      <4>1. hits'[k] = hits[k] /\ admitted'[k] = admitted[k]
        BY <1>0, <1>3, <3>2, CheckLimitStep DEF GTypeInv, LimitTypes
      <4>2. QuietFor(k)
        BY <1>3, <2>0, <4>1, StaleAfterLimiter DEF QuietFor
      <4> QED BY <2>2, <4>2, QuietKeepsKey
    <3> QED BY <3>1, <3>2
  <2>3. ASSUME NEW k \in Limited PROVE RefusalInv(k)'
    <3> SUFFICES ASSUME NEW u \in Threads, key[u] = k, resp'[u].status = 429
                 PROVE  Cardinality(Above(admitted'[k], stamp[u] - Window)) >= KeyLimit[k] - Slack(k)'
      BY <2>0 DEF RefusalInv
    <3>0. stamp[u] - Window \in Int /\ KeyLimit[k] \in Int /\ k \in Keys
      BY <1>0, <2>0, GatewayAssumption
    <3>1. Cardinality(Above(admitted[k], stamp[u] - Window)) >= KeyLimit[k] - Slack(k)
      <4>1. CASE u = t
        BY <1>3, <2>3, <4>1, RefusalIsDeserved
      <4>2. CASE u # t
        BY <2>0, <2>3, <4>2 DEF RefusalInv
      <4> QED BY <4>1, <4>2
    <3>2. /\ Cardinality(Above(admitted'[k], stamp[u] - Window)) >= Cardinality(Above(admitted[k], stamp[u] - Window))
          /\ Cardinality(Above(admitted'[k], stamp[u] - Window)) \in Nat
          /\ Cardinality(Above(admitted[k], stamp[u] - Window)) \in Nat
          /\ Slack(k)' >= Slack(k) /\ Slack(k) \in Nat /\ Slack(k)' \in Nat
      BY <1>3, <3>0, HistoryGrows
    <3> QED BY <3>0, <3>1, <3>2
  <2> QED BY <1>0, <2>1, <2>2, <2>3
<1> QED BY <1>1, <1>2, <1>3

\* The limiter, for any pool, limit and window: at most the limit in every
\* trailing window and no refusal before it, but for the threads that enter
\* out of the order of their stamps, one each.
THEOREM LimiterBound == Spec => []WindowHolds
<1>1. Init => LimitInv
  <2> SUFFICES ASSUME Init PROVE LimitInv
    OBVIOUS
  <2>1. GTypeInv /\ StampInv
    BY GatewayInit DEF Init, StampInv
  <2>2. ASSUME NEW k \in Limited PROVE KeyInv(k) /\ RefusalInv(k)
    <3>1. hits[k] = <<>> /\ admitted[k] = <<>> /\ k \in Keys /\ KeyLimit[k] \in Nat
      BY <2>2, GatewayAssumption DEF Init, Limited
    <3>2. DequeInv(k) /\ LagInv(k)
      BY <3>1 DEF DequeInv, LagInv, SuffixOf
    <3>3. WindowInv(k)
      BY <3>1 DEF WindowInv, Early, InWindow
    <3>4. RefusalInv(k)
      BY DEF Init, RefusalInv, NoAnswer
    <3> QED BY <3>2, <3>3, <3>4 DEF KeyInv
  <2> QED BY <2>1, <2>2 DEF LimitInv
<1>2. LimitInv => WindowHolds
  <2> SUFFICES ASSUME LimitInv, NEW k \in Limited
               PROVE  /\ \A end \in 0..MaxClock :
                           Cardinality(InWindow(admitted[k], end)) <= KeyLimit[k] + Slack(k)
                      /\ RefusalInv(k)
    BY DEF WindowHolds, InWindow, RefusalInv, Above, Limited
  <2> DEFINE A == admitted[k]
  <2>1. KeyInv(k) /\ RefusalInv(k) /\ A \in Seq(Nat) /\ hits[k] \in Seq(Nat) /\ KeyLimit[k] \in Int
    BY GatewayAssumption DEF LimitInv, GTypeInv, LimitTypes, Limited
  <2>2. Slack(k) = IF Ordered(A) THEN 0 ELSE Pool - 1
    BY DEF Slack, InOrder, Ordered, Pool
  <2>3. ASSUME NEW end \in 0..MaxClock PROVE Cardinality(InWindow(A, end)) <= KeyLimit[k] + Slack(k)
    <3>0. end \in Int /\ Cardinality(InWindow(A, end)) \in Nat
      <4>1. InWindow(A, end) \in SUBSET (DOMAIN A)
        BY DEF InWindow
      <4> QED BY <2>1, <4>1, CountsAreFinite
    <3>1. CASE Early(A, hits[k], end)
      <4>1. Len(hits[k]) \in Nat /\ Len(hits[k]) <= KeyLimit[k] /\ SuffixOf(hits[k], A)
        BY <2>1 DEF KeyInv, DequeInv
      <4>2. Cardinality(InWindow(A, end)) <= Len(hits[k])
        BY <2>1, <3>0, <3>1, <4>1, EarlyFitsDeque
      <4> QED BY <2>1, <2>2, <3>0, <4>1, <4>2, PoolSize
    <3>2. CASE Late(A, hits[k], end, KeyLimit[k], Cardinality(Stale(end)), clock)
      <4>1. Cardinality(Stale(end)) \in Nat
        BY <3>0, StaleCount
      <4> QED BY <2>1, <2>2, <3>0, <3>2, <4>1, PoolSize DEF Late
    <3> QED BY <2>1, <3>0, <3>1, <3>2 DEF KeyInv, WindowInv
  <2> QED BY <2>1, <2>3
<1> QED BY <1>1, <1>2, LimitStep, PTL DEF Spec

=============================================================================
