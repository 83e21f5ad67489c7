------------------------------- MODULE Gateway -------------------------------
(***************************************************************************)
(* The HTTP gateway: sync handlers on a thread pool, the API-key check,    *)
(* the sliding-window rate limiter, and the /v1 routes over the tasks      *)
(* table.  A task's run is the agent loop as the gateway sees it: it sets  *)
(* the row RUNNING and ends in a terminal state or raises (AgentLoop       *)
(* models what is inside).  resume runs server-side, on a task whose       *)
(* submit may still be running.                                            *)
(***************************************************************************)
EXTENDS Integers, Sequences, FiniteSets

CONSTANTS
  Threads,      \* the pool's threads
  Keys, NoKey,  \* API keys: every row of api_keys; and none
  KeyUser,      \* [Keys -> users]
  KeyLimit,     \* [Keys -> rate_limit_per_min]
  WorkspaceOf,  \* [workspaces -> users]
  Tokens,       \* what the Authorization header may hold: [form, prefix, secret]
  Requests,     \* the requests that may come: part of AllRequests
  TaskIds,      \* ids new_id hands out, in order: 1..n
  Window,       \* the limiter's window, in ticks
  MaxClock,     \* bound: ticks
  MaxRequests   \* bound: requests

ASSUME GatewayAssumption ==
  /\ Window \in Nat \ {0} /\ MaxClock \in Nat /\ MaxRequests \in Nat
  /\ KeyLimit \in [Keys -> Int] /\ NoKey \notin Keys

ASSUME PoolAssumption == IsFiniteSet(Threads) /\ Threads # {}

VARIABLES
  clock,     \* time.monotonic()
  hits,      \* the limiter's deque of stamps, per key
  tasks,     \* the tasks table: [id -> [user, state]]
  loop,      \* per task, where the submit's and the resume's AgentLoop.run are
  pc, req,   \* per thread: where it is, and the request it serves
  key,       \* the key it authenticated
  stamp,     \* the time it read for the limiter
  task,      \* the task it created or reads
  resp,      \* what it answers: [status, shown, state]
  requests,  \* acp_http_requests_total
  admitted,  \* history: the stamps the limiter admitted, per key, in order
  resumed    \* history: tasks a resume found unfinished

vars == <<clock, hits, tasks, loop, pc, req, key, stamp, task, resp, requests, admitted, resumed>>
db     == <<tasks, loop, resumed>>
limits == <<clock, hits, admitted>>

Terminal == {"VERIFIED_SUCCESS", "GAVE_UP", "BUDGET_EXHAUSTED"}
NoTask   == 0
NoAnswer == [status |-> 0, shown |-> {}, state |-> "none"]
NoRequest == [route |-> "none", token |-> [form |-> "none", prefix |-> NoKey, secret |-> FALSE],
              arg |-> NoTask]

OpenRoutes == {"healthz", "readyz", "metrics"}
TaskRoutes == {"get_task", "events", "trace"}

AllRequests ==
  [route : OpenRoutes, token : {NoRequest.token}, arg : {NoTask}]
  \union [route : TaskRoutes, token : Tokens, arg : TaskIds]
  \union [route : {"summary", "runs"}, token : Tokens, arg : {NoTask}]
  \union [route : {"create_task"}, token : Tokens, arg : DOMAIN WorkspaceOf]

Caller(t) == KeyUser[key[t]]

\* Bound: ids do not run out.
Creates == {t \in Threads : req[t].route = "create_task" /\ task[t] = NoTask}

Init ==
  /\ clock = 0 /\ requests = 0
  /\ hits = [k \in Keys |-> <<>>] /\ admitted = [k \in Keys |-> <<>>]
  /\ tasks = <<>> /\ loop = <<>> /\ resumed = {}
  /\ pc = [t \in Threads |-> "idle"] /\ req = [t \in Threads |-> NoRequest]
  /\ key = [t \in Threads |-> NoKey] /\ stamp = [t \in Threads |-> 0]
  /\ task = [t \in Threads |-> NoTask] /\ resp = [t \in Threads |-> NoAnswer]

Goto(t, from, to) == pc[t] = from /\ pc' = [pc EXCEPT ![t] = to]

\* The handler is done: shown are the tasks whose data the answer holds.
Answer(t, status, shown, state) ==
  /\ pc' = [pc EXCEPT ![t] = "answered"]
  /\ resp' = [resp EXCEPT ![t] = [status |-> status, shown |-> shown, state |-> state]]

-----------------------------------------------------------------------------
(* Before the handler.                                                     *)

Tick == clock < MaxClock /\ clock' = clock + 1
        /\ UNCHANGED <<hits, db, pc, req, key, stamp, task, resp, requests, admitted>>

\* The middleware counts the request and hands it to a thread.
Receive(t, r) ==
  /\ requests < MaxRequests
  /\ r.route = "create_task" => Len(tasks) + Cardinality(Creates) < Cardinality(TaskIds)
  /\ Goto(t, "idle", IF r.route \in OpenRoutes THEN "open" ELSE "auth")
  /\ req' = [req EXCEPT ![t] = r]
  /\ requests' = requests + 1
  /\ UNCHANGED <<limits, db, key, stamp, task, resp>>

\* require_auth: the header's form, the row by prefix, the secret's hash.
Authenticate(t) ==
  LET token == req[t].token
      valid == token.form = "bearer" /\ token.prefix \in Keys /\ token.secret
  IN  /\ pc[t] = "auth"
      /\ \/ ~valid /\ Answer(t, 401, {}, "none") /\ UNCHANGED key
         \/ /\ valid
            /\ Goto(t, "auth", IF KeyLimit[token.prefix] <= 0 THEN "handle" ELSE "stamp")
            /\ key' = [key EXCEPT ![t] = token.prefix]
            /\ UNCHANGED resp
      /\ UNCHANGED <<limits, db, req, stamp, task, requests>>

\* t = time.monotonic(), before the lock is taken.
ReadClock(t) ==
  /\ Goto(t, "stamp", "limit")
  /\ stamp' = [stamp EXCEPT ![t] = clock]
  /\ UNCHANGED <<limits, db, req, key, task, resp, requests>>

\* popleft while the first stamp is outside the window: only the head is looked at.
Pruned(dq, cutoff) ==
  LET keep == {i \in DOMAIN dq : dq[i] > cutoff}
  IN  IF keep = {} THEN <<>>
      ELSE SubSeq(dq, CHOOSE i \in keep : \A j \in keep : i <= j, Len(dq))

\* Mutant: admits while the count is not above the limit.
CheckLimitAbove(t) ==
  LET k == key[t]
      dq == Pruned(hits[k], stamp[t] - Window)
  IN  /\ pc[t] = "limit"
      /\ \/ /\ Len(dq) > KeyLimit[k]
            /\ Answer(t, 429, {}, "none")
            /\ hits' = [hits EXCEPT ![k] = dq]
            /\ UNCHANGED admitted
         \/ /\ Len(dq) <= KeyLimit[k]
            /\ Goto(t, "limit", "handle")
            /\ hits' = [hits EXCEPT ![k] = Append(dq, stamp[t])]
            /\ admitted' = [admitted EXCEPT ![k] = Append(@, stamp[t])]
            /\ UNCHANGED resp
      /\ UNCHANGED <<clock, db, req, key, stamp, task, requests>>

\* Mutant: a request over the limit waits for its turn.
CheckLimitWaits(t) ==
  LET k == key[t]
      dq == Pruned(hits[k], stamp[t] - Window)
  IN  /\ pc[t] = "limit"
      /\ Len(dq) < KeyLimit[k]
      /\ Goto(t, "limit", "handle")
      /\ hits' = [hits EXCEPT ![k] = Append(dq, stamp[t])]
      /\ admitted' = [admitted EXCEPT ![k] = Append(@, stamp[t])]
      /\ UNCHANGED <<clock, db, req, key, stamp, task, resp, requests>>

\* The body under the lock: prune, refuse or append.
CheckLimit(t) ==
  LET k == key[t]
      dq == Pruned(hits[k], stamp[t] - Window)
  IN  /\ pc[t] = "limit"
      /\ \/ /\ Len(dq) >= KeyLimit[k]
            /\ Answer(t, 429, {}, "none")
            /\ hits' = [hits EXCEPT ![k] = dq]
            /\ UNCHANGED admitted
         \/ /\ Len(dq) < KeyLimit[k]
            /\ Goto(t, "limit", "handle")
            /\ hits' = [hits EXCEPT ![k] = Append(dq, stamp[t])]
            /\ admitted' = [admitted EXCEPT ![k] = Append(@, stamp[t])]
            /\ UNCHANGED resp
      /\ UNCHANGED <<clock, db, req, key, stamp, task, requests>>

-----------------------------------------------------------------------------
(* The handlers.                                                           *)

\* /healthz and /metrics always answer; /readyz asks the database and the
\* sandbox, and a check that raises counts as false.
ServeOpen(t) ==
  /\ pc[t] = "open"
  /\ \E database, sandbox \in BOOLEAN :
       Answer(t, IF req[t].route # "readyz" \/ (database /\ sandbox) THEN 200 ELSE 503, {}, "none")
  /\ UNCHANGED <<limits, db, req, key, stamp, task, requests>>

Owned(user) == {x \in DOMAIN tasks : tasks[x].user = user}

\* create_task: a workspace that is not the caller's is NotFound; otherwise
\* submit inserts a PENDING row and calls run().
CreateTask(t) ==
  /\ pc[t] = "handle" /\ req[t].route = "create_task"
  /\ \/ /\ WorkspaceOf[req[t].arg] # Caller(t)
        /\ Answer(t, 404, {}, "none")
        /\ UNCHANGED <<db, task>>
     \/ /\ WorkspaceOf[req[t].arg] = Caller(t)
        /\ Goto(t, "handle", "submit")
        /\ tasks' = Append(tasks, [user |-> Caller(t), state |-> "PENDING"])
        /\ loop' = Append(loop, [submit |-> "reading", resume |-> "off"])
        /\ task' = [task EXCEPT ![t] = Len(tasks) + 1]
        /\ UNCHANGED <<resp, resumed>>
  /\ UNCHANGED <<limits, req, key, stamp, requests>>

\* submit returned: the row is read again, user-scoped, and is the answer.
Reread(t) ==
  /\ pc[t] = "submit" /\ loop[task[t]].submit = "ended"
  /\ \/ task[t] \in Owned(Caller(t)) /\ Answer(t, 202, {task[t]}, tasks[task[t]].state)
     \/ task[t] \notin Owned(Caller(t)) /\ Answer(t, 404, {}, "none")
  /\ UNCHANGED <<limits, db, req, key, stamp, task, requests>>

\* submit raised: an ACPError has a status of its own (402 stands for them all),
\* anything else is a 500.
SubmitRaised(t) ==
  /\ pc[t] = "submit" /\ loop[task[t]].submit = "raised"
  /\ \E status \in {402, 500} : Answer(t, status, {}, "none")
  /\ UNCHANGED <<limits, db, req, key, stamp, task, requests>>

\* Mutant: the task is looked up by its id alone.
FindAnyTask(t) ==
  /\ pc[t] = "handle" /\ req[t].route \in TaskRoutes
  /\ \/ req[t].arg \notin DOMAIN tasks /\ Answer(t, 404, {}, "none") /\ UNCHANGED task
     \/ /\ req[t].arg \in DOMAIN tasks
        /\ task' = [task EXCEPT ![t] = req[t].arg]
        /\ \/ req[t].route = "get_task" /\ Answer(t, 200, {req[t].arg}, tasks[req[t].arg].state)
           \/ req[t].route # "get_task" /\ Goto(t, "handle", "trace") /\ UNCHANGED resp
  /\ UNCHANGED <<limits, db, req, key, stamp, requests>>

\* get_task, and the ownership gate of the two journal routes.  The event stream
\* has begun with 200 when the gate refuses: the error is an event in it.
FindTask(t) ==
  /\ pc[t] = "handle" /\ req[t].route \in TaskRoutes
  /\ \/ /\ req[t].arg \notin Owned(Caller(t)) /\ UNCHANGED task
        /\ Answer(t, IF req[t].route = "events" THEN 200 ELSE 404, {}, "none")
     \/ /\ req[t].arg \in Owned(Caller(t))
        /\ task' = [task EXCEPT ![t] = req[t].arg]
        /\ \/ req[t].route = "get_task" /\ Answer(t, 200, {req[t].arg}, tasks[req[t].arg].state)
           \/ req[t].route # "get_task" /\ Goto(t, "handle", "trace") /\ UNCHANGED resp
  /\ UNCHANGED <<limits, db, req, key, stamp, requests>>

\* get_trace is a read of its own, by task id alone.
ReadTrace(t) ==
  /\ pc[t] = "trace"
  /\ Answer(t, 200, {task[t]}, "none")
  /\ UNCHANGED <<limits, db, req, key, stamp, task, requests>>

\* runs and summary list the caller's tasks; summary then reads their journals.
ListTasks(t) ==
  /\ pc[t] = "handle"
  /\ \/ req[t].route = "runs" /\ Answer(t, 200, Owned(Caller(t)), "none")
     \/ /\ req[t].route = "summary" /\ Goto(t, "handle", "traces")
        /\ resp' = [resp EXCEPT ![t].shown = Owned(Caller(t))]
  /\ UNCHANGED <<limits, db, req, key, stamp, task, requests>>

ReadTraces(t) ==
  /\ pc[t] = "traces"
  /\ Answer(t, 200, resp[t].shown, "none")
  /\ UNCHANGED <<limits, db, req, key, stamp, task, requests>>

Respond(t) ==
  /\ Goto(t, "answered", "idle")
  /\ req' = [req EXCEPT ![t] = NoRequest] /\ key' = [key EXCEPT ![t] = NoKey]
  /\ stamp' = [stamp EXCEPT ![t] = 0] /\ task' = [task EXCEPT ![t] = NoTask]
  /\ resp' = [resp EXCEPT ![t] = NoAnswer]
  /\ UNCHANGED <<limits, db, requests>>

-----------------------------------------------------------------------------
(* AgentLoop.run for task x, called by submit or by resume (w).            *)

LoopAt(x, w, from, to) ==
  loop[x][w] = from /\ loop' = [loop EXCEPT ![x][w] = to]

outside == <<limits, pc, req, key, stamp, task, resp, requests>>

\* Server-side resume after a crash: the row is read without a user.
Resume(x) ==
  /\ LoopAt(x, "resume", "off", "reading")
  /\ UNCHANGED <<tasks, resumed, outside>>

\* A finished task is returned as it is; otherwise the run goes on.
BeginRun(x, w) ==
  /\ \/ tasks[x].state \in Terminal /\ LoopAt(x, w, "reading", "ended") /\ UNCHANGED resumed
     \/ /\ tasks[x].state \notin Terminal /\ LoopAt(x, w, "reading", "starting")
        /\ resumed' = IF w = "resume" THEN resumed \union {x} ELSE resumed
  /\ UNCHANGED <<tasks, outside>>

SetRunning(x, w) ==
  /\ LoopAt(x, w, "starting", "running")
  /\ tasks' = [tasks EXCEPT ![x].state = "RUNNING"]
  /\ UNCHANGED <<resumed, outside>>

EndRun(x, w) ==
  /\ LoopAt(x, w, "running", "ended")
  /\ \E s \in Terminal : tasks' = [tasks EXCEPT ![x].state = s]
  /\ UNCHANGED <<resumed, outside>>

\* Mutant: an exception is swallowed, so that submit returns a status.
RaiseSwallowed(x, w) ==
  /\ LoopAt(x, w, "running", "ended")
  /\ UNCHANGED <<tasks, resumed, outside>>

\* An exception leaves run() with the row as it is.
Raise(x, w) ==
  /\ \E at \in {"starting", "running"} : LoopAt(x, w, at, "raised")
  /\ UNCHANGED <<tasks, resumed, outside>>

Run(x, w) == BeginRun(x, w) \/ SetRunning(x, w) \/ EndRun(x, w) \/ Raise(x, w)

-----------------------------------------------------------------------------
ThreadStep(t) ==
  \/ Authenticate(t) \/ ReadClock(t) \/ CheckLimit(t)
  \/ ServeOpen(t) \/ CreateTask(t) \/ Reread(t) \/ SubmitRaised(t)
  \/ FindTask(t) \/ ReadTrace(t) \/ ListTasks(t) \/ ReadTraces(t) \/ Respond(t)

Next ==
  \/ Tick
  \/ \E t \in Threads : (\E r \in Requests : Receive(t, r)) \/ ThreadStep(t)
  \/ \E x \in DOMAIN tasks :
       Resume(x) \/ \E w \in {"submit", "resume"} : Run(x, w)

\* Pool threads keep running, and a run ends (RunEnds of AgentLoop).
Spec ==
  /\ Init /\ [][Next]_vars
  /\ \A t \in Threads : WF_vars(ThreadStep(t))
  /\ \A x \in TaskIds : WF_vars(x \in DOMAIN tasks /\ Run(x, "submit"))

-----------------------------------------------------------------------------
InOrder(k) == \A i, j \in DOMAIN admitted[k] : i < j => admitted[k][i] <= admitted[k][j]

\* The stamp is read before the lock, so threads may enter out of order: each
\* other thread may then put the count off by one.
Slack(k) == IF InOrder(k) THEN 0 ELSE Cardinality(Threads) - 1

\* _SlidingWindowLimiter admits at most the limit in any trailing window, and
\* refuses only when that many were admitted in the refused request's window;
\* exactly so when threads reach the lock in the order of their stamps, and up
\* to one per other thread when they do not.
WindowHolds ==
  \A k \in {i \in Keys : KeyLimit[i] > 0} :
    /\ \A end \in 0..MaxClock :
         Cardinality({i \in DOMAIN admitted[k] : end - Window < admitted[k][i] /\ admitted[k][i] <= end})
           <= KeyLimit[k] + Slack(k)
    /\ \A t \in Threads :
         key[t] = k /\ resp[t].status = 429 =>
           Cardinality({i \in DOMAIN admitted[k] : stamp[t] - Window < admitted[k][i]})
             >= KeyLimit[k] - Slack(k)

\* Every route shows a caller its own tasks only, through each read it makes.
OwnRowsOnly ==
  \A t \in Threads : \A x \in resp[t].shown :
    key[t] \in Keys /\ x \in DOMAIN tasks /\ tasks[x].user = Caller(t)

\* create_task re-reads the row after submit: what it answers is a finished
\* task, unless a resume found the task unfinished and is changing the row too.
CreateAnswersTerminal ==
  \A t \in Threads :
    resp[t].status = 202 => resp[t].state \in Terminal \/ task[t] \in resumed

\* Every request is answered.
RequestsAnswered == \A t \in Threads : pc[t] = "auth" ~> pc[t] = "answered"

=============================================================================
