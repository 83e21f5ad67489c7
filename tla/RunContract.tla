---------------------------- MODULE RunContract ----------------------------
(***************************************************************************)
(* What AgentLoop.run promises of the task's row to submit and resume: a   *)
(* run that finds the row open sets it RUNNING, once, and then either      *)
(* writes a terminal state as its last step or leaves the row as it is.    *)
(* Nobody else writes the row, and runs of one task may overlap: each has  *)
(* read the row before its first write.                                    *)
(***************************************************************************)
CONSTANTS Runs,         \* the callers of run() on this task
          Terminal      \* the states a task may end in

VARIABLES state,        \* tasks.state
          phase         \* where the call of each is: off, starting or running

vars == <<state, phase>>

Init == state = "PENDING" /\ phase = [r \in Runs |-> "off"]

Move(r, from, to) == phase[r] = from /\ phase' = [phase EXCEPT ![r] = to]

\* The row is read, and is open.
Begin(r) == state \notin Terminal /\ Move(r, "off", "starting") /\ UNCHANGED state

SetRunning(r) == Move(r, "starting", "running") /\ state' = "RUNNING"

\* The last write of a run.
End(r) == Move(r, "running", "off") /\ state' \in Terminal

\* An exception leaves run(), or the process dies.
Leave(r) == (\E at \in {"starting", "running"} : Move(r, at, "off")) /\ UNCHANGED state

Next == \E r \in Runs : Begin(r) \/ SetRunning(r) \/ End(r) \/ Leave(r)

Spec == Init /\ [][Next]_vars

=============================================================================
