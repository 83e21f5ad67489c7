--------------------------- MODULE EffectivelyOnce ---------------------------
(***************************************************************************)
(* What the orchestrator promises about a task that may crash and resume   *)
(* any number of times ("effectively-once", acp/orchestrator/service.py):  *)
(* its steps are recorded in order, each recorded step is charged exactly  *)
(* once, before the next one is recorded, and the task is closed once,     *)
(* with every recorded step charged.  Crashes and resumes are invisible.   *)
(***************************************************************************)
EXTENDS Naturals

CONSTANTS Steps,        \* step indices, an initial segment of Nat
          Terminal      \* the states a task may end in

VARIABLES recorded,     \* the steps that have a journal row
          charges,      \* ledger COMMIT rows per step
          outcome       \* "open", or the terminal state

vars == <<recorded, charges, outcome>>

Settled == \A s \in recorded : charges[s] = 1

Init ==
    /\ recorded = {}
    /\ charges = [s \in Steps |-> 0]
    /\ outcome = "open"

\* The next step is recorded, once everything before it has been charged.
RecordStep(s) ==
    /\ outcome = "open" /\ Settled
    /\ s \notin recorded /\ \A q \in Steps : q < s => q \in recorded
    /\ recorded' = recorded \cup {s}
    /\ UNCHANGED <<charges, outcome>>

ChargeStep(s) ==
    /\ s \in recorded /\ charges[s] = 0
    /\ charges' = [charges EXCEPT ![s] = 1]
    /\ UNCHANGED <<recorded, outcome>>

Close(o) ==
    /\ outcome = "open" /\ Settled
    /\ outcome' = o
    /\ UNCHANGED <<recorded, charges>>

Next ==
    \/ \E s \in Steps : RecordStep(s) \/ ChargeStep(s)
    \/ \E o \in Terminal : Close(o)

Spec == Init /\ [][Next]_vars

=============================================================================
