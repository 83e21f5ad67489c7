---------------------------- MODULE AtomicLedger ----------------------------
(***************************************************************************)
(* What charge_atomic promises: a charge happens at one instant, against   *)
(* the balance of that instant, and only if it fits under the ceiling; the *)
(* agent loop's own COMMIT rows are added without a ceiling.               *)
(***************************************************************************)
EXTENDS Naturals

CONSTANTS Budget, Costs, Spends

VARIABLES spent, appended

ALvars == <<spent, appended>>

ALInit == spent = 0 /\ appended = 0

ALCharge(n) == spent + n <= Budget /\ spent' = spent + n /\ UNCHANGED appended

ALAppend(n) == spent' = spent + n /\ appended' = appended + n

ALNext == (\E n \in Costs : ALCharge(n)) \/ (\E n \in Spends : ALAppend(n))

ALSpec == ALInit /\ [][ALNext]_ALvars

=============================================================================
