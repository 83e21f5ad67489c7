---------------------------- MODULE LedgerProofs ----------------------------
(***************************************************************************)
(* Theorems about the budget ledger, for any number of chargers, any       *)
(* budget, costs and spends.  What makes the ceiling hold is the lock: the *)
(* sums a transaction has read are those of the table until it ends, so    *)
(* that the check made at its beginning still holds at COMMIT.             *)
(***************************************************************************)
EXTENDS Ledger, TLAPS

\* Whoever is inside a write transaction holds the lock, and nobody else.
LockInv == \A c \in Chargers : lpc[c] \in InTx <=> lock = c

\* The charge in progress is for one of the costs.
CostInv == \A c \in Chargers : lpc[c] \in {"begin"} \union InTx => cost[c] \in Costs

\* The sums of the open transaction against those of the table, per statement.
TxInv ==
  \A c \in Chargers :
    /\ lpc[c] = "check"   => txSpent = spent /\ txReserved = 0
    /\ lpc[c] = "reserve" => txSpent = spent /\ txReserved = 0
    /\ lpc[c] = "commit"  => txSpent = spent /\ txReserved = cost[c]
    /\ lpc[c] = "release" => txSpent = spent + cost[c] /\ txReserved = cost[c]
    /\ lpc[c] = "end"     => txSpent = spent + cost[c] /\ txReserved = 0
    /\ lpc[c] \in {"reserve", "commit", "release", "end"} => cost[c] + spent <= Budget

LedgerInv ==
  /\ LTypeOK /\ LockInv /\ CostInv /\ TxInv
  /\ NoHalfCharge /\ CeilingHolds

\* The empty table satisfies the invariant.
LEMMA LedgerInvInit == LInit => LedgerInv
  BY LedgerAssumption
  DEF LInit, LedgerInv, LTypeOK, LockInv, CostInv, TxInv, NoHalfCharge, CeilingHolds, InTx, Outcomes

\* Every step of every charger, and of the loop, keeps the invariant.
LEMMA LedgerInvStep == LedgerInv /\ [LNext]_lvars => LedgerInv'
<1> SUFFICES ASSUME LedgerInv, [LNext]_lvars PROVE LedgerInv'
  OBVIOUS
<1> USE LedgerAssumption DEF LedgerInv, InTx, Outcomes, Goto
<1>1. ASSUME NEW c \in Chargers, NEW n \in Costs, Request(c, n) PROVE LedgerInv'
  BY <1>1 DEF Request, LTypeOK, LockInv, CostInv, TxInv, NoHalfCharge, CeilingHolds
<1>2. ASSUME NEW c \in Chargers, BeginImmediate(c) PROVE LedgerInv'
  BY <1>2 DEF BeginImmediate, LTypeOK, LockInv, CostInv, TxInv, NoHalfCharge, CeilingHolds
<1>3. ASSUME NEW c \in Chargers, BusyTimeout(c) PROVE LedgerInv'
  BY <1>3 DEF BusyTimeout, LTypeOK, LockInv, CostInv, TxInv, NoHalfCharge, CeilingHolds
<1>4. ASSUME NEW c \in Chargers, CheckBalance(c) PROVE LedgerInv'
  <2>1. /\ lpc[c] = "check" /\ lock = c /\ cost[c] \in Nat
        /\ \A d \in Chargers \ {c} : lpc[d] \notin InTx /\ lpc'[d] = lpc[d]
    BY <1>4 DEF CheckBalance, LockInv, LTypeOK, CostInv
  <2>2. LTypeOK'
    BY <1>4, <2>1 DEF CheckBalance, LTypeOK, TxInv
  <2>3. LockInv' /\ CostInv'
    BY <1>4, <2>1 DEF CheckBalance, LTypeOK, LockInv, CostInv
  <2>4. TxInv'
    BY <1>4, <2>1 DEF CheckBalance, LTypeOK, NoHalfCharge, TxInv
  <2>5. NoHalfCharge' /\ CeilingHolds'
    BY <1>4, <2>1 DEF CheckBalance, LTypeOK, TxInv, NoHalfCharge, CeilingHolds
  <2>6. QED
    BY <2>2, <2>3, <2>4, <2>5
<1>5. ASSUME NEW c \in Chargers, InsertReserve(c) PROVE LedgerInv'
  <2>1. /\ lpc[c] = "reserve" /\ lock = c /\ cost[c] \in Nat
        /\ \A d \in Chargers \ {c} : lpc[d] \notin InTx /\ lpc'[d] = lpc[d]
    BY <1>5 DEF InsertReserve, LockInv, LTypeOK, CostInv
  <2>2. LTypeOK'
    BY <1>5, <2>1 DEF InsertReserve, LTypeOK, TxInv
  <2>3. LockInv' /\ CostInv'
    BY <1>5, <2>1 DEF InsertReserve, LTypeOK, LockInv, CostInv
  <2>4. TxInv'
    BY <1>5, <2>1 DEF InsertReserve, LTypeOK, NoHalfCharge, TxInv
  <2>5. NoHalfCharge' /\ CeilingHolds'
    BY <1>5, <2>1 DEF InsertReserve, LTypeOK, TxInv, NoHalfCharge, CeilingHolds
  <2>6. QED
    BY <2>2, <2>3, <2>4, <2>5
<1>6. ASSUME NEW c \in Chargers, InsertCommit(c) PROVE LedgerInv'
  <2>1. /\ lpc[c] = "commit" /\ lock = c /\ cost[c] \in Nat
        /\ \A d \in Chargers \ {c} : lpc[d] \notin InTx /\ lpc'[d] = lpc[d]
    BY <1>6 DEF InsertCommit, LockInv, LTypeOK, CostInv
  <2>2. LTypeOK'
    BY <1>6, <2>1 DEF InsertCommit, LTypeOK, TxInv
  <2>3. LockInv' /\ CostInv'
    BY <1>6, <2>1 DEF InsertCommit, LTypeOK, LockInv, CostInv
  <2>4. TxInv'
    BY <1>6, <2>1 DEF InsertCommit, LTypeOK, NoHalfCharge, TxInv
  <2>5. NoHalfCharge' /\ CeilingHolds'
    BY <1>6, <2>1 DEF InsertCommit, LTypeOK, TxInv, NoHalfCharge, CeilingHolds
  <2>6. QED
    BY <2>2, <2>3, <2>4, <2>5
<1>7. ASSUME NEW c \in Chargers, InsertRelease(c) PROVE LedgerInv'
  <2>1. /\ lpc[c] = "release" /\ lock = c /\ cost[c] \in Nat
        /\ \A d \in Chargers \ {c} : lpc[d] \notin InTx /\ lpc'[d] = lpc[d]
    BY <1>7 DEF InsertRelease, LockInv, LTypeOK, CostInv
  <2>2. LTypeOK'
    BY <1>7, <2>1 DEF InsertRelease, LTypeOK, TxInv
  <2>3. LockInv' /\ CostInv'
    BY <1>7, <2>1 DEF InsertRelease, LTypeOK, LockInv, CostInv
  <2>4. TxInv'
    BY <1>7, <2>1 DEF InsertRelease, LTypeOK, NoHalfCharge, TxInv
  <2>5. NoHalfCharge' /\ CeilingHolds'
    BY <1>7, <2>1 DEF InsertRelease, LTypeOK, TxInv, NoHalfCharge, CeilingHolds
  <2>6. QED
    BY <2>2, <2>3, <2>4, <2>5
<1>8. ASSUME NEW c \in Chargers, CommitTx(c) PROVE LedgerInv'
  <2>1. /\ lpc[c] = "end" /\ lock = c /\ cost[c] \in Nat
        /\ \A d \in Chargers \ {c} : lpc[d] \notin InTx /\ lpc'[d] = lpc[d]
    BY <1>8 DEF CommitTx, LockInv, LTypeOK, CostInv
  <2>2. LTypeOK'
    BY <1>8, <2>1 DEF CommitTx, LTypeOK, TxInv
  <2>3. LockInv' /\ CostInv'
    BY <1>8, <2>1 DEF CommitTx, LTypeOK, LockInv, CostInv
  <2>4. TxInv'
    BY <1>8, <2>1 DEF CommitTx, LTypeOK, NoHalfCharge, TxInv
  <2>5. NoHalfCharge' /\ CeilingHolds'
    BY <1>8, <2>1 DEF CommitTx, LTypeOK, TxInv, NoHalfCharge, CeilingHolds
  <2>6. QED
    BY <2>2, <2>3, <2>4, <2>5
<1>9. ASSUME NEW c \in Chargers, Rollback(c) PROVE LedgerInv'
  BY <1>9 DEF Rollback, LTypeOK, LockInv, CostInv, TxInv, NoHalfCharge, CeilingHolds
<1>10. ASSUME NEW c \in Chargers, StatementFails(c) PROVE LedgerInv'
  BY <1>10 DEF StatementFails, LTypeOK, LockInv, CostInv, TxInv, NoHalfCharge, CeilingHolds
<1>11. ASSUME NEW c \in Chargers, Die(c) PROVE LedgerInv'
  BY <1>11 DEF Die, LTypeOK, LockInv, CostInv, TxInv, NoHalfCharge, CeilingHolds
<1>12. ASSUME NEW c \in Chargers, Return(c) PROVE LedgerInv'
  BY <1>12 DEF Return, LTypeOK, LockInv, CostInv, TxInv, NoHalfCharge, CeilingHolds
<1>13. ASSUME NEW n \in Spends, AppendSpend(n) PROVE LedgerInv'
  BY <1>13 DEF AppendSpend, LTypeOK, LockInv, CostInv, TxInv, NoHalfCharge, CeilingHolds
<1>14. CASE UNCHANGED lvars
  BY <1>14 DEF lvars, LTypeOK, LockInv, CostInv, TxInv, NoHalfCharge, CeilingHolds
<1>15. QED
  BY <1>1, <1>2, <1>3, <1>4, <1>5, <1>6, <1>7, <1>8, <1>9, <1>10, <1>11, <1>12, <1>13, <1>14
  DEF LNext, ChargeStep

\* The lock, the sums of a transaction and the ceiling hold throughout.
LEMMA LedgerInvariant == LSpec => []LedgerInv
<1>1. QED
  BY LedgerInvInit, LedgerInvStep, PTL DEF LSpec

\* The sums, the lock and the state of every charger keep their types: in
\* particular the reserved sum never goes below zero.
THEOREM LedgerTypeCorrect == LSpec => []LTypeOK
<1>1. LedgerInv => LTypeOK
  BY DEF LedgerInv
<1>2. QED
  BY <1>1, LedgerInvariant, PTL

\* charge_atomic: the ceiling is never overshot, for any number of concurrent
\* chargers of one scope.
THEOREM CeilingNeverOvershot == LSpec => []CeilingHolds
<1>1. LedgerInv => CeilingHolds
  BY DEF LedgerInv
<1>2. QED
  BY <1>1, LedgerInvariant, PTL

\* charge_atomic: a refusal, a failed statement or a death writes nothing, and
\* a charge leaves nothing reserved.
THEOREM NothingLeftReserved == LSpec => []NoHalfCharge
<1>1. LedgerInv => NoHalfCharge
  BY DEF LedgerInv
<1>2. QED
  BY <1>1, LedgerInvariant, PTL

\* A step of the ledger is a step of the abstract ledger or a stutter: COMMIT is
\* the instant of a charge, and everything before it is invisible.
LEMMA LedgerStepRefines == LedgerInv /\ [LNext]_lvars => [Atomic!ALNext]_(Atomic!ALvars)
<1> SUFFICES ASSUME LedgerInv, [LNext]_lvars PROVE [Atomic!ALNext]_(Atomic!ALvars)
  OBVIOUS
<1> USE DEF Atomic!ALNext, Atomic!ALvars
<1>1. ASSUME NEW c \in Chargers, CommitTx(c) PROVE Atomic!ALNext
  <2>1. lpc[c] = "end" /\ spent' = txSpent /\ UNCHANGED appended
    BY <1>1 DEF CommitTx, Goto
  <2>2. cost[c] \in Costs /\ cost[c] \in Nat /\ spent \in Nat
    BY <2>1, LedgerAssumption DEF LedgerInv, LTypeOK, CostInv, InTx
  <2>3. txSpent = spent + cost[c] /\ cost[c] + spent <= Budget
    BY <2>1 DEF LedgerInv, TxInv
  <2>4. Atomic!ALCharge(cost[c])
    BY <2>1, <2>2, <2>3, LedgerAssumption DEF Atomic!ALCharge
  <2>5. QED
    BY <2>2, <2>4
<1>2. ASSUME NEW n \in Spends, AppendSpend(n) PROVE Atomic!ALNext
  BY <1>2 DEF AppendSpend, Atomic!ALAppend
<1>3. ASSUME NEW c \in Chargers,
             \/ \E n \in Costs : Request(c, n)
             \/ BeginImmediate(c) \/ BusyTimeout(c) \/ CheckBalance(c) \/ InsertReserve(c)
             \/ InsertCommit(c) \/ InsertRelease(c) \/ Rollback(c) \/ StatementFails(c)
             \/ Die(c) \/ Return(c)
      PROVE UNCHANGED Atomic!ALvars
  BY <1>3 DEF Request, BeginImmediate, BusyTimeout, CheckBalance, InsertReserve, InsertCommit,
              InsertRelease, Rollback, StatementFails, Die, Return
<1>4. CASE UNCHANGED lvars
  BY <1>4 DEF lvars
<1>5. QED
  BY <1>1, <1>2, <1>3, <1>4 DEF LNext, ChargeStep

\* charge_atomic with its statements, failures and deaths implements the atomic
\* charge that Retrieval and its callers rely on.
THEOREM ChargeIsAtomic == LSpec => ImplementsAtomicLedger
<1>1. LInit => Atomic!ALInit
  BY DEF LInit, Atomic!ALInit
<1>2. QED
  BY <1>1, LedgerInvariant, LedgerStepRefines, PTL DEF LSpec, ImplementsAtomicLedger, Atomic!ALSpec

=============================================================================
