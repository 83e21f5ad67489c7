------------------------------- MODULE Ledger -------------------------------
(***************************************************************************)
(* The budget ledger of one scope: LedgerRepo.charge_atomic run by several *)
(* chargers (threads or processes, each with its own connection), inside   *)
(* Database.immediate(), and LedgerRepo.append run by the agent loop.      *)
(*                                                                         *)
(* The table is append-only and is read only through its sums, so the      *)
(* state is the two sums: spent (COMMIT rows) and reserved (RESERVE minus  *)
(* RELEASE rows).  BEGIN IMMEDIATE takes the one write lock; what a        *)
(* transaction has inserted is in txSpent and txReserved, invisible to     *)
(* everyone else until COMMIT.                                             *)
(***************************************************************************)
EXTENDS Naturals

CONSTANTS
  Chargers,     \* who may call charge_atomic on the scope
  NoCharger,    \* nobody holds the write lock
  Budget,       \* budget_tokens
  Costs,        \* the costs a retrieval may have (token_cost is at least 1)
  Spends,       \* the tokens of a model call, appended by the loop
  MaxAppended   \* bound: tokens the loop appends in all

ASSUME LedgerAssumption ==
  /\ NoCharger \notin Chargers
  /\ Budget \in Nat /\ MaxAppended \in Nat
  /\ Costs \subseteq Nat \ {0} /\ Spends \subseteq Nat

VARIABLES
  spent, reserved,       \* the committed sums
  txSpent, txReserved,   \* the sums as the open transaction sees them
  lock,                  \* who has begun a write transaction
  lpc,                   \* where each charger is in charge_atomic
  cost,                  \* the tokens it charges
  appended               \* history: what the loop has appended

lvars == <<spent, reserved, txSpent, txReserved, lock, lpc, cost, appended>>

Outcomes == {"paid", "refused", "busy", "failed"}
InTx     == {"check", "reserve", "commit", "release", "end", "rollback"}

LInit ==
  /\ spent = 0 /\ reserved = 0 /\ txSpent = 0 /\ txReserved = 0
  /\ lock = NoCharger /\ appended = 0
  /\ lpc = [c \in Chargers |-> "idle"]
  /\ cost = [c \in Chargers |-> 0]

Goto(c, from, to) == lpc[c] = from /\ lpc' = [lpc EXCEPT ![c] = to]

\* charge_atomic(scope, n, Budget) is called.
Request(c, n) ==
  /\ Goto(c, "idle", "begin")
  /\ cost' = [cost EXCEPT ![c] = n]
  /\ UNCHANGED <<spent, reserved, txSpent, txReserved, lock, appended>>

\* Mutant: a plain BEGIN, which takes no lock before the first write.
BeginDeferred(c) ==
  /\ Goto(c, "begin", "check")
  /\ lock' = c /\ txSpent' = spent /\ txReserved' = reserved
  /\ UNCHANGED <<spent, reserved, cost, appended>>

BeginImmediate(c) ==
  /\ lock = NoCharger
  /\ Goto(c, "begin", "check")
  /\ lock' = c /\ txSpent' = spent /\ txReserved' = reserved
  /\ UNCHANGED <<spent, reserved, cost, appended>>

\* Mutant: no busy timeout, the connection asks again for ever.
BusyRetries(c) ==
  /\ lock \notin {NoCharger, c}
  /\ Goto(c, "begin", "begin")
  /\ UNCHANGED <<spent, reserved, txSpent, txReserved, lock, cost, appended>>

\* The busy timeout passes while another connection holds the lock.
BusyTimeout(c) ==
  /\ lock \notin {NoCharger, c}
  /\ Goto(c, "begin", "busy")
  /\ UNCHANGED <<spent, reserved, txSpent, txReserved, lock, cost, appended>>

\* Mutant: the check leaves out the charge's own tokens.
CheckBalanceBefore(c) ==
  /\ lpc[c] = "check"
  /\ \/ txSpent + txReserved <= Budget /\ Goto(c, "check", "reserve")
     \/ txSpent + txReserved > Budget /\ Goto(c, "check", "rollback")
  /\ UNCHANGED <<spent, reserved, txSpent, txReserved, lock, cost, appended>>

\* tokens > remaining raises inside the transaction.
CheckBalance(c) ==
  /\ \/ cost[c] + txSpent + txReserved <= Budget /\ Goto(c, "check", "reserve")
     \/ cost[c] + txSpent + txReserved > Budget /\ Goto(c, "check", "rollback")
  /\ UNCHANGED <<spent, reserved, txSpent, txReserved, lock, cost, appended>>

\* The three rows, in the order they are inserted.
InsertReserve(c) ==
  /\ Goto(c, "reserve", "commit")
  /\ txReserved' = txReserved + cost[c]
  /\ UNCHANGED <<spent, reserved, txSpent, lock, cost, appended>>

InsertCommit(c) ==
  /\ Goto(c, "commit", "release")
  /\ txSpent' = txSpent + cost[c]
  /\ UNCHANGED <<spent, reserved, txReserved, lock, cost, appended>>

InsertRelease(c) ==
  /\ Goto(c, "release", "end")
  /\ txReserved' = txReserved - cost[c]
  /\ UNCHANGED <<spent, reserved, txSpent, lock, cost, appended>>

\* An insert, or COMMIT itself, raises.
StatementFails(c) ==
  /\ lpc[c] \in {"reserve", "commit", "release", "end"}
  /\ lpc' = [lpc EXCEPT ![c] = "rollback"]
  /\ UNCHANGED <<spent, reserved, txSpent, txReserved, lock, cost, appended>>

CommitTx(c) ==
  /\ Goto(c, "end", "paid")
  /\ spent' = txSpent /\ reserved' = txReserved
  /\ lock' = NoCharger
  /\ UNCHANGED <<txSpent, txReserved, cost, appended>>

\* Mutant: the except branch commits what there is.
RollbackKeeps(c) ==
  /\ \E o \in {"refused", "failed"} : Goto(c, "rollback", o)
  /\ spent' = txSpent /\ reserved' = txReserved
  /\ lock' = NoCharger
  /\ UNCHANGED <<txSpent, txReserved, cost, appended>>

\* ROLLBACK, and the exception goes on: BudgetExceeded, or the database's.
Rollback(c) ==
  /\ \E o \in {"refused", "failed"} : Goto(c, "rollback", o)
  /\ lock' = NoCharger
  /\ UNCHANGED <<spent, reserved, txSpent, txReserved, cost, appended>>

\* The charger's process dies: SQLite drops the open transaction.
Die(c) ==
  /\ lpc[c] \in {"begin"} \union InTx
  /\ lpc' = [lpc EXCEPT ![c] = "dead"]
  /\ lock' = IF lock = c THEN NoCharger ELSE lock
  /\ UNCHANGED <<spent, reserved, txSpent, txReserved, cost, appended>>

\* charge_atomic returns or raises to its caller.
Return(c) ==
  /\ lpc[c] \in Outcomes
  /\ lpc' = [lpc EXCEPT ![c] = "idle"]
  /\ UNCHANGED <<spent, reserved, txSpent, txReserved, lock, cost, appended>>

\* LedgerRepo.append(COMMIT): one insert in a transaction of its own.
AppendSpend(n) ==
  /\ lock = NoCharger
  /\ appended + n <= MaxAppended
  /\ spent' = spent + n /\ appended' = appended + n
  /\ UNCHANGED <<reserved, txSpent, txReserved, lock, lpc, cost>>

ChargeStep(c) ==
  \/ BeginImmediate(c) \/ BusyTimeout(c) \/ CheckBalance(c)
  \/ InsertReserve(c) \/ InsertCommit(c) \/ InsertRelease(c)
  \/ CommitTx(c) \/ Rollback(c)

LNext ==
  \/ \E c \in Chargers :
       \/ \E n \in Costs : Request(c, n)
       \/ ChargeStep(c) \/ StatementFails(c) \/ Die(c) \/ Return(c)
  \/ \E n \in Spends : AppendSpend(n)

LSpec == LInit /\ [][LNext]_lvars

\* A thread inside charge_atomic keeps running, and SQLite's wait for the lock
\* is bounded by busy_timeout.
LFairSpec == LSpec /\ \A c \in Chargers : WF_lvars(ChargeStep(c))

-----------------------------------------------------------------------------
LTypeOK ==
  /\ spent \in Nat /\ reserved \in Nat /\ txSpent \in Nat /\ txReserved \in Nat
  /\ lock \in Chargers \union {NoCharger}
  /\ lpc \in [Chargers -> {"idle", "begin", "dead"} \union InTx \union Outcomes]
  /\ cost \in [Chargers -> Costs \union {0}]
  /\ appended \in Nat

\* Retrievals alone never pass the ceiling, however many charge at once: what
\* is spent beyond the loop's own rows stays within budget_tokens.
CeilingHolds == spent <= Budget + appended

\* Nobody ever sees part of a charge: outside a transaction nothing is
\* reserved, so remaining_tokens and the next check count a charge once.
NoHalfCharge == reserved = 0

\* charge_atomic with its seven steps, failures and deaths is the atomic
\* charge of AtomicLedger.
Atomic == INSTANCE AtomicLedger

ImplementsAtomicLedger == Atomic!ALSpec

\* Every charge ends, paid, refused, failed or given up at the busy timeout,
\* although the lock may go to someone else each time.
ChargesEnd == \A c \in Chargers : lpc[c] = "begin" ~> lpc[c] \in Outcomes \union {"dead"}

=============================================================================
