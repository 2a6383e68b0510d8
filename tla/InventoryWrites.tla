---------------------------- MODULE InventoryWrites ----------------------------
(***************************************************************************)
(* app/tools/postgres_tools.py: discard_batch() and receive_inventory(),    *)
(* the two transactions that change the operational stock, running          *)
(* concurrently in get_pg_session() (app/database/postgres.py).  Each       *)
(* statement is a step.  The row lock of SELECT ... FOR UPDATE is held to   *)
(* the end of the transaction; what a transaction wrote shows at its commit *)
(* and vanishes at its rollback.                                            *)
(*                                                                         *)
(* Quantities are integers in the unit of the smallest decimal the column   *)
(* holds.                                                                   *)
(***************************************************************************)
EXTENDS Integers, FiniteSets, FiniteSetsExt

CONSTANTS Writes,           \* calls of the two functions
          Batches,          \* inventory rows: a batch at a store
          Tracked,          \* those that exist, active, in the caller's company
          BatchOf,          \* the row each call names
          Disposals,        \* the calls of discard_batch; the others receive
          Exempt,           \* the calls made as GERENTE or DONO
          Quantity,         \* the quantity in each request
          Stock,            \* initial balance of each row
          CeilingPercent,   \* settings.disposal_ceiling_percent
          NoWrite           \* a row nobody has locked

ASSUME WritesAssumption ==
    /\ BatchOf \in [Writes -> Batches]
    /\ Disposals \subseteq Writes
    /\ Quantity \in [Writes -> Int]
    /\ Stock \in [Batches -> Nat]
    /\ CeilingPercent \in Nat
    /\ NoWrite \notin Writes

VARIABLES stage,        \* where each call stands
          rowLock,      \* the transaction that holds each row FOR UPDATE
          balance,      \* committed inventory.current_quantity
          seen,         \* the current_quantity a call read under the lock
          newBalance,   \* what fn_atomic_update_inventory returned to a call
          movements     \* committed inventory_movement rows, by call

vars == <<stage, rowLock, balance, seen, newBalance, movements>>

Ended == {"committed", "refused", "failed"}

\* Between the call of the function and its end.
InTransaction ==
    {"validate", "context", "find", "header", "item", "update", "commit", "committing"}

TypeOK ==
    /\ stage \in [Writes -> {"idle"} \cup InTransaction \cup Ended]
    /\ rowLock \in [Batches -> Writes \cup {NoWrite}]
    /\ balance \in [Batches -> Int]
    /\ seen \in [Writes -> Int]
    /\ newBalance \in [Writes -> Int]
    /\ movements \in SUBSET Writes

Init ==
    /\ stage = [w \in Writes |-> "idle"]
    /\ rowLock = [b \in Batches |-> NoWrite]
    /\ balance = Stock
    /\ seen = [w \in Writes |-> 0]
    /\ newBalance = [w \in Writes |-> 0]
    /\ movements = {}

-----------------------------------------------------------------------------
Goto(w, label) == stage' = [stage EXCEPT ![w] = label]

Row(w) == BatchOf[w]

\* The delta given to fn_atomic_update_inventory.
Delta(w) == IF w \in Disposals THEN -Quantity[w] ELSE Quantity[w]

\* The end of a transaction frees the row it locked.
FreeRow(w) == rowLock' = [b \in Batches |-> IF rowLock[b] = w THEN NoWrite ELSE rowLock[b]]

\* (quantity / current_quantity) * 100 > ceiling, without the division.
OverCeiling(w, current) ==
    /\ w \in Disposals \ Exempt
    /\ current > 0
    /\ Quantity[w] * 100 > CeilingPercent * current

Begin(w) ==
    /\ stage[w] = "idle"
    /\ Goto(w, "validate")
    /\ UNCHANGED <<rowLock, balance, seen, newBalance, movements>>

\* The checks made before the session is opened: ValueError.
RefuseInput(w) ==
    /\ stage[w] = "validate"
    /\ Quantity[w] <= 0
    /\ Goto(w, "refused")
    /\ UNCHANGED <<rowLock, balance, seen, newBalance, movements>>

OpenSession(w) ==
    /\ stage[w] = "validate"
    /\ Quantity[w] > 0
    /\ Goto(w, "context")
    /\ UNCHANGED <<rowLock, balance, seen, newBalance, movements>>

\* initialize_pg_context accepts the account, or it was deactivated or moved
\* since the request was admitted, or it is not the acting user.
Bootstrap(w) ==
    /\ stage[w] = "context"
    /\ Goto(w, "find")
    /\ UNCHANGED <<rowLock, balance, seen, newBalance, movements>>

RefuseActor(w) ==
    /\ stage[w] = "context"
    /\ Goto(w, "refused")
    /\ UNCHANGED <<rowLock, balance, seen, newBalance, movements>>

\* _find_inventory finds no such row: ValueError.
RefuseRow(w) ==
    /\ stage[w] = "find"
    /\ Row(w) \notin Tracked
    /\ Goto(w, "refused")
    /\ UNCHANGED <<rowLock, balance, seen, newBalance, movements>>

\* Bug: SELECT without FOR UPDATE.
FindUnlocked(w) ==
    /\ stage[w] = "find"
    /\ Row(w) \in Tracked
    /\ ~OverCeiling(w, balance[Row(w)])
    /\ seen' = [seen EXCEPT ![w] = balance[Row(w)]]
    /\ Goto(w, IF w \in Disposals THEN "header" ELSE "update")
    /\ UNCHANGED <<rowLock, balance, newBalance, movements>>

\* The row is free: lock it, read it and, in the same step, apply the ceiling.
FindInventory(w) ==
    /\ stage[w] = "find"
    /\ Row(w) \in Tracked
    /\ rowLock[Row(w)] = NoWrite
    /\ ~OverCeiling(w, balance[Row(w)])
    /\ rowLock' = [rowLock EXCEPT ![Row(w)] = w]
    /\ seen' = [seen EXCEPT ![w] = balance[Row(w)]]
    /\ Goto(w, IF w \in Disposals THEN "header" ELSE "update")
    /\ UNCHANGED <<balance, newBalance, movements>>

\* DisposalCeilingExceeded: the rollback frees the row at once.
RefuseCeiling(w) ==
    /\ stage[w] = "find"
    /\ Row(w) \in Tracked
    /\ rowLock[Row(w)] = NoWrite
    /\ OverCeiling(w, balance[Row(w)])
    /\ Goto(w, "refused")
    /\ UNCHANGED <<rowLock, balance, seen, newBalance, movements>>

\* INSERT INTO disposal, then INSERT INTO disposal_item.
InsertDisposal(w) ==
    /\ stage[w] = "header"
    /\ Goto(w, "item")
    /\ UNCHANGED <<rowLock, balance, seen, newBalance, movements>>

InsertItem(w) ==
    /\ stage[w] = "item"
    /\ Goto(w, "update")
    /\ UNCHANGED <<rowLock, balance, seen, newBalance, movements>>

\* Bug: the update commits by itself, before the rest of the transaction.
UpdateAutocommits(w) ==
    /\ stage[w] = "update"
    /\ rowLock[Row(w)] \in {w, NoWrite}
    /\ balance[Row(w)] + Delta(w) >= 0
    /\ rowLock' = [rowLock EXCEPT ![Row(w)] = w]
    /\ newBalance' = [newBalance EXCEPT ![w] = balance[Row(w)] + Delta(w)]
    /\ balance' = [balance EXCEPT ![Row(w)] = @ + Delta(w)]
    /\ Goto(w, "commit")
    /\ UNCHANGED <<seen, movements>>

\* fn_atomic_update_inventory, a function of the database: locks the row if
\* the transaction has not, adds the delta to the row as it is now, and raises
\* rather than leaving less than nothing.
UpdateInventory(w) ==
    /\ stage[w] = "update"
    /\ rowLock[Row(w)] \in {w, NoWrite}
    /\ balance[Row(w)] + Delta(w) >= 0
    /\ rowLock' = [rowLock EXCEPT ![Row(w)] = w]
    /\ newBalance' = [newBalance EXCEPT ![w] = balance[Row(w)] + Delta(w)]
    /\ Goto(w, "commit")
    /\ UNCHANGED <<balance, seen, movements>>

UpdateFails(w) ==
    /\ stage[w] = "update"
    /\ rowLock[Row(w)] \in {w, NoWrite}
    /\ balance[Row(w)] + Delta(w) < 0
    /\ Goto(w, "failed")
    /\ FreeRow(w)
    /\ UNCHANGED <<balance, seen, newBalance, movements>>

\* The session block ends: COMMIT is sent ...
SendCommit(w) ==
    /\ stage[w] = "commit"
    /\ Goto(w, "committing")
    /\ UNCHANGED <<rowLock, balance, seen, newBalance, movements>>

\* ... and executed.
Commit(w) ==
    /\ stage[w] = "committing"
    /\ balance' = [balance EXCEPT ![Row(w)] = newBalance[w]]
    /\ movements' = movements \cup {w}
    /\ Goto(w, "committed")
    /\ FreeRow(w)
    /\ UNCHANGED <<seen, newBalance>>

\* A statement fails or times out (also while it waits for the row), the
\* connection breaks, the task is cancelled or the worker dies: rolled back.
Fail(w) ==
    /\ stage[w] \in InTransaction
    /\ Goto(w, "failed")
    /\ FreeRow(w)
    /\ UNCHANGED <<balance, seen, newBalance, movements>>

Step(w) ==
    \/ RefuseInput(w) \/ OpenSession(w) \/ Bootstrap(w) \/ RefuseActor(w) \/ RefuseRow(w)
    \/ FindInventory(w) \/ RefuseCeiling(w) \/ InsertDisposal(w) \/ InsertItem(w)
    \/ UpdateInventory(w) \/ UpdateFails(w) \/ SendCommit(w) \/ Commit(w)

Next == \E w \in Writes : Begin(w) \/ Step(w) \/ Fail(w)

Spec == Init /\ [][Next]_vars

-----------------------------------------------------------------------------
(* Properties *)

\* The balance is the initial stock plus exactly the movements on record: no
\* concurrent write is lost, no rolled back one leaves a trace.
BalanceIsMovements == \A b \in Batches :
    balance[b] = Stock[b] + MapThenSumSet(Delta, {w \in movements : BatchOf[w] = b})

\* The ceiling holds for the stock that is really there when a disposal takes
\* effect, not only for the one the check read.
WithinCeiling == \A w \in movements' \ movements :
    w \in Disposals \ Exempt /\ balance[Row(w)] > 0 =>
        (balance[Row(w)] - balance'[Row(w)]) * 100 <= CeilingPercent * balance[Row(w)]

CeilingHolds == [][WithinCeiling]_vars

\* Two writes of a row never stand between lock and commit together, and what
\* one of them read is still the balance.
ReadsAreCurrent == \A w \in Writes :
    stage[w] \in {"header", "item", "update", "commit", "committing"} =>
        /\ rowLock[Row(w)] = w
        /\ seen[w] = balance[Row(w)]

\* The ceiling leaves a staff disposal nothing to overdraw: only on an empty row,
\* which the ceiling check skips, does it rely on the database to refuse it.
CeilingPreventsOverdraw == \A w \in Disposals \ Exempt :
    stage[w] = "update" /\ balance[Row(w)] > 0 => balance[Row(w)] + Delta(w) >= 0

=============================================================================
