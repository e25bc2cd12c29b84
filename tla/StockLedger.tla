------------------------------ MODULE StockLedger ------------------------------
(***************************************************************************)
(* What the inventory engine promises, one row of the stock ledger at a    *)
(* time (inventory/movements/movements.service.ts, "livro razão de stock"):*)
(* every balance is explained, entry by entry, by immutable movements, and *)
(* a transaction of any caller adds all of its movements at once or none.  *)
(* The module knows nothing of locks, statements or concurrency;           *)
(* StockEngine is the engine that has to implement it.                     *)
(***************************************************************************)
EXTENDS Integers, Sequences

CONSTANTS Products,      \* rows of sales_products
          Warehouses     \* rows of stock_warehouses

VARIABLES balance,       \* stock_warehouse_balances.quantity, 0 for an absent row
          movements      \* stock_movements of each (product, warehouse), oldest first

ledgerVars == <<balance, movements>>

Keys == Products \X Warehouses

MovementTypes == {"in", "out", "transfer_in", "transfer_out", "adjustment_positive",
                  "adjustment_negative", "inventory_count", "opening"}

\* The sign of each type; a count carries its own (see SignOf in StockEngine).
MOVEMENT_SIGN == [type \in MovementTypes |->
    IF type \in {"out", "transfer_out", "adjustment_negative"} THEN -1 ELSE 1]

\* The types whose movement may leave, or keep, a balance below zero.
MayGoNegative == {"adjustment_negative", "adjustment_positive", "inventory_count", "opening"}

\* A ledger row: its quantity is stored without sign, as in stock_movements.
Movement == [type: MovementTypes, quantity: Nat \ {0}, balanceAfter: Int]

(***************************************************************************)
(* The balance a sequence of movements leaves behind when it starts from b,*)
(* and whether each of its rows follows from the row before it.            *)
(***************************************************************************)
Settles(b, rows) == IF rows = <<>> THEN b ELSE rows[Len(rows)].balanceAfter

Follows(before, m) ==
    /\ IF m.type = "inventory_count"
       THEN m.balanceAfter \in {before + m.quantity, before - m.quantity}
       ELSE m.balanceAfter = IF MOVEMENT_SIGN[m.type] = 1
                             THEN before + m.quantity ELSE before - m.quantity
    /\ m.balanceAfter < 0 => m.type \in MayGoNegative

Explains(b, rows) ==
    \A i \in 1..Len(rows) :
        Follows(IF i = 1 THEN b ELSE rows[i - 1].balanceAfter, rows[i])

-------------------------------------------------------------------------------
LedgerInit == \A k \in Keys : Explains(0, movements[k]) /\ balance[k] = Settles(0, movements[k])

(***************************************************************************)
(* One transaction: every key gets a batch of new rows (most of them none) *)
(* that continues the chain from the balance the key has now, and the      *)
(* balance becomes what the batch settles to.                              *)
(***************************************************************************)
NewRows(k) == SubSeq(movements'[k], Len(movements[k]) + 1, Len(movements'[k]))

Post ==
    \A k \in Keys :
        /\ movements'[k] = movements[k] \o NewRows(k)
        /\ Explains(balance[k], NewRows(k))
        /\ balance'[k] = Settles(balance[k], NewRows(k))

LedgerSpec == LedgerInit /\ [][Post]_ledgerVars
================================================================================
