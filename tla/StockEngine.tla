------------------------------ MODULE StockEngine ------------------------------
(***************************************************************************)
(* The inventory engine, statement by statement: applyMovement of          *)
(* inventory/movements/movements.service.ts run by concurrent database     *)
(* transactions at PostgreSQL's READ COMMITTED level (no isolation level is*)
(* set anywhere in the repository, and the pool runs up to 10 of them).    *)
(*                                                                         *)
(* A transaction executes a program: the list of applyMovement calls its   *)
(* caller makes (an adjustment, a confirmed transfer, a shipped            *)
(* fulfillment, an invoiced document, a received purchase, a closed count).*)
(* Each call is four statements that can block or interleave:              *)
(*    SelectForUpdate  ->  UpsertBalance  ->  SumBalances  ->  UpdateProduct*)
(* Committed rows are in rows, balance, movements and stockQty; what a     *)
(* transaction wrote and did not commit is in pending and newStock, visible*)
(* to that transaction only.  Row locks are held until commit or rollback. *)
(***************************************************************************)
EXTENDS StockLedger, FiniteSets, Sums

CONSTANTS Txns,          \* database sessions that can run a transaction at once
          Programs,      \* the callers' lists of movements
          InitialStock,  \* quantities a balance may hold when the system starts
          DirectEdits,   \* stock_qty values a product form may send
          MaxMovements   \* bound: no transaction begins once a key has this many rows

VARIABLES rows,          \* keys that have a committed row in stock_warehouse_balances
          stockQty,      \* sales_products.stock_qty
          pc,            \* the statement each session runs next
          program,       \* the calls it still has to make, the current one first
          found,         \* JS local: the SELECT ... FOR UPDATE returned a row
          currentQty,    \* JS local: the quantity it returned
          total,         \* JS local: the sum over all warehouses
          pending,       \* uncommitted movements of each session, by key
          newStock,      \* uncommitted stock_qty of each session
          rowLocks,      \* balance rows locked or inserted by each session
          productLocks   \* sales_products rows updated by each session

txnVars == <<pc, program, found, currentQty, total, pending, newStock, rowLocks, productLocks>>
vars == <<rows, balance, movements, stockQty, txnVars>>

Request == [product: Products, warehouse: Warehouses, type: MovementTypes,
            quantity: Nat, sign: {-1, 1}]

\* A caller that takes goods out for a transfer makes the opposite call right after
\* (confirmTransfer); no caller begins with the second half of one.
Halves(first, second) ==
    /\ first.type = "transfer_out" /\ second.type = "transfer_in"
    /\ first.product = second.product /\ first.quantity = second.quantity

InPairs(calls) ==
    \A i \in DOMAIN calls :
        /\ calls[i].type = "transfer_out" => i + 1 \in DOMAIN calls /\ Halves(calls[i], calls[i + 1])
        /\ calls[i].type = "transfer_in" /\ i > 1 => Halves(calls[i - 1], calls[i])

ASSUME ProgramsAssumption == Programs \subseteq Seq(Request) \ {<<>>}
ASSUME PairsAssumption == \A calls \in Programs : InPairs(calls) /\ calls[1].type # "transfer_in"
ASSUME WarehousesAssumption == IsFiniteSet(Warehouses)
ASSUME StockAssumption == InitialStock \subseteq Nat
ASSUME BoundAssumption == MaxMovements \in Nat

-------------------------------------------------------------------------------
(***************************************************************************)
(* The callers' programs.                                                  *)
(***************************************************************************)
Call(p, w, type, qty, sign) ==
    [product |-> p, warehouse |-> w, type |-> type, quantity |-> qty, sign |-> sign]

\* createAdjustment and adjustStock: one movement whose type follows the sign of delta.
Adjustment(p, w, delta) ==
    <<IF delta > 0 THEN Call(p, w, "adjustment_positive", delta, 1)
                   ELSE Call(p, w, "adjustment_negative", -delta, -1)>>

\* confirmTransfer: for each item, out of the origin and then into the destination.
Transfer(items, from, to) ==
    [i \in 1..2 * Len(items) |->
        LET item == items[(i + 1) \div 2]
        IN  IF i % 2 = 1 THEN Call(item.product, from, "transfer_out", item.quantity, -1)
                         ELSE Call(item.product, to, "transfer_in", item.quantity, 1)]

\* ship and decrementStock: one 'out' per tracked line, in line order.
Issue(lines, w) ==
    [i \in 1..Len(lines) |-> Call(lines[i].product, w, "out", lines[i].quantity, -1)]

\* commitStockEntry (and decrementStock of a credit note): one 'in' per tracked line.
Receipt(lines, w) ==
    [i \in 1..Len(lines) |-> Call(lines[i].product, w, "in", lines[i].quantity, 1)]

\* close of an inventory count: the stored difference, with its own sign.
CountDifference(p, w, difference) ==
    <<IF difference > 0 THEN Call(p, w, "inventory_count", difference, 1)
                        ELSE Call(p, w, "inventory_count", -difference, -1)>>

-------------------------------------------------------------------------------
(***************************************************************************)
(* What one session sees and asks for.                                     *)
(***************************************************************************)
Key(t) == <<Head(program[t]).product, Head(program[t]).warehouse>>
Visible(t) == rows \cup {k \in Keys : pending[t][k] # <<>>}
View(t, k) == Settles(balance[k], pending[t][k])

SignOf(r) == IF r.type = "inventory_count" THEN r.sign ELSE MOVEMENT_SIGN[r.type]
NewQty(t) == LET r == Head(program[t])
             IN  IF SignOf(r) = 1 THEN currentQty[t] + r.quantity ELSE currentQty[t] - r.quantity

RefusedIfZero(t) == Head(program[t]).quantity = 0

\* applyMovement throws before it writes: zero quantity, or a balance below zero
\* by a type that does not allow it.
Refused(t) == LET r == Head(program[t])
              IN  r.quantity = 0 \/ (NewQty(t) < 0 /\ r.type \notin MayGoNegative)

\* unique(product_id, warehouse_id): the row was absent when it was read, and now is there.
DuplicateRow(t) == ~found[t] /\ Key(t) \in rows

RowFree(t, k) == \A u \in Txns \ {t} : k \notin rowLocks[u]
ProductFree(t, p) == \A u \in Txns \ {t} : p \notin productLocks[u]

NoPending == [k \in Keys |-> <<>>]

-------------------------------------------------------------------------------
\* Balances opened by the migration have an 'opening' movement; a product created
\* later has no row until its first movement.
Init ==
    /\ \E opened \in SUBSET Keys, qty \in [Keys -> InitialStock] :
        /\ rows = opened
        /\ balance = [k \in Keys |-> IF k \in opened THEN qty[k] ELSE 0]
        /\ movements = [k \in Keys |->
              IF balance[k] = 0 THEN <<>>
              ELSE <<[type |-> "opening", quantity |-> balance[k], balanceAfter |-> balance[k]]>>]
        /\ stockQty = [p \in Products |-> MapThenSumSet(LAMBDA w : balance[<<p, w>>], Warehouses)]
    /\ pc = [t \in Txns |-> "idle"]
    /\ program = [t \in Txns |-> <<>>]
    /\ found = [t \in Txns |-> FALSE]
    /\ currentQty = [t \in Txns |-> 0]
    /\ total = [t \in Txns |-> 0]
    /\ pending = [t \in Txns |-> NoPending]
    /\ newStock = [t \in Txns |-> [p \in Products |-> 0]]
    /\ rowLocks = [t \in Txns |-> {}]
    /\ productLocks = [t \in Txns |-> {}]

Begin(t) ==
    /\ pc[t] = "idle"
    /\ \A k \in Keys : Len(movements[k]) < MaxMovements
    /\ \E calls \in Programs : program' = [program EXCEPT ![t] = calls]
    /\ pc' = [pc EXCEPT ![t] = "select"]
    /\ UNCHANGED <<rows, balance, movements, stockQty, found, currentQty, total, pending,
                   newStock, rowLocks, productLocks>>

\* Faulty variant: a plain SELECT, without FOR UPDATE.
SelectUnlocked(t) ==
    /\ pc[t] = "select"
    /\ LET k == Key(t) IN
        /\ found' = [found EXCEPT ![t] = k \in Visible(t)]
        /\ currentQty' = [currentQty EXCEPT ![t] = IF k \in Visible(t) THEN View(t, k) ELSE 0]
    /\ pc' = [pc EXCEPT ![t] = "upsert"]
    /\ UNCHANGED <<rows, balance, movements, stockQty, program, total, pending, newStock,
                   rowLocks, productLocks>>

\* SELECT ... FOR UPDATE: waits for the row's holder, then reads the row's latest
\* committed quantity; it locks nothing when no visible row exists.
SelectForUpdate(t) ==
    /\ pc[t] = "select"
    /\ LET k == Key(t) IN
        /\ found' = [found EXCEPT ![t] = k \in Visible(t)]
        /\ \/ /\ k \in Visible(t)
              /\ RowFree(t, k)
              /\ rowLocks' = [rowLocks EXCEPT ![t] = @ \cup {k}]
              /\ currentQty' = [currentQty EXCEPT ![t] = View(t, k)]
           \/ /\ k \notin Visible(t)
              /\ rowLocks' = rowLocks
              /\ currentQty' = [currentQty EXCEPT ![t] = 0]
    /\ pc' = [pc EXCEPT ![t] = "upsert"]
    /\ UNCHANGED <<rows, balance, movements, stockQty, program, total, pending, newStock,
                   productLocks>>

\* UPDATE of the locked row, or INSERT of a new one, and INSERT of the movement.  An
\* INSERT waits for another session's uncommitted INSERT of the same key.
UpsertBalance(t) ==
    /\ pc[t] = "upsert"
    /\ ~Refused(t)
    /\ ~DuplicateRow(t)
    /\ LET k == Key(t)
           r == Head(program[t])
       IN  /\ ~found[t] => RowFree(t, k)
           /\ rowLocks' = [rowLocks EXCEPT ![t] = @ \cup {k}]
           /\ pending' = [pending EXCEPT ![t][k] =
                Append(@, [type |-> r.type, quantity |-> r.quantity, balanceAfter |-> NewQty(t)])]
    /\ pc' = [pc EXCEPT ![t] = "sum"]
    /\ UNCHANGED <<rows, balance, movements, stockQty, program, found, currentQty, total,
                   newStock, productLocks>>

\* SELECT sum(quantity) of the product: its own writes and what is committed by now.
SumBalances(t) ==
    /\ pc[t] = "sum"
    /\ total' = [total EXCEPT ![t] =
          MapThenSumSet(LAMBDA w : View(t, <<Head(program[t]).product, w>>), Warehouses)]
    /\ pc' = [pc EXCEPT ![t] = "product"]
    /\ UNCHANGED <<rows, balance, movements, stockQty, program, found, currentQty, pending,
                   newStock, rowLocks, productLocks>>

\* UPDATE sales_products SET stock_qty: waits for the product row's holder.
UpdateProduct(t) ==
    /\ pc[t] = "product"
    /\ LET p == Head(program[t]).product IN
        /\ ProductFree(t, p)
        /\ productLocks' = [productLocks EXCEPT ![t] = @ \cup {p}]
        /\ newStock' = [newStock EXCEPT ![t][p] = total[t]]
    /\ program' = [program EXCEPT ![t] = Tail(@)]
    /\ pc' = [pc EXCEPT ![t] = IF Tail(program[t]) = <<>> THEN "commit" ELSE "select"]
    /\ UNCHANGED <<rows, balance, movements, stockQty, found, currentQty, total, pending,
                   rowLocks>>

\* The session forgets its transaction: locks released, JS locals gone.
EndTransaction(t) ==
    /\ pc' = [pc EXCEPT ![t] = "idle"]
    /\ program' = [program EXCEPT ![t] = <<>>]
    /\ found' = [found EXCEPT ![t] = FALSE]
    /\ currentQty' = [currentQty EXCEPT ![t] = 0]
    /\ total' = [total EXCEPT ![t] = 0]
    /\ pending' = [pending EXCEPT ![t] = NoPending]
    /\ newStock' = [newStock EXCEPT ![t] = [p \in Products |-> 0]]
    /\ rowLocks' = [rowLocks EXCEPT ![t] = {}]
    /\ productLocks' = [productLocks EXCEPT ![t] = {}]

Commit(t) ==
    /\ pc[t] = "commit"
    /\ rows' = Visible(t)
    /\ balance' = [k \in Keys |-> View(t, k)]
    /\ movements' = [k \in Keys |-> movements[k] \o pending[t][k]]
    /\ stockQty' = [p \in Products |->
          IF p \in productLocks[t] THEN newStock[t][p] ELSE stockQty[p]]
    /\ EndTransaction(t)

\* Faulty variants: movements written outside the transaction survive its rollback; an
\* exception that is caught and leaves the transaction open.
ThrowKeepsMovements(t) ==
    /\ pc[t] = "upsert"
    /\ Refused(t) \/ DuplicateRow(t)
    /\ movements' = [k \in Keys |-> movements[k] \o pending[t][k]]
    /\ EndTransaction(t)
    /\ UNCHANGED <<rows, balance, stockQty>>

ThrowSwallowed(t) == pc[t] = "upsert" /\ Refused(t) /\ UNCHANGED vars

\* knex rolls back: applyMovement threw, the INSERT hit the unique index ...
Throw(t) ==
    /\ pc[t] = "upsert"
    /\ Refused(t) \/ DuplicateRow(t)
    /\ EndTransaction(t)
    /\ UNCHANGED <<rows, balance, movements, stockQty>>

\* ... or another statement of the caller failed, or the process died.
Rollback(t) ==
    /\ pc[t] # "idle"
    /\ EndTransaction(t)
    /\ UNCHANGED <<rows, balance, movements, stockQty>>

\* Who waits for whom, and the cycles PostgreSQL's deadlock detector breaks.
WaitsFor(t, u) ==
    /\ t # u
    /\ \/ pc[t] = "select" /\ Key(t) \in Visible(t) /\ Key(t) \in rowLocks[u]
       \/ pc[t] = "upsert" /\ ~found[t] /\ Key(t) \in rowLocks[u]
       \/ pc[t] = "product" /\ Head(program[t]).product \in productLocks[u]

InDeadlock(t) ==
    \E S \in SUBSET Txns :
        /\ t \in S
        /\ \A s \in S : (\E u \in S : WaitsFor(s, u)) /\ (\E u \in S : WaitsFor(u, s))

DeadlockVictim(t) ==
    /\ InDeadlock(t)
    /\ EndTransaction(t)
    /\ UNCHANGED <<rows, balance, movements, stockQty>>

\* products.service.ts update: the product form writes stock_qty itself, in a
\* statement of its own that waits for the row's lock.
EditProduct(p) ==
    /\ \A t \in Txns : p \notin productLocks[t]
    /\ \E qty \in DirectEdits : stockQty' = [stockQty EXCEPT ![p] = qty]
    /\ UNCHANGED <<rows, balance, movements, txnVars>>

Statement(t) == SelectForUpdate(t) \/ UpsertBalance(t) \/ SumBalances(t) \/ UpdateProduct(t)

Next ==
    \/ \E t \in Txns :
        \/ Begin(t) \/ SelectForUpdate(t) \/ UpsertBalance(t) \/ SumBalances(t)
        \/ UpdateProduct(t) \/ Commit(t) \/ Throw(t) \/ Rollback(t) \/ DeadlockVictim(t)
    \/ \E p \in Products : EditProduct(p)

Spec == Init /\ [][Next]_vars

(***************************************************************************)
(* Scheduling.  A session whose next statement can run does run it: the    *)
(* Node process awaits every query, and PostgreSQL grants a row lock to its*)
(* waiters in turn, hence strong fairness for the statements that wait.    *)
(* The deadlock detector (deadlock_timeout) eventually ends some victim.   *)
(* Nothing makes a caller begin, fail or edit a product.                   *)
(***************************************************************************)
Fairness == \A t \in Txns :
    /\ SF_vars(Statement(t))
    /\ WF_vars(Commit(t))
    /\ WF_vars(Throw(t))
    /\ WF_vars(DeadlockVictim(t))

FairSpec == Spec /\ Fairness

-------------------------------------------------------------------------------
(***************************************************************************)
(* The rows, the ledger and the sessions have their types.                 *)
(***************************************************************************)
RowsTypeOK ==
    /\ rows \subseteq Keys
    /\ balance \in [Keys -> Int]
    /\ movements \in [Keys -> Seq(Movement)]

SessionsTypeOK ==
    /\ pc \in [Txns -> {"idle", "select", "upsert", "sum", "product", "commit"}]
    /\ program \in [Txns -> Seq(Request)]
    /\ found \in [Txns -> BOOLEAN]
    /\ currentQty \in [Txns -> Int]
    /\ pending \in [Txns -> [Keys -> Seq(Movement)]]
    /\ rowLocks \in [Txns -> SUBSET Keys]
    /\ productLocks \in [Txns -> SUBSET Products]

AggregatesTypeOK ==
    /\ stockQty \in [Products -> Int]
    /\ total \in [Txns -> Int]
    /\ newStock \in [Txns -> [Products -> Int]]

\* Type invariant of the engine: applyMovement only ever records movements of a
\* positive quantity (movements.service.ts:168), and every session is at one statement.
TypeOK == RowsTypeOK /\ SessionsTypeOK /\ AggregatesTypeOK

(***************************************************************************)
(* The ledger is the whole truth about a balance: whatever transactions    *)
(* interleave, start from the absent row at once, or roll back, the        *)
(* movements of a key form one chain from zero in which every row follows  *)
(* from the row before (no lost update, no balance below zero by a type    *)
(* that forbids it), and the chain ends in the balance (comment at         *)
(* movements.service.ts:76-82).                                            *)
(***************************************************************************)
LedgerExplainsBalance ==
    \A k \in Keys : Explains(0, movements[k]) /\ balance[k] = Settles(0, movements[k])

(***************************************************************************)
(* Why that holds: row locks are exclusive; an uncommitted movement is on a*)
(* locked row and continues the chain from the committed balance; what a   *)
(* session read before it writes is still what the row holds.              *)
(***************************************************************************)
LocksExclusive == \A t, u \in Txns : t # u => rowLocks[t] \cap rowLocks[u] = {}

PendingContinuesBalance ==
    \A t \in Txns, k \in Keys :
        /\ pending[t][k] # <<>> => k \in rowLocks[t]
        /\ Explains(balance[k], pending[t][k])

ReadStillCurrent ==
    \A t \in Txns : pc[t] = "upsert" =>
        IF found[t] THEN Key(t) \in rowLocks[t] /\ currentQty[t] = View(t, Key(t))
        ELSE currentQty[t] = 0 /\ pending[t][Key(t)] = <<>>

AbsentRowIsEmpty == \A k \in Keys : k \notin rows => balance[k] = 0

ProgramLeft == \A t \in Txns :
    pc[t] \in {"select", "upsert", "sum", "product"} => program[t] # <<>>

\* The inductive invariant of the engine (see StockEngineProofs): the conditions above,
\* under which a committed batch of movements always extends the ledger's chains.
EngineInv ==
    /\ LocksExclusive
    /\ PendingContinuesBalance
    /\ ReadStillCurrent
    /\ AbsentRowIsEmpty
    /\ ProgramLeft
    /\ LedgerExplainsBalance

(***************************************************************************)
(* Nothing is made or lost by moving it: per product, what committed       *)
(* transfers took out of origins is what they put into destinations, over  *)
(* all interleavings and rollbacks between the two halves (confirmTransfer,*)
(* movements.service.ts:442-521).                                          *)
(***************************************************************************)
QuantityOf(rs, type) ==
    SumOver([i \in DOMAIN rs |-> IF rs[i].type = type THEN rs[i].quantity ELSE 0], DOMAIN rs)

MovedIn(ledger, p, type) ==
    SumOver([w \in Warehouses |-> QuantityOf(ledger[<<p, w>>], type)], Warehouses)

Moved(p, type) == MovedIn(movements, p, type)

TransfersConserve == \A p \in Products : Moved(p, "transfer_out") = Moved(p, "transfer_in")

(***************************************************************************)
(* stock_qty is the sum of the balances of all warehouses ("Atualiza       *)
(* agregado em sales_products.stock_qty (soma de TODOS warehouses)",       *)
(* movements.service.ts:242).                                              *)
(***************************************************************************)
AggregateIsSum ==
    \A p \in Products :
        stockQty[p] = MapThenSumSet(LAMBDA w : balance[<<p, w>>], Warehouses)

(***************************************************************************)
(* No transaction hangs: each one that begins commits or is rolled back,   *)
(* although transfers in opposite directions lock the same two rows in     *)
(* opposite orders (applyMovement calls of confirmTransfer).               *)
(***************************************************************************)
TransactionsEnd == \A t \in Txns : pc[t] # "idle" ~> pc[t] = "idle"
================================================================================
