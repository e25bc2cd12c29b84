----------------------------- MODULE WarehouseJobs -----------------------------
(***************************************************************************)
(* Transfers between warehouses (inventory/movements/movements.service.ts) *)
(* and physical counts (inventory/counts/counts.service.ts).               *)
(*                                                                         *)
(* Confirming a transfer and closing a count lock the job's row first      *)
(* (SELECT ... FOR UPDATE) and keep it until they commit; their movements  *)
(* take effect together on commit, as StockEngine shows of the engine      *)
(* below.  Every other handler reads the job without a lock and writes     *)
(* afterwards, in statements of their own.  posted sums up the movements   *)
(* that name a job in reference_id.                                        *)
(*                                                                         *)
(* Numbers, notes, costs and who did what are left out.                    *)
(***************************************************************************)
EXTENDS Integers

CONSTANTS Products, Warehouses,
          Transfers,     \* ids for stock_transfers (a bound)
          Counts,        \* ids for stock_inventory_counts (a bound)
          Sessions,      \* requests that can be in progress at once
          MaxQuantity,   \* bound on the quantity of a line, of a balance and of a count
          None           \* SQL null, or no row

VARIABLES balance,       \* stock_warehouse_balances.quantity
          transfers,     \* stock_transfers with their items
          counts,        \* stock_inventory_counts with their items
          posted,        \* net movement of each job on each balance
          session,       \* the request each session is in the middle of
          crossed        \* history: counts closed over a request still under way

vars == <<balance, transfers, counts, posted, session, crossed>>

ASSUME MaxQuantityAssumption == MaxQuantity \in Nat \ {0}
ASSUME JobsAssumption == Transfers \cap Counts = {}
ASSUME NoneAssumption == None \notin Int

-------------------------------------------------------------------------------
Keys == Products \X Warehouses
NoMovement == [k \in Keys |-> 0]

\* An item is absent (None) or has a quantity; zero passes the DTO.
Items == [Products -> (0..MaxQuantity) \cup {None}]
NoItems == [p \in Products |-> None]
Transfer == [status: {"draft", "confirmed"}, from: Warehouses, to: Warehouses, items: Items]

\* Of a count item: the quantity expected when the count was opened, and the difference to
\* what was counted, None until then.
CountStatuses == {"open", "counting", "closed", "cancelled"}
Count == [status: CountStatuses, warehouse: Warehouses,
          expected: [Products -> Int \cup {None}], difference: [Products -> Int \cup {None}]]
Absent == [status |-> "absent"]

\* The movements of a job whose net effect on each balance is given, posted on commit.
PostAll(job, effect) ==
    /\ balance' = [k \in Keys |-> balance[k] + effect[k]]
    /\ posted' = [posted EXCEPT ![job] = [k \in Keys |-> @[k] + effect[k]]]

Idle == [op |-> "idle"]
Start(s, request) == session[s] = Idle /\ session' = [session EXCEPT ![s] = request]
Done(s) == session' = [session EXCEPT ![s] = Idle]

\* No other session holds the row of the job.
RowFree(s, job) == \A u \in Sessions \ {s} :
    ~(session[u].op \in {"confirm", "close"} /\ session[u].job = job)

\* What the lock of close does not hold back: a count is being recorded, or cancelled.
Unfinished(job) == \E s \in Sessions :
    session[s].op \in {"count", "counting", "cancel"} /\ session[s].job = job

\* The balance rows exist when the system starts, with what the migration opened them at.
Init ==
    /\ balance \in [Keys -> {0, MaxQuantity}]
    /\ transfers = [t \in Transfers |-> Absent]
    /\ counts = [c \in Counts |-> Absent]
    /\ posted = [job \in Transfers \cup Counts |-> NoMovement]
    /\ session = [s \in Sessions |-> Idle]
    /\ crossed = {}

-------------------------------------------------------------------------------
(***************************************************************************)
(* Transfers.                                                              *)
(***************************************************************************)
CreateTransfer(t, from, to) ==
    /\ transfers[t] = Absent /\ from # to
    /\ transfers' = [transfers EXCEPT
          ![t] = [status |-> "draft", from |-> from, to |-> to, items |-> NoItems]]
    /\ UNCHANGED <<balance, counts, posted, session>>

ReadForItem(s, t) ==
    /\ transfers[t].status = "draft"
    /\ Start(s, [op |-> "item", job |-> t])
    /\ UNCHANGED <<balance, transfers, counts, posted>>

\* INSERT ... ON CONFLICT MERGE.  A new item references the transfer, so its INSERT waits
\* for the session that holds the transfer's row; a merge does not.
AddTransferItem(s) ==
    /\ session[s].op = "item"
    /\ LET t == session[s].job IN \E p \in Products, q \in 0..MaxQuantity :
        /\ transfers[t].items[p] = None => RowFree(s, t)
        /\ transfers' = [transfers EXCEPT ![t].items[p] = q]
    /\ Done(s)
    /\ UNCHANGED <<balance, counts, posted>>

\* Faulty variant: the transfer is read without FOR UPDATE.
LockNoTransfer(s, t) ==
    /\ transfers[t].status = "draft" /\ transfers[t].items # NoItems
    /\ Start(s, [op |-> "confirm", job |-> t, items |-> transfers[t].items])
    /\ UNCHANGED <<balance, transfers, counts, posted>>

\* confirmTransfer locks the transfer, checks it and reads its items ...
LockTransfer(s, t) ==
    /\ RowFree(s, t)
    /\ transfers[t].status = "draft" /\ transfers[t].items # NoItems
    /\ Start(s, [op |-> "confirm", job |-> t, items |-> transfers[t].items])
    /\ UNCHANGED <<balance, transfers, counts, posted>>

\* Faulty variant: the entry at the destination is forgotten.
OutEffect(t, items) == [k \in Keys |->
    IF items[k[1]] # None /\ k[2] = transfers[t].from THEN -items[k[1]] ELSE 0]

\* ... and posts, for each item, an exit from one warehouse and an entry in the other.
TransferEffect(t, items) == [k \in Keys |->
    IF items[k[1]] = None THEN 0
    ELSE IF k[2] = transfers[t].from THEN -items[k[1]]
    ELSE IF k[2] = transfers[t].to THEN items[k[1]] ELSE 0]

\* applyMovement refuses a quantity of zero and an exit of more than there is.
ConfirmTransfer(s) ==
    /\ session[s].op = "confirm"
    /\ LET t == session[s].job
           items == session[s].items
       IN  /\ \A p \in Products : items[p] # None =>
                items[p] > 0 /\ items[p] <= balance[<<p, transfers[t].from>>]
           /\ PostAll(t, TransferEffect(t, items))
           /\ transfers' = [transfers EXCEPT ![t].status = "confirmed"]
    /\ Done(s)
    /\ UNCHANGED counts

-------------------------------------------------------------------------------
(***************************************************************************)
(* Counts.                                                                 *)
(***************************************************************************)
\* The snapshot takes the balances of the warehouse that pass the category filter.
CreateCount(c, w, filtered) ==
    /\ counts[c] = Absent
    /\ counts' = [counts EXCEPT ![c] =
          [status |-> "open", warehouse |-> w,
           expected |-> [p \in Products |-> IF p \in filtered THEN balance[<<p, w>>] ELSE None],
           difference |-> NoItems]]
    /\ UNCHANGED <<balance, transfers, posted, session>>

ReadForCounting(s, c) ==
    /\ counts[c].status \in {"open", "counting"}
    /\ Start(s, [op |-> "count", job |-> c, opens |-> counts[c].status = "open"])
    /\ UNCHANGED <<balance, transfers, counts, posted>>

\* recordItemCount updates the item, then the count in a second statement if it read it open.
RecordItemCount(s) ==
    /\ session[s].op = "count"
    /\ LET c == session[s].job IN \E p \in Products, counted \in 0..MaxQuantity :
        /\ counts[c].expected[p] # None
        /\ counts' = [counts EXCEPT ![c].difference[p] = counted - counts[c].expected[p]]
        /\ IF session[s].opens
           THEN session' = [session EXCEPT ![s] = [op |-> "counting", job |-> c]]
           ELSE Done(s)
        /\ crossed' = IF RowFree(s, c) THEN crossed ELSE crossed \cup {c}
    /\ UNCHANGED <<balance, transfers, posted>>

StartCounting(s) ==
    /\ session[s].op = "counting"
    /\ RowFree(s, session[s].job)
    /\ counts' = [counts EXCEPT ![session[s].job].status = "counting"]
    /\ Done(s)
    /\ UNCHANGED <<balance, transfers, posted>>

\* close locks the count, checks it and reads the items that were counted ...
LockCount(s, c) ==
    /\ RowFree(s, c)
    /\ counts[c].status \in {"open", "counting"}
    /\ Start(s, [op |-> "close", job |-> c, difference |-> counts[c].difference])
    /\ UNCHANGED <<balance, transfers, counts, posted>>

\* ... and posts the difference each item has, as an inventory_count movement.
CountEffect(c, difference) == [k \in Keys |->
    IF k[2] = counts[c].warehouse /\ difference[k[1]] # None THEN difference[k[1]] ELSE 0]

CloseCount(s) ==
    /\ session[s].op = "close"
    /\ LET c == session[s].job IN
        /\ PostAll(c, CountEffect(c, session[s].difference))
        /\ counts' = [counts EXCEPT ![c].status = "closed"]
        /\ crossed' = IF Unfinished(c) THEN crossed \cup {c} ELSE crossed
    /\ Done(s)
    /\ UNCHANGED transfers

\* Faulty variant: any count can be cancelled.
ReadForLateCancel(s, c) ==
    /\ counts[c] # Absent
    /\ Start(s, [op |-> "cancel", job |-> c])
    /\ UNCHANGED <<balance, transfers, counts, posted>>

ReadForCancel(s, c) ==
    /\ counts[c].status \notin {"absent", "closed"}
    /\ Start(s, [op |-> "cancel", job |-> c])
    /\ UNCHANGED <<balance, transfers, counts, posted>>

CancelCount(s) ==
    /\ session[s].op = "cancel"
    /\ RowFree(s, session[s].job)
    /\ counts' = [counts EXCEPT ![session[s].job].status = "cancelled"]
    /\ Done(s)
    /\ UNCHANGED <<balance, transfers, posted>>

-------------------------------------------------------------------------------
\* createAdjustment, or another caller of applyMovement: stock moves with no job.
Adjust(k, to) ==
    /\ balance' = [balance EXCEPT ![k] = to]
    /\ UNCHANGED <<transfers, counts, posted, session>>

\* An exception or a crash rolls back the transaction in progress.
Abort(s) ==
    /\ session[s] # Idle
    /\ Done(s)
    /\ UNCHANGED <<balance, transfers, counts, posted>>

TransferStep(s) ==
    \/ \E t \in Transfers : ReadForItem(s, t) \/ LockTransfer(s, t)
    \/ AddTransferItem(s) \/ ConfirmTransfer(s)

CountStep(s) ==
    \/ /\ \/ \E c \in Counts : ReadForCounting(s, c) \/ LockCount(s, c) \/ ReadForCancel(s, c)
          \/ StartCounting(s) \/ CancelCount(s)
       /\ UNCHANGED crossed
    \/ RecordItemCount(s) \/ CloseCount(s)

Create ==
    \/ \E t \in Transfers, from, to \in Warehouses : CreateTransfer(t, from, to)
    \/ \E c \in Counts, w \in Warehouses, filtered \in SUBSET Products :
          CreateCount(c, w, filtered)

Next ==
    \/ /\ \/ Create
          \/ \E s \in Sessions : TransferStep(s) \/ Abort(s)
          \/ \E k \in Keys, to \in 0..MaxQuantity : Adjust(k, to)
       /\ UNCHANGED crossed
    \/ \E s \in Sessions : CountStep(s)

Spec == Init /\ [][Next]_vars

-------------------------------------------------------------------------------
(***************************************************************************)
(* Rows and requests are well formed.                                      *)
(***************************************************************************)
Request ==
    [op: {"item"}, job: Transfers] \cup [op: {"confirm"}, job: Transfers, items: Items]
    \cup [op: {"count"}, job: Counts, opens: BOOLEAN] \cup [op: {"counting", "cancel"}, job: Counts]
    \cup [op: {"close"}, job: Counts, difference: [Products -> Int \cup {None}]]

TypeOK ==
    /\ balance \in [Keys -> Int]
    /\ transfers \in [Transfers -> Transfer \cup {Absent}]
    /\ counts \in [Counts -> Count \cup {Absent}]
    /\ posted \in [Transfers \cup Counts -> [Keys -> Int]]
    /\ session \in [Sessions -> Request \cup {Idle}]
    /\ crossed \subseteq Counts

(***************************************************************************)
(* A transfer loses nothing on the way: what a product left at the origin  *)
(* with, it entered the destination with, nowhere else, however requests   *)
(* overlap; and it moved something exactly if it is confirmed (comment at  *)
(* movements.service.ts:442-445).                                          *)
(***************************************************************************)
TransferIsWhole ==
    \A t \in Transfers :
        /\ (posted[t] # NoMovement) <=> (transfers[t].status = "confirmed")
        /\ transfers[t] # Absent => \A p \in Products :
              /\ posted[t][<<p, transfers[t].from>>] = -posted[t][<<p, transfers[t].to>>]
              /\ \A w \in Warehouses \ {transfers[t].from, transfers[t].to} :
                    posted[t][<<p, w>>] = 0

(***************************************************************************)
(* The movements of a transfer are written in the step that takes it from  *)
(* draft to confirmed, and never again: two operators who confirm the same *)
(* transfer at once do not move the goods twice ("Já confirmada ou         *)
(* cancelada", movements.service.ts:462).                                  *)
(***************************************************************************)
TransferMovesOnce ==
    [][\A t \in Transfers : posted'[t] # posted[t] =>
          transfers[t].status = "draft" /\ transfers'[t].status = "confirmed"]_vars

(***************************************************************************)
(* However many operators count, cancel and close at once, and whatever    *)
(* happens to the stock meanwhile, a closed count has corrected each item  *)
(* by exactly its recorded difference and any other count has corrected    *)
(* nothing, so that no count is settled twice ("Contagem já fechada ou     *)
(* cancelada", counts.service.ts:276), unless it was closed while a        *)
(* recording or a cancellation of it was still under way: those take no    *)
(* lock, and reopen, cancel or change what was settled                     *)
(* (counts.service.ts:220-232, 327).  What a count corrects is in its own  *)
(* warehouse and on products it lists, even then.                          *)
(***************************************************************************)
CountSettlesOnce ==
    \A c \in Counts : counts[c] # Absent =>
        \A p \in Products, w \in Warehouses :
            /\ c \notin crossed => posted[c][<<p, w>>] =
                IF /\ counts[c].status = "closed" /\ w = counts[c].warehouse
                   /\ counts[c].difference[p] # None
                THEN counts[c].difference[p] ELSE 0
            /\ posted[c][<<p, w>>] # 0 => w = counts[c].warehouse /\ counts[c].expected[p] # None

================================================================================
