------------------------------ MODULE Fulfillments ------------------------------
(***************************************************************************)
(* The picking floor of a sales order: the handlers of                     *)
(* sales/fulfillments/fulfillments.service.ts and the reservations of      *)
(* sales/stock/stock-reservations.service.ts.                              *)
(*                                                                         *)
(* Every handler is one transaction that first reads the fulfillment with  *)
(* a plain SELECT and decides on what it read; nothing it read is locked,  *)
(* so other requests run between that read and its writes.  A handler is   *)
(* therefore a Read action, which keeps the decision in session, and a     *)
(* Write action with everything that follows, which the row locks make one *)
(* step (the fulfillment row, the balance rows of applyMovement, the order *)
(* row).  recordPick has a third step: it counts the items still pending   *)
(* while its own UPDATE, and maybe another's, is not committed.            *)
(*                                                                         *)
(* A line is identified with its tracked product.  The movements a         *)
(* document or a fulfillment posted are summed up in out; StockEngine has  *)
(* the ledger itself.  Who picks, carriers, weights, notes and numbering   *)
(* are left out.                                                           *)
(***************************************************************************)
EXTENDS Integers, FiniteSets, FiniteSetsExt, Functions

CONSTANTS Products,      \* tracked products, one per line
          Docs,          \* ids for sales_documents (a bound)
          Tasks,         \* ids for sales_fulfillments (a bound)
          Sessions,      \* requests that can be in progress at once
          MaxQuantity,   \* bound on the quantity of a line and of a pick
          StockAtStart   \* physical quantity of each product when the system starts

VARIABLES docs,          \* sales_documents with their lines
          fulfillments,  \* sales_fulfillments with their items
          reserved,      \* active sales_stock_reservations, by order and product
          out,           \* net quantity that left the shelf for a document or fulfillment
          session        \* the request each session is in the middle of

ASSUME QuantityAssumption == MaxQuantity \in Nat \ {0} /\ StockAtStart \in Nat
ASSUME IdsAssumption == Docs \cap Tasks = {} /\ "none" \notin Docs
\* createForOrder refuses an order without lines.
ASSUME LinesAssumption == Products # {}

-------------------------------------------------------------------------------
(***************************************************************************)
(* Rows.                                                                   *)
(***************************************************************************)
None == "none"
Quantities == [Products -> 0..MaxQuantity]
Nothing == [p \in Products |-> 0]

DocTypes == {"quote", "order", "delivery", "invoice", "credit_note", "customer_return"}
DocStatuses == {"draft", "sent", "accepted", "rejected", "invoiced", "partially_paid",
                "paid", "cancelled"}
ApprovalStatuses == {"not_required", "pending", "approved", "rejected"}

Document == [type: DocTypes, status: DocStatuses, committed: BOOLEAN,
             approval: ApprovalStatuses, from: Docs \cup {None}, lines: Quantities]
NoDoc == [status |-> "absent"]
Removed == [status |-> "removed"]
Exists(d) == docs[d] \notin {NoDoc, Removed}

FulfillmentStatuses == {"pending", "assigned", "picking", "picked", "packed", "shipped",
                        "cancelled"}
Open == {"pending", "assigned", "picking", "picked", "packed"}
PickStatuses == {"pending", "picked", "partial", "missing", "damaged"}

Fulfillment == [order: Docs, status: FulfillmentStatuses, requested: Quantities,
                picked: Quantities, items: [Products -> PickStatuses]]
NoTask == [status |-> "absent"]
Present(f) == fulfillments[f] \notin {NoTask, Removed}

\* The lines of the order copied to items: createForOrder.
NewTask(d) == [order |-> d, status |-> "pending", requested |-> docs[d].lines,
               picked |-> Nothing, items |-> [p \in Products |-> "pending"]]

\* Physical stock, as applyMovement reads it under the lock of the balance row.
OnHand(p) == StockAtStart - MapThenSumSet(LAMBDA ref : out[ref][p], Docs \cup Tasks)

-------------------------------------------------------------------------------
(***************************************************************************)
(* Requests.                                                               *)
(***************************************************************************)
Idle == [op |-> "idle"]
Start(s, request) == session[s] = Idle /\ session' = [session EXCEPT ![s] = request]
Done(s) == session' = [session EXCEPT ![s] = Idle]

\* recordPick has the fulfillment row locked from its UPDATE until it commits.
TaskFree(s, f) == \A u \in Sessions \ {s} :
    ~(session[u].op = "picked" /\ session[u].task = f /\ session[u].starts)
ItemFree(s, f, p) == \A u \in Sessions \ {s} :
    ~(session[u].op = "picked" /\ session[u].task = f /\ session[u].item = p)

\* Faulty variants: picking restarts, or a shipment is cancelled.
AcceptsRestart == [assign |-> {"pending", "assigned"},
            startPicking |-> {"pending", "assigned", "picked"},
            pack |-> {"picked"}, ship |-> {"picked", "packed"}, cancel |-> Open]
AcceptsLateCancel == [assign |-> {"pending", "assigned"},
            startPicking |-> {"pending", "assigned"}, pack |-> {"picked"},
            ship |-> {"picked", "packed"}, cancel |-> Open \cup {"shipped"}]

\* The statuses each handler accepts.
Accepts == [assign |-> {"pending", "assigned"}, startPicking |-> {"pending", "assigned"},
            pack |-> {"picked"}, ship |-> {"picked", "packed"}, cancel |-> Open]

\* Faulty variant: no row matches the reference.
TouchesNoReservation(d) == UNCHANGED reserved

\* The reservation rows of an order, by reference; reserve checks no availability.
Reserve(d, lines) == reserved' = [reserved EXCEPT ![d] = [p \in Products |-> @[p] + lines[p]]]
ReleaseByReference(d) == reserved' = [reserved EXCEPT ![d] = Nothing]
ConsumeByReference(d) == reserved' = [reserved EXCEPT ![d] = Nothing]

\* createForOrder, in the transaction that accepts order d: reuses a fulfillment that is
\* not cancelled, else opens one and reserves every line.
CreateForOrder(d) ==
    LET ofOrder == {f \in Tasks : Present(f) /\ fulfillments[f].status # "cancelled"
                                  /\ fulfillments[f].order = d}
    IN  \/ ofOrder # {} /\ UNCHANGED <<fulfillments, reserved>>
        \/ /\ ofOrder = {}
           /\ \E f \in Tasks :
                /\ fulfillments[f] = NoTask
                /\ fulfillments' = [fulfillments EXCEPT ![f] = NewTask(d)]
           /\ Reserve(d, docs[d].lines)

-------------------------------------------------------------------------------
\* assign, startPicking, pack, ship and cancel read the fulfillment and check its status.
ReadTask(s, op, f) ==
    /\ fulfillments[f].status \in Accepts[op]
    /\ Start(s, [op |-> op, task |-> f])
    /\ UNCHANGED <<docs, fulfillments, reserved, out>>

\* assign, startPicking and pack then set the next status, whatever it is by now.
WriteStatus(s, op, status) ==
    /\ session[s].op = op
    /\ LET f == session[s].task IN
        /\ Present(f) /\ TaskFree(s, f)
        /\ fulfillments' = [fulfillments EXCEPT ![f].status = status]
    /\ Done(s)
    /\ UNCHANGED <<docs, reserved, out>>

Assign(s) == WriteStatus(s, "assign", "assigned")
StartPicking(s) == WriteStatus(s, "startPicking", "picking")

Pack(s) == WriteStatus(s, "pack", "packed")

\* recordPick reads the fulfillment, then checks the quantity against the status given.
ReadPick(s, f, p) ==
    /\ fulfillments[f].status \in {"picking", "assigned"}
    /\ \E status \in PickStatuses, qty \in 0..MaxQuantity :
        /\ status = "picked" => qty >= fulfillments[f].requested[p]
        /\ status = "partial" => qty > 0 /\ qty < fulfillments[f].requested[p]
        /\ Start(s, [op |-> "pick", task |-> f, item |-> p, status |-> status, quantity |-> qty,
                     starts |-> fulfillments[f].status = "assigned"])
    /\ UNCHANGED <<docs, fulfillments, reserved, out>>

\* It updates the item, and the fulfillment if it was only assigned; then it counts the
\* items still pending: its own is as written, the others as committed.
WritePick(s) ==
    /\ session[s].op = "pick"
    /\ LET r == session[s] IN
        /\ Present(r.task) /\ ItemFree(s, r.task, r.item)
        /\ r.starts => TaskFree(s, r.task)
        /\ session' = [session EXCEPT ![s] =
              [op |-> "picked", task |-> r.task, item |-> r.item, status |-> r.status,
               quantity |-> r.quantity, starts |-> r.starts,
               complete |-> /\ r.status # "pending"
                            /\ \A p \in Products \ {r.item} :
                                 fulfillments[r.task].items[p] # "pending"]]
    /\ UNCHANGED <<docs, fulfillments, reserved, out>>

\* No item pending: the fulfillment becomes picked (after waiting for its row) on commit.
CommitPick(s) ==
    /\ session[s].op = "picked"
    /\ LET r == session[s] IN
        /\ Present(r.task)
        /\ r.complete => TaskFree(s, r.task)
        /\ fulfillments' = [fulfillments EXCEPT
              ![r.task].items[r.item] = r.status,
              ![r.task].picked[r.item] = r.quantity,
              ![r.task].status = IF r.complete THEN "picked"
                                 ELSE IF r.starts THEN "picking" ELSE @]
    /\ Done(s)
    /\ UNCHANGED <<docs, reserved, out>>

\* createDeliveryDoc: the guide is born sent, with what was picked, its stock committed.
DeliveryDoc(f) == [type |-> "delivery", status |-> "sent", committed |-> TRUE,
                   approval |-> "not_required", from |-> fulfillments[f].order,
                   lines |-> fulfillments[f].picked]

\* ship: one 'out' movement per item (refused if the shelf has less), reservations consumed,
\* order marked stock_committed, a delivery document if asked for.
Ship(s) ==
    /\ session[s].op = "ship"
    /\ LET f == session[s].task
           d == fulfillments[f].order
           shipped == [docs EXCEPT ![d].committed = TRUE]
       IN  /\ Present(f) /\ TaskFree(s, f)
           /\ \A p \in Products :
                fulfillments[f].picked[p] > 0 => fulfillments[f].picked[p] <= OnHand(p)
           /\ out' = [out EXCEPT ![f] = [p \in Products |-> @[p] + fulfillments[f].picked[p]]]
           /\ ConsumeByReference(d)
           /\ \/ docs' = shipped
              \/ \E guide \in Docs :
                    docs[guide] = NoDoc /\ docs' = [shipped EXCEPT ![guide] = DeliveryDoc(f)]
           /\ fulfillments' = [fulfillments EXCEPT ![f].status = "shipped"]
    /\ Done(s)

\* cancel: releases the order's reservations unless another fulfillment of it is open.
Cancel(s) ==
    /\ session[s].op = "cancel"
    /\ LET f == session[s].task
           d == fulfillments[f].order
           otherActive == \E g \in Tasks \ {f} :
                              fulfillments[g].status \in Open /\ fulfillments[g].order = d
       IN  /\ Present(f) /\ TaskFree(s, f)
           /\ fulfillments' = [fulfillments EXCEPT ![f].status = "cancelled"]
           /\ IF otherActive THEN UNCHANGED reserved ELSE ReleaseByReference(d)
    /\ Done(s)
    /\ UNCHANGED <<docs, out>>

\* A request that throws, or whose process dies, is rolled back.
Abort(s) ==
    /\ session[s] # Idle
    /\ Done(s)
    /\ UNCHANGED <<docs, fulfillments, reserved, out>>

FloorStep(s) ==
    \/ \E f \in Tasks :
        \/ \E op \in DOMAIN Accepts : ReadTask(s, op, f)
        \/ \E p \in Products : ReadPick(s, f, p)
    \/ Assign(s) \/ StartPicking(s) \/ WritePick(s) \/ CommitPick(s) \/ Pack(s)
    \/ Ship(s) \/ Cancel(s) \/ Abort(s)

-------------------------------------------------------------------------------
(***************************************************************************)
(* Rows and requests are well formed.                                      *)
(***************************************************************************)
TaskRequest == [op: DOMAIN Accepts, task: Tasks]
PickRequest == [op: {"pick"}, task: Tasks, item: Products, status: PickStatuses,
                quantity: 0..MaxQuantity, starts: BOOLEAN]
PickWritten == [op: {"picked"}, task: Tasks, item: Products, status: PickStatuses,
                quantity: 0..MaxQuantity, starts: BOOLEAN, complete: BOOLEAN]

RowsTypeOK ==
    /\ docs \in [Docs -> Document \cup {NoDoc, Removed}]
    /\ fulfillments \in [Tasks -> Fulfillment \cup {NoTask, Removed}]
    /\ reserved \in [Docs -> [Products -> Nat]]
    /\ out \in [Docs \cup Tasks -> [Products -> Int]]

(***************************************************************************)
(* Stock is only held back for an order that somebody can still pick:      *)
(* every active reservation belongs to an order with an open fulfillment   *)
(* ("cancelled - cancelado, libera reservas", "shipped - ... libera        *)
(* reserva").                                                              *)
(***************************************************************************)
ReservationsAreBacked ==
    \A d \in Docs : reserved[d] # Nothing =>
        \E f \in Tasks : fulfillments[f].status \in Open /\ fulfillments[f].order = d

(***************************************************************************)
(* Goods never leave behind the back of the order: once anything left for  *)
(* a fulfillment, or it reads shipped, its order is stock_committed and    *)
(* holds no active reservation (ship, fulfillments.service.ts:594-607).    *)
(***************************************************************************)
ShippedIsSettled ==
    \A f \in Tasks :
        Present(f) /\ (fulfillments[f].status = "shipped" \/ out[f] # Nothing) =>
            /\ docs[fulfillments[f].order].committed
            /\ reserved[fulfillments[f].order] = Nothing
================================================================================
