------------------------------ MODULE SalesProofs ------------------------------
(***************************************************************************)
(* What is proved about the picking floor and the sales documents, for any *)
(* products, documents, fulfillments, approval rules and quantities.       *)
(*                                                                         *)
(* The floor, however many requests overlap: rows and requests are well    *)
(* formed, and what left for a fulfillment is known to its order (Part 2). *)
(* The strengthening is that an order which has a fulfillment is there.    *)
(*                                                                         *)
(* The floor, however many requests overlap: the status of a fulfillment   *)
(* says whether there is anything left to pick, and the floor implements   *)
(* Shipments, until requests on that very fulfillment cross (Part 3).  A   *)
(* handler decides on what it read, so the strengthening says how much of  *)
(* what it read still holds when it writes, whoever picks beside it.       *)
(*                                                                         *)
(* Documents and the floor together, however many requests overlap: rows   *)
(* are well formed and a shipment is known to its order (Part 4).          *)
(*                                                                         *)
(* Documents and the floor together, until two requests overlap: every     *)
(* document agrees with its receivable, entries, commission, requests,     *)
(* reservations and the stock it moved (Part 5).  SalesInv says it row by  *)
(* row (SoundAt), for a document and the rows it points to (Related), for  *)
(* a fulfillment and its order (TaskStands) and for the request under way  *)
(* (RequestStands); each handler is one lemma that keeps them.             *)
(***************************************************************************)
EXTENDS SalesDocuments, PickingFloor, TLAPS

Request == {Idle} \cup TaskRequest \cup PickRequest \cup PickWritten
AnyRequest == Request \cup DocRequest

Typed == RowsTypeOK /\ session \in [Sessions -> AnyRequest]
FloorTyped == RowsTypeOK /\ session \in [Sessions -> Request]

-------------------------------------------------------------------------------
(***************************************************************************)
(* Part 1. Rows and requests.                                              *)
(***************************************************************************)

\* A row with a status other than absent and removed has every field.
LEMMA TaskRow ==
    ASSUME Typed, NEW f \in Tasks, Present(f) \/ fulfillments[f].status \in FulfillmentStatuses
    PROVE  fulfillments[f] \in Fulfillment /\ Present(f)
  <1>1. fulfillments[f] \in Fulfillment \cup {NoTask, Removed}
    BY DEF Typed, RowsTypeOK
  <1>2. NoTask.status = "absent" /\ Removed.status = "removed"
    BY DEF NoTask, Removed
  <1>3. ASSUME NEW t \in Fulfillment PROVE t.status \in FulfillmentStatuses
    BY DEF Fulfillment
  <1> QED
    BY <1>1, <1>2, <1>3 DEF Present, FulfillmentStatuses

\* The operation of a request tells which fields it has.
LEMMA RequestKinds ==
    ASSUME Typed, NEW s \in Sessions
    PROVE  /\ session[s].op \in DOMAIN Accepts => session[s] \in TaskRequest
           /\ session[s].op = "pick" => session[s] \in PickRequest
           /\ session[s].op = "picked" => session[s] \in PickWritten
           /\ session[s].op \in {"update", "remove"} => session[s] \in [op: {"update", "remove"}, doc: Docs]
           /\ session[s].op = "convert" =>
                 session[s] \in [op: {"convert"}, doc: Docs, to: DocTypes, seen: Document]
           /\ session[s].op = "changeStatus" =>
                 session[s] \in [op: {"changeStatus"}, doc: Docs, to: DocStatuses, seen: Document]
  <1>1. session[s] \in AnyRequest
    BY DEF Typed
  <1>2. Idle.op = "idle"
    BY DEF Idle
  <1>3. DOMAIN Accepts = {"assign", "startPicking", "pack", "ship", "cancel"}
    BY DEF Accepts
  <1>4. /\ \A r \in TaskRequest : r.op \in DOMAIN Accepts
        /\ \A r \in PickRequest : r.op = "pick"
        /\ \A r \in PickWritten : r.op = "picked"
        /\ \A r \in [op: {"update", "remove"}, doc: Docs] : r.op \in {"update", "remove"}
        /\ \A r \in [op: {"convert"}, doc: Docs, to: DocTypes, seen: Document] : r.op = "convert"
        /\ \A r \in [op: {"changeStatus"}, doc: Docs, to: DocStatuses, seen: Document] : r.op = "changeStatus"
    BY DEF TaskRequest, PickRequest, PickWritten
  <1> QED
    BY <1>1, <1>2, <1>3, <1>4 DEF Request, AnyRequest, DocRequest

\* The floor alone has no requests on documents.
LEMMA FloorIsTyped == FloorTyped => Typed
  BY DEF FloorTyped, Typed, AnyRequest

\* A session that ends or starts a request stays one.
LEMMA SessionTyped ==
    ASSUME FloorTyped, NEW s \in Sessions, NEW r \in Request, session' = [session EXCEPT ![s] = r]
    PROVE  session' \in [Sessions -> Request]
  BY DEF FloorTyped

\* A fulfillment stays one when its status changes.
LEMMA NewStatus ==
    ASSUME NEW t \in Fulfillment, NEW status \in FulfillmentStatuses
    PROVE  /\ [t EXCEPT !.status = status] \in Fulfillment
           /\ [t EXCEPT !.status = status].order = t.order
           /\ [t EXCEPT !.status = status].picked = t.picked
           /\ [t EXCEPT !.status = status].items = t.items
           /\ [t EXCEPT !.status = status].requested = t.requested
           /\ [t EXCEPT !.status = status].status = status
  BY DEF Fulfillment

\* recordPick's update of an item.
PickedTask(t, p, result, quantity, status) ==
    [t EXCEPT !.items[p] = result, !.picked[p] = quantity, !.status = status]

(* A fulfillment stays one when an item of it is picked.                      *)
LEMMA NewPick ==
    ASSUME NEW t \in Fulfillment, NEW p \in Products, NEW result \in PickStatuses,
           NEW quantity \in 0..MaxQuantity, NEW status \in FulfillmentStatuses
    PROVE  LET n == PickedTask(t, p, result, quantity, status) IN
           /\ n \in Fulfillment /\ n.order = t.order /\ n.status = status
           /\ n.items = [t.items EXCEPT ![p] = result]
           /\ n.picked = [t.picked EXCEPT ![p] = quantity]
  <1>1. t.items \in [Products -> PickStatuses] /\ t.picked \in Quantities
    BY DEF Fulfillment
  <1>2. [t.items EXCEPT ![p] = result] \in [Products -> PickStatuses]
    BY <1>1
  <1>3. [t.picked EXCEPT ![p] = quantity] \in Quantities
    BY <1>1 DEF Quantities
  <1> QED
    BY <1>2, <1>3 DEF Fulfillment, PickedTask

\* A document is no placeholder.
LEMMA DocumentRow ==
    ASSUME NEW d \in Document
    PROVE  d # NoDoc /\ d # Removed /\ [d EXCEPT !.committed = TRUE] \in Document
           /\ [d EXCEPT !.committed = TRUE].committed
  <1>1. NoDoc.status = "absent" /\ Removed.status = "removed" /\ d.status \in DocStatuses
    BY DEF NoDoc, Removed, Document
  <1>2. d # NoDoc /\ d # Removed
    BY <1>1 DEF DocStatuses
  <1> QED
    BY <1>2 DEF Document

-------------------------------------------------------------------------------
(***************************************************************************)
(* Part 2. Any number of requests at once.                                 *)
(***************************************************************************)
OrdersExist == \A f \in Tasks : Present(f) => docs[fulfillments[f].order] \in Document

FloorInv == FloorTyped /\ OrdersExist /\ ShippedIsSettled

(* Orders just accepted have their fulfillments, and nothing was shipped.     *)
LEMMA InitialFloor == Init => FloorInv /\ \A f \in Tasks :
    /\ out[f] = Nothing
    /\ fulfillments[f] = NoTask \/
         (/\ fulfillments[f] \in Fulfillment /\ fulfillments[f].status \in {"pending", "assigned"}
          /\ fulfillments[f].picked = Nothing
          /\ \A p \in Products : fulfillments[f].items[p] = "pending")
  <1> SUFFICES ASSUME Init
               PROVE  FloorInv /\ \A f \in Tasks :
                        /\ out[f] = Nothing
                        /\ fulfillments[f] = NoTask \/
                             (/\ fulfillments[f] \in Fulfillment /\ fulfillments[f].status \in {"pending", "assigned"}
                              /\ fulfillments[f].picked = Nothing
                              /\ \A p \in Products : fulfillments[f].items[p] = "pending")
    OBVIOUS
  <1>1. PICK first \in SUBSET Tasks, again \in SUBSET Tasks, order \in [Tasks -> Docs],
             lines \in [Docs -> [Products -> 1..MaxQuantity]] :
           LET accepted == {order[f] : f \in first} IN
           /\ \A f \in again : f \notin first /\ order[f] \in accepted
           /\ \A f, g \in first : order[f] = order[g] => f = g
           /\ docs = [d \in Docs |-> IF d \in accepted
                 THEN [type |-> "order", status |-> "accepted", committed |-> FALSE,
                       approval |-> "not_required", from |-> None, lines |-> lines[d]]
                 ELSE NoDoc]
           /\ fulfillments = [f \in Tasks |-> IF f \notin first \cup again THEN NoTask
                 ELSE [order |-> order[f], status |-> IF f \in again THEN "assigned" ELSE "pending",
                       requested |-> lines[order[f]], picked |-> Nothing,
                       items |-> [p \in Products |-> "pending"]]]
           /\ reserved = [d \in Docs |-> IF d \in accepted THEN lines[d] ELSE Nothing]
    BY DEF Init
  <1> DEFINE accepted == {order[f] : f \in first}
             Order(d) == [type |-> "order", status |-> "accepted", committed |-> FALSE,
                          approval |-> "not_required", from |-> None, lines |-> lines[d]]
             Task(f) == [order |-> order[f], status |-> IF f \in again THEN "assigned" ELSE "pending",
                         requested |-> lines[order[f]], picked |-> Nothing,
                         items |-> [p \in Products |-> "pending"]]
  <1>2. out = [ref \in Docs \cup Tasks |-> Nothing] /\ session = [s \in Sessions |-> Idle]
    BY DEF Init
  <1>3. Nothing \in Quantities /\ Nothing \in [Products -> Nat] /\ Nothing \in [Products -> Int]
    BY QuantityAssumption DEF Quantities, Nothing
  <1>4. \A d \in Docs : lines[d] \in Quantities /\ lines[d] \in [Products -> Nat]
    BY QuantityAssumption DEF Quantities
  <1>5. \A d \in Docs : Order(d) \in Document
    BY <1>4 DEF Document, DocTypes, DocStatuses, ApprovalStatuses
  <1>6. \A f \in Tasks : /\ Task(f) \in Fulfillment /\ Task(f).status \in {"pending", "assigned"}
                         /\ Task(f).order = order[f] /\ Task(f).picked = Nothing
                         /\ \A p \in Products : Task(f).items[p] = "pending"
    BY <1>3, <1>4 DEF Fulfillment, FulfillmentStatuses, PickStatuses
  <1>7. /\ docs = [d \in Docs |-> IF d \in accepted THEN Order(d) ELSE NoDoc]
        /\ fulfillments = [f \in Tasks |-> IF f \notin first \cup again THEN NoTask ELSE Task(f)]
        /\ reserved = [d \in Docs |-> IF d \in accepted THEN lines[d] ELSE Nothing]
    BY <1>1
  <1>8. \A f \in first \cup again : f \in Tasks /\ order[f] \in accepted /\ order[f] \in Docs
    BY <1>1
  <1> HIDE DEF accepted, Order, Task
  <1>9. docs \in [Docs -> Document \cup {NoDoc, Removed}]
    BY <1>5, <1>7
  <1>10. fulfillments \in [Tasks -> Fulfillment \cup {NoTask, Removed}]
    BY <1>6, <1>7
  <1>11. reserved \in [Docs -> [Products -> Nat]] /\ out \in [Docs \cup Tasks -> [Products -> Int]]
    BY <1>2, <1>3, <1>4, <1>7
  <1>12. session \in [Sessions -> Request]
    BY <1>2 DEF Request
  <1>13. FloorTyped
    BY <1>9, <1>10, <1>11, <1>12 DEF FloorTyped, RowsTypeOK
  <1>14. \A f \in Tasks : out[f] = Nothing /\ (Present(f) => f \in first \cup again)
    BY <1>2, <1>7 DEF Present
  <1>15. \A f \in Tasks : fulfillments[f] = NoTask \/ fulfillments[f] = Task(f)
    BY <1>7
  <1>16. OrdersExist
    BY <1>5, <1>6, <1>7, <1>8, <1>14 DEF OrdersExist
  <1>17. \A f \in Tasks : Present(f) => fulfillments[f].status # "shipped"
    BY <1>6, <1>15 DEF Present
  <1>18. ShippedIsSettled
    BY <1>14, <1>17 DEF ShippedIsSettled
  <1> QED
    BY <1>6, <1>13, <1>14, <1>15, <1>16, <1>18 DEF FloorInv

\* A request that only reads, or is rolled back, leaves the rows as they are.
LEMMA RowsKept ==
    ASSUME FloorInv, UNCHANGED <<docs, fulfillments, reserved, out>>, session' \in [Sessions -> Request]
    PROVE  FloorInv'
  <1>1. FloorTyped'
    BY DEF FloorInv, FloorTyped, RowsTypeOK
  <1>2. OrdersExist' /\ ShippedIsSettled'
    BY DEF FloorInv, OrdersExist, ShippedIsSettled, Present
  <1> QED
    BY <1>1, <1>2 DEF FloorInv

\* A fulfillment changes within its order and is not shipped by this; reservations are not made.
LEMMA TaskChanged ==
    ASSUME FloorInv, NEW f \in Tasks, NEW t \in Fulfillment, Present(f),
           t.order = fulfillments[f].order,
           t.status = "shipped" => fulfillments[f].status = "shipped",
           fulfillments' = [fulfillments EXCEPT ![f] = t],
           UNCHANGED <<docs, out>>,
           reserved' \in [Docs -> [Products -> Nat]],
           \A d \in Docs : reserved[d] = Nothing => reserved'[d] = Nothing,
           session' \in [Sessions -> Request]
    PROVE  FloorInv'
  <1>1. fulfillments \in [Tasks -> Fulfillment \cup {NoTask, Removed}]
    BY DEF FloorInv, FloorTyped, RowsTypeOK
  <1>2. FloorTyped'
    BY <1>1 DEF FloorInv, FloorTyped, RowsTypeOK
  <1>3. \A g \in Tasks : fulfillments'[g] = IF g = f THEN t ELSE fulfillments[g]
    BY <1>1
  <1>4. \A g \in Tasks : Present(g)' => Present(g) /\ fulfillments'[g].order = fulfillments[g].order
    BY <1>3 DEF Present
  <1>5. OrdersExist'
    BY <1>4 DEF FloorInv, OrdersExist
  <1>6. ASSUME NEW g \in Tasks, Present(g)', fulfillments'[g].status = "shipped" \/ out'[g] # Nothing
        PROVE  docs'[fulfillments'[g].order].committed /\ reserved'[fulfillments'[g].order] = Nothing
    <2>1. fulfillments[g].status = "shipped" \/ out[g] # Nothing
      BY <1>3, <1>6
    <2>2. fulfillments[g].order \in Docs
      BY <1>4, <1>6, TaskRow, FloorIsTyped DEF FloorInv, Fulfillment
    <2> QED
      BY <1>4, <1>6, <2>1, <2>2 DEF FloorInv, ShippedIsSettled
  <1>7. ShippedIsSettled'
    BY <1>6 DEF ShippedIsSettled, Nothing
  <1> QED
    BY <1>2, <1>5, <1>7 DEF FloorInv

\* assign, startPicking and pack.
LEMMA WriteStatusStep ==
    ASSUME Typed, NEW s \in Sessions, NEW op \in {"assign", "startPicking", "pack"},
           NEW status \in FulfillmentStatuses, WriteStatus(s, op, status)
    PROVE  LET f == session[s].task
               t == [fulfillments[f] EXCEPT !.status = status]
           IN  /\ session[s] \in TaskRequest /\ f \in Tasks /\ Present(f)
               /\ t \in Fulfillment /\ t.order = fulfillments[f].order
               /\ fulfillments' = [fulfillments EXCEPT ![f] = t]
               /\ session' = [session EXCEPT ![s] = Idle]
  <1> DEFINE f == session[s].task
  <1>1. op \in DOMAIN Accepts /\ session[s].op = op
    BY DEF Accepts, WriteStatus
  <1>2. session[s] \in TaskRequest
    BY <1>1, RequestKinds
  <1>3. f \in Tasks /\ Present(f)
    BY <1>2 DEF TaskRequest, WriteStatus
  <1>4. fulfillments[f] \in Fulfillment
    BY <1>3, TaskRow
  <1>5. session' = [session EXCEPT ![s] = Idle]
    BY DEF WriteStatus, Done
  <1> QED
    BY <1>2, <1>3, <1>4, <1>5, NewStatus DEF WriteStatus

(* assign, startPicking and pack keep the invariant of the floor.             *)
LEMMA WriteStatusFloor ==
    ASSUME FloorInv, NEW s \in Sessions, Assign(s) \/ StartPicking(s) \/ Pack(s)
    PROVE  FloorInv'
  <1>1. PICK op \in {"assign", "startPicking", "pack"}, status \in FulfillmentStatuses \ {"shipped"} :
           WriteStatus(s, op, status)
    BY DEF Assign, StartPicking, Pack, FulfillmentStatuses
  <1> DEFINE f == session[s].task
             t == [fulfillments[f] EXCEPT !.status = status]
  <1>2. /\ f \in Tasks /\ Present(f) /\ t \in Fulfillment /\ t.order = fulfillments[f].order
        /\ fulfillments' = [fulfillments EXCEPT ![f] = t]
        /\ session' \in [Sessions -> Request]
    BY <1>1, WriteStatusStep, FloorIsTyped, SessionTyped DEF FloorInv, Request
  <1>3. fulfillments[f] \in Fulfillment
    BY <1>2, TaskRow, FloorIsTyped DEF FloorInv
  <1>4. t.status # "shipped"
    BY <1>3, NewStatus
  <1>5. UNCHANGED <<docs, out, reserved>> /\ reserved' \in [Docs -> [Products -> Nat]]
    BY <1>1 DEF WriteStatus, FloorInv, FloorTyped, RowsTypeOK
  <1> HIDE DEF f, t
  <1> QED
    BY <1>2, <1>4, <1>5, TaskChanged

(* So do the steps that only read, and a rollback.                            *)
LEMMA ReadFloor ==
    ASSUME FloorInv, NEW s \in Sessions,
           \/ \E f \in Tasks : \/ \E op \in DOMAIN Accepts : ReadTask(s, op, f)
                             \/ \E p \in Products : ReadPick(s, f, p)
           \/ WritePick(s) \/ Abort(s)
    PROVE  FloorInv'
  <1>1. UNCHANGED <<docs, fulfillments, reserved, out>>
    BY DEF ReadTask, ReadPick, WritePick, Abort
  <1>2. CASE \E f \in Tasks, op \in DOMAIN Accepts : ReadTask(s, op, f)
    <2>1. PICK f \in Tasks, op \in DOMAIN Accepts : ReadTask(s, op, f)
      BY <1>2
    <2>2. [op |-> op, task |-> f] \in Request
      BY DEF Request, TaskRequest
    <2> QED
      BY <1>1, <2>1, <2>2, SessionTyped, RowsKept DEF ReadTask, Start, FloorInv
  <1>3. CASE \E f \in Tasks, p \in Products : ReadPick(s, f, p)
    <2>1. PICK f \in Tasks, p \in Products, status \in PickStatuses, qty \in 0..MaxQuantity :
             Start(s, [op |-> "pick", task |-> f, item |-> p, status |-> status, quantity |-> qty,
                       starts |-> fulfillments[f].status = "assigned"])
      BY <1>3 DEF ReadPick
    <2>2. [op |-> "pick", task |-> f, item |-> p, status |-> status, quantity |-> qty,
           starts |-> fulfillments[f].status = "assigned"] \in PickRequest
      BY DEF PickRequest
    <2> QED
      BY <1>1, <2>1, <2>2, SessionTyped, RowsKept DEF Start, Request, FloorInv
  <1>4. CASE WritePick(s)
    <2> DEFINE r == session[s]
               complete == /\ r.status # "pending"
                           /\ \A p \in Products \ {r.item} : fulfillments[r.task].items[p] # "pending"
               written == [op |-> "picked", task |-> r.task, item |-> r.item, status |-> r.status,
                           quantity |-> r.quantity, starts |-> r.starts, complete |-> complete]
    <2>1. r \in PickRequest
      BY <1>4, RequestKinds, FloorIsTyped DEF WritePick, FloorInv
    <2>2. session' = [session EXCEPT ![s] = written]
      BY <1>4 DEF WritePick
    <2>3. complete \in BOOLEAN
      OBVIOUS
    <2>4. written \in PickWritten
      <3> HIDE DEF complete
      <3> QED
        BY <2>1, <2>3 DEF PickRequest, PickWritten
    <2> HIDE DEF written
    <2> QED
      BY <1>1, <2>2, <2>4, SessionTyped, RowsKept DEF Request, FloorInv
  <1>5. CASE Abort(s)
    BY <1>1, <1>5, SessionTyped, RowsKept DEF Abort, Done, Request, FloorInv
  <1> QED
    BY <1>2, <1>3, <1>4, <1>5

\* What CommitPick makes of the fulfillment, as one new row.
LEMMA CommitPickStep ==
    ASSUME Typed, NEW s \in Sessions, CommitPick(s)
    PROVE  LET r == session[s]
               status == IF r.complete THEN "picked"
                         ELSE IF r.starts THEN "picking" ELSE fulfillments[r.task].status
               t == PickedTask(fulfillments[r.task], r.item, r.status, r.quantity, status)
           IN  /\ r \in PickWritten /\ r.task \in Tasks /\ Present(r.task)
               /\ fulfillments[r.task] \in Fulfillment /\ t \in Fulfillment
               /\ t.order = fulfillments[r.task].order /\ t.status = status
               /\ t.items = [fulfillments[r.task].items EXCEPT ![r.item] = r.status]
               /\ t.picked = [fulfillments[r.task].picked EXCEPT ![r.item] = r.quantity]
               /\ fulfillments' = [fulfillments EXCEPT ![r.task] = t]
               /\ session' = [session EXCEPT ![s] = Idle]
  <1> DEFINE r == session[s]
             status == IF r.complete THEN "picked"
                       ELSE IF r.starts THEN "picking" ELSE fulfillments[r.task].status
             t == PickedTask(fulfillments[r.task], r.item, r.status, r.quantity, status)
  <1>1. r \in PickWritten /\ Present(r.task)
    BY RequestKinds DEF CommitPick
  <1>2. r.task \in Tasks /\ r.item \in Products /\ r.status \in PickStatuses /\ r.quantity \in 0..MaxQuantity
    BY <1>1 DEF PickWritten
  <1>3. fulfillments[r.task] \in Fulfillment
    BY <1>1, <1>2, TaskRow
  <1>4. status \in FulfillmentStatuses
    BY <1>3 DEF Fulfillment, FulfillmentStatuses
  <1>5. /\ t \in Fulfillment /\ t.order = fulfillments[r.task].order /\ t.status = status
        /\ t.items = [fulfillments[r.task].items EXCEPT ![r.item] = r.status]
        /\ t.picked = [fulfillments[r.task].picked EXCEPT ![r.item] = r.quantity]
    <2> HIDE DEF status
    <2> QED
      BY <1>2, <1>3, <1>4, NewPick
  <1>6. fulfillments' = [fulfillments EXCEPT ![r.task] = t]
    BY DEF CommitPick, PickedTask
  <1>7. session' = [session EXCEPT ![s] = Idle]
    BY DEF CommitPick, Done
  <1> QED
    BY <1>1, <1>2, <1>3, <1>5, <1>6, <1>7

(* So does the commit of recordPick.                                          *)
LEMMA CommitPickFloor ==
    ASSUME FloorInv, NEW s \in Sessions, CommitPick(s)
    PROVE  FloorInv'
  <1> DEFINE r == session[s]
             f == r.task
             status == IF r.complete THEN "picked"
                       ELSE IF r.starts THEN "picking" ELSE fulfillments[r.task].status
             t == PickedTask(fulfillments[r.task], r.item, r.status, r.quantity, status)
  <1>1. /\ f \in Tasks /\ Present(f) /\ t \in Fulfillment /\ t.order = fulfillments[f].order
        /\ t.status = status /\ fulfillments' = [fulfillments EXCEPT ![f] = t]
        /\ session' \in [Sessions -> Request]
    BY CommitPickStep, FloorIsTyped, SessionTyped DEF FloorInv, Request
  <1>2. t.status = "shipped" => fulfillments[f].status = "shipped"
    BY <1>1
  <1>3. UNCHANGED <<docs, out, reserved>> /\ reserved' \in [Docs -> [Products -> Nat]]
    BY DEF CommitPick, FloorInv, FloorTyped, RowsTypeOK
  <1> HIDE DEF f, t
  <1> QED
    BY <1>1, <1>2, <1>3, TaskChanged

\* cancel, as one new row.
LEMMA CancelStep ==
    ASSUME Typed, NEW s \in Sessions, Cancel(s)
    PROVE  LET f == session[s].task
               t == [fulfillments[f] EXCEPT !.status = "cancelled"]
           IN  /\ session[s] \in TaskRequest /\ session[s].op = "cancel" /\ f \in Tasks /\ Present(f)
               /\ fulfillments[f] \in Fulfillment /\ fulfillments[f].order \in Docs
               /\ t \in Fulfillment /\ t.order = fulfillments[f].order /\ t.status = "cancelled"
               /\ t.picked = fulfillments[f].picked
               /\ fulfillments' = [fulfillments EXCEPT ![f] = t]
               /\ reserved' = reserved \/ reserved' = [reserved EXCEPT ![fulfillments[f].order] = Nothing]
               /\ session' = [session EXCEPT ![s] = Idle]
  <1> DEFINE f == session[s].task
  <1>1. session[s] \in TaskRequest /\ session[s].op = "cancel" /\ Present(f)
    BY RequestKinds DEF Cancel, Accepts
  <1>2. f \in Tasks
    BY <1>1 DEF TaskRequest
  <1>3. fulfillments[f] \in Fulfillment /\ fulfillments[f].order \in Docs
    BY <1>1, <1>2, TaskRow DEF Fulfillment
  <1> QED
    BY <1>1, <1>2, <1>3, NewStatus DEF FulfillmentStatuses, Cancel, ReleaseByReference, Done

(* So does cancel, which only releases.                                       *)
LEMMA CancelFloor ==
    ASSUME FloorInv, NEW s \in Sessions, Cancel(s)
    PROVE  FloorInv'
  <1> DEFINE f == session[s].task
             t == [fulfillments[f] EXCEPT !.status = "cancelled"]
  <1>1. /\ f \in Tasks /\ Present(f) /\ t \in Fulfillment
        /\ t.order = fulfillments[f].order /\ t.status = "cancelled"
        /\ fulfillments' = [fulfillments EXCEPT ![f] = t]
        /\ reserved' = reserved \/ reserved' = [reserved EXCEPT ![fulfillments[f].order] = Nothing]
        /\ session' = [session EXCEPT ![s] = Idle]
    BY CancelStep, FloorIsTyped DEF FloorInv
  <1>2. UNCHANGED <<docs, out>>
    BY DEF Cancel
  <1>3. reserved \in [Docs -> [Products -> Nat]] /\ Nothing \in [Products -> Nat]
    BY DEF FloorInv, FloorTyped, RowsTypeOK, Nothing
  <1>4. reserved' \in [Docs -> [Products -> Nat]] /\ \A d \in Docs : reserved[d] = Nothing => reserved'[d] = Nothing
    BY <1>1, <1>3
  <1>5. session' \in [Sessions -> Request]
    BY <1>1, SessionTyped DEF Request, FloorInv
  <1> HIDE DEF f, t
  <1> QED
    BY <1>1, <1>2, <1>4, <1>5, TaskChanged

\* ship, as one new row of the fulfillment, of its order and of what left.
LEMMA ShipStep ==
    ASSUME Typed, NEW s \in Sessions, Ship(s)
    PROVE  LET f == session[s].task
               d == fulfillments[f].order
               t == [fulfillments[f] EXCEPT !.status = "shipped"]
           IN  /\ session[s] \in TaskRequest /\ f \in Tasks /\ Present(f)
               /\ fulfillments[f] \in Fulfillment /\ d \in Docs
               /\ t \in Fulfillment /\ t.order = d /\ t.picked = fulfillments[f].picked /\ t.status = "shipped"
               /\ t.items = fulfillments[f].items
               /\ fulfillments' = [fulfillments EXCEPT ![f] = t]
               /\ reserved' = [reserved EXCEPT ![d] = Nothing]
               /\ out' = [out EXCEPT ![f] = [p \in Products |-> out[f][p] + fulfillments[f].picked[p]]]
               /\ session' = [session EXCEPT ![s] = Idle]
  <1> DEFINE f == session[s].task
             t == [fulfillments[f] EXCEPT !.status = "shipped"]
  <1>1. session[s] \in TaskRequest /\ Present(f)
    BY RequestKinds DEF Ship, Accepts
  <1>2. f \in Tasks
    BY <1>1 DEF TaskRequest
  <1>3. fulfillments[f] \in Fulfillment
    BY <1>1, <1>2, TaskRow
  <1>4. /\ t \in Fulfillment /\ t.order = fulfillments[f].order /\ t.status = "shipped"
        /\ t.picked = fulfillments[f].picked /\ t.items = fulfillments[f].items
    BY <1>3, NewStatus DEF FulfillmentStatuses
  <1>5. fulfillments[f].order \in Docs
    BY <1>3 DEF Fulfillment
  <1>6. /\ fulfillments' = [fulfillments EXCEPT ![f] = t]
        /\ reserved' = [reserved EXCEPT ![fulfillments[f].order] = Nothing]
        /\ session' = [session EXCEPT ![s] = Idle]
    BY DEF Ship, ConsumeByReference, Done
  <1>7. out' = [out EXCEPT ![f] = [p \in Products |-> out[f][p] + fulfillments[f].picked[p]]]
    <2>1. out \in [Docs \cup Tasks -> [Products -> Int]] /\ f \in Docs \cup Tasks
      BY <1>2 DEF Typed, RowsTypeOK
    <2> QED
      BY <2>1 DEF Ship
  <1> HIDE DEF t
  <1> QED
    BY <1>1, <1>2, <1>3, <1>4, <1>5, <1>6, <1>7 DEF t

\* The order's flag is set and nothing else of its row changes; the guide is a new row.
LEMMA ShippedDocs ==
    ASSUME Typed, OrdersExist, NEW s \in Sessions, Ship(s)
    PROVE  LET d == fulfillments[session[s].task].order IN
           /\ docs' \in [Docs -> Document \cup {NoDoc, Removed}]
           /\ docs'[d] \in Document /\ docs'[d].committed
           /\ \A x \in Docs \ {d} : docs[x] \in Document => docs'[x] = docs[x]
  <1> DEFINE f == session[s].task
             d == fulfillments[f].order
             committed == [docs[d] EXCEPT !.committed = TRUE]
             shipped == [docs EXCEPT ![d] = committed]
  <1>1. f \in Tasks /\ Present(f) /\ fulfillments[f] \in Fulfillment /\ d \in Docs
    BY ShipStep
  <1>2. docs[d] \in Document
    BY <1>1 DEF OrdersExist
  <1>3. committed \in Document /\ committed.committed
    BY <1>2, DocumentRow
  <1>4. docs \in [Docs -> Document \cup {NoDoc, Removed}]
    BY DEF Typed, RowsTypeOK
  <1>5. \/ docs' = shipped
        \/ \E guide \in Docs : docs[guide] = NoDoc /\ docs' = [shipped EXCEPT ![guide] = DeliveryDoc(f)]
    BY DEF Ship
  <1>6. DeliveryDoc(f) \in Document
    BY <1>1 DEF DeliveryDoc, Document, Fulfillment, DocTypes, DocStatuses, ApprovalStatuses
  <1> HIDE DEF committed
  <1>7. CASE docs' = shipped
    BY <1>1, <1>3, <1>4, <1>7
  <1>8. CASE \E guide \in Docs : docs[guide] = NoDoc /\ docs' = [shipped EXCEPT ![guide] = DeliveryDoc(f)]
    <2>1. PICK guide \in Docs : docs[guide] = NoDoc /\ docs' = [shipped EXCEPT ![guide] = DeliveryDoc(f)]
      BY <1>8
    <2>2. \A x \in Docs : docs[x] \in Document => x # guide
      BY <2>1, DocumentRow
    <2>3. d # guide
      BY <1>1, <1>2, <2>2
    <2>4. shipped \in [Docs -> Document \cup {NoDoc, Removed}]
      BY <1>1, <1>3, <1>4
    <2> QED
      BY <1>1, <1>3, <1>4, <1>6, <2>1, <2>2, <2>3, <2>4
  <1> QED
    BY <1>5, <1>7, <1>8

(* So does ship: the flag is set and the reservations go in the step that     *)
(* moves the goods.                                                           *)
LEMMA ShipFloor ==
    ASSUME FloorInv, NEW s \in Sessions, Ship(s)
    PROVE  FloorInv'
  <1> DEFINE f == session[s].task
             d == fulfillments[f].order
             t == [fulfillments[f] EXCEPT !.status = "shipped"]
             left == [p \in Products |-> out[f][p] + fulfillments[f].picked[p]]
  <1>1. /\ f \in Tasks /\ Present(f) /\ fulfillments[f] \in Fulfillment /\ d \in Docs
        /\ t \in Fulfillment /\ t.order = d
        /\ fulfillments' = [fulfillments EXCEPT ![f] = t]
        /\ reserved' = [reserved EXCEPT ![d] = Nothing]
        /\ out' = [out EXCEPT ![f] = left]
        /\ session' \in [Sessions -> Request]
    BY ShipStep, FloorIsTyped, SessionTyped DEF FloorInv, Request
  <1>2. /\ docs' \in [Docs -> Document \cup {NoDoc, Removed}]
        /\ docs'[d] \in Document /\ docs'[d].committed
        /\ \A x \in Docs \ {d} : docs[x] \in Document => docs'[x] = docs[x]
    BY ShippedDocs, FloorIsTyped DEF FloorInv
  <1>3. /\ fulfillments \in [Tasks -> Fulfillment \cup {NoTask, Removed}]
        /\ reserved \in [Docs -> [Products -> Nat]] /\ out \in [Docs \cup Tasks -> [Products -> Int]]
    BY DEF FloorInv, FloorTyped, RowsTypeOK
  <1>4. left \in [Products -> Int]
    <2>1. out[f] \in [Products -> Int] /\ fulfillments[f].picked \in [Products -> 0..MaxQuantity]
      BY <1>1, <1>3 DEF Fulfillment, Quantities
    <2> QED
      BY <2>1, QuantityAssumption
  <1> HIDE DEF f, d, t, left
  <1>5. FloorTyped'
    <2>1. Nothing \in [Products -> Nat]
      BY DEF Nothing
    <2> QED
      BY <1>1, <1>2, <1>3, <1>4, <2>1 DEF FloorTyped, RowsTypeOK
  <1>6. /\ fulfillments'[f] = t
        /\ \A g \in Tasks \ {f} : fulfillments'[g] = fulfillments[g] /\ out'[g] = out[g]
    BY <1>1, <1>3
  <1>7. \A g \in Tasks : Present(g)' => Present(g) /\ fulfillments'[g].order = fulfillments[g].order
    BY <1>1, <1>6 DEF Present, d, f
  <1>8. \A g \in Tasks : Present(g) => docs[fulfillments[g].order] \in Document /\ fulfillments[g].order \in Docs
    BY TaskRow, FloorIsTyped DEF FloorInv, OrdersExist, Fulfillment
  <1>9. OrdersExist'
    BY <1>2, <1>7, <1>8 DEF OrdersExist
  <1>10. ASSUME NEW g \in Tasks, Present(g)', fulfillments'[g].status = "shipped" \/ out'[g] # Nothing
         PROVE  docs'[fulfillments'[g].order].committed /\ reserved'[fulfillments'[g].order] = Nothing
    <2>1. CASE fulfillments[g].order = d
      <3>1. fulfillments'[g].order = d
        BY <1>7, <1>10, <2>1
      <3>2. reserved'[d] = Nothing
        BY <1>1, <1>3
      <3> QED
        BY <1>2, <3>1, <3>2
    <2>2. CASE fulfillments[g].order # d
      <3>1. g # f
        BY <2>2 DEF d
      <3> fulfillments'[g] = fulfillments[g] /\ out'[g] = out[g]
        BY <1>6, <3>1
      <3>2. fulfillments[g].status = "shipped" \/ out[g] # Nothing
        BY <1>10
      <3>3. docs[fulfillments[g].order].committed /\ reserved[fulfillments[g].order] = Nothing
        BY <1>7, <1>10, <3>2 DEF FloorInv, ShippedIsSettled
      <3>4. fulfillments[g].order \in Docs \ {d} /\ docs[fulfillments[g].order] \in Document
        BY <1>7, <1>8, <1>10, <2>2
      <3>5. docs'[fulfillments[g].order] = docs[fulfillments[g].order] /\ reserved'[fulfillments[g].order] = reserved[fulfillments[g].order]
        BY <1>1, <1>2, <1>3, <3>4
      <3> QED
        BY <1>7, <1>10, <3>3, <3>5
    <2> QED
      BY <2>1, <2>2
  <1>11. ShippedIsSettled'
    BY <1>10 DEF ShippedIsSettled, Nothing
  <1> QED
    BY <1>5, <1>9, <1>11 DEF FloorInv

(* Every step of the floor keeps it.                                          *)
LEMMA FloorKept == ASSUME FloorInv, [Next]_vars PROVE FloorInv'
  <1>1. CASE UNCHANGED vars
    <2>1. session' \in [Sessions -> Request]
      BY <1>1 DEF vars, FloorInv, FloorTyped
    <2> QED
      BY <1>1, <2>1, RowsKept DEF vars
  <1>2. ASSUME NEW s \in Sessions, FloorStep(s) PROVE FloorInv'
    BY <1>2, ReadFloor, WriteStatusFloor, CommitPickFloor, CancelFloor, ShipFloor DEF FloorStep
  <1> QED
    BY <1>1, <1>2 DEF Next

(* Only fulfillments cross.                                                   *)
LEMMA CrossedTyped == ASSUME crossed \subseteq Tasks, [Next]_vars PROVE crossed' \subseteq Tasks
  <1>1. CASE UNCHANGED vars
    BY <1>1 DEF vars
  <1>2. CASE Next
    BY <1>2 DEF Next
  <1> QED
    BY <1>1, <1>2

(***************************************************************************)
(* Rows and requests are well formed, a fulfillment has its order, and     *)
(* goods never leave behind the back of the order (fulfillments.service.ts *)
(* :594-607), however many requests overlap.                               *)
(***************************************************************************)
THEOREM FloorIsSettled == Spec => [](TypeOK /\ OrdersExist /\ ShippedIsSettled)
  <1> DEFINE Inv == FloorInv /\ crossed \subseteq Tasks
  <1>1. Inv /\ [Next]_vars => Inv'
    BY FloorKept, CrossedTyped
  <1>2. Init => Inv
    BY InitialFloor DEF Init
  <1>3. Inv => TypeOK /\ OrdersExist /\ ShippedIsSettled
    BY DEF FloorInv, FloorTyped, TypeOK, Request
  <1> QED
    BY <1>1, <1>2, <1>3, PTL DEF Spec

-------------------------------------------------------------------------------
(***************************************************************************)
(* Part 3. A fulfillment whose requests did not cross, among any number.   *)
(***************************************************************************)

\* How much of what a request on f read is still so when it writes.
ReadStands(s, f) ==
    LET r == session[s]
        t == fulfillments[f]
    IN  /\ r.op \in DOMAIN Accepts => t.status \in Accepts[r.op]
        /\ r.op \in {"pick", "picked"} =>
              /\ t.status \in {"picking", "assigned", "picked"}
              /\ r.status = "pending" => t.status # "picked"
        /\ r.op = "picked" =>
              (r.complete <=> r.status # "pending" /\ \A p \in Products \ {r.item} : t.items[p] # "pending")

\* The status of f agrees with its items, and with what left for it.
TaskAgrees(f) ==
    /\ fulfillments[f].status \in Open =>
         (AllPicked(f) <=> fulfillments[f].status \in {"picked", "packed"})
    /\ out[f] # Nothing => fulfillments[f].status = "shipped"

FloorSound(f) ==
    ~Crossing(f) /\ TaskAgrees(f) /\ \A s \in Sessions : At(s, f) => ReadStands(s, f)

\* Of a fulfillment that crossed nothing is said but that its row is one.
Uncrossed == \A f \in Tasks \ crossed : FloorSound(f)

Handlers == {"assign", "startPicking", "pack", "ship", "cancel"}

(* The kinds of requests, by what they rely on.                               *)
LEMMA HandlerNames == DOMAIN Accepts = Handlers /\ Idle.op = "idle"
  BY DEF Accepts, Idle, Handlers

\* A request at a fulfillment is a handler's or a pick.
LEMMA AtIs ==
    ASSUME FloorTyped, NEW s \in Sessions, NEW f, At(s, f)
    PROVE  session[s].op \in Handlers \cup {"pick", "picked"} /\ f \in Tasks
  <1>1. session[s] \in TaskRequest \cup PickRequest \cup PickWritten
    BY DEF FloorTyped, Request, At
  <1>2. session[s].op \in Handlers \cup {"pick", "picked"} /\ session[s].task \in Tasks
    BY <1>1, HandlerNames DEF TaskRequest, PickRequest, PickWritten
  <1> QED
    BY <1>2 DEF At

(* Sessions elsewhere do not make two meet: one that ends crosses nothing.    *)
LEMMA EndsNoCrossing ==
    ASSUME FloorTyped, NEW s \in Sessions, session' = [session EXCEPT ![s] = Idle],
           NEW f, Crossing(f)'
    PROVE  Crossing(f)
  <1>1. session'[s] = Idle /\ \A u \in Sessions \ {s} : session'[u] = session[u]
    BY DEF FloorTyped
  <1>2. PICK v \in Sessions, u \in Sessions :
           /\ v # u /\ At(v, f)' /\ At(u, f)'
           /\ Relies(v)' \/ (session'[v].op = "picked" /\ session'[u].op = "picked")
    BY DEF Crossing
  <1>3. v # s /\ u # s
    BY <1>1, <1>2 DEF At
  <1>4. session'[v] = session[v] /\ session'[u] = session[u]
    BY <1>1, <1>3
  <1>5. At(v, f) /\ At(u, f) /\ (Relies(v) \/ (session[v].op = "picked" /\ session[u].op = "picked"))
    BY <1>2, <1>4 DEF At, Relies
  <1> QED
    BY <1>2, <1>5 DEF Crossing

\* Nor does one that is, or was and stays, at another fulfillment.
LEMMA ElsewhereNoCrossing ==
    ASSUME FloorTyped, NEW s \in Sessions, NEW r, session' = [session EXCEPT ![s] = r],
           NEW f, r.task # f, Crossing(f)'
    PROVE  Crossing(f)
  <1>1. session'[s] = r /\ \A u \in Sessions \ {s} : session'[u] = session[u]
    BY DEF FloorTyped
  <1>2. PICK v \in Sessions, u \in Sessions :
           /\ v # u /\ At(v, f)' /\ At(u, f)'
           /\ Relies(v)' \/ (session'[v].op = "picked" /\ session'[u].op = "picked")
    BY DEF Crossing
  <1>3. v # s /\ u # s
    BY <1>1, <1>2 DEF At
  <1>4. session'[v] = session[v] /\ session'[u] = session[u]
    BY <1>1, <1>3
  <1>5. At(v, f) /\ At(u, f) /\ (Relies(v) \/ (session[v].op = "picked" /\ session[u].op = "picked"))
    BY <1>2, <1>4 DEF At, Relies
  <1> QED
    BY <1>2, <1>5 DEF Crossing

(* Where the row of f stays, f stays sound: one session has a new request,    *)
(* and if it is at f it decides on what is there.                             *)
LEMMA SoundKept ==
    ASSUME FloorTyped, NEW s \in Sessions, NEW r, session' = [session EXCEPT ![s] = r],
           NEW f \in Tasks, FloorSound(f), ~Crossing(f)',
           fulfillments'[f] = fulfillments[f], out'[f] = out[f],
           At(s, f)' => ReadStands(s, f)'
    PROVE  FloorSound(f)'
  <1>1. \A u \in Sessions \ {s} : session'[u] = session[u]
    BY DEF FloorTyped
  <1>2. TaskAgrees(f)'
    BY DEF FloorSound, TaskAgrees, AllPicked, Nothing
  <1>3. ASSUME NEW u \in Sessions, At(u, f)' PROVE ReadStands(u, f)'
    <2>1. CASE u = s
      BY <1>3, <2>1
    <2>2. CASE u # s
      <3>1. session'[u] = session[u]
        BY <1>1, <2>2
      <3>2. ReadStands(u, f)
        BY <1>3, <3>1 DEF FloorSound, At
      <3> QED
        BY <3>1, <3>2 DEF ReadStands
    <2> QED
      BY <2>1, <2>2
  <1> QED
    BY <1>2, <1>3 DEF FloorSound

(* Where the row of f gets another, f stays sound if the new one agrees and   *)
(* those still at f only pick, and put nothing back.                          *)
LEMMA SoundWritten ==
    ASSUME FloorTyped, NEW s \in Sessions, session' = [session EXCEPT ![s] = Idle],
           NEW f \in Tasks, FloorSound(f), NEW t \in Fulfillment,
           fulfillments' = [fulfillments EXCEPT ![f] = t],
           out'[f] # Nothing => t.status = "shipped",
           t.status \in Open => ((\A p \in Products : t.items[p] # "pending") <=> t.status \in {"picked", "packed"}),
           \A u \in Sessions \ {s} : At(u, f) =>
              /\ session[u].op = "pick" /\ session[u].status # "pending"
              /\ t.status \in {"picking", "assigned", "picked"}
    PROVE  FloorSound(f)'
  <1>1. session'[s] = Idle /\ \A u \in Sessions \ {s} : session'[u] = session[u]
    BY DEF FloorTyped
  <1>2. fulfillments'[f] = t
    BY DEF FloorTyped, RowsTypeOK
  <1>3. TaskAgrees(f)'
    BY <1>2 DEF TaskAgrees, AllPicked, Nothing
  <1>4. ~Crossing(f)'
    BY EndsNoCrossing DEF FloorSound
  <1>5. ASSUME NEW u \in Sessions, At(u, f)' PROVE ReadStands(u, f)'
    <2>1. u # s
      BY <1>1, <1>5 DEF At
    <2>2. session'[u] = session[u] /\ At(u, f)
      BY <1>1, <1>5, <2>1 DEF At
    <2>3. session'[u].op = "pick" /\ session'[u].status # "pending" /\ t.status \in {"picking", "assigned", "picked"}
      BY <2>1, <2>2
    <2>4. session'[u].op \notin DOMAIN Accepts
      BY <2>3, HandlerNames DEF Handlers
    <2> QED
      BY <1>2, <2>3, <2>4 DEF ReadStands
  <1> QED
    BY <1>3, <1>4, <1>5 DEF FloorSound

(* Where a request relies on what it read, nobody else is at its fulfillment. *)
LEMMA HandlerAlone ==
    ASSUME FloorTyped, NEW s \in Sessions, session[s].op \in Handlers, ~Crossing(session[s].task)
    PROVE  \A u \in Sessions \ {s} : ~At(u, session[s].task)
  <1>1. At(s, session[s].task) /\ Relies(s)
    BY HandlerNames DEF At, Relies, Handlers
  <1> QED
    BY <1>1 DEF Crossing

\* Beside a pick that counted there are only picks that did not yet.
LEMMA PicksBeside ==
    ASSUME FloorTyped, NEW s \in Sessions, session[s].op = "picked", ~Crossing(session[s].task)
    PROVE  /\ session[s].status = "pending" => \A u \in Sessions \ {s} : ~At(u, session[s].task)
           /\ \A u \in Sessions \ {s} : At(u, session[s].task) =>
                session[u].op = "pick" /\ session[u].status # "pending"
  <1> DEFINE f == session[s].task
  <1>1. At(s, f)
    BY HandlerNames DEF At
  <1>2. session[s].status = "pending" => Relies(s)
    BY DEF Relies
  <1>3. ASSUME NEW u \in Sessions \ {s}, At(u, f)
        PROVE  session[u].op = "pick" /\ session[u].status # "pending"
    <2>1. session[u].op \in Handlers \cup {"pick", "picked"}
      BY <1>3, AtIs
    <2>2. ~Relies(u) /\ session[u].op # "picked"
      BY <1>1, <1>3 DEF Crossing
    <2> QED
      BY <2>1, <2>2, HandlerNames DEF Relies
  <1> QED
    BY <1>1, <1>2, <1>3 DEF Crossing

(* A request that starts decides on what is there, and a pick that counts     *)
(* counts what is there; a rollback changes nothing.                          *)
LEMMA ReadSound ==
    ASSUME FloorInv, NEW s \in Sessions,
           \/ \E f \in Tasks : \/ \E op \in DOMAIN Accepts : ReadTask(s, op, f)
                             \/ \E p \in Products : ReadPick(s, f, p)
           \/ WritePick(s) \/ Abort(s),
           NEW g \in Tasks, FloorSound(g), ~Crossing(g)'
    PROVE  FloorSound(g)'
  <1>1. fulfillments' = fulfillments /\ out' = out
    BY DEF ReadTask, ReadPick, WritePick, Abort
  <1>2. FloorTyped /\ session \in [Sessions -> Request]
    BY DEF FloorInv, FloorTyped
  <1>3. CASE \E f \in Tasks, op \in DOMAIN Accepts : ReadTask(s, op, f)
    <2>1. PICK f \in Tasks, op \in DOMAIN Accepts : ReadTask(s, op, f)
      BY <1>3
    <2> DEFINE r == [op |-> op, task |-> f]
    <2>2. session' = [session EXCEPT ![s] = r] /\ fulfillments[f].status \in Accepts[op]
      BY <2>1 DEF ReadTask, Start
    <2>3. session'[s].op = op /\ session'[s].task = f
      BY <1>2, <2>2
    <2>4. op \notin {"pick", "picked"}
      BY HandlerNames DEF Handlers
    <2>5. At(s, g)' => ReadStands(s, g)'
      BY <1>1, <2>2, <2>3, <2>4 DEF ReadStands, At
    <2> HIDE DEF r
    <2> QED
      BY <1>1, <1>2, <2>2, <2>5, SoundKept
  <1>4. CASE \E f \in Tasks, p \in Products : ReadPick(s, f, p)
    <2>1. PICK f \in Tasks, p \in Products : ReadPick(s, f, p)
      BY <1>4
    <2>2. PICK status \in PickStatuses, qty \in 0..MaxQuantity :
            Start(s, [op |-> "pick", task |-> f, item |-> p, status |-> status, quantity |-> qty,
                      starts |-> fulfillments[f].status = "assigned"])
      BY <2>1 DEF ReadPick
    <2> DEFINE r == [op |-> "pick", task |-> f, item |-> p, status |-> status, quantity |-> qty,
                     starts |-> fulfillments[f].status = "assigned"]
    <2>3. r.op = "pick" /\ r.task = f
      OBVIOUS
    <2>4. session' = [session EXCEPT ![s] = r] /\ fulfillments[f].status \in {"picking", "assigned"}
      BY <2>1, <2>2 DEF ReadPick, Start
    <2> HIDE DEF r
    <2>5. session'[s].op = "pick" /\ session'[s].task = f
      BY <1>2, <2>3, <2>4
    <2>6. session'[s].op \notin DOMAIN Accepts
      BY <2>5, HandlerNames DEF Handlers
    <2>7. At(s, g)' => ReadStands(s, g)'
      BY <1>1, <2>4, <2>5, <2>6 DEF ReadStands, At
    <2> QED
      BY <1>1, <1>2, <2>4, <2>7, SoundKept
  <1>5. CASE WritePick(s)
    <2> DEFINE q == session[s]
               complete == /\ q.status # "pending"
                           /\ \A p \in Products \ {q.item} : fulfillments[q.task].items[p] # "pending"
               r == [op |-> "picked", task |-> q.task, item |-> q.item, status |-> q.status,
                     quantity |-> q.quantity, starts |-> q.starts, complete |-> complete]
    <2>1. session' = [session EXCEPT ![s] = r] /\ q.op = "pick"
      BY <1>5 DEF WritePick
    <2>2. /\ r.op = "picked" /\ r.task = q.task /\ r.item = q.item /\ r.status = q.status
          /\ r.complete = complete
      OBVIOUS
    <2> HIDE DEF r
    <2>3. session'[s] = r
      BY <1>2, <2>1
    <2>4. r.op \notin DOMAIN Accepts
      BY <2>2, HandlerNames DEF Handlers
    <2>5. ASSUME q.task = g PROVE ReadStands(s, g)'
      <3>1. At(s, g)
        BY <2>1, <2>5, HandlerNames DEF At
      <3>2. /\ fulfillments[g].status \in {"picking", "assigned", "picked"}
            /\ q.status = "pending" => fulfillments[g].status # "picked"
        BY <2>1, <3>1 DEF FloorSound, ReadStands
      <3>3. complete <=> q.status # "pending" /\ \A p \in Products \ {q.item} : fulfillments[g].items[p] # "pending"
        BY <2>5
      <3> HIDE DEF complete
      <3> QED
        BY <1>1, <2>2, <2>3, <2>4, <3>2, <3>3 DEF ReadStands
    <2>6. At(s, g)' => ReadStands(s, g)'
      BY <2>2, <2>3, <2>5 DEF At
    <2> QED
      BY <1>1, <1>2, <2>1, <2>6, SoundKept
  <1>6. CASE Abort(s)
    <2>1. session' = [session EXCEPT ![s] = Idle]
      BY <1>6 DEF Abort, Done
    <2>2. ~At(s, g)'
      BY <1>2, <2>1 DEF At
    <2> QED
      BY <1>1, <1>2, <2>1, <2>2, SoundKept
  <1> QED
    BY <1>3, <1>4, <1>5, <1>6

\* The steps that write the row of one fulfillment.
Writes(s) == Assign(s) \/ StartPicking(s) \/ Pack(s) \/ CommitPick(s) \/ Ship(s) \/ Cancel(s)

(* A step that writes gives one fulfillment, the session's, another row, and  *)
(* ends the request.                                                          *)
LEMMA OneRowWritten ==
    ASSUME FloorInv, NEW s \in Sessions, Writes(s)
    PROVE  /\ session[s].task \in Tasks /\ fulfillments[session[s].task] \in Fulfillment
           /\ \E t \in Fulfillment : fulfillments' = [fulfillments EXCEPT ![session[s].task] = t]
           /\ \A g \in Tasks \ {session[s].task} : fulfillments'[g] = fulfillments[g] /\ out'[g] = out[g]
           /\ session' = [session EXCEPT ![s] = Idle] /\ session[s].op # "idle"
  <1> DEFINE f == session[s].task
  <1>0. session[s].op # "idle" /\ Typed
    BY FloorIsTyped DEF FloorInv, Writes, Assign, StartPicking, Pack, WriteStatus, CommitPick, Ship, Cancel
  <1>1. /\ f \in Tasks /\ Present(f) /\ session' = [session EXCEPT ![s] = Idle]
        /\ \E t \in Fulfillment : fulfillments' = [fulfillments EXCEPT ![f] = t]
    <2>1. CASE Assign(s) \/ StartPicking(s) \/ Pack(s)
      <3>1. PICK op \in {"assign", "startPicking", "pack"}, status \in FulfillmentStatuses :
               WriteStatus(s, op, status)
        BY <2>1 DEF Assign, StartPicking, Pack, FulfillmentStatuses
      <3> DEFINE t == [fulfillments[f] EXCEPT !.status = status]
      <3>2. /\ f \in Tasks /\ Present(f) /\ t \in Fulfillment
            /\ fulfillments' = [fulfillments EXCEPT ![f] = t] /\ session' = [session EXCEPT ![s] = Idle]
        BY <1>0, <3>1, WriteStatusStep
      <3> HIDE DEF t
      <3> QED
        BY <3>2
    <2>2. CASE CommitPick(s)
      <3> DEFINE r == session[s]
                 status == IF r.complete THEN "picked"
                           ELSE IF r.starts THEN "picking" ELSE fulfillments[r.task].status
                 t == PickedTask(fulfillments[r.task], r.item, r.status, r.quantity, status)
      <3>1. /\ f \in Tasks /\ Present(f) /\ t \in Fulfillment
            /\ fulfillments' = [fulfillments EXCEPT ![f] = t] /\ session' = [session EXCEPT ![s] = Idle]
        BY <1>0, <2>2, CommitPickStep
      <3> HIDE DEF t
      <3> QED
        BY <3>1
    <2>3. CASE Ship(s)
      <3> DEFINE t == [fulfillments[f] EXCEPT !.status = "shipped"]
      <3>1. /\ f \in Tasks /\ Present(f) /\ t \in Fulfillment
            /\ fulfillments' = [fulfillments EXCEPT ![f] = t] /\ session' = [session EXCEPT ![s] = Idle]
        BY <1>0, <2>3, ShipStep
      <3> HIDE DEF t
      <3> QED
        BY <3>1
    <2>4. CASE Cancel(s)
      <3> DEFINE t == [fulfillments[f] EXCEPT !.status = "cancelled"]
      <3>1. /\ f \in Tasks /\ Present(f) /\ t \in Fulfillment
            /\ fulfillments' = [fulfillments EXCEPT ![f] = t] /\ session' = [session EXCEPT ![s] = Idle]
        BY <1>0, <2>4, CancelStep
      <3> HIDE DEF t
      <3> QED
        BY <3>1
    <2> QED
      BY <2>1, <2>2, <2>3, <2>4 DEF Writes
  <1>2. fulfillments[f] \in Fulfillment
    BY <1>1, TaskRow, FloorIsTyped DEF FloorInv
  <1>3. \A g \in Tasks \ {f} : out'[g] = out[g]
    <2>1. CASE Ship(s)
      <3>1. out' = [out EXCEPT ![f] = [p \in Products |-> out[f][p] + fulfillments[f].picked[p]]]
        BY <1>0, <2>1, ShipStep
      <3>2. out \in [Docs \cup Tasks -> [Products -> Int]]
        BY DEF FloorInv, FloorTyped, RowsTypeOK
      <3> QED
        BY <1>1, <3>1, <3>2
    <2>2. CASE ~Ship(s)
      <3>1. out' = out
        BY <2>2 DEF Writes, Assign, StartPicking, Pack, WriteStatus, CommitPick, Cancel
      <3> QED
        BY <3>1
    <2> QED
      BY <2>1, <2>2
  <1>4. \A g \in Tasks \ {f} : fulfillments'[g] = fulfillments[g]
    BY <1>1 DEF FloorInv, FloorTyped, RowsTypeOK
  <1> QED
    BY <1>0, <1>1, <1>2, <1>3, <1>4

(* The other fulfillments stay as sound as they were.                         *)
LEMMA WrittenElsewhere ==
    ASSUME FloorInv, NEW s \in Sessions, Writes(s),
           NEW g \in Tasks, g # session[s].task, FloorSound(g)
    PROVE  FloorSound(g)'
  <1>1. /\ fulfillments'[g] = fulfillments[g] /\ out'[g] = out[g]
        /\ session' = [session EXCEPT ![s] = Idle]
    BY OneRowWritten
  <1>2. FloorTyped
    BY DEF FloorInv
  <1>3. ~At(s, g)' /\ ~Crossing(g)'
    BY <1>1, <1>2, EndsNoCrossing DEF FloorTyped, At, FloorSound
  <1> QED
    BY <1>1, <1>2, <1>3, SoundKept

\* What assign, startPicking, pack, ship and cancel read is still so when they write.
LEMMA ReadStatus ==
    ASSUME FloorInv, NEW s \in Sessions, session[s].op \in Handlers, FloorSound(session[s].task)
    PROVE  LET status == fulfillments[session[s].task].status IN
           /\ session[s].op \in {"assign", "startPicking"} => status \in {"pending", "assigned"}
           /\ session[s].op = "pack" => status = "picked"
           /\ session[s].op = "ship" => status \in {"picked", "packed"}
           /\ session[s].op = "cancel" => status \in Open
  <1>1. At(s, session[s].task)
    BY HandlerNames DEF At, Handlers
  <1>2. session[s].op \in DOMAIN Accepts => fulfillments[session[s].task].status \in Accepts[session[s].op]
    BY <1>1 DEF FloorSound, ReadStands
  <1>3. /\ Accepts["assign"] = {"pending", "assigned"} /\ Accepts["startPicking"] = {"pending", "assigned"}
        /\ Accepts["pack"] = {"picked"} /\ Accepts["ship"] = {"picked", "packed"} /\ Accepts["cancel"] = Open
    BY DEF Accepts
  <1> QED
    BY <1>2, <1>3, HandlerNames

(* assign, startPicking and pack leave the items as they are.                 *)
LEMMA WriteStatusSound ==
    ASSUME FloorInv, NEW s \in Sessions, Assign(s) \/ StartPicking(s) \/ Pack(s),
           NEW f \in Tasks, f = session[s].task, FloorSound(f)
    PROVE  /\ FloorSound(f)'
           /\ \E t \in Fulfillment :
                 /\ fulfillments' = [fulfillments EXCEPT ![f] = t]
                 /\ fulfillments[f].status \in Open /\ t.status \in Open
                 /\ t.picked = fulfillments[f].picked /\ out' = out
  <1>1. PICK op \in {"assign", "startPicking", "pack"}, status \in FulfillmentStatuses :
           /\ WriteStatus(s, op, status)
           /\ op \in {"assign", "startPicking"} => status \in {"assigned", "picking"}
           /\ op = "pack" => status = "packed"
    BY DEF Assign, StartPicking, Pack, FulfillmentStatuses
  <1> DEFINE t == [fulfillments[f] EXCEPT !.status = status]
  <1>2. Present(f) /\ t \in Fulfillment /\ fulfillments' = [fulfillments EXCEPT ![f] = t]
    BY <1>1, WriteStatusStep, FloorIsTyped DEF FloorInv
  <1>3. fulfillments[f] \in Fulfillment
    BY <1>2, TaskRow, FloorIsTyped DEF FloorInv
  <1>4. t.status = status /\ t.items = fulfillments[f].items /\ t.picked = fulfillments[f].picked
    BY <1>3, NewStatus
  <1>5. out' = out /\ session' = [session EXCEPT ![s] = Idle] /\ session[s].op = op
    BY <1>1 DEF WriteStatus, Done
  <1>6. session[s].op \in Handlers
    BY <1>5 DEF Handlers
  <1>7. /\ op \in {"assign", "startPicking"} => fulfillments[f].status \in {"pending", "assigned"}
        /\ op = "pack" => fulfillments[f].status = "picked"
    BY <1>5, <1>6, ReadStatus
  <1>8. fulfillments[f].status \in Open /\ status \in Open
    BY <1>1, <1>7 DEF Open
  <1>9. (\A p \in Products : fulfillments[f].items[p] # "pending") <=> op = "pack"
    BY <1>1, <1>7, <1>8 DEF FloorSound, TaskAgrees, AllPicked
  <1>10. out[f] = Nothing
    BY <1>8 DEF FloorSound, TaskAgrees, Open
  <1>11. (\A p \in Products : t.items[p] # "pending") <=> t.status \in {"picked", "packed"}
    BY <1>1, <1>4, <1>9
  <1>12. \A u \in Sessions \ {s} : ~At(u, f)
    BY <1>6, HandlerAlone DEF FloorSound, FloorInv
  <1> HIDE DEF t
  <1>13. out'[f] = Nothing /\ FloorTyped
    BY <1>5, <1>10 DEF FloorInv
  <1>14. FloorSound(f)'
    BY <1>2, <1>5, <1>11, <1>12, <1>13, SoundWritten
  <1> QED
    BY <1>2, <1>4, <1>5, <1>8, <1>14

(* recordPick completes the fulfillment exactly when it writes the last       *)
(* pending item, whoever picks other items meanwhile.                         *)
LEMMA CommitPickSound ==
    ASSUME FloorInv, NEW s \in Sessions, CommitPick(s),
           NEW f \in Tasks, f = session[s].task, FloorSound(f)
    PROVE  /\ FloorSound(f)'
           /\ \E p \in Products, t \in Fulfillment :
                 /\ fulfillments' = [fulfillments EXCEPT ![f] = t]
                 /\ fulfillments[f].status \in Open /\ t.status \in Open
                 /\ t.picked = [fulfillments[f].picked EXCEPT ![p] = t.picked[p]] /\ out' = out
  <1> DEFINE r == session[s]
             status == IF r.complete THEN "picked"
                       ELSE IF r.starts THEN "picking" ELSE fulfillments[r.task].status
             t == PickedTask(fulfillments[r.task], r.item, r.status, r.quantity, status)
  <1>1. /\ r \in PickWritten /\ fulfillments[f] \in Fulfillment /\ t \in Fulfillment
        /\ t.status = status /\ t.items = [fulfillments[f].items EXCEPT ![r.item] = r.status]
        /\ t.picked = [fulfillments[f].picked EXCEPT ![r.item] = r.quantity]
        /\ fulfillments' = [fulfillments EXCEPT ![f] = t]
    BY CommitPickStep, FloorIsTyped DEF FloorInv
  <1>2. r.item \in Products /\ r.op = "picked" /\ r.complete \in BOOLEAN
    BY <1>1 DEF PickWritten
  <1>3. out' = out /\ session' = [session EXCEPT ![s] = Idle]
    BY DEF CommitPick, Done
  <1>4. At(s, f)
    BY <1>2, HandlerNames DEF At
  <1>5. /\ fulfillments[f].status \in {"picking", "assigned", "picked"}
        /\ r.status = "pending" => fulfillments[f].status # "picked"
        /\ r.complete <=> r.status # "pending" /\ \A p \in Products \ {r.item} : fulfillments[f].items[p] # "pending"
    BY <1>2, <1>4 DEF FloorSound, ReadStands
  <1>6. fulfillments[f].status \in Open
    BY <1>5 DEF Open
  <1>7. fulfillments[f].status = "picked" => r.complete
    BY <1>5, <1>6 DEF FloorSound, TaskAgrees, AllPicked
  <1>8. status \in {"picking", "assigned", "picked"} /\ (status = "picked" <=> r.complete)
    BY <1>2, <1>5, <1>7
  <1>9. fulfillments[f].items \in [Products -> PickStatuses] /\ fulfillments[f].picked \in Quantities
    BY <1>1 DEF Fulfillment
  <1>10. (\A p \in Products : t.items[p] # "pending") <=> r.complete
    BY <1>1, <1>2, <1>5, <1>9
  <1>11. out[f] = Nothing
    BY <1>6 DEF FloorSound, TaskAgrees, Open
  <1>12. (\A p \in Products : t.items[p] # "pending") <=> t.status \in {"picked", "packed"}
    BY <1>1, <1>8, <1>10
  <1>13. t.picked = [fulfillments[f].picked EXCEPT ![r.item] = t.picked[r.item]]
    BY <1>1, <1>2, <1>9 DEF Quantities
  <1>14. t.status \in {"picking", "assigned", "picked"} /\ t.status \in Open
    BY <1>1, <1>8 DEF Open
  <1>15. \A u \in Sessions \ {s} : At(u, f) => session[u].op = "pick" /\ session[u].status # "pending"
    BY <1>2, PicksBeside DEF FloorSound, FloorInv
  <1> HIDE DEF t, r
  <1>16. out'[f] = Nothing /\ FloorTyped
    BY <1>3, <1>11 DEF FloorInv
  <1>17. \A u \in Sessions \ {s} : At(u, f) =>
           /\ session[u].op = "pick" /\ session[u].status # "pending"
           /\ t.status \in {"picking", "assigned", "picked"}
    BY <1>14, <1>15
  <1>18. FloorSound(f)'
    BY <1>1, <1>3, <1>12, <1>16, <1>17, SoundWritten
  <1> QED
    BY <1>1, <1>2, <1>3, <1>6, <1>13, <1>14, <1>18

(* ship finds every item picked, and takes what was picked.                   *)
LEMMA ShipSound ==
    ASSUME FloorInv, NEW s \in Sessions, Ship(s),
           NEW f \in Tasks, f = session[s].task, FloorSound(f)
    PROVE  /\ FloorSound(f)'
           /\ \E t \in Fulfillment :
                 /\ fulfillments' = [fulfillments EXCEPT ![f] = t]
                 /\ fulfillments[f].status \in Open /\ t.status = "shipped"
                 /\ t.picked = fulfillments[f].picked /\ out' = [out EXCEPT ![f] = t.picked]
  <1> DEFINE t == [fulfillments[f] EXCEPT !.status = "shipped"]
             left == [p \in Products |-> out[f][p] + fulfillments[f].picked[p]]
  <1>1. /\ fulfillments[f] \in Fulfillment
        /\ t \in Fulfillment /\ t.picked = fulfillments[f].picked /\ t.status = "shipped"
        /\ fulfillments' = [fulfillments EXCEPT ![f] = t]
        /\ out' = [out EXCEPT ![f] = left]
        /\ session' = [session EXCEPT ![s] = Idle]
    BY ShipStep, FloorIsTyped DEF FloorInv
  <1>2. session[s].op = "ship" /\ session[s].op \in Handlers
    BY DEF Ship, Handlers
  <1>3. fulfillments[f].status \in Open
    <2>1. fulfillments[f].status \in {"picked", "packed"}
      BY <1>2, ReadStatus
    <2> QED
      BY <2>1 DEF Open
  <1>4. out[f] = Nothing
    BY <1>3 DEF FloorSound, TaskAgrees, Open
  <1>5. left = fulfillments[f].picked
    <2>1. fulfillments[f].picked \in [Products -> Nat]
      BY <1>1, QuantityAssumption DEF Fulfillment, Quantities
    <2>2. \A p \in Products : out[f][p] + fulfillments[f].picked[p] = fulfillments[f].picked[p]
      BY <1>4, <2>1 DEF Nothing
    <2> QED
      BY <2>1, <2>2
  <1>6. \A u \in Sessions \ {s} : ~At(u, f)
    BY <1>2, HandlerAlone DEF FloorSound, FloorInv
  <1> HIDE DEF t, left
  <1>7. t.status \notin Open /\ FloorTyped
    BY <1>1 DEF Open, FloorInv
  <1>8. FloorSound(f)'
    BY <1>1, <1>6, <1>7, SoundWritten
  <1> QED
    BY <1>1, <1>3, <1>5, <1>8

(* cancel closes the fulfillment, whatever is picked.                         *)
LEMMA CancelSound ==
    ASSUME FloorInv, NEW s \in Sessions, Cancel(s),
           NEW f \in Tasks, f = session[s].task, FloorSound(f)
    PROVE  /\ FloorSound(f)'
           /\ \E t \in Fulfillment :
                 /\ fulfillments' = [fulfillments EXCEPT ![f] = t]
                 /\ fulfillments[f].status \in Open /\ t.status = "cancelled"
                 /\ t.picked = fulfillments[f].picked /\ out' = out
  <1> DEFINE t == [fulfillments[f] EXCEPT !.status = "cancelled"]
  <1>1. /\ t \in Fulfillment /\ t.picked = fulfillments[f].picked /\ t.status = "cancelled"
        /\ fulfillments' = [fulfillments EXCEPT ![f] = t]
        /\ session' = [session EXCEPT ![s] = Idle]
    BY CancelStep, FloorIsTyped DEF FloorInv
  <1>2. session[s].op = "cancel" /\ session[s].op \in Handlers /\ out' = out
    BY DEF Cancel, Handlers
  <1>3. fulfillments[f].status \in Open
    BY <1>2, ReadStatus
  <1>4. out[f] = Nothing
    BY <1>3 DEF FloorSound, TaskAgrees, Open
  <1>5. \A u \in Sessions \ {s} : ~At(u, f)
    BY <1>2, HandlerAlone DEF FloorSound, FloorInv
  <1> HIDE DEF t
  <1>6. t.status \notin Open /\ FloorTyped /\ out'[f] = Nothing
    BY <1>1, <1>2, <1>4 DEF Open, FloorInv
  <1>7. FloorSound(f)'
    BY <1>1, <1>5, <1>6, SoundWritten
  <1> QED
    BY <1>1, <1>2, <1>3, <1>7

(* Every step of the floor keeps every fulfillment sound that did not cross.  *)
LEMMA UncrossedKept == ASSUME FloorInv, Uncrossed, [Next]_vars PROVE Uncrossed'
  <1> SUFFICES ASSUME NEW f \in Tasks, f \notin crossed' PROVE FloorSound(f)'
    BY DEF Uncrossed
  <1>1. CASE UNCHANGED vars
    <2>1. UNCHANGED <<fulfillments, out, session, crossed>>
      BY <1>1 DEF vars
    <2>2. FloorSound(f)
      BY <2>1 DEF Uncrossed
    <2> QED
      BY <2>1, <2>2 DEF FloorSound, TaskAgrees, AllPicked, ReadStands, Crossing, At, Relies, Nothing
  <1>2. CASE Next
    <2>1. f \notin crossed /\ ~Crossing(f)'
      BY <1>2 DEF Next
    <2>2. FloorSound(f)
      BY <2>1 DEF Uncrossed
    <2>3. PICK s \in Sessions : FloorStep(s)
      BY <1>2 DEF Next
    <2>4. CASE Writes(s) /\ f # session[s].task
      BY <2>2, <2>4, WrittenElsewhere
    <2>5. CASE Writes(s) /\ f = session[s].task
      BY <2>2, <2>5, WriteStatusSound, CommitPickSound, ShipSound, CancelSound DEF Writes
    <2>6. CASE ~Writes(s)
      BY <2>1, <2>2, <2>3, <2>6, ReadSound DEF FloorStep, Writes
    <2> QED
      BY <2>4, <2>5, <2>6
  <1> QED
    BY <1>1, <1>2

\* At the start nobody is at a fulfillment, and every item is pending.
LEMMA UncrossedInit == Init => Uncrossed
  <1> SUFFICES ASSUME Init, NEW f \in Tasks PROVE FloorSound(f)
    BY DEF Uncrossed
  <1>1. \A u \in Sessions : ~At(u, f)
    BY DEF Init, At
  <1>2. out[f] = Nothing
    BY InitialFloor
  <1>3. CASE fulfillments[f] = NoTask
    <2>1. fulfillments[f].status \notin Open
      BY <1>3 DEF NoTask, Open
    <2> QED
      BY <1>1, <1>2, <2>1 DEF FloorSound, Crossing, TaskAgrees
  <1>4. CASE fulfillments[f] # NoTask
    <2>1. /\ fulfillments[f].status \in {"pending", "assigned"}
          /\ \A p \in Products : fulfillments[f].items[p] = "pending"
      BY <1>4, InitialFloor
    <2>2. ~AllPicked(f)
      BY <2>1, LinesAssumption DEF AllPicked
    <2> QED
      BY <1>1, <1>2, <2>1, <2>2 DEF FloorSound, Crossing, TaskAgrees
  <1> QED
    BY <1>3, <1>4

(***************************************************************************)
(* Picking is over exactly when no item is pending (fulfillments.service.ts*)
(* :431-432), however many pick at once, while nobody else relies on what  *)
(* it read of that fulfillment.                                            *)
(***************************************************************************)
THEOREM PickingEndsComplete == Spec => []FloorAgrees
  <1> DEFINE Inv == FloorInv /\ crossed \subseteq Tasks /\ Uncrossed
  <1>1. Init => Inv
    BY InitialFloor, UncrossedInit DEF Init
  <1>2. Inv /\ [Next]_vars => Inv'
    BY FloorKept, CrossedTyped, UncrossedKept
  <1>3. Inv => FloorAgrees
    BY DEF FloorInv, FloorTyped, Uncrossed, FloorSound, TaskAgrees, FloorAgrees, PickedWhenComplete, TypeOK, Request
  <1> QED
    BY <1>1, <1>2, <1>3, PTL DEF Spec

\* What the abstract variables become when one fulfillment gets another row.
LEMMA AbstractRow ==
    ASSUME FloorInv, NEW f \in Tasks, NEW t \in Fulfillment, fulfillments[f] \in Fulfillment,
           fulfillments' = [fulfillments EXCEPT ![f] = t]
    PROVE  /\ [g \in Tasks |-> Phase(g)]' =
                 [[g \in Tasks |-> Phase(g)] EXCEPT ![f] = IF t.status \in Open THEN "open" ELSE t.status]
           /\ [g \in Tasks |-> Basket(g)]' = [[g \in Tasks |-> Basket(g)] EXCEPT ![f] = t.picked]
           /\ [g \in Tasks |-> Basket(g)][f] = fulfillments[f].picked
  <1>1. fulfillments'[f] = t /\ \A g \in Tasks \ {f} : fulfillments'[g] = fulfillments[g]
    BY DEF FloorInv, FloorTyped, RowsTypeOK
  <1>2. \A r \in Fulfillment : r # NoTask /\ r # Removed
    <2>1. \A r \in Fulfillment : r.status \notin {"absent", "removed"}
      BY DEF Fulfillment, FulfillmentStatuses
    <2> QED
      BY <2>1 DEF NoTask, Removed
  <1>3. Phase(f)' = IF t.status \in Open THEN "open" ELSE t.status
    BY <1>1 DEF Phase
  <1>4. Basket(f)' = t.picked /\ Basket(f) = fulfillments[f].picked
    BY <1>1, <1>2 DEF Basket, Present
  <1>5. ASSUME NEW g \in Tasks \ {f} PROVE Phase(g)' = Phase(g) /\ Basket(g)' = Basket(g)
    BY <1>1 DEF Phase, Basket, Present
  <1>6. [g \in Tasks |-> Phase(g)]' =
           [[g \in Tasks |-> Phase(g)] EXCEPT ![f] = IF t.status \in Open THEN "open" ELSE t.status]
    BY <1>3, <1>5
  <1>7. [g \in Tasks |-> Basket(g)]' = [[g \in Tasks |-> Basket(g)] EXCEPT ![f] = t.picked]
    BY <1>4, <1>5
  <1> QED
    BY <1>4, <1>6, <1>7

(* The initial floor is an initial state of Shipments.                        *)
LEMMA AbstractInit == Init => S!ShipmentsInit
  <1> SUFFICES ASSUME Init PROVE S!ShipmentsInit
    OBVIOUS
  <1>1. ASSUME NEW f \in Tasks PROVE Phase(f) \in {"absent", "open"} /\ Basket(f) = Nothing /\ out[f] = Nothing
    <2>1. CASE fulfillments[f] = NoTask
      BY <2>1, InitialFloor DEF Phase, Basket, Present, NoTask, Open
    <2>2. CASE fulfillments[f] # NoTask
      <3>1. /\ fulfillments[f].status \in {"pending", "assigned"}
            /\ fulfillments[f].picked = Nothing /\ out[f] = Nothing
        BY <2>2, InitialFloor
      <3> QED
        BY <3>1 DEF Phase, Basket, Open
    <2> QED
      BY <2>1, <2>2
  <1>2. crossed = {}
    BY DEF Init
  <1> QED
    BY <1>1, <1>2 DEF S!ShipmentsInit, S!Empty, Nothing

\* Requests that start, count or are rolled back make at most one fulfillment come loose.
LEMMA ReadComesLoose ==
    ASSUME FloorInv, Uncrossed, crossed \subseteq Tasks, NEW s \in Sessions,
           \/ \E f \in Tasks : \/ \E op \in DOMAIN Accepts : ReadTask(s, op, f)
                             \/ \E p \in Products : ReadPick(s, f, p)
           \/ WritePick(s) \/ Abort(s),
           crossed' = crossed \cup {g \in Tasks : Crossing(g)'}
    PROVE  UNCHANGED <<fulfillments, out>> /\ \E f : crossed' = crossed \/ (f \in Tasks /\ crossed' = crossed \cup {f})
  <1>1. UNCHANGED <<fulfillments, out>>
    BY DEF ReadTask, ReadPick, WritePick, Abort
  <1>2. PICK r \in Request : session' = [session EXCEPT ![s] = r]
    <2>1. ASSUME NEW f \in Tasks, NEW op \in DOMAIN Accepts, ReadTask(s, op, f)
          PROVE  \E r \in Request : session' = [session EXCEPT ![s] = r]
      <3>1. [op |-> op, task |-> f] \in Request
        BY DEF Request, TaskRequest
      <3> QED
        BY <2>1, <3>1 DEF ReadTask, Start
    <2>2. ASSUME NEW f \in Tasks, NEW p \in Products, ReadPick(s, f, p)
          PROVE  \E r \in Request : session' = [session EXCEPT ![s] = r]
      <3>1. PICK status \in PickStatuses, qty \in 0..MaxQuantity :
               Start(s, [op |-> "pick", task |-> f, item |-> p, status |-> status, quantity |-> qty,
                         starts |-> fulfillments[f].status = "assigned"])
        BY <2>2 DEF ReadPick
      <3>2. [op |-> "pick", task |-> f, item |-> p, status |-> status, quantity |-> qty,
             starts |-> fulfillments[f].status = "assigned"] \in PickRequest
        BY DEF PickRequest
      <3> QED
        BY <3>1, <3>2 DEF Start, Request
    <2>3. ASSUME WritePick(s) PROVE \E r \in Request : session' = [session EXCEPT ![s] = r]
      <3> DEFINE q == session[s]
                 complete == /\ q.status # "pending"
                             /\ \A p \in Products \ {q.item} : fulfillments[q.task].items[p] # "pending"
                 r == [op |-> "picked", task |-> q.task, item |-> q.item, status |-> q.status,
                       quantity |-> q.quantity, starts |-> q.starts, complete |-> complete]
      <3>1. q \in PickRequest
        BY <2>3, RequestKinds, FloorIsTyped DEF WritePick, FloorInv
      <3>2. session' = [session EXCEPT ![s] = r] /\ complete \in BOOLEAN
        BY <2>3 DEF WritePick
      <3>3. r \in PickWritten
        <4> HIDE DEF complete
        <4> QED
          BY <3>1, <3>2 DEF PickRequest, PickWritten
      <3> HIDE DEF r
      <3> QED
        BY <3>2, <3>3 DEF Request
    <2>4. ASSUME Abort(s) PROVE \E r \in Request : session' = [session EXCEPT ![s] = r]
      BY <2>4 DEF Abort, Done, Request
    <2> QED
      BY <2>1, <2>2, <2>3, <2>4
  <1>3. FloorTyped
    BY DEF FloorInv
  <1>4. ASSUME NEW g \in Tasks, Crossing(g)', g \notin crossed PROVE r.task = g
    <2>1. ~Crossing(g)
      BY <1>4 DEF Uncrossed, FloorSound
    <2> QED
      BY <1>2, <1>3, <1>4, <2>1, ElsewhereNoCrossing
  <1>5. crossed' = crossed \/ (r.task \in Tasks /\ crossed' = crossed \cup {r.task})
    <2>1. CASE \A g \in Tasks : Crossing(g)' => g \in crossed
      BY <2>1
    <2>2. CASE \E g \in Tasks : Crossing(g)' /\ g \notin crossed
      <3>1. PICK g \in Tasks : Crossing(g)' /\ g \notin crossed
        BY <2>2
      <3>2. g = r.task /\ \A h \in Tasks : Crossing(h)' => h \in crossed \/ h = r.task
        BY <1>4, <3>1
      <3>3. crossed' = crossed \cup {g}
        BY <3>1, <3>2
      <3> QED
        BY <3>2, <3>3
    <2> QED
      BY <2>1, <2>2
  <1> QED
    BY <1>1, <1>5

\* A step that writes a fulfillment makes none come loose.
LEMMA WritesNoneLoose ==
    ASSUME FloorInv, Uncrossed, NEW s \in Sessions, Writes(s),
           crossed' = crossed \cup {g \in Tasks : Crossing(g)'}
    PROVE  crossed' = crossed
  <1>1. FloorTyped /\ session' = [session EXCEPT ![s] = Idle]
    BY OneRowWritten DEF FloorInv
  <1>2. ASSUME NEW g \in Tasks, Crossing(g)' PROVE g \in crossed
    <2>1. Crossing(g)
      BY <1>1, <1>2, EndsNoCrossing
    <2> QED
      BY <2>1 DEF Uncrossed, FloorSound
  <1> QED
    BY <1>2

(* A step that writes a fulfillment is a step of Shipments or leaves it as it *)
(* is; of one that crossed it may be any, but it is of that one alone.        *)
LEMMA AbstractWrite ==
    ASSUME FloorInv, Uncrossed, NEW s \in Sessions, Writes(s), crossed' = crossed
    PROVE  S!ShipmentsNext \/ UNCHANGED S!shipmentVars
  <1> SUFFICES ASSUME NEW f, f = session[s].task PROVE S!ShipmentsNext \/ UNCHANGED S!shipmentVars
    OBVIOUS
  <1> DEFINE phase == [g \in Tasks |-> Phase(g)]
             basket == [g \in Tasks |-> Basket(g)]
             goods == [g \in Tasks |-> out[g]]
  <1>1. /\ f \in Tasks /\ fulfillments[f] \in Fulfillment
        /\ \A g \in Tasks \ {f} : out'[g] = out[g]
        /\ \E t \in Fulfillment : fulfillments' = [fulfillments EXCEPT ![f] = t]
    BY OneRowWritten
  <1>2. CASE f \in crossed
    <2>1. PICK t \in Fulfillment : fulfillments' = [fulfillments EXCEPT ![f] = t]
      BY <1>1
    <2>2. /\ phase' = [phase EXCEPT ![f] = IF t.status \in Open THEN "open" ELSE t.status]
          /\ basket' = [basket EXCEPT ![f] = t.picked]
      BY <1>1, <2>1, AbstractRow
    <2>3. phase' = [phase EXCEPT ![f] = phase'[f]] /\ basket' = [basket EXCEPT ![f] = basket'[f]]
      BY <1>1, <2>2
    <2>4. goods' = [goods EXCEPT ![f] = goods'[f]]
      BY <1>1
    <2> QED
      BY <1>1, <1>2, <2>3, <2>4 DEF S!ShipmentsNext, S!LooseStep
  <1>3. CASE f \notin crossed
    <2>0. FloorSound(f)
      BY <1>1, <1>3 DEF Uncrossed
    <2>1. CASE Assign(s) \/ StartPicking(s) \/ Pack(s)
      <3>1. PICK t \in Fulfillment :
               /\ fulfillments' = [fulfillments EXCEPT ![f] = t]
               /\ fulfillments[f].status \in Open /\ t.status \in Open
               /\ t.picked = fulfillments[f].picked /\ out' = out
        BY <1>1, <2>0, <2>1, WriteStatusSound
      <3>2. /\ phase' = [phase EXCEPT ![f] = IF t.status \in Open THEN "open" ELSE t.status]
            /\ basket' = [basket EXCEPT ![f] = t.picked] /\ basket[f] = fulfillments[f].picked
        BY <1>1, <3>1, AbstractRow
      <3>3. phase[f] = "open"
        BY <1>1, <3>1 DEF Phase
      <3>4. phase' = phase /\ basket' = basket /\ goods' = goods
        BY <3>1, <3>2, <3>3
      <3> QED
        BY <3>4 DEF S!shipmentVars
    <2>2. CASE CommitPick(s)
      <3>1. PICK p \in Products, t \in Fulfillment :
               /\ fulfillments' = [fulfillments EXCEPT ![f] = t]
               /\ fulfillments[f].status \in Open /\ t.status \in Open
               /\ t.picked = [fulfillments[f].picked EXCEPT ![p] = t.picked[p]] /\ out' = out
        BY <1>1, <2>0, <2>2, CommitPickSound
      <3>2. /\ phase' = [phase EXCEPT ![f] = IF t.status \in Open THEN "open" ELSE t.status]
            /\ basket' = [basket EXCEPT ![f] = t.picked] /\ basket[f] = fulfillments[f].picked
        BY <1>1, <3>1, AbstractRow
      <3>3. phase[f] = "open"
        BY <1>1, <3>1 DEF Phase
      <3>4. phase' = phase /\ goods' = goods
        BY <3>1, <3>2, <3>3
      <3>5. basket'[f] = t.picked
        BY <1>1, <3>2
      <3>6. basket' = [basket EXCEPT ![f][p] = basket'[f][p]]
        BY <3>1, <3>2, <3>5
      <3> QED
        BY <1>1, <3>3, <3>4, <3>6 DEF S!ShipmentsNext, S!PickItem
    <2>3. CASE Ship(s)
      <3>1. PICK t \in Fulfillment :
               /\ fulfillments' = [fulfillments EXCEPT ![f] = t]
               /\ fulfillments[f].status \in Open /\ t.status = "shipped"
               /\ t.picked = fulfillments[f].picked /\ out' = [out EXCEPT ![f] = t.picked]
        BY <1>1, <2>0, <2>3, ShipSound
      <3>2. /\ phase' = [phase EXCEPT ![f] = IF t.status \in Open THEN "open" ELSE t.status]
            /\ basket' = [basket EXCEPT ![f] = t.picked] /\ basket[f] = fulfillments[f].picked
        BY <1>1, <3>1, AbstractRow
      <3>3. phase[f] = "open" /\ t.status \notin Open
        BY <1>1, <3>1 DEF Phase, Open
      <3>4. phase' = [phase EXCEPT ![f] = "shipped"] /\ basket' = basket
        BY <3>1, <3>2, <3>3
      <3>5. goods' = [goods EXCEPT ![f] = basket[f]]
        <4>1. out \in [Docs \cup Tasks -> [Products -> Int]]
          BY DEF FloorInv, FloorTyped, RowsTypeOK
        <4> QED
          BY <1>1, <3>1, <3>2, <4>1
      <3> QED
        BY <1>1, <3>3, <3>4, <3>5 DEF S!ShipmentsNext, S!ShipBasket
    <2>4. CASE Cancel(s)
      <3>1. PICK t \in Fulfillment :
               /\ fulfillments' = [fulfillments EXCEPT ![f] = t]
               /\ fulfillments[f].status \in Open /\ t.status = "cancelled"
               /\ t.picked = fulfillments[f].picked /\ out' = out
        BY <1>1, <2>0, <2>4, CancelSound
      <3>2. /\ phase' = [phase EXCEPT ![f] = IF t.status \in Open THEN "open" ELSE t.status]
            /\ basket' = [basket EXCEPT ![f] = t.picked] /\ basket[f] = fulfillments[f].picked
        BY <1>1, <3>1, AbstractRow
      <3>3. phase[f] = "open" /\ t.status \notin Open
        BY <1>1, <3>1 DEF Phase, Open
      <3>4. phase' = [phase EXCEPT ![f] = "cancelled"] /\ basket' = basket /\ goods' = goods
        BY <3>1, <3>2, <3>3
      <3> QED
        BY <1>1, <3>3, <3>4 DEF S!ShipmentsNext, S!CancelTask
    <2> QED
      BY <2>1, <2>2, <2>3, <2>4 DEF Writes
  <1> QED
    BY <1>2, <1>3

(* Every step of the floor is a step of Shipments or leaves it as it is.      *)
LEMMA AbstractStep ==
    ASSUME FloorInv, Uncrossed, crossed \subseteq Tasks, [Next]_vars
    PROVE  [S!ShipmentsNext]_(S!shipmentVars)
  <1>1. CASE UNCHANGED vars
    BY <1>1 DEF vars, S!shipmentVars, Phase, Basket, Present
  <1>2. CASE Next
    <2>1. PICK s \in Sessions : FloorStep(s)
      BY <1>2 DEF Next
    <2>2. crossed' = crossed \cup {g \in Tasks : Crossing(g)'}
      BY <1>2 DEF Next
    <2>3. CASE Writes(s)
      BY <2>2, <2>3, WritesNoneLoose, AbstractWrite
    <2>4. CASE ~Writes(s)
      <3>1. UNCHANGED <<fulfillments, out>> /\ \E f : crossed' = crossed \/ (f \in Tasks /\ crossed' = crossed \cup {f})
        BY <2>1, <2>2, <2>4, ReadComesLoose DEF FloorStep, Writes
      <3>2. UNCHANGED <<[g \in Tasks |-> Phase(g)], [g \in Tasks |-> Basket(g)], [g \in Tasks |-> out[g]]>>
        BY <3>1 DEF Phase, Basket, Present
      <3> QED
        BY <3>1, <3>2 DEF S!ShipmentsNext, S!ComeLoose, S!shipmentVars
    <2> QED
      BY <2>3, <2>4
  <1> QED
    BY <1>1, <1>2

(***************************************************************************)
(* The floor implements Shipments, however many requests overlap: a        *)
(* fulfillment closes once, in the step in which the goods picked for it   *)
(* leave, if any do, until requests on that very fulfillment cross; then   *)
(* they still leave every other as it was promised.                        *)
(***************************************************************************)
THEOREM FloorImplementsShipments == Spec => ImplementsShipments
  <1> DEFINE Inv == FloorInv /\ crossed \subseteq Tasks /\ Uncrossed
  <1>1. Init => Inv /\ S!ShipmentsInit
    BY InitialFloor, UncrossedInit, AbstractInit DEF Init
  <1>2. Inv /\ [Next]_vars => Inv' /\ [S!ShipmentsNext]_(S!shipmentVars)
    BY FloorKept, CrossedTyped, UncrossedKept, AbstractStep
  <1> HIDE DEF Inv
  <1> QED
    BY <1>1, <1>2, PTL DEF Spec, ImplementsShipments, S!ShipmentsSpec

-------------------------------------------------------------------------------
(***************************************************************************)
(* Part 4. Sales documents: rows, however many requests overlap.           *)
(***************************************************************************)
NewTasksAreUnmoved == \A f \in Tasks : fulfillments[f] = NoTask => out[f] = Nothing

HooksTyped ==
    /\ receivable \in [Docs -> {None, "issued", "cancelled"}]
    /\ commission \in [Docs -> {None, "pending", "eligible", "cancelled"}]
    /\ journal \in [Docs -> [References -> {None, "posted", "reversed"}]]
    /\ requests \in [Docs -> [Rules -> {None, "pending", "approved", "rejected", "cancelled"}]]

SalesBase == Typed /\ HooksTyped /\ OrdersExist /\ ShippedIsKnown /\ NewTasksAreUnmoved

(* The type invariant of SalesDocuments is that of rows and requests, with    *)
(* the hooks.                                                                 *)
LEMMA SalesIsTyped == SalesTypeOK <=> Typed /\ HooksTyped /\ overlapped \in BOOLEAN
  BY DEF SalesTypeOK, Typed, Request, AnyRequest, HooksTyped

(* A document exists exactly when its row has the fields of one.              *)
LEMMA DocExists ==
    ASSUME Typed, NEW d \in Docs
    PROVE  Exists(d) <=> docs[d] \in Document
  <1>1. docs[d] \in Document \cup {NoDoc, Removed}
    BY DEF Typed, RowsTypeOK
  <1> QED
    BY <1>1, DocumentRow DEF Exists

(* What create, duplicate and convert insert is a document.                   *)
LEMMA DraftRow ==
    ASSUME NEW type \in DocTypes, NEW from \in Docs \cup {None}, NEW approval \in ApprovalStatuses,
           NEW lines \in Quantities
    PROVE  LET y == Draft(type, from, approval, lines) IN
           /\ y \in Document /\ y.type = type /\ y.from = from /\ y.approval = approval
           /\ y.lines = lines /\ y.status = "draft" /\ ~y.committed
  BY DEF Draft, Document, DocStatuses

(* Lines given to create and update ask for something.                        *)
LEMMA LinesRow == \A lines \in NewLines : lines \in Quantities /\ lines # Nothing
  BY QuantityAssumption, LinesAssumption DEF NewLines, Quantities, Nothing

(* A document stays one when its status changes.                              *)
LEMMA StatusRow ==
    ASSUME NEW x \in Document, NEW status \in DocStatuses
    PROVE  LET y == [x EXCEPT !.status = status] IN
           /\ y \in Document /\ y.type = x.type /\ y.from = x.from /\ y.approval = x.approval
           /\ y.lines = x.lines /\ y.status = status /\ y.committed = x.committed
  BY DEF Document

(* A document stays one when its lines, its approval or its link changes.     *)
LEMMA OtherRow ==
    ASSUME NEW x \in Document
    PROVE  /\ \A lines \in Quantities : LET y == [x EXCEPT !.lines = lines] IN
                /\ y \in Document /\ y.type = x.type /\ y.from = x.from /\ y.approval = x.approval
                /\ y.lines = lines /\ y.status = x.status /\ y.committed = x.committed
           /\ \A approval \in ApprovalStatuses : LET y == [x EXCEPT !.approval = approval] IN
                /\ y \in Document /\ y.type = x.type /\ y.from = x.from /\ y.approval = approval
                /\ y.lines = x.lines /\ y.status = x.status /\ y.committed = x.committed
           /\ LET y == [x EXCEPT !.from = None] IN
                /\ y \in Document /\ y.type = x.type /\ y.from = None /\ y.approval = x.approval
                /\ y.lines = x.lines /\ y.status = x.status /\ y.committed = x.committed
  BY DEF Document

(* A document stays one when it is issued.                                    *)
LEMMA IssuedRow ==
    ASSUME NEW x \in Document, NEW moves \in BOOLEAN
    PROVE  LET y == [x EXCEPT !.status = "invoiced", !.committed = x.committed \/ moves] IN
           /\ y \in Document /\ y.type = x.type /\ y.from = x.from /\ y.approval = x.approval
           /\ y.lines = x.lines /\ y.status = "invoiced" /\ (y.committed <=> x.committed \/ moves)
  <1> DEFINE z == [x EXCEPT !.status = "invoiced"]
             flag == x.committed \/ moves
  <1>1. /\ z \in Document /\ z.type = x.type /\ z.from = x.from /\ z.approval = x.approval
        /\ z.lines = x.lines /\ z.status = "invoiced"
    BY StatusRow DEF DocStatuses
  <1>2. flag \in BOOLEAN
    BY DEF Document
  <1>3. ASSUME NEW w \in Document, NEW b \in BOOLEAN
        PROVE LET y == [w EXCEPT !.committed = b] IN
              /\ y \in Document /\ y.type = w.type /\ y.from = w.from /\ y.approval = w.approval
              /\ y.lines = w.lines /\ y.status = w.status /\ y.committed = b
    BY DEF Document
  <1>4. [x EXCEPT !.status = "invoiced", !.committed = flag] = [z EXCEPT !.committed = flag]
    OBVIOUS
  <1> HIDE DEF z, flag
  <1>5. LET y == [z EXCEPT !.committed = flag] IN
        /\ y \in Document /\ y.type = x.type /\ y.from = x.from /\ y.approval = x.approval
        /\ y.lines = x.lines /\ y.status = "invoiced" /\ y.committed = flag
    BY <1>1, <1>2, <1>3
  <1> QED
    BY <1>4, <1>5 DEF flag

\* The rows of documents may go on as they will, if none is lost and no flag is taken back.
LEMMA BaseOfDocs ==
    ASSUME SalesBase, fulfillments' = fulfillments, \A f \in Tasks : out'[f] = out[f],
           \A d \in Docs : docs[d] \in Document =>
               docs'[d] \in Document /\ (docs[d].committed => docs'[d].committed)
    PROVE  OrdersExist' /\ ShippedIsKnown' /\ NewTasksAreUnmoved'
  <1>1. \A f \in Tasks : Present(f)' <=> Present(f)
    BY DEF Present
  <1>2. \A f \in Tasks : Present(f) => fulfillments[f].order \in Docs /\ docs[fulfillments[f].order] \in Document
    BY TaskRow DEF SalesBase, Fulfillment, OrdersExist
  <1>3. OrdersExist'
    BY <1>1, <1>2 DEF OrdersExist
  <1>4. ShippedIsKnown'
    BY <1>1, <1>2 DEF SalesBase, ShippedIsKnown, Nothing
  <1>5. NewTasksAreUnmoved'
    BY DEF SalesBase, NewTasksAreUnmoved, Nothing
  <1> QED
    BY <1>3, <1>4, <1>5

(* A step on documents alone keeps the invariant if it loses no row and takes *)
(* no flag back.                                                              *)
LEMMA BaseKept ==
    ASSUME SalesBase, fulfillments' = fulfillments, \A f \in Tasks : out'[f] = out[f],
           docs' \in [Docs -> Document \cup {NoDoc, Removed}],
           \A d \in Docs : docs[d] \in Document =>
               docs'[d] \in Document /\ (docs[d].committed => docs'[d].committed),
           reserved' \in [Docs -> [Products -> Nat]], out' \in [Docs \cup Tasks -> [Products -> Int]],
           session' \in [Sessions -> AnyRequest], HooksTyped'
    PROVE  SalesBase'
  <1>1. Typed'
    BY DEF SalesBase, Typed, RowsTypeOK
  <1> QED
    BY <1>1, BaseOfDocs DEF SalesBase

\* A session that starts or ends a request.
LEMMA AnySession ==
    ASSUME Typed, NEW s \in Sessions, NEW r \in AnyRequest, session' = [session EXCEPT ![s] = r]
    PROVE  session' \in [Sessions -> AnyRequest]
  BY DEF Typed

(* A session whose request is done is idle.                                   *)
LEMMA IdleSession ==
    ASSUME Typed, NEW s \in Sessions, Done(s)
    PROVE  session' \in [Sessions -> AnyRequest] /\ session' = [session EXCEPT ![s] = Idle]
  BY AnySession DEF Done, AnyRequest, Request

\* The handlers that only read.
DocRead(s) ==
    \E d \in Docs :
        \/ ReadForUpdate(s, d) \/ ReadForRemove(s, d)
        \/ \E to \in DocTypes : ReadForConvert(s, d, to)
        \/ \E to \in DocStatuses : ReadForStatus(s, d, to)
TaskRead(s) ==
    \E f \in Tasks :
        \/ \E op \in DOMAIN Accepts : ReadTask(s, op, f)
        \/ \E p \in Products : ReadPick(s, f, p)

(* What update, remove, convert and changeStatus read first is kept as a      *)
(* request.                                                                   *)
LEMMA DocReadStep ==
    ASSUME Typed, NEW s \in Sessions, DocRead(s)
    PROVE  /\ UNCHANGED <<docs, fulfillments, reserved, out, hookVars>>
           /\ \E r \in DocRequest : Start(s, r)
  <1>1. CASE \E d \in Docs : ReadForUpdate(s, d) \/ ReadForRemove(s, d)
    <2>1. PICK d \in Docs : ReadForUpdate(s, d) \/ ReadForRemove(s, d)
      BY <1>1
    <2>2. PICK op \in {"update", "remove"} : Start(s, [op |-> op, doc |-> d])
      BY <2>1 DEF ReadForUpdate, ReadForRemove
    <2>3. [op |-> op, doc |-> d] \in DocRequest
      BY DEF DocRequest
    <2> QED
      BY <2>1, <2>2, <2>3 DEF ReadForUpdate, ReadForRemove
  <1>2. CASE \E d \in Docs, to \in DocTypes : ReadForConvert(s, d, to)
    <2>1. PICK d \in Docs, to \in DocTypes : ReadForConvert(s, d, to)
      BY <1>2
    <2>2. docs[d] \in Document
      BY <2>1, DocExists DEF ReadForConvert
    <2>3. [op |-> "convert", doc |-> d, to |-> to, seen |-> docs[d]] \in DocRequest
      BY <2>2 DEF DocRequest
    <2> QED
      BY <2>1, <2>3 DEF ReadForConvert
  <1>3. CASE \E d \in Docs, to \in DocStatuses : ReadForStatus(s, d, to)
    <2>1. PICK d \in Docs, to \in DocStatuses : ReadForStatus(s, d, to)
      BY <1>3
    <2>2. docs[d] \in Document
      BY <2>1, DocExists DEF ReadForStatus
    <2>3. [op |-> "changeStatus", doc |-> d, to |-> to, seen |-> docs[d]] \in DocRequest
      BY <2>2 DEF DocRequest
    <2> QED
      BY <2>1, <2>3 DEF ReadForStatus
  <1> QED
    BY <1>1, <1>2, <1>3 DEF DocRead

(* So is what the floor reads first.                                          *)
LEMMA TaskReadStep ==
    ASSUME Typed, NEW s \in Sessions, TaskRead(s)
    PROVE  /\ UNCHANGED <<docs, fulfillments, reserved, out>>
           /\ \E r \in TaskRequest \cup PickRequest : Start(s, r)
  <1>1. CASE \E f \in Tasks, op \in DOMAIN Accepts : ReadTask(s, op, f)
    <2>1. PICK f \in Tasks, op \in DOMAIN Accepts : ReadTask(s, op, f)
      BY <1>1
    <2>2. [op |-> op, task |-> f] \in TaskRequest
      BY DEF TaskRequest
    <2> QED
      BY <2>1, <2>2 DEF ReadTask
  <1>2. CASE \E f \in Tasks, p \in Products : ReadPick(s, f, p)
    <2>1. PICK f \in Tasks, p \in Products : ReadPick(s, f, p)
      BY <1>2
    <2>2. PICK status \in PickStatuses, qty \in 0..MaxQuantity :
             Start(s, [op |-> "pick", task |-> f, item |-> p, status |-> status, quantity |-> qty,
                       starts |-> fulfillments[f].status = "assigned"])
      BY <2>1 DEF ReadPick
    <2>3. [op |-> "pick", task |-> f, item |-> p, status |-> status, quantity |-> qty,
           starts |-> fulfillments[f].status = "assigned"] \in PickRequest
      BY DEF PickRequest
    <2> QED
      BY <2>1, <2>2, <2>3 DEF ReadPick
  <1> QED
    BY <1>1, <1>2 DEF TaskRead

(* A step that writes no row keeps the invariant.                             *)
LEMMA BaseStill ==
    ASSUME SalesBase, UNCHANGED <<docs, fulfillments, reserved, out, hookVars>>,
           session' \in [Sessions -> AnyRequest]
    PROVE  SalesBase'
  <1>1. HooksTyped'
    BY DEF SalesBase, HooksTyped, hookVars
  <1>2. Typed'
    BY DEF SalesBase, Typed, RowsTypeOK
  <1>3. OrdersExist' /\ ShippedIsKnown' /\ NewTasksAreUnmoved'
    BY DEF SalesBase, OrdersExist, ShippedIsKnown, NewTasksAreUnmoved, Present
  <1> QED
    BY <1>1, <1>2, <1>3 DEF SalesBase

\* The handlers that write one document, as one new row.
LEMMA UpdateStep ==
    ASSUME Typed, NEW s \in Sessions, UpdateLines(s)
    PROVE  \E d \in Docs, lines \in NewLines :
             LET y == [docs[d] EXCEPT !.lines = lines] IN
             /\ d = session[s].doc /\ docs[d] \in Document /\ y \in Document
             /\ docs' = [docs EXCEPT ![d] = y]
             /\ y.lines = lines /\ y.type = docs[d].type /\ y.from = docs[d].from
             /\ y.approval = docs[d].approval /\ y.status = docs[d].status /\ y.committed = docs[d].committed
  <1> DEFINE d == session[s].doc
  <1>1. d \in Docs
    BY RequestKinds DEF UpdateLines
  <1>2. docs[d] \in Document
    BY <1>1, DocExists DEF UpdateLines
  <1>3. PICK lines \in NewLines : docs' = [docs EXCEPT ![d].lines = lines]
    BY DEF UpdateLines
  <1>4. lines \in Quantities
    BY LinesRow
  <1>5. docs' = [docs EXCEPT ![d] = [docs[d] EXCEPT !.lines = lines]]
    BY <1>3
  <1> QED
    BY <1>1, <1>2, <1>4, <1>5, OtherRow

(* The write of changeStatus has its request in hand, and a document to       *)
(* change.                                                                    *)
LEMMA ChangingStep ==
    ASSUME Typed, NEW s \in Sessions, NEW effect, Changing(s, effect)
    PROVE  /\ session[s].doc \in Docs /\ docs[session[s].doc] \in Document
           /\ session[s].to \in DocStatuses /\ session[s].seen \in Document
           /\ Effect(session[s]) = effect /\ session[s].op = "changeStatus"
           /\ session' = [session EXCEPT ![s] = Idle]
  <1>1. session[s] \in [op: {"changeStatus"}, doc: Docs, to: DocStatuses, seen: Document]
    BY RequestKinds DEF Changing
  <1>2. session[s].doc \in Docs
    BY <1>1
  <1>3. docs[session[s].doc] \in Document
    BY <1>2, DocExists DEF Changing
  <1> QED
    BY <1>1, <1>2, <1>3 DEF Changing, Done

(* A status is set in one row.                                                *)
LEMMA SetStatusStep ==
    ASSUME Typed, NEW s \in Sessions, NEW effect, Changing(s, effect), SetStatus(s)
    PROVE  LET d == session[s].doc
               y == [docs[d] EXCEPT !.status = session[s].to]
           IN  /\ y \in Document /\ docs' = [docs EXCEPT ![d] = y]
               /\ y.status = session[s].to /\ y.type = docs[d].type /\ y.from = docs[d].from
               /\ y.approval = docs[d].approval /\ y.lines = docs[d].lines /\ y.committed = docs[d].committed
  <1>1. docs[session[s].doc] \in Document /\ session[s].to \in DocStatuses
    BY ChangingStep
  <1> QED
    BY <1>1, StatusRow DEF SetStatus

(* The issue of a document, as one new row.                                   *)
LEMMA InvoiceStep ==
    ASSUME Typed, NEW s \in Sessions, Invoice(s)
    PROVE  LET d == session[s].doc
               moves == ~session[s].seen.committed
               y == [docs[d] EXCEPT !.status = "invoiced", !.committed = docs[d].committed \/ moves]
           IN  /\ y \in Document /\ docs' = [docs EXCEPT ![d] = y]
               /\ y.status = "invoiced" /\ y.type = docs[d].type /\ y.from = docs[d].from
               /\ y.approval = docs[d].approval /\ y.lines = docs[d].lines
               /\ (y.committed <=> docs[d].committed \/ moves)
  <1> DEFINE d == session[s].doc
             moves == ~session[s].seen.committed
             y == [docs[d] EXCEPT !.status = "invoiced", !.committed = docs[d].committed \/ moves]
  <1>1. d \in Docs /\ docs[d] \in Document
    BY ChangingStep DEF Invoice
  <1>2. docs' = [docs EXCEPT ![d].status = "invoiced", ![d].committed = @ \/ moves]
    BY DEF Invoice, MovesStock
  <1>3. docs \in [Docs -> Document \cup {NoDoc, Removed}]
    BY DEF Typed, RowsTypeOK
  <1>6. ASSUME NEW V, NEW g \in [Docs -> V], NEW x \in Docs, NEW m \in BOOLEAN
        PROVE  [g EXCEPT ![x].status = "invoiced", ![x].committed = @ \/ m] =
               [g EXCEPT ![x] = [g[x] EXCEPT !.status = "invoiced", !.committed = g[x].committed \/ m]]
    OBVIOUS
  <1> HIDE DEF moves, d
  <1>5. moves \in BOOLEAN
    BY DEF moves
  <1>4. docs' = [docs EXCEPT ![d] = y]
    BY <1>1, <1>2, <1>3, <1>5, <1>6
  <1>7. /\ y \in Document /\ y.type = docs[d].type /\ y.from = docs[d].from
        /\ y.approval = docs[d].approval /\ y.lines = docs[d].lines /\ y.status = "invoiced"
        /\ (y.committed <=> docs[d].committed \/ moves)
    <2>1. PICK x \in Document : x = docs[d]
      BY <1>1
    <2>2. PICK m \in BOOLEAN : m <=> moves
      BY <1>5
    <2> DEFINE z == [x EXCEPT !.status = "invoiced", !.committed = x.committed \/ m]
    <2>3. /\ z \in Document /\ z.type = x.type /\ z.from = x.from /\ z.approval = x.approval
          /\ z.lines = x.lines /\ z.status = "invoiced" /\ (z.committed <=> x.committed \/ m)
      BY IssuedRow
    <2>4. y = z
      BY <2>1, <2>2
    <2> HIDE DEF y, z
    <2> QED
      BY <2>1, <2>2, <2>3, <2>4
  <1> HIDE DEF y
  <1> QED
    BY <1>4, <1>7 DEF moves, d, y

\* The handlers that make a document: the new row is a draft.
IsDraft(y) == y \in Document /\ y.status = "draft" /\ ~y.committed

(* create, as one new row with its requests.                                  *)
LEMMA CreateStep ==
    ASSUME Typed, NEW d \in Docs, NEW type \in DocTypes, CreateDocument(d, type)
    PROVE  /\ docs[d] = NoDoc /\ UNCHANGED <<fulfillments, reserved, out, session, receivable, commission, journal>>
           /\ \E y \in Document, asked \in [Rules -> {None, "pending", "approved", "rejected", "cancelled"}] :
                /\ IsDraft(y) /\ y.lines # Nothing /\ y.from = None
                /\ y.approval = "pending" => \E r \in Rules : asked[r] = "pending"
                /\ docs' = [docs EXCEPT ![d] = y] /\ requests' = [requests EXCEPT ![d] = asked]
  <1>1. PICK fired \in SUBSET Rules, lines \in NewLines :
           /\ docs' = [docs EXCEPT ![d] =
                 Draft(type, None, IF fired = {} THEN "not_required" ELSE "pending", lines)]
           /\ requests' = [requests EXCEPT ![d] = [r \in Rules |-> IF r \in fired THEN "pending" ELSE None]]
    BY DEF CreateDocument
  <1> DEFINE approval == IF fired = {} THEN "not_required" ELSE "pending"
             asked == [r \in Rules |-> IF r \in fired THEN "pending" ELSE None]
             y == Draft(type, None, approval, lines)
  <1>2. approval \in ApprovalStatuses /\ None \in Docs \cup {None}
    BY DEF ApprovalStatuses
  <1>3. lines \in Quantities /\ lines # Nothing
    BY LinesRow
  <1>4. asked \in [Rules -> {None, "pending", "approved", "rejected", "cancelled"}]
    OBVIOUS
  <1>5. approval = "pending" => \E r \in Rules : asked[r] = "pending"
    OBVIOUS
  <1> HIDE DEF approval, asked
  <1>6. IsDraft(y) /\ y.lines = lines /\ y.from = None /\ y.approval = approval
    BY <1>2, <1>3, DraftRow DEF IsDraft
  <1> HIDE DEF y
  <1>7. docs' = [docs EXCEPT ![d] = y] /\ requests' = [requests EXCEPT ![d] = asked]
    BY <1>1 DEF y, asked, approval
  <1>8. docs[d] = NoDoc /\ UNCHANGED <<fulfillments, reserved, out, session, receivable, commission, journal>>
    BY DEF CreateDocument
  <1> QED
    BY <1>3, <1>4, <1>5, <1>6, <1>7, <1>8 DEF IsDraft

(* duplicate, as one new row.                                                 *)
LEMMA DuplicateStep ==
    ASSUME Typed, NEW d \in Docs, NEW source \in Docs, Duplicate(d, source)
    PROVE  /\ docs[d] = NoDoc /\ UNCHANGED <<fulfillments, reserved, out, session, hookVars>>
           /\ docs[source] \in Document
           /\ \E y \in Document :
                /\ IsDraft(y) /\ y.lines = docs[source].lines /\ y.from = None /\ y.approval = "not_required"
                /\ docs' = [docs EXCEPT ![d] = y]
  <1> DEFINE y == Draft(docs[source].type, None, "not_required", docs[source].lines)
  <1>1. docs[source] \in Document
    BY DocExists DEF Duplicate
  <1>2. docs[source].type \in DocTypes /\ docs[source].lines \in Quantities
    BY <1>1 DEF Document
  <1>3. None \in Docs \cup {None} /\ "not_required" \in ApprovalStatuses
    BY DEF ApprovalStatuses
  <1>4. IsDraft(y) /\ y.lines = docs[source].lines /\ y.from = None /\ y.approval = "not_required"
    <2>1. PICK type \in DocTypes, lines \in Quantities : type = docs[source].type /\ lines = docs[source].lines
      BY <1>2
    <2> DEFINE w == Draft(type, None, "not_required", lines)
    <2>2. w \in Document /\ w.status = "draft" /\ ~w.committed /\ w.lines = lines /\ w.from = None
          /\ w.approval = "not_required"
      BY <1>3, DraftRow
    <2>3. y = w
      BY <2>1
    <2> HIDE DEF y, w
    <2> QED
      BY <2>1, <2>2, <2>3 DEF IsDraft
  <1>5. /\ docs[d] = NoDoc /\ UNCHANGED <<fulfillments, reserved, out, session, hookVars>>
        /\ docs' = [docs EXCEPT ![d] = y]
    BY DEF Duplicate
  <1> HIDE DEF y
  <1> QED
    BY <1>1, <1>4, <1>5 DEF IsDraft

(* convert, as a new row and a new status of the source.                      *)
LEMMA ConvertStep ==
    ASSUME Typed, NEW s \in Sessions, NEW d \in Docs, Convert(s, d)
    PROVE  LET r == session[s]
               status == SourceStatus(r.seen, r.to)
           IN  /\ docs[d] = NoDoc /\ UNCHANGED <<fulfillments, reserved, out, hookVars>>
               /\ session' = [session EXCEPT ![s] = Idle] /\ r.op = "convert"
               /\ r.doc \in Docs /\ docs[r.doc] \in Document /\ r.seen \in Document /\ r.doc # d
               /\ \E y, z \in Document :
                    /\ IsDraft(y) /\ y.lines = r.seen.lines /\ y.from = r.doc /\ y.approval = "not_required"
                    /\ z.type = docs[r.doc].type /\ z.from = docs[r.doc].from /\ z.lines = docs[r.doc].lines
                    /\ z.approval = docs[r.doc].approval /\ z.committed = docs[r.doc].committed
                    /\ z = docs[r.doc] \/ (status \in {"accepted", "invoiced"} /\ z.status = status)
                    /\ docs' = [docs EXCEPT ![d] = y, ![r.doc] = z]
  <1> DEFINE r == session[s]
             x == docs[r.doc]
             status == SourceStatus(r.seen, r.to)
             y == Draft(r.to, r.doc, "not_required", r.seen.lines)
             z == IF status = None THEN x ELSE [x EXCEPT !.status = status]
  <1>1. r \in [op: {"convert"}, doc: Docs, to: DocTypes, seen: Document]
    BY RequestKinds DEF Convert
  <1>2. r.doc \in Docs /\ r.to \in DocTypes /\ r.seen \in Document /\ r.seen.lines \in Quantities
    BY <1>1 DEF Document
  <1>3. x \in Document
    BY <1>2, DocExists DEF Convert
  <1>4. docs[d] = NoDoc /\ r.doc # d
    BY <1>3, DocumentRow DEF Convert
  <1>5. IsDraft(y) /\ y.lines = r.seen.lines /\ y.from = r.doc /\ y.approval = "not_required"
    <2>1. "not_required" \in ApprovalStatuses /\ r.doc \in Docs \cup {None}
      BY <1>2 DEF ApprovalStatuses
    <2> QED
      BY <1>2, <2>1, DraftRow DEF IsDraft
  <1>6. status \in {None, "accepted", "invoiced"}
    BY DEF SourceStatus
  <1>7. /\ z \in Document /\ z.type = x.type /\ z.from = x.from /\ z.lines = x.lines
        /\ z.approval = x.approval /\ z.committed = x.committed
        /\ z = x \/ (status \in {"accepted", "invoiced"} /\ z.status = status)
    <2>1. CASE status = None
      BY <1>3, <2>1
    <2>2. CASE status \in {"accepted", "invoiced"}
      <3>1. status # None /\ status \in DocStatuses
        BY <2>2 DEF None, DocStatuses
      <3> HIDE DEF status, x
      <3> QED
        BY <1>3, <2>2, <3>1, StatusRow
    <2> QED
      BY <1>6, <2>1, <2>2
  <1>8. docs \in [Docs -> Document \cup {NoDoc, Removed}]
    BY DEF Typed, RowsTypeOK
  <1>9. docs' = [docs EXCEPT ![d] = y, ![r.doc] = z]
    <2>1. docs' = IF status = None THEN [docs EXCEPT ![d] = y]
                  ELSE [[docs EXCEPT ![d] = y] EXCEPT ![r.doc].status = status]
      BY DEF Convert
    <2> HIDE DEF y, status
    <2>2. CASE status = None
      BY <1>2, <1>4, <1>8, <2>1, <2>2
    <2>3. CASE status # None
      <3>1. [docs EXCEPT ![d] = y][r.doc] = x
        BY <1>2, <1>4, <1>8
      <3> QED
        BY <1>2, <1>4, <1>8, <2>1, <2>3, <3>1
    <2> QED
      BY <2>2, <2>3
  <1>10. /\ UNCHANGED <<fulfillments, reserved, out, hookVars>>
         /\ session' = [session EXCEPT ![s] = Idle] /\ r.op = "convert"
    BY DEF Convert, Done
  <1> HIDE DEF x, y, z, status
  <1> QED
    BY <1>2, <1>3, <1>4, <1>5, <1>7, <1>9, <1>10 DEF x, status, IsDraft

(* remove, row by row.                                                        *)
LEMMA RemoveStep ==
    ASSUME Typed, NEW s \in Sessions, Remove(s)
    PROVE  LET d == session[s].doc IN
           /\ d \in Docs /\ session[s].op = "remove" /\ docs[d] \in Document /\ docs'[d] = Removed
           /\ docs' \in [Docs -> Document \cup {NoDoc, Removed}]
           /\ \A x \in Docs \ {d} :
                /\ docs[x] \notin Document => docs'[x] = docs[x]
                /\ docs[x] \in Document =>
                     LET y == docs'[x] IN
                     /\ y \in Document /\ y.type = docs[x].type /\ y.approval = docs[x].approval
                     /\ y.lines = docs[x].lines /\ y.status = docs[x].status /\ y.committed = docs[x].committed
                     /\ y.from = docs[x].from \/ docs[x].from = d
           /\ fulfillments' = [f \in Tasks |->
                 IF Present(f) /\ fulfillments[f].order = d THEN Removed ELSE fulfillments[f]]
           /\ commission' = [commission EXCEPT ![d] = None]
           /\ session' = [session EXCEPT ![s] = Idle]
           /\ UNCHANGED <<reserved, out, receivable, journal, requests>>
  <1> DEFINE d == session[s].doc
  <1>1. d \in Docs /\ docs[d] \in Document
    BY RequestKinds, DocExists DEF Remove
  <1>2. docs' = [x \in Docs |->
              IF x = d THEN Removed
              ELSE IF Exists(x) /\ docs[x].from = d THEN [docs[x] EXCEPT !.from = None]
              ELSE docs[x]]
    BY DEF Remove
  <1>3. docs \in [Docs -> Document \cup {NoDoc, Removed}]
    BY DEF Typed, RowsTypeOK
  <1>4. ASSUME NEW x \in Docs \ {d}
        PROVE  /\ docs[x] \notin Document => docs'[x] = docs[x]
               /\ docs[x] \in Document =>
                     LET y == docs'[x] IN
                     /\ y \in Document /\ y.type = docs[x].type /\ y.approval = docs[x].approval
                     /\ y.lines = docs[x].lines /\ y.status = docs[x].status /\ y.committed = docs[x].committed
                     /\ y.from = docs[x].from \/ docs[x].from = d
    <2>1. CASE docs'[x] = docs[x]
      BY <2>1
    <2>2. CASE docs[x] \in Document /\ docs[x].from = d /\ docs'[x] = [docs[x] EXCEPT !.from = None]
      BY <2>2, OtherRow
    <2>3. Exists(x) <=> docs[x] \in Document
      BY DocExists
    <2> QED
      BY <1>2, <2>1, <2>2, <2>3
  <1>5. docs' \in [Docs -> Document \cup {NoDoc, Removed}]
    <2>1. \A x \in Docs : docs'[x] \in Document \cup {NoDoc, Removed}
      BY <1>2, <1>3, <1>4
    <2>2. docs' = [x \in Docs |-> docs'[x]]
      BY <1>2
    <2> QED
      BY <2>1, <2>2
  <1>6. docs'[d] = Removed
    BY <1>1, <1>2
  <1>7. /\ fulfillments' = [f \in Tasks |->
                 IF Present(f) /\ fulfillments[f].order = d THEN Removed ELSE fulfillments[f]]
        /\ commission' = [commission EXCEPT ![d] = None]
        /\ session' = [session EXCEPT ![s] = Idle]
        /\ UNCHANGED <<reserved, out, receivable, journal, requests>> /\ session[s].op = "remove"
    BY DEF Remove, Done
  <1> QED
    BY <1>1, <1>4, <1>5, <1>6, <1>7

(* decide, as one changed request and one changed approval.                   *)
LEMMA DecideStep ==
    ASSUME Typed, HooksTyped, NEW d \in Docs, NEW r \in Rules, Decide(d, r)
    PROVE  /\ UNCHANGED <<fulfillments, reserved, out, session, receivable, commission, journal>>
           /\ \E asked \in [Rules -> {None, "pending", "approved", "rejected", "cancelled"}] :
                /\ requests' = [requests EXCEPT ![d] = asked]
                /\ \A q \in Rules : asked[q] = "pending" => requests[d][q] = "pending"
           /\ \/ docs[d] \notin Document /\ docs' = docs
              \/ \E y \in Document :
                   /\ docs[d] \in Document /\ docs' = [docs EXCEPT ![d] = y]
                   /\ y.type = docs[d].type /\ y.from = docs[d].from /\ y.lines = docs[d].lines
                   /\ y.status = docs[d].status /\ y.committed = docs[d].committed
                   /\ y.approval \in {"approved", "rejected"}
  <1>1. PICK decision \in {"approved", "rejected"} :
           /\ requests' = [requests EXCEPT ![d][r] = decision]
           /\ docs' = IF Exists(d) THEN [docs EXCEPT ![d].approval = decision] ELSE docs
    BY DEF Decide
  <1>2. UNCHANGED <<fulfillments, reserved, out, session, receivable, commission, journal>>
    BY DEF Decide
  <1> DEFINE asked == [requests[d] EXCEPT ![r] = decision]
  <1>3. requests[d] \in [Rules -> {None, "pending", "approved", "rejected", "cancelled"}]
    BY DEF HooksTyped
  <1>4. /\ asked \in [Rules -> {None, "pending", "approved", "rejected", "cancelled"}]
        /\ \A q \in Rules : asked[q] = "pending" => requests[d][q] = "pending"
    BY <1>3
  <1>5. requests' = [requests EXCEPT ![d] = asked]
    BY <1>1
  <1>6. decision \in ApprovalStatuses
    BY DEF ApprovalStatuses
  <1>7. CASE docs[d] \notin Document
    BY <1>1, <1>2, <1>4, <1>5, <1>7, DocExists
  <1>8. CASE docs[d] \in Document
    <2> DEFINE y == [docs[d] EXCEPT !.approval = decision]
    <2>1. docs' = [docs EXCEPT ![d] = y]
      BY <1>1, <1>8, DocExists
    <2>2. /\ y \in Document /\ y.type = docs[d].type /\ y.from = docs[d].from /\ y.lines = docs[d].lines
          /\ y.status = docs[d].status /\ y.committed = docs[d].committed /\ y.approval = decision
      BY <1>6, <1>8, OtherRow
    <2> HIDE DEF y, asked
    <2> QED
      BY <1>2, <1>4, <1>5, <1>8, <2>1, <2>2
  <1> QED
    BY <1>7, <1>8

\* The rows stay well formed when one document is written.
LEMMA OneDocBase ==
    ASSUME SalesBase, NEW d \in Docs, NEW y \in Document,
           docs[d] \in Document /\ docs[d].committed => y.committed,
           docs' = [docs EXCEPT ![d] = y], fulfillments' = fulfillments,
           \A f \in Tasks : out'[f] = out[f],
           reserved' \in [Docs -> [Products -> Nat]], out' \in [Docs \cup Tasks -> [Products -> Int]],
           session' \in [Sessions -> AnyRequest], HooksTyped'
    PROVE  SalesBase'
  <1>1. docs \in [Docs -> Document \cup {NoDoc, Removed}]
    BY DEF SalesBase, Typed, RowsTypeOK
  <1>2. docs' \in [Docs -> Document \cup {NoDoc, Removed}]
    BY <1>1
  <1>3. \A x \in Docs : docs[x] \in Document =>
          docs'[x] \in Document /\ (docs[x].committed => docs'[x].committed)
    BY <1>1
  <1> QED
    BY <1>2, <1>3, BaseKept

(* create and duplicate keep the invariant: a row that was free is taken.     *)
LEMMA NewDocBase ==
    ASSUME SalesBase, NEW d \in Docs,
           \/ \E type \in DocTypes : CreateDocument(d, type)
           \/ \E source \in Docs : Duplicate(d, source)
    PROVE  SalesBase'
  <1>1. PICK y \in Document : docs[d] = NoDoc /\ docs' = [docs EXCEPT ![d] = y]
    BY CreateStep, DuplicateStep DEF SalesBase
  <1>2. /\ UNCHANGED <<fulfillments, reserved, out, session, receivable, commission, journal>>
        /\ requests' \in [Docs -> [Rules -> {None, "pending", "approved", "rejected", "cancelled"}]]
    <2>1. CASE \E type \in DocTypes : CreateDocument(d, type)
      <3>1. PICK asked \in [Rules -> {None, "pending", "approved", "rejected", "cancelled"}] :
               requests' = [requests EXCEPT ![d] = asked]
        BY <2>1, CreateStep DEF SalesBase
      <3>2. requests \in [Docs -> [Rules -> {None, "pending", "approved", "rejected", "cancelled"}]]
        BY DEF SalesBase, HooksTyped
      <3> QED
        BY <2>1, <3>1, <3>2 DEF CreateDocument
    <2>2. CASE \E source \in Docs : Duplicate(d, source)
      BY <2>2 DEF SalesBase, HooksTyped, Duplicate, hookVars
    <2> QED
      BY <2>1, <2>2
  <1>3. HooksTyped'
    BY <1>2 DEF SalesBase, HooksTyped
  <1>4. /\ reserved' \in [Docs -> [Products -> Nat]] /\ out' \in [Docs \cup Tasks -> [Products -> Int]]
        /\ session' \in [Sessions -> AnyRequest]
    BY <1>2 DEF SalesBase, Typed, RowsTypeOK
  <1>5. docs[d] \notin Document
    BY <1>1, DocumentRow
  <1> QED
    BY <1>1, <1>2, <1>3, <1>4, <1>5, OneDocBase

(* decide keeps it.                                                           *)
LEMMA DecideBase ==
    ASSUME SalesBase, NEW d \in Docs, NEW r \in Rules, Decide(d, r)
    PROVE  SalesBase'
  <1>1. UNCHANGED <<fulfillments, reserved, out, session, receivable, commission, journal>>
    BY DecideStep DEF SalesBase
  <1>2. HooksTyped'
    BY <1>1, DecideStep DEF SalesBase, HooksTyped
  <1>3. /\ reserved' \in [Docs -> [Products -> Nat]] /\ out' \in [Docs \cup Tasks -> [Products -> Int]]
        /\ session' \in [Sessions -> AnyRequest]
    BY <1>1 DEF SalesBase, Typed, RowsTypeOK
  <1>4. CASE docs' = docs
    <2>1. /\ docs' \in [Docs -> Document \cup {NoDoc, Removed}]
          /\ \A x \in Docs : docs[x] \in Document =>
                docs'[x] \in Document /\ (docs[x].committed => docs'[x].committed)
      BY <1>4 DEF SalesBase, Typed, RowsTypeOK
    <2> QED
      BY <1>1, <1>2, <1>3, <2>1, BaseKept
  <1>5. CASE \E y \in Document : /\ docs[d] \in Document /\ docs' = [docs EXCEPT ![d] = y]
                                  /\ y.committed = docs[d].committed
    BY <1>1, <1>2, <1>3, <1>5, OneDocBase
  <1> QED
    BY <1>4, <1>5, DecideStep DEF SalesBase

(* convert keeps it: the source keeps its flag.                               *)
LEMMA ConvertBase ==
    ASSUME SalesBase, NEW s \in Sessions, NEW d \in Docs, Convert(s, d)
    PROVE  SalesBase'
  <1> DEFINE source == session[s].doc
  <1>1. PICK y, z \in Document :
           /\ docs[d] = NoDoc /\ source \in Docs /\ source # d
           /\ z.committed = docs[source].committed /\ docs' = [docs EXCEPT ![d] = y, ![source] = z]
    BY ConvertStep DEF SalesBase
  <1>2. UNCHANGED <<fulfillments, reserved, out, hookVars>> /\ session' = [session EXCEPT ![s] = Idle]
    BY ConvertStep DEF SalesBase
  <1>3. docs \in [Docs -> Document \cup {NoDoc, Removed}]
    BY DEF SalesBase, Typed, RowsTypeOK
  <1> HIDE DEF source
  <1>4. docs' \in [Docs -> Document \cup {NoDoc, Removed}]
    BY <1>1, <1>3
  <1>5. \A x \in Docs : docs[x] \in Document =>
          docs'[x] \in Document /\ (docs[x].committed => docs'[x].committed)
    BY <1>1, <1>3, DocumentRow
  <1>6. /\ reserved' \in [Docs -> [Products -> Nat]] /\ out' \in [Docs \cup Tasks -> [Products -> Int]]
        /\ session' \in [Sessions -> AnyRequest] /\ HooksTyped'
    BY <1>2 DEF SalesBase, Typed, RowsTypeOK, AnyRequest, Request, HooksTyped, hookVars
  <1> QED
    BY <1>2, <1>4, <1>5, <1>6, BaseKept

\* changeStatus and update.
LEMMA WriteDocBase ==
    ASSUME SalesBase, NEW s \in Sessions, UpdateLines(s) \/ ChangeOnly(s) \/ Pay(s)
    PROVE  SalesBase'
  <1>1. \E d \in Docs, y \in Document :
           docs[d] \in Document /\ docs' = [docs EXCEPT ![d] = y] /\ y.committed = docs[d].committed
    <2>1. CASE UpdateLines(s)
      BY <2>1, UpdateStep DEF SalesBase
    <2>2. CASE ChangeOnly(s) \/ Pay(s)
      <3>1. PICK effect \in {"none", "paid"} : Changing(s, effect) /\ SetStatus(s)
        BY <2>2 DEF ChangeOnly, Pay
      <3>2. session[s].doc \in Docs /\ docs[session[s].doc] \in Document
        BY <3>1, ChangingStep DEF SalesBase
      <3> QED
        BY <3>1, <3>2, SetStatusStep DEF SalesBase
    <2> QED
      BY <2>1, <2>2
  <1>2. UNCHANGED <<fulfillments, reserved, out, receivable, journal, requests>>
    BY DEF UpdateLines, ChangeOnly, Pay, hookVars
  <1>3. session' \in [Sessions -> AnyRequest]
    BY IdleSession DEF UpdateLines, ChangeOnly, Pay, Changing, SalesBase
  <1>4. commission' \in [Docs -> {None, "pending", "eligible", "cancelled"}]
    BY DEF SalesBase, HooksTyped, UpdateLines, ChangeOnly, Pay, hookVars
  <1>5. HooksTyped' /\ reserved' \in [Docs -> [Products -> Nat]] /\ out' \in [Docs \cup Tasks -> [Products -> Int]]
    BY <1>2, <1>4 DEF SalesBase, HooksTyped, Typed, RowsTypeOK
  <1> QED
    BY <1>1, <1>2, <1>3, <1>5, OneDocBase

(* The hooks and movements of an issue are well formed, and no fulfillment    *)
(* moves.                                                                     *)
LEMMA InvoiceHooks ==
    ASSUME Typed, HooksTyped, NEW s \in Sessions, Invoice(s)
    PROVE  HooksTyped' /\ out' \in [Docs \cup Tasks -> [Products -> Int]] /\ \A f \in Tasks : out'[f] = out[f]
  <1> DEFINE d == session[s].doc
             moves == MovesStock(session[s].seen)
             cogs == IF moves THEN Generate(journal[d], "sales_document_cogs") ELSE journal[d]
  <1>1. d \in Docs /\ docs[d] \in Document
    BY ChangingStep DEF Invoice
  <1>2. \A entries \in [References -> {None, "posted", "reversed"}], ref \in References :
          Generate(entries, ref) \in [References -> {None, "posted", "reversed"}]
    BY DEF Generate
  <1>3. journal[d] \in [References -> {None, "posted", "reversed"}]
    BY <1>1 DEF HooksTyped
  <1>4. cogs \in [References -> {None, "posted", "reversed"}]
    BY <1>2, <1>3 DEF References
  <1>5. Generate(cogs, "sales_document") \in [References -> {None, "posted", "reversed"}]
    BY <1>2, <1>4 DEF References
  <1>6. \/ journal' = [journal EXCEPT ![d] = Generate(cogs, "sales_document")]
        \/ journal' = [journal EXCEPT ![d] = cogs]
    BY DEF Invoice
  <1> HIDE DEF cogs
  <1>7. journal' \in [Docs -> [References -> {None, "posted", "reversed"}]]
    BY <1>4, <1>5, <1>6 DEF HooksTyped
  <1>8. /\ receivable' = receivable \/ receivable' = [receivable EXCEPT ![d] = IF @ = None THEN "issued" ELSE @]
        /\ commission' = commission \/ commission' = [commission EXCEPT ![d] = IF @ = None THEN "pending" ELSE @]
        /\ requests' = requests
    BY DEF Invoice
  <1>9. \/ out' = out
        \/ out' = [out EXCEPT ![d] = [p \in Products |-> @[p] - docs[d].lines[p]]]
        \/ out' = [out EXCEPT ![d] = [p \in Products |-> @[p] + docs[d].lines[p]]]
    BY DEF Invoice, DecrementStock
  <1>10. out \in [Docs \cup Tasks -> [Products -> Int]] /\ out[d] \in [Products -> Int]
    BY <1>1 DEF Typed, RowsTypeOK
  <1>11. docs[d].lines \in [Products -> Int]
    BY <1>1, QuantityAssumption DEF Document, Quantities
  <1> HIDE DEF d
  <1>12. \E row \in [Products -> Int] : out' = [out EXCEPT ![d] = row]
    <2>1. [p \in Products |-> out[d][p] - docs[d].lines[p]] \in [Products -> Int]
      BY <1>10, <1>11
    <2>2. [p \in Products |-> out[d][p] + docs[d].lines[p]] \in [Products -> Int]
      BY <1>10, <1>11
    <2> QED
      BY <1>1, <1>9, <1>10, <2>1, <2>2
  <1>13. \A f \in Tasks : f # d
    BY <1>1, IdsAssumption
  <1>14. out' \in [Docs \cup Tasks -> [Products -> Int]] /\ \A f \in Tasks : out'[f] = out[f]
    BY <1>10, <1>12, <1>13
  <1>15. /\ receivable' \in [Docs -> {None, "issued", "cancelled"}]
         /\ commission' \in [Docs -> {None, "pending", "eligible", "cancelled"}]
    BY <1>8 DEF HooksTyped
  <1> QED
    BY <1>7, <1>8, <1>14, <1>15 DEF HooksTyped

(* An issue keeps the invariant: the flag is only set.                        *)
LEMMA InvoiceBase ==
    ASSUME SalesBase, NEW s \in Sessions, Invoice(s)
    PROVE  SalesBase'
  <1>1. session[s].doc \in Docs /\ docs[session[s].doc] \in Document
    BY ChangingStep DEF SalesBase, Invoice
  <1>2. PICK d \in Docs, y \in Document :
           docs' = [docs EXCEPT ![d] = y] /\ (docs[d].committed => y.committed)
    BY <1>1, InvoiceStep DEF SalesBase
  <1>3. /\ HooksTyped' /\ out' \in [Docs \cup Tasks -> [Products -> Int]]
        /\ \A f \in Tasks : out'[f] = out[f]
    BY InvoiceHooks DEF SalesBase
  <1>4. session' \in [Sessions -> AnyRequest]
    BY IdleSession DEF Invoice, Changing, SalesBase
  <1>5. fulfillments' = fulfillments /\ reserved' \in [Docs -> [Products -> Nat]]
    BY DEF Invoice, SalesBase, Typed, RowsTypeOK
  <1> QED
    BY <1>1, <1>2, <1>3, <1>4, <1>5, OneDocBase

(* The hooks of a cancellation are well formed.                               *)
LEMMA CancelHooks ==
    ASSUME Typed, HooksTyped, NEW s \in Sessions, CancelDocument(s)
    PROVE  HooksTyped' /\ reserved' \in [Docs -> [Products -> Nat]]
  <1> DEFINE d == session[s].doc
             booked == [ref \in References |-> IF journal[d][ref] = "posted" THEN "reversed" ELSE journal[d][ref]]
             asked == [r \in Rules |-> IF requests[d][r] = "pending" THEN "cancelled" ELSE requests[d][r]]
  <1>1. d \in Docs
    BY ChangingStep DEF CancelDocument
  <1>2. /\ receivable' \in [Docs -> {None, "issued", "cancelled"}]
        /\ commission' \in [Docs -> {None, "pending", "eligible", "cancelled"}]
    BY DEF CancelDocument, HooksTyped
  <1>3. journal' = [journal EXCEPT ![d] = booked] /\ requests' = [requests EXCEPT ![d] = asked]
    BY <1>1 DEF CancelDocument, HooksTyped
  <1>4. booked \in [References -> {None, "posted", "reversed"}]
    BY <1>1 DEF HooksTyped
  <1>5. asked \in [Rules -> {None, "pending", "approved", "rejected", "cancelled"}]
    BY <1>1 DEF HooksTyped
  <1> HIDE DEF booked, asked
  <1>6. HooksTyped'
    BY <1>2, <1>3, <1>4, <1>5 DEF HooksTyped
  <1>7. Nothing \in [Products -> Nat]
    BY DEF Nothing
  <1>8. reserved' = reserved \/ reserved' = [reserved EXCEPT ![d] = Nothing]
    BY DEF CancelDocument, ReleaseByReference
  <1>9. reserved' \in [Docs -> [Products -> Nat]]
    BY <1>7, <1>8 DEF Typed, RowsTypeOK
  <1> QED
    BY <1>6, <1>9

(* A cancellation keeps the invariant.                                        *)
LEMMA CancelDocBase ==
    ASSUME SalesBase, NEW s \in Sessions, CancelDocument(s)
    PROVE  SalesBase'
  <1>1. session[s].doc \in Docs /\ docs[session[s].doc] \in Document
    BY ChangingStep DEF SalesBase, CancelDocument
  <1>2. PICK d \in Docs, y \in Document :
           docs' = [docs EXCEPT ![d] = y] /\ (docs[d].committed => y.committed)
    BY <1>1, SetStatusStep DEF SalesBase, CancelDocument
  <1>3. HooksTyped' /\ reserved' \in [Docs -> [Products -> Nat]]
    BY CancelHooks DEF SalesBase
  <1>4. session' \in [Sessions -> AnyRequest]
    BY IdleSession DEF CancelDocument, Changing, SalesBase
  <1>5. /\ fulfillments' = fulfillments /\ \A f \in Tasks : out'[f] = out[f]
        /\ out' \in [Docs \cup Tasks -> [Products -> Int]]
    BY DEF CancelDocument, SalesBase, Typed, RowsTypeOK
  <1> QED
    BY <1>1, <1>2, <1>3, <1>4, <1>5, OneDocBase

\* The acceptance of an order: its fulfillment and its reservations, unless it has one.
LEMMA AcceptStep ==
    ASSUME Typed, NEW s \in Sessions, AcceptOrder(s)
    PROVE  LET d == session[s].doc IN
           /\ d \in Docs /\ docs[d] \in Document /\ Effect(session[s]) = "accept"
           /\ UNCHANGED <<out, hookVars>> /\ session' = [session EXCEPT ![s] = Idle]
           /\ \E y \in Document :
                /\ docs' = [docs EXCEPT ![d] = y] /\ y.status = session[s].to
                /\ y.type = docs[d].type /\ y.from = docs[d].from /\ y.approval = docs[d].approval
                /\ y.lines = docs[d].lines /\ y.committed = docs[d].committed
           /\ \/ /\ \E f \in Tasks : fulfillments[f].status # "cancelled" /\ Present(f) /\ fulfillments[f].order = d
                 /\ UNCHANGED <<fulfillments, reserved>>
              \/ \E f \in Tasks, t \in Fulfillment, row \in [Products -> Nat] :
                   /\ fulfillments[f] = NoTask /\ fulfillments' = [fulfillments EXCEPT ![f] = t]
                   /\ t.order = d /\ t.status = "pending"
                   /\ reserved' = [reserved EXCEPT ![d] = row]
                   /\ \A g \in Tasks : Present(g) /\ fulfillments[g].order = d => fulfillments[g].status = "cancelled"
  <1> DEFINE d == session[s].doc
             y == [docs[d] EXCEPT !.status = session[s].to]
             row == [p \in Products |-> reserved[d][p] + docs[d].lines[p]]
             t == NewTask(d)
  <1>1. /\ d \in Docs /\ docs[d] \in Document /\ Effect(session[s]) = "accept"
        /\ session' = [session EXCEPT ![s] = Idle]
    BY ChangingStep DEF AcceptOrder
  <1>2. /\ y \in Document /\ docs' = [docs EXCEPT ![d] = y] /\ y.status = session[s].to
        /\ y.type = docs[d].type /\ y.from = docs[d].from /\ y.approval = docs[d].approval
        /\ y.lines = docs[d].lines /\ y.committed = docs[d].committed
    BY SetStatusStep DEF AcceptOrder
  <1>3. docs[d].lines \in Quantities /\ reserved \in [Docs -> [Products -> Nat]]
    BY <1>1 DEF Document, Typed, RowsTypeOK
  <1>4. row \in [Products -> Nat]
    BY <1>1, <1>3, QuantityAssumption DEF Quantities
  <1>5. t \in Fulfillment /\ t.order = d /\ t.status = "pending"
    <2>1. Nothing \in Quantities
      BY QuantityAssumption DEF Nothing, Quantities
    <2>2. [p \in Products |-> "pending"] \in [Products -> PickStatuses]
      BY DEF PickStatuses
    <2> HIDE DEF d
    <2> QED
      BY <1>1, <1>3, <2>1, <2>2 DEF NewTask, Fulfillment, FulfillmentStatuses
  <1>6. \/ /\ \E f \in Tasks : fulfillments[f].status # "cancelled" /\ Present(f) /\ fulfillments[f].order = d
           /\ UNCHANGED <<fulfillments, reserved>>
        \/ \E f \in Tasks :
             /\ fulfillments[f] = NoTask /\ fulfillments' = [fulfillments EXCEPT ![f] = t]
             /\ reserved' = [reserved EXCEPT ![d] = row]
             /\ \A g \in Tasks : Present(g) /\ fulfillments[g].order = d => fulfillments[g].status = "cancelled"
    BY <1>1, <1>3 DEF AcceptOrder, CreateForOrder, Reserve
  <1>8. UNCHANGED <<out, hookVars>>
    BY DEF AcceptOrder
  <1> HIDE DEF y, t, row
  <1> QED
    BY <1>1, <1>2, <1>4, <1>5, <1>6, <1>8

(* An acceptance keeps it: a new fulfillment belongs to the order, and        *)
(* nothing left for it.                                                       *)
LEMMA AcceptBase ==
    ASSUME SalesBase, NEW s \in Sessions, AcceptOrder(s)
    PROVE  SalesBase'
  <1>1. PICK d \in Docs, y \in Document :
           /\ docs[d] \in Document /\ docs' = [docs EXCEPT ![d] = y] /\ y.committed = docs[d].committed
           /\ \/ UNCHANGED <<fulfillments, reserved>>
              \/ \E f \in Tasks, t \in Fulfillment, row \in [Products -> Nat] :
                   /\ fulfillments[f] = NoTask /\ fulfillments' = [fulfillments EXCEPT ![f] = t]
                   /\ t.order = d /\ t.status = "pending"
                   /\ reserved' = [reserved EXCEPT ![d] = row]
    BY AcceptStep DEF SalesBase
  <1>2. UNCHANGED <<out, hookVars>> /\ session' \in [Sessions -> AnyRequest]
    BY AcceptStep, IdleSession DEF SalesBase, AcceptOrder, Changing
  <1>3. HooksTyped'
    BY <1>2 DEF SalesBase, HooksTyped, hookVars
  <1>4. /\ docs \in [Docs -> Document \cup {NoDoc, Removed}]
        /\ fulfillments \in [Tasks -> Fulfillment \cup {NoTask, Removed}]
        /\ reserved \in [Docs -> [Products -> Nat]] /\ out \in [Docs \cup Tasks -> [Products -> Int]]
    BY DEF SalesBase, Typed, RowsTypeOK
  <1>5. CASE UNCHANGED <<fulfillments, reserved>>
    <2>1. /\ fulfillments' = fulfillments /\ \A f \in Tasks : out'[f] = out[f]
          /\ reserved' \in [Docs -> [Products -> Nat]] /\ out' \in [Docs \cup Tasks -> [Products -> Int]]
      BY <1>2, <1>4, <1>5
    <2>2. docs[d].committed => y.committed
      BY <1>1
    <2> QED
      BY <1>1, <1>2, <1>3, <2>1, <2>2, OneDocBase
  <1>6. ASSUME NEW f \in Tasks, NEW t \in Fulfillment, NEW row \in [Products -> Nat],
               fulfillments[f] = NoTask, fulfillments' = [fulfillments EXCEPT ![f] = t],
               t.order = d, t.status = "pending", reserved' = [reserved EXCEPT ![d] = row]
        PROVE  SalesBase'
    <2>1. Typed'
      BY <1>1, <1>2, <1>4, <1>6 DEF Typed, RowsTypeOK
    <2>2. /\ fulfillments'[f] = t
          /\ \A g \in Tasks \ {f} : fulfillments'[g] = fulfillments[g]
      BY <1>4, <1>6
    <2>3. \A x \in Docs : docs[x] \in Document => docs'[x] \in Document /\ docs'[x].committed = docs[x].committed
      BY <1>1, <1>4
    <2>4. docs'[d] \in Document
      BY <1>1, <1>4
    <2>5. \A g \in Tasks : Present(g) => fulfillments[g].order \in Docs /\ docs[fulfillments[g].order] \in Document
      BY TaskRow DEF SalesBase, Fulfillment, OrdersExist
    <2>6. ASSUME NEW g \in Tasks, Present(g)' PROVE g = f \/ (Present(g) /\ fulfillments'[g] = fulfillments[g])
      BY <2>2, <2>6 DEF Present
    <2>7. OrdersExist'
      BY <1>6, <2>2, <2>3, <2>4, <2>5, <2>6 DEF OrdersExist
    <2>8. out[f] = Nothing
      BY <1>6 DEF SalesBase, NewTasksAreUnmoved
    <2>9. ASSUME NEW g \in Tasks, Present(g)', fulfillments'[g].status = "shipped" \/ out'[g] # Nothing
          PROVE  docs'[fulfillments'[g].order].committed
      <3>1. g # f
        BY <1>2, <1>6, <2>2, <2>8, <2>9
      <3>2. Present(g) /\ fulfillments'[g] = fulfillments[g]
        BY <2>6, <2>9, <3>1
      <3>3. docs[fulfillments[g].order].committed
        BY <1>2, <2>9, <3>2 DEF SalesBase, ShippedIsKnown
      <3> QED
        BY <2>3, <2>5, <3>2, <3>3
    <2>10. ShippedIsKnown'
      BY <2>9 DEF ShippedIsKnown, Nothing
    <2>11. t # NoTask
      <3>1. NoTask.status = "absent"
        BY DEF NoTask
      <3> QED
        BY <1>6, <3>1
    <2>12. NewTasksAreUnmoved'
      BY <1>2, <2>2, <2>11 DEF SalesBase, NewTasksAreUnmoved, Nothing
    <2> QED
      BY <1>3, <2>1, <2>7, <2>10, <2>12 DEF SalesBase
  <1> QED
    BY <1>1, <1>5, <1>6

(* remove keeps it: the fulfillments of the row go with it.                   *)
LEMMA RemoveBase ==
    ASSUME SalesBase, NEW s \in Sessions, Remove(s)
    PROVE  SalesBase'
  <1> DEFINE d == session[s].doc
  <1>1. /\ d \in Docs /\ docs' \in [Docs -> Document \cup {NoDoc, Removed}]
        /\ \A x \in Docs \ {d} : docs[x] \in Document =>
              docs'[x] \in Document /\ docs'[x].committed = docs[x].committed
        /\ fulfillments' = [f \in Tasks |->
                 IF Present(f) /\ fulfillments[f].order = d THEN Removed ELSE fulfillments[f]]
        /\ commission' = [commission EXCEPT ![d] = None]
        /\ session' = [session EXCEPT ![s] = Idle]
        /\ UNCHANGED <<reserved, out, receivable, journal, requests>>
    BY RemoveStep DEF SalesBase
  <1> HIDE DEF d
  <1>2. HooksTyped'
    BY <1>1 DEF SalesBase, HooksTyped
  <1>3. fulfillments \in [Tasks -> Fulfillment \cup {NoTask, Removed}]
    BY DEF SalesBase, Typed, RowsTypeOK
  <1>4. fulfillments' \in [Tasks -> Fulfillment \cup {NoTask, Removed}]
    BY <1>1, <1>3
  <1>5. Typed'
    BY <1>1, <1>4 DEF SalesBase, Typed, RowsTypeOK, AnyRequest, Request
  <1>6. \A g \in Tasks : Present(g)' => Present(g) /\ fulfillments'[g] = fulfillments[g] /\ fulfillments[g].order # d
    BY <1>1 DEF Present
  <1>7. \A g \in Tasks : Present(g) => fulfillments[g].order \in Docs /\ docs[fulfillments[g].order] \in Document
    BY TaskRow DEF SalesBase, Fulfillment, OrdersExist
  <1>8. OrdersExist'
    BY <1>1, <1>6, <1>7 DEF OrdersExist
  <1>9. ShippedIsKnown'
    BY <1>1, <1>6, <1>7 DEF SalesBase, ShippedIsKnown, Nothing
  <1>10. NewTasksAreUnmoved'
    <2>1. NoTask # Removed
      BY DEF NoTask, Removed
    <2> QED
      BY <1>1, <2>1 DEF SalesBase, NewTasksAreUnmoved, Nothing
  <1> QED
    BY <1>2, <1>5, <1>8, <1>9, <1>10 DEF SalesBase

(* A fulfillment that changes within its order, unshipped, keeps it.          *)
LEMMA TaskChangedBase ==
    ASSUME SalesBase, NEW f \in Tasks, NEW t \in Fulfillment, Present(f),
           t.order = fulfillments[f].order,
           t.status = "shipped" => fulfillments[f].status = "shipped",
           fulfillments' = [fulfillments EXCEPT ![f] = t],
           UNCHANGED <<docs, out, hookVars>>,
           reserved' \in [Docs -> [Products -> Nat]], session' \in [Sessions -> AnyRequest]
    PROVE  SalesBase'
  <1>1. fulfillments \in [Tasks -> Fulfillment \cup {NoTask, Removed}]
    BY DEF SalesBase, Typed, RowsTypeOK
  <1>2. Typed'
    BY <1>1 DEF SalesBase, Typed, RowsTypeOK
  <1>3. HooksTyped'
    BY DEF SalesBase, HooksTyped, hookVars
  <1>4. fulfillments'[f] = t /\ \A g \in Tasks \ {f} : fulfillments'[g] = fulfillments[g]
    BY <1>1
  <1>5. \A g \in Tasks : Present(g)' => Present(g) /\ fulfillments'[g].order = fulfillments[g].order
    BY <1>4 DEF Present
  <1>6. OrdersExist'
    BY <1>5 DEF SalesBase, OrdersExist
  <1>7. ASSUME NEW g \in Tasks, Present(g)', fulfillments'[g].status = "shipped" \/ out'[g] # Nothing
        PROVE  docs'[fulfillments'[g].order].committed
    <2>1. fulfillments[g].status = "shipped" \/ out[g] # Nothing
      BY <1>4, <1>7
    <2> QED
      BY <1>5, <1>7, <2>1 DEF SalesBase, ShippedIsKnown
  <1>8. ShippedIsKnown'
    BY <1>7 DEF ShippedIsKnown, Nothing
  <1>9. t # NoTask
    <2>1. NoTask.status = "absent" /\ t.status \in FulfillmentStatuses
      BY DEF NoTask, Fulfillment
    <2> QED
      BY <2>1 DEF FulfillmentStatuses
  <1>10. NewTasksAreUnmoved'
    BY <1>4, <1>9 DEF SalesBase, NewTasksAreUnmoved, Nothing
  <1> QED
    BY <1>2, <1>3, <1>6, <1>8, <1>10 DEF SalesBase

(* Every write of the floor but ship.                                         *)
LEMMA FloorWriteBase ==
    ASSUME SalesBase, NEW s \in Sessions, UNCHANGED hookVars,
           Assign(s) \/ StartPicking(s) \/ Pack(s) \/ CommitPick(s) \/ Cancel(s)
    PROVE  SalesBase'
  <1>1. CASE Assign(s) \/ StartPicking(s) \/ Pack(s)
    <2>1. PICK op \in {"assign", "startPicking", "pack"}, status \in FulfillmentStatuses \ {"shipped"} :
             WriteStatus(s, op, status)
      BY <1>1 DEF Assign, StartPicking, Pack, FulfillmentStatuses
    <2> DEFINE f == session[s].task
               t == [fulfillments[f] EXCEPT !.status = status]
    <2>2. /\ f \in Tasks /\ Present(f) /\ t \in Fulfillment /\ t.order = fulfillments[f].order
          /\ fulfillments' = [fulfillments EXCEPT ![f] = t]
      BY <2>1, WriteStatusStep DEF SalesBase
    <2>3. session' \in [Sessions -> AnyRequest]
      BY <2>1, IdleSession DEF SalesBase, WriteStatus
    <2>4. fulfillments[f] \in Fulfillment
      BY <2>2, TaskRow DEF SalesBase
    <2>5. t.status # "shipped"
      BY <2>4, NewStatus
    <2>6. UNCHANGED <<docs, out, reserved>> /\ reserved' \in [Docs -> [Products -> Nat]]
      BY <2>1 DEF WriteStatus, SalesBase, Typed, RowsTypeOK
    <2> HIDE DEF f, t
    <2> QED
      BY <2>2, <2>3, <2>5, <2>6, TaskChangedBase
  <1>2. CASE CommitPick(s)
    <2> DEFINE r == session[s]
               f == r.task
               status == IF r.complete THEN "picked"
                         ELSE IF r.starts THEN "picking" ELSE fulfillments[r.task].status
               t == PickedTask(fulfillments[r.task], r.item, r.status, r.quantity, status)
    <2>1. /\ f \in Tasks /\ Present(f) /\ t \in Fulfillment /\ t.order = fulfillments[f].order
          /\ t.status = status /\ fulfillments' = [fulfillments EXCEPT ![f] = t]
      BY <1>2, CommitPickStep DEF SalesBase
    <2>2. t.status = "shipped" => fulfillments[f].status = "shipped"
      BY <2>1
    <2>3. session' \in [Sessions -> AnyRequest]
      BY <1>2, IdleSession DEF SalesBase, CommitPick
    <2>4. UNCHANGED <<docs, out, reserved>> /\ reserved' \in [Docs -> [Products -> Nat]]
      BY <1>2 DEF CommitPick, SalesBase, Typed, RowsTypeOK
    <2> HIDE DEF f, t
    <2> QED
      BY <2>1, <2>2, <2>3, <2>4, TaskChangedBase
  <1>3. CASE Cancel(s)
    <2> DEFINE f == session[s].task
               t == [fulfillments[f] EXCEPT !.status = "cancelled"]
    <2>1. /\ f \in Tasks /\ Present(f) /\ t \in Fulfillment
          /\ t.order = fulfillments[f].order /\ t.status = "cancelled"
          /\ fulfillments' = [fulfillments EXCEPT ![f] = t]
          /\ reserved' = reserved \/ reserved' = [reserved EXCEPT ![fulfillments[f].order] = Nothing]
      BY <1>3, CancelStep DEF SalesBase
    <2>2. session' \in [Sessions -> AnyRequest]
      BY <1>3, IdleSession DEF SalesBase, Cancel
    <2>3. UNCHANGED <<docs, out>>
      BY <1>3 DEF Cancel
    <2>4. reserved \in [Docs -> [Products -> Nat]] /\ Nothing \in [Products -> Nat]
      BY DEF SalesBase, Typed, RowsTypeOK, Nothing
    <2>5. reserved' \in [Docs -> [Products -> Nat]]
      BY <2>1, <2>4
    <2> HIDE DEF f, t
    <2> QED
      BY <2>1, <2>2, <2>3, <2>5, TaskChangedBase
  <1> QED
    BY <1>1, <1>2, <1>3

(* recordPick's first write, as a request.                                    *)
LEMMA WritePickStep ==
    ASSUME Typed, NEW s \in Sessions, WritePick(s)
    PROVE  /\ UNCHANGED <<docs, fulfillments, reserved, out>> /\ session[s].op = "pick"
           /\ \E w \in PickWritten : session' = [session EXCEPT ![s] = w] /\ w.task = session[s].task
  <1> DEFINE r == session[s]
             complete == /\ r.status # "pending"
                         /\ \A p \in Products \ {r.item} : fulfillments[r.task].items[p] # "pending"
             w == [op |-> "picked", task |-> r.task, item |-> r.item, status |-> r.status,
                   quantity |-> r.quantity, starts |-> r.starts, complete |-> complete]
  <1>1. r \in PickRequest
    BY RequestKinds DEF WritePick
  <1>2. session' = [session EXCEPT ![s] = w]
    BY DEF WritePick
  <1>3. complete \in BOOLEAN
    OBVIOUS
  <1>4. w \in PickWritten /\ w.task = r.task
    <2> HIDE DEF complete
    <2> QED
      BY <1>1, <1>3 DEF PickRequest, PickWritten
  <1> HIDE DEF w
  <1> QED
    BY <1>2, <1>4 DEF WritePick

(* ship keeps the invariant: it sets the flag of the order it ships for.      *)
LEMMA ShipBase ==
    ASSUME SalesBase, NEW s \in Sessions, UNCHANGED hookVars, Ship(s)
    PROVE  SalesBase'
  <1> DEFINE f == session[s].task
             d == fulfillments[f].order
             t == [fulfillments[f] EXCEPT !.status = "shipped"]
             left == [p \in Products |-> out[f][p] + fulfillments[f].picked[p]]
  <1>1. /\ f \in Tasks /\ Present(f) /\ fulfillments[f] \in Fulfillment /\ d \in Docs
        /\ t \in Fulfillment /\ t.order = d
        /\ fulfillments' = [fulfillments EXCEPT ![f] = t]
        /\ reserved' = [reserved EXCEPT ![d] = Nothing]
        /\ out' = [out EXCEPT ![f] = left]
    BY ShipStep DEF SalesBase
  <1>2. session' \in [Sessions -> AnyRequest]
    BY IdleSession DEF SalesBase, Ship
  <1>3. /\ docs' \in [Docs -> Document \cup {NoDoc, Removed}]
        /\ docs'[d] \in Document /\ docs'[d].committed
        /\ \A x \in Docs \ {d} : docs[x] \in Document => docs'[x] = docs[x]
    BY ShippedDocs DEF SalesBase
  <1>4. /\ fulfillments \in [Tasks -> Fulfillment \cup {NoTask, Removed}]
        /\ reserved \in [Docs -> [Products -> Nat]] /\ out \in [Docs \cup Tasks -> [Products -> Int]]
    BY DEF SalesBase, Typed, RowsTypeOK
  <1>5. left \in [Products -> Int]
    <2>1. out[f] \in [Products -> Int] /\ fulfillments[f].picked \in [Products -> 0..MaxQuantity]
      BY <1>1, <1>4 DEF Fulfillment, Quantities
    <2> QED
      BY <2>1, QuantityAssumption
  <1> HIDE DEF f, d, t, left
  <1>6. Typed'
    <2>1. Nothing \in [Products -> Nat]
      BY DEF Nothing
    <2> QED
      BY <1>1, <1>2, <1>3, <1>4, <1>5, <2>1 DEF Typed, RowsTypeOK
  <1>7. HooksTyped'
    BY DEF SalesBase, HooksTyped, hookVars
  <1>8. /\ fulfillments'[f] = t
        /\ \A g \in Tasks \ {f} : fulfillments'[g] = fulfillments[g] /\ out'[g] = out[g]
    BY <1>1, <1>4
  <1>9. \A g \in Tasks : Present(g)' => Present(g) /\ fulfillments'[g].order = fulfillments[g].order
    BY <1>1, <1>8 DEF Present, d, f
  <1>10. \A g \in Tasks : Present(g) => docs[fulfillments[g].order] \in Document /\ fulfillments[g].order \in Docs
    BY TaskRow DEF SalesBase, OrdersExist, Fulfillment
  <1>11. OrdersExist'
    BY <1>3, <1>9, <1>10 DEF OrdersExist
  <1>12. ASSUME NEW g \in Tasks, Present(g)', fulfillments'[g].status = "shipped" \/ out'[g] # Nothing
         PROVE  docs'[fulfillments'[g].order].committed
    <2>1. CASE fulfillments[g].order = d
      BY <1>3, <1>9, <1>12, <2>1
    <2>2. CASE fulfillments[g].order # d
      <3>1. g # f
        BY <2>2 DEF d
      <3>2. fulfillments[g].status = "shipped" \/ out[g] # Nothing
        BY <1>8, <1>12, <3>1
      <3>3. docs[fulfillments[g].order].committed
        BY <1>9, <1>12, <3>2 DEF SalesBase, ShippedIsKnown
      <3> QED
        BY <1>3, <1>9, <1>10, <1>12, <2>2, <3>3
    <2> QED
      BY <2>1, <2>2
  <1>13. ShippedIsKnown'
    BY <1>12 DEF ShippedIsKnown, Nothing
  <1>14. t # NoTask
    <2>1. NoTask.status = "absent" /\ t.status \in FulfillmentStatuses
      BY <1>1 DEF NoTask, Fulfillment
    <2> QED
      BY <2>1 DEF FulfillmentStatuses
  <1>15. NewTasksAreUnmoved'
    BY <1>8, <1>14 DEF SalesBase, NewTasksAreUnmoved, Nothing
  <1> QED
    BY <1>6, <1>7, <1>11, <1>13, <1>15 DEF SalesBase

\* Every step.
LEMMA BaseStep ==
    ASSUME SalesBase, SalesNext
    PROVE  SalesBase'
  <1>1. ASSUME NEW s \in Sessions, SalesStep(s) PROVE SalesBase'
    <2>1. CASE DocRead(s)
      <3>1. UNCHANGED <<docs, fulfillments, reserved, out, hookVars>> /\ \E r \in DocRequest : Start(s, r)
        BY <2>1, DocReadStep DEF SalesBase
      <3>2. session' \in [Sessions -> AnyRequest]
        BY <3>1, AnySession DEF SalesBase, Start, AnyRequest
      <3> QED
        BY <3>1, <3>2, BaseStill
    <2>2. CASE \E d \in Docs : Convert(s, d)
      BY <2>2, ConvertBase
    <2>3. CASE UpdateLines(s) \/ ChangeOnly(s) \/ Pay(s)
      BY <2>3, WriteDocBase
    <2>4. CASE Remove(s) \/ AcceptOrder(s) \/ Invoice(s) \/ CancelDocument(s)
      BY <2>4, RemoveBase, AcceptBase, InvoiceBase, CancelDocBase
    <2> QED
      BY <1>1, <2>1, <2>2, <2>3, <2>4 DEF SalesStep, DocRead
  <1>2. ASSUME NEW s \in Sessions, FloorStep(s), UNCHANGED hookVars PROVE SalesBase'
    <2>1. CASE TaskRead(s)
      <3>1. UNCHANGED <<docs, fulfillments, reserved, out>> /\ \E r \in TaskRequest \cup PickRequest : Start(s, r)
        BY <2>1, TaskReadStep DEF SalesBase
      <3>2. session' \in [Sessions -> AnyRequest]
        BY <3>1, AnySession DEF SalesBase, Start, AnyRequest, Request
      <3> QED
        BY <1>2, <3>1, <3>2, BaseStill
    <2>2. CASE WritePick(s)
      <3>1. UNCHANGED <<docs, fulfillments, reserved, out>>
        BY <2>2, WritePickStep DEF SalesBase
      <3>2. session' \in [Sessions -> AnyRequest]
        BY <2>2, WritePickStep, AnySession DEF SalesBase, AnyRequest, Request
      <3> QED
        BY <1>2, <3>1, <3>2, BaseStill
    <2>3. CASE Abort(s)
      <3>1. session' \in [Sessions -> AnyRequest]
        BY <2>3, IdleSession DEF SalesBase, Abort
      <3> QED
        BY <1>2, <2>3, <3>1, BaseStill DEF Abort
    <2>4. CASE Assign(s) \/ StartPicking(s) \/ Pack(s) \/ CommitPick(s) \/ Cancel(s)
      BY <1>2, <2>4, FloorWriteBase
    <2>5. CASE Ship(s)
      BY <1>2, <2>5, ShipBase
    <2> QED
      BY <1>2, <2>1, <2>2, <2>3, <2>4, <2>5 DEF FloorStep, TaskRead
  <1>3. ASSUME NEW d \in Docs,
               \/ \E type \in DocTypes : CreateDocument(d, type)
               \/ \E source \in Docs : Duplicate(d, source)
               \/ \E r \in Rules : Decide(d, r)
        PROVE  SalesBase'
    BY <1>3, NewDocBase, DecideBase
  <1> QED
    BY <1>1, <1>2, <1>3 DEF SalesNext

-------------------------------------------------------------------------------
(***************************************************************************)
(* Part 5. Sales documents: requests that do not overlap.                  *)
(***************************************************************************)
Early == {"draft", "sent", "accepted", "rejected"}
OwedFor(x) == x.type \in Fiscal /\ x.status \in {"invoiced", "partially_paid", "paid"}

\* What a document's row says of its receivable, entries, commission, reservations, stock
\* moved and requests.
DocSound(x, owed, booked, earned, kept, left, asked) ==
    /\ x = NoDoc => owed = None /\ booked["sales_document"] = None /\ kept = Nothing /\ left = Nothing
    /\ x = Removed => owed # "issued" /\ booked["sales_document"] # "posted" /\ kept = Nothing
    /\ x \in Document =>
        /\ owed = "issued" <=> OwedFor(x)
        /\ booked["sales_document"] = "posted" <=> OwedFor(x)
        /\ x.type \notin Fiscal \/ x.status \in Early => owed = None /\ booked["sales_document"] = None
        /\ kept # Nothing => x.type = "order" /\ x.status \notin {"draft", "cancelled"}
        /\ left # Nothing => x.committed
        /\ x.status = "cancelled" =>
              /\ earned \notin {"pending", "eligible"}
              /\ \A ref \in References : booked[ref] # "posted"
              /\ \A r \in Rules : asked[r] # "pending"
        /\ x.status = "draft" /\ x.approval = "pending" => \E r \in Rules : asked[r] = "pending"
SoundAt(d) == DocSound(docs[d], receivable[d], journal[d], commission[d], reserved[d], out[d], requests[d])

\* What it says of the fulfillments and of the other documents.
Related(d) ==
    /\ docs[d].lines # Nothing \/ EmptyShipment
    /\ docs[d].committed => out[d] # Nothing \/ ShippedFor(d) \/ GuideOfShipment(d) \/ EmptyShipment
    /\ docs[d].approval = "pending" =>
        \/ docs[d].status \in {"draft", "cancelled"}
        \/ \E x \in Docs : docs[x] = Removed \/ (docs[x] \in Document /\ docs[x].from = d)

TaskStands(f) == Present(f) =>
    /\ docs[fulfillments[f].order].status # "draft"
    /\ out[f] # Nothing => fulfillments[f].status = "shipped"
    /\ fulfillments[f].status = "shipped" => /\ docs[fulfillments[f].order].committed
                                             /\ reserved[fulfillments[f].order] = Nothing

\* What a handler read still holds.
SameRow(x, y) == x.type = y.type /\ x.status = y.status /\ x.committed = y.committed /\ x.lines = y.lines
RequestStands(r) ==
    /\ r.op \in DOMAIN Accepts => fulfillments[r.task].status \in Accepts[r.op]
    /\ r.op \in {"pick", "picked"} => fulfillments[r.task].status \in {"picking", "assigned"}
    /\ r.op = "remove" => docs[r.doc].status = "draft"
    /\ r.op \in {"convert", "changeStatus"} => docs[r.doc] \in Document /\ SameRow(r.seen, docs[r.doc])
    /\ r.op = "convert" => r.to \in CONVERSION_MAP[r.seen.type]
    /\ r.op = "changeStatus" =>
        /\ ValidTransition(r.seen.status, r.to)
        /\ docs[r.doc].approval = "pending" => r.to \in {"cancelled", "draft"}

SalesSerial ==
    /\ \A d \in Docs : SoundAt(d)
    /\ \A d \in Docs : docs[d] \in Document => Related(d)
    /\ \A f \in Tasks : TaskStands(f)
    /\ ReservationsAreBacked
    /\ \A s \in Sessions : RequestStands(session[s])

SalesInv ==
    /\ SalesBase /\ overlapped \in BOOLEAN
    /\ overlapped \/ (~Overlapping /\ SalesSerial)

(* Row by row it says what the properties say of the whole.                   *)
LEMMA SerialMeans ==
    ASSUME SalesBase, SalesSerial
    PROVE  /\ ReceivableFollowsDocument /\ CancelledLeavesNothingOpen
           /\ CommittedMeansMoved /\ PendingHoldsBack /\ ShippedIsSettled
  <1>1. \A d \in Docs : docs[d] \in Document \cup {NoDoc, Removed}
    BY DEF SalesBase, Typed, RowsTypeOK
  <1>2. \A d \in Docs : Exists(d) <=> docs[d] \in Document
    BY DocExists DEF SalesBase
  <1>3. \A d \in Docs : SoundAt(d) /\ (docs[d] \in Document => Related(d))
    BY DEF SalesSerial
  <1>4. NoDoc.status = "absent" /\ Removed.status = "removed"
    BY DEF NoDoc, Removed
  <1>5. None # "issued" /\ None # "posted"
    BY DEF None
  <1>6. ReceivableFollowsDocument
    <2> SUFFICES ASSUME NEW d \in Docs
                 PROVE  LET owed == Exists(d) /\ docs[d].type \in Fiscal /\ Issued(d)
                        IN  /\ receivable[d] = "issued" <=> owed
                            /\ journal[d]["sales_document"] = "posted" <=> owed
      BY DEF ReceivableFollowsDocument
    <2>1. SoundAt(d)
      BY <1>3
    <2>2. CASE docs[d] \in Document
      BY <1>2, <2>1, <2>2 DEF SoundAt, DocSound, OwedFor, Issued
    <2>3. CASE docs[d] \in {NoDoc, Removed}
      BY <1>5, <2>1, <2>3 DEF SoundAt, DocSound, Exists
    <2> QED
      BY <1>1, <2>2, <2>3
  <1>7. CancelledLeavesNothingOpen
    <2> SUFFICES ASSUME NEW d \in Docs, docs[d].status = "cancelled"
                 PROVE  /\ receivable[d] # "issued"
                        /\ commission[d] \notin {"pending", "eligible"}
                        /\ \A ref \in References : journal[d][ref] # "posted"
                        /\ reserved[d] = Nothing
                        /\ \A r \in Rules : requests[d][r] # "pending"
      BY DEF CancelledLeavesNothingOpen
    <2>1. docs[d] \in Document
      BY <1>1, <1>4
    <2>2. SoundAt(d)
      BY <1>3
    <2> QED
      BY <2>1, <2>2 DEF SoundAt, DocSound, OwedFor
  <1>8. \A f \in Tasks : fulfillments[f].status = "shipped" =>
          Present(f) /\ docs[fulfillments[f].order].committed /\ reserved[fulfillments[f].order] = Nothing
    BY TaskRow DEF SalesBase, SalesSerial, TaskStands, FulfillmentStatuses
  <1>9. CommittedMeansMoved
    <2> SUFFICES ASSUME NEW d \in Docs, Exists(d)
                 PROVE  /\ out[d] # Nothing \/ ShippedFor(d) => docs[d].committed
                        /\ docs[d].committed =>
                              out[d] # Nothing \/ ShippedFor(d) \/ GuideOfShipment(d) \/ EmptyShipment
      BY DEF CommittedMeansMoved
    <2>1. docs[d] \in Document
      BY <1>2
    <2>2. SoundAt(d) /\ Related(d)
      BY <1>3, <2>1
    <2>3. out[d] # Nothing => docs[d].committed
      BY <2>1, <2>2 DEF SoundAt, DocSound
    <2>4. ShippedFor(d) => docs[d].committed
      BY <1>8 DEF ShippedFor
    <2> QED
      BY <2>2, <2>3, <2>4 DEF Related
  <1>10. PendingHoldsBack
    <2> SUFFICES ASSUME NEW d \in Docs, Exists(d), docs[d].approval = "pending"
                 PROVE  /\ \/ docs[d].status \in {"draft", "cancelled"}
                           \/ \E x \in Docs : docs[x] = Removed \/ (Exists(x) /\ docs[x].from = d)
                        /\ docs[d].status = "draft" => \E r \in Rules : requests[d][r] = "pending"
      BY DEF PendingHoldsBack
    <2>1. docs[d] \in Document
      BY <1>2
    <2>2. SoundAt(d) /\ Related(d)
      BY <1>3, <2>1
    <2>3. docs[d].status = "draft" => \E r \in Rules : requests[d][r] = "pending"
      BY <2>1, <2>2 DEF SoundAt, DocSound
    <2> QED
      BY <1>2, <2>2, <2>3 DEF Related
  <1>11. ShippedIsSettled
    BY <1>8 DEF ShippedIsSettled, SalesSerial, TaskStands
  <1> QED
    BY <1>6, <1>7, <1>9, <1>10, <1>11

(* Nothing exists, and nobody asks for anything.                              *)
LEMMA SalesStart == SalesInit => SalesInv
  <1> SUFFICES ASSUME SalesInit PROVE SalesInv
    OBVIOUS
  <1>1. Nothing \in [Products -> Nat] /\ Nothing \in [Products -> Int]
    BY DEF Nothing
  <1>2. Typed /\ HooksTyped
    BY <1>1 DEF SalesInit, Typed, RowsTypeOK, AnyRequest, Request, HooksTyped
  <1>3. \A f \in Tasks : ~Present(f) /\ fulfillments[f].status = "absent"
    BY DEF SalesInit, Present, NoTask
  <1>4. SalesBase
    BY <1>2, <1>3 DEF SalesBase, SalesInit, OrdersExist, ShippedIsKnown, NewTasksAreUnmoved
  <1>5. \A d \in Docs : docs[d] = NoDoc /\ docs[d] \notin Document /\ docs[d] # Removed
    BY DocumentRow DEF SalesInit, NoDoc, Removed
  <1>6. \A d \in Docs : SoundAt(d)
    BY <1>5 DEF SalesInit, SoundAt, DocSound, References
  <1>7. \A s \in Sessions : RequestStands(session[s])
    <2>1. Idle.op = "idle" /\ DOMAIN Accepts = {"assign", "startPicking", "pack", "ship", "cancel"}
      BY DEF Idle, Accepts
    <2> QED
      BY <2>1 DEF SalesInit, RequestStands
  <1>8. SalesSerial
    BY <1>3, <1>5, <1>6, <1>7 DEF SalesSerial, TaskStands, ReservationsAreBacked, SalesInit
  <1> QED
    BY <1>4, <1>8 DEF SalesInv, SalesInit, Overlapping

\* What a handler reads, it reads alone; and it leaves no request behind.
LEMMA OthersIdle ==
    ASSUME ~Overlapping, NEW s \in Sessions, session[s] # Idle
    PROVE  \A u \in Sessions \ {s} : session[u] = Idle
  BY DEF Overlapping

(* When the only request ends, none is left to have read anything.            *)
LEMMA NothingAsked ==
    ASSUME Typed, ~Overlapping, NEW s \in Sessions, session[s] # Idle, session' = [session EXCEPT ![s] = Idle]
    PROVE  \A u \in Sessions : RequestStands(session[u])'
  <1>1. \A u \in Sessions : session'[u] = Idle
    BY OthersIdle DEF Typed
  <1>2. Idle.op = "idle" /\ DOMAIN Accepts = {"assign", "startPicking", "pack", "ship", "cancel"}
    BY DEF Idle, Accepts
  <1> QED
    BY <1>1, <1>2 DEF RequestStands

(* When a request starts and no two overlap, what it read is what is there.   *)
LEMMA AskedAlone ==
    ASSUME Typed, ~Overlapping', NEW s \in Sessions, NEW r, r # Idle,
           session' = [session EXCEPT ![s] = r], RequestStands(r)'
    PROVE  \A u \in Sessions : RequestStands(session[u])'
  <1>1. session'[s] = r
    BY DEF Typed
  <1>2. \A u \in Sessions \ {s} : session'[u] = Idle
    BY <1>1 DEF Overlapping
  <1>3. Idle.op = "idle" /\ DOMAIN Accepts = {"assign", "startPicking", "pack", "ship", "cancel"}
    BY DEF Idle, Accepts
  <1> QED
    BY <1>1, <1>2, <1>3 DEF RequestStands

\* An operation is under way, so the session is not idle.
LEMMA UnderWay ==
    ASSUME NEW s \in Sessions, session[s].op # "idle"
    PROVE  session[s] # Idle
  BY DEF Idle

\* Shipments stay; and a document that is new, or goes on, keeps its relations.
LEMMA RelationsKept ==
    ASSUME SalesSerial,
           \A f \in Tasks : fulfillments[f].status = "shipped" =>
              /\ fulfillments'[f].status = "shipped" /\ fulfillments'[f].order = fulfillments[f].order
              /\ fulfillments'[f].picked = fulfillments[f].picked,
           \A x \in Docs : docs[x] = Removed => docs'[x] = Removed,
           \/ \E x \in Docs : docs'[x] = Removed
           \/ \A x \in Docs : docs[x] \in Document => docs'[x] \in Document /\ docs'[x].from = docs[x].from,
           \A x \in Docs : docs'[x] \in Document =>
              /\ \/ docs'[x].lines # Nothing \/ EmptyShipment'
                 \/ docs[x] \in Document /\ docs'[x].lines = docs[x].lines
              /\ docs'[x].committed =>
                 \/ out'[x] # Nothing \/ ShippedFor(x)' \/ GuideOfShipment(x)' \/ EmptyShipment'
                 \/ /\ docs[x] \in Document /\ docs[x].committed /\ docs'[x].type = docs[x].type
                    /\ docs'[x].from = docs[x].from \/ ~ShippedFor(docs[x].from)
                    /\ out[x] # Nothing => out'[x] # Nothing
              /\ docs'[x].approval = "pending" =>
                 \/ docs'[x].status \in {"draft", "cancelled"}
                 \/ \E y \in Docs : docs'[y] \in Document /\ docs'[y].from = x
                 \/ docs[x] \in Document /\ docs[x].approval = "pending" /\ docs'[x].status = docs[x].status
    PROVE  \A x \in Docs : docs'[x] \in Document => Related(x)'
  <1>1. \A x : ShippedFor(x) => ShippedFor(x)'
    BY DEF ShippedFor
  <1>2. EmptyShipment => EmptyShipment'
    BY DEF EmptyShipment, Nothing
  <1> SUFFICES ASSUME NEW x \in Docs, docs'[x] \in Document PROVE Related(x)'
    OBVIOUS
  <1>3. docs[x] \in Document => Related(x)
    BY DEF SalesSerial
  <1>4. docs'[x].lines # Nothing \/ EmptyShipment'
    BY <1>2, <1>3 DEF Related
  <1>5. docs'[x].committed => out'[x] # Nothing \/ ShippedFor(x)' \/ GuideOfShipment(x)' \/ EmptyShipment'
    <2> SUFFICES ASSUME docs[x] \in Document, docs[x].committed, docs'[x].type = docs[x].type,
                        docs'[x].from = docs[x].from \/ ~ShippedFor(docs[x].from),
                        out[x] # Nothing => out'[x] # Nothing
                 PROVE  out'[x] # Nothing \/ ShippedFor(x)' \/ GuideOfShipment(x)' \/ EmptyShipment'
      OBVIOUS
    <2>1. GuideOfShipment(x) => GuideOfShipment(x)'
      BY <1>1 DEF GuideOfShipment
    <2> QED
      BY <1>1, <1>2, <1>3, <2>1 DEF Related
  <1>6. docs'[x].approval = "pending" =>
          \/ docs'[x].status \in {"draft", "cancelled"}
          \/ \E y \in Docs : docs'[y] = Removed \/ (docs'[y] \in Document /\ docs'[y].from = x)
    <2> SUFFICES ASSUME docs[x] \in Document, docs[x].approval = "pending", docs'[x].status = docs[x].status,
                        docs'[x].status \notin {"draft", "cancelled"}
                 PROVE  \E y \in Docs : docs'[y] = Removed \/ (docs'[y] \in Document /\ docs'[y].from = x)
      OBVIOUS
    <2>1. PICK y \in Docs : docs[y] = Removed \/ (docs[y] \in Document /\ docs[y].from = x)
      BY <1>3 DEF Related
    <2> QED
      BY <2>1
  <1> HIDE DEF EmptyShipment, ShippedFor, GuideOfShipment
  <1> QED
    BY <1>4, <1>5, <1>6 DEF Related, Nothing

(* Documents that go on leave the fulfillments standing.                      *)
LEMMA TasksKept ==
    ASSUME SalesBase, SalesSerial, fulfillments' = fulfillments, \A f \in Tasks : out'[f] = out[f],
           \A x \in Docs : docs[x] \in Document =>
              /\ docs[x].status # "draft" => docs'[x].status # "draft"
              /\ docs[x].committed => docs'[x].committed,
           \A x \in Docs : reserved'[x] # Nothing => reserved[x] # Nothing
    PROVE  (\A f \in Tasks : TaskStands(f)') /\ ReservationsAreBacked'
  <1>1. ASSUME NEW f \in Tasks PROVE TaskStands(f)'
    <2> SUFFICES ASSUME Present(f)
                 PROVE  /\ docs'[fulfillments[f].order].status # "draft"
                        /\ out'[f] # Nothing => fulfillments[f].status = "shipped"
                        /\ fulfillments[f].status = "shipped" => /\ docs'[fulfillments[f].order].committed
                                                                 /\ reserved'[fulfillments[f].order] = Nothing
      BY DEF TaskStands, Present, Nothing
    <2>1. docs[fulfillments[f].order] \in Document /\ fulfillments[f].order \in Docs
      BY TaskRow DEF SalesBase, OrdersExist, Fulfillment
    <2>2. TaskStands(f)
      BY DEF SalesSerial
    <2> QED
      BY <2>1, <2>2 DEF TaskStands
  <1>2. ReservationsAreBacked'
    BY DEF SalesSerial, ReservationsAreBacked, Nothing
  <1> QED
    BY <1>1, <1>2

\* update and changeStatus write one row, and its hooks.
LEMMA OneDocSerial ==
    ASSUME SalesBase, SalesSerial, ~Overlapping, NEW s \in Sessions, session[s] # Idle,
           session' = [session EXCEPT ![s] = Idle],
           NEW d \in Docs, docs[d] \in Document, NEW y \in Document,
           docs' = [docs EXCEPT ![d] = y], fulfillments' = fulfillments,
           \A f \in Tasks : out'[f] = out[f],
           \A x \in Docs \ {d} :
              /\ receivable'[x] = receivable[x] /\ journal'[x] = journal[x] /\ commission'[x] = commission[x]
              /\ reserved'[x] = reserved[x] /\ out'[x] = out[x] /\ requests'[x] = requests[x],
           reserved'[d] # Nothing => reserved[d] # Nothing,
           out[d] # Nothing => out'[d] # Nothing,
           y.type = docs[d].type, y.from = docs[d].from, y.approval = docs[d].approval,
           y.lines = docs[d].lines \/ y.lines # Nothing,
           docs[d].committed => y.committed,
           y.committed => docs[d].committed \/ out'[d] # Nothing \/ EmptyShipment',
           y.status = "draft" => docs[d].status = "draft",
           y.approval = "pending" => y.status = docs[d].status \/ y.status \in {"draft", "cancelled"},
           DocSound(y, receivable'[d], journal'[d], commission'[d], reserved'[d], out'[d], requests'[d])
    PROVE  SalesSerial'
  <1>1. docs'[d] = y /\ \A x \in Docs \ {d} : docs'[x] = docs[x]
    BY DEF SalesBase, Typed, RowsTypeOK
  <1>2. ASSUME NEW x \in Docs PROVE SoundAt(x)'
    <2>1. CASE x = d
      BY <1>1, <2>1 DEF SoundAt
    <2>2. CASE x # d
      <3>1. SoundAt(x)
        BY DEF SalesSerial
      <3>2. /\ docs'[x] = docs[x] /\ receivable'[x] = receivable[x] /\ journal'[x] = journal[x]
            /\ commission'[x] = commission[x] /\ reserved'[x] = reserved[x] /\ out'[x] = out[x]
            /\ requests'[x] = requests[x]
        BY <1>1, <2>2
      <3> HIDE DEF DocSound
      <3> QED
        BY <3>1, <3>2 DEF SoundAt
    <2> QED
      BY <2>1, <2>2
  <1>3. d \in Docs /\ docs[d] # Removed
    BY DocumentRow
  <1>4. \A x \in Docs : docs'[x] \in Document => Related(x)'
    <2>1. \A f \in Tasks : fulfillments[f].status = "shipped" =>
              /\ fulfillments'[f].status = "shipped" /\ fulfillments'[f].order = fulfillments[f].order
              /\ fulfillments'[f].picked = fulfillments[f].picked
      OBVIOUS
    <2>2. \A x \in Docs : docs[x] = Removed => docs'[x] = Removed
      BY <1>1, <1>3
    <2>3. \A x \in Docs : docs[x] \in Document => docs'[x] \in Document /\ docs'[x].from = docs[x].from
      BY <1>1
    <2>4. ASSUME NEW x \in Docs, docs'[x] \in Document
          PROVE  /\ \/ docs'[x].lines # Nothing \/ EmptyShipment'
                    \/ docs[x] \in Document /\ docs'[x].lines = docs[x].lines
                 /\ docs'[x].committed =>
                    \/ out'[x] # Nothing \/ ShippedFor(x)' \/ GuideOfShipment(x)' \/ EmptyShipment'
                    \/ /\ docs[x] \in Document /\ docs[x].committed /\ docs'[x].type = docs[x].type
                       /\ docs'[x].from = docs[x].from \/ ~ShippedFor(docs[x].from)
                       /\ out[x] # Nothing => out'[x] # Nothing
                 /\ docs'[x].approval = "pending" =>
                    \/ docs'[x].status \in {"draft", "cancelled"}
                    \/ \E z \in Docs : docs'[z] \in Document /\ docs'[z].from = x
                    \/ docs[x] \in Document /\ docs[x].approval = "pending" /\ docs'[x].status = docs[x].status
      <3>1. CASE x = d
        BY <1>1, <3>1
      <3>2. CASE x # d
        <4>1. docs'[x] = docs[x] /\ out'[x] = out[x]
          BY <1>1, <3>2
        <4> QED
          BY <2>4, <4>1
      <3> QED
        BY <3>1, <3>2
    <2> HIDE DEF EmptyShipment, ShippedFor, GuideOfShipment, Related
    <2> QED
      BY <2>1, <2>2, <2>3, <2>4, RelationsKept
  <1>5. (\A f \in Tasks : TaskStands(f)') /\ ReservationsAreBacked'
    <2>1. \A x \in Docs : docs[x] \in Document =>
              /\ docs[x].status # "draft" => docs'[x].status # "draft"
              /\ docs[x].committed => docs'[x].committed
      BY <1>1
    <2>2. \A x \in Docs : reserved'[x] # Nothing => reserved[x] # Nothing
      OBVIOUS
    <2> QED
      BY <2>1, <2>2, TasksKept
  <1>6. \A u \in Sessions : RequestStands(session[u])'
    BY NothingAsked DEF SalesBase
  <1> QED
    BY <1>2, <1>4, <1>5, <1>6 DEF SalesSerial

\* The table of transitions.
LEMMA Transitions ==
    ASSUME NEW from \in DocStatuses, NEW to, to \in Allowed[from]
    PROVE  /\ to # "draft" /\ from # "cancelled"
           /\ to \in {"sent", "accepted", "rejected", "invoiced"} => from \in {"draft", "sent", "accepted"}
           /\ to \in {"partially_paid", "paid"} => from \in {"invoiced", "partially_paid"}
  BY DEF Allowed, DocStatuses

\* Hooks of a row whose status changes without effect, is paid, is cancelled, is issued.
LEMMA SoundPassive ==
    ASSUME NEW x \in Document, NEW y \in Document, NEW owed, NEW booked, NEW earned, NEW kept, NEW left, NEW asked,
           NEW earned2, y.status # "cancelled" \/ earned2 = earned,
           y.type = x.type, y.approval = x.approval, y.committed = x.committed,
           y.status = x.status \/ y.status \in Allowed[x.status],
           y.status = x.status \/ y.status \notin {"invoiced", "cancelled"},
           DocSound(x, owed, booked, earned, kept, left, asked)
    PROVE  DocSound(y, owed, booked, earned2, kept, left, asked)
  <1>1. y # NoDoc /\ y # Removed
    BY DocumentRow
  <1>2. x.status \in DocStatuses
    BY DEF Document
  <1>3. CASE y.status = x.status
    BY <1>1, <1>3 DEF DocSound, OwedFor
  <1>4. CASE y.status \in Allowed[x.status] /\ y.status \in {"sent", "accepted", "rejected"}
    <2>1. x.status \in {"draft", "sent", "accepted"}
      BY <1>2, <1>4, Transitions
    <2> QED
      BY <1>1, <1>4, <2>1 DEF DocSound, OwedFor, Early
  <1>5. CASE y.status \in Allowed[x.status] /\ y.status \in {"partially_paid", "paid"}
    <2>1. x.status \in {"invoiced", "partially_paid"}
      BY <1>2, <1>5, Transitions
    <2> QED
      BY <1>1, <1>5, <2>1 DEF DocSound, OwedFor, Early
  <1>6. y.status # x.status => y.status \in {"sent", "accepted", "rejected", "partially_paid", "paid"}
    <2>1. y.status \in DocStatuses
      BY DEF Document
    <2> QED
      BY <1>2, <2>1, Transitions DEF DocStatuses
  <1> QED
    BY <1>3, <1>4, <1>5, <1>6

(* A cancelled row with the hooks of its cancellation.                        *)
LEMMA SoundCancelled ==
    ASSUME NEW x \in Document, NEW y \in Document, NEW owed, NEW booked \in [References -> {None, "posted", "reversed"}],
           NEW earned, NEW kept, NEW left, NEW asked \in [Rules -> {None, "pending", "approved", "rejected", "cancelled"}],
           y.type = x.type, y.approval = x.approval, y.committed = x.committed, y.status = "cancelled",
           DocSound(x, owed, booked, earned, kept, left, asked)
    PROVE  DocSound(y, IF owed = None THEN None ELSE "cancelled",
                    [ref \in References |-> IF booked[ref] = "posted" THEN "reversed" ELSE booked[ref]],
                    IF earned = None THEN None ELSE "cancelled",
                    IF x.type = "order" THEN Nothing ELSE kept, left,
                    [r \in Rules |-> IF asked[r] = "pending" THEN "cancelled" ELSE asked[r]])
  <1>1. y # NoDoc /\ y # Removed
    BY DocumentRow
  <1>2. kept # Nothing => x.type = "order"
    BY DEF DocSound
  <1>3. x.type \notin Fiscal => owed = None /\ booked["sales_document"] = None
    BY DEF DocSound
  <1>4. "sales_document" \in References /\ "sales_document_cogs" \in References
    BY DEF References
  <1>5. left # Nothing => y.committed
    BY DEF DocSound
  <1> QED
    BY <1>1, <1>2, <1>3, <1>4, <1>5 DEF DocSound, OwedFor, None, Early

(* An issued row with the hooks of its issue.                                 *)
LEMMA SoundIssued ==
    ASSUME NEW x \in Document, NEW y \in Document, NEW owed, NEW booked \in [References -> {None, "posted", "reversed"}],
           NEW earned, NEW kept, NEW left, NEW asked, NEW owed2, NEW booked2, NEW earned2, NEW left2,
           y.type = x.type, y.approval = x.approval, y.status = "invoiced",
           x.status \in {"draft", "sent", "accepted"}, y.approval # "pending",
           IF x.type \in Fiscal THEN owed2 = (IF owed = None THEN "issued" ELSE owed) ELSE owed2 = owed,
           booked2["sales_document"] = IF x.type \in Fiscal /\ booked["sales_document"] = None
                                       THEN "posted" ELSE booked["sales_document"],
           left2 # Nothing => y.committed,
           kept # Nothing => x.status # "draft",
           DocSound(x, owed, booked, earned, kept, left, asked)
    PROVE  DocSound(y, owed2, booked2, earned2, kept, left2, asked)
  <1>1. y # NoDoc /\ y # Removed
    BY DocumentRow
  <1>2. owed = None /\ booked["sales_document"] = None
    BY DEF DocSound, Early
  <1> QED
    BY <1>1, <1>2 DEF DocSound, OwedFor, Early, None

\* What the write of changeStatus knows: what it read still holds.
LEMMA StatusRead ==
    ASSUME SalesBase, SalesSerial, NEW s \in Sessions, NEW effect, Changing(s, effect)
    PROVE  LET r == session[s]
               x == docs[r.doc]
           IN  /\ r.doc \in Docs /\ x \in Document /\ r.to \in DocStatuses /\ r.seen \in Document
               /\ r # Idle /\ session' = [session EXCEPT ![s] = Idle]
               /\ r.seen.type = x.type /\ r.seen.status = x.status /\ r.seen.committed = x.committed
               /\ r.to = x.status \/ r.to \in Allowed[x.status]
               /\ x.approval = "pending" => r.to \in {"cancelled", "draft"}
               /\ Effect(r) = effect
               /\ SoundAt(r.doc)
  <1>1. /\ session[s].doc \in Docs /\ docs[session[s].doc] \in Document
        /\ session[s].to \in DocStatuses /\ session[s].seen \in Document
        /\ Effect(session[s]) = effect /\ session[s].op = "changeStatus"
        /\ session' = [session EXCEPT ![s] = Idle]
    BY ChangingStep DEF SalesBase
  <1>2. RequestStands(session[s]) /\ SoundAt(session[s].doc)
    BY <1>1 DEF SalesSerial
  <1>3. session[s] # Idle
    BY <1>1, UnderWay
  <1> QED
    BY <1>1, <1>2, <1>3 DEF RequestStands, SameRow, ValidTransition

(* update replaces lines, and nothing depends on which.                       *)
LEMMA UpdateSerial ==
    ASSUME SalesBase, SalesSerial, ~Overlapping, NEW s \in Sessions, UpdateLines(s)
    PROVE  SalesSerial'
  <1>1. PICK d \in Docs, y \in Document :
           /\ docs[d] \in Document /\ docs' = [docs EXCEPT ![d] = y] /\ y.lines # Nothing
           /\ y.type = docs[d].type /\ y.from = docs[d].from /\ y.approval = docs[d].approval
           /\ y.status = docs[d].status /\ y.committed = docs[d].committed
    BY UpdateStep, LinesRow DEF SalesBase
  <1>2. session[s] # Idle /\ session' = [session EXCEPT ![s] = Idle]
    BY UnderWay DEF UpdateLines, Done
  <1>3. UNCHANGED <<fulfillments, reserved, out, receivable, commission, journal, requests>>
    BY DEF UpdateLines, hookVars
  <1>4. DocSound(y, receivable[d], journal[d], commission[d], reserved[d], out[d], requests[d])
    <2>1. DocSound(docs[d], receivable[d], journal[d], commission[d], reserved[d], out[d], requests[d])
      BY DEF SalesSerial, SoundAt
    <2> HIDE DEF DocSound
    <2> QED
      BY <1>1, <2>1, SoundPassive
  <1> HIDE DEF DocSound
  <1> QED
    BY <1>1, <1>2, <1>3, <1>4, OneDocSerial

(* A status without effects, and a payment, leave what is owed as it was.     *)
LEMMA ChangeOnlySerial ==
    ASSUME SalesBase, SalesSerial, ~Overlapping, NEW s \in Sessions, ChangeOnly(s) \/ Pay(s)
    PROVE  SalesSerial'
  <1>1. PICK effect \in {"none", "paid"} : Changing(s, effect) /\ SetStatus(s)
    BY DEF ChangeOnly, Pay
  <1> DEFINE r == session[s]
             d == r.doc
             x == docs[d]
             y == [x EXCEPT !.status = r.to]
  <1>2. /\ d \in Docs /\ x \in Document /\ r.to \in DocStatuses /\ r.seen \in Document
        /\ r # Idle /\ session' = [session EXCEPT ![s] = Idle]
        /\ r.seen.status = x.status
        /\ r.to = x.status \/ r.to \in Allowed[x.status]
        /\ x.approval = "pending" => r.to \in {"cancelled", "draft"}
        /\ Effect(r) = effect /\ SoundAt(d)
    BY <1>1, StatusRead
  <1>3. /\ y \in Document /\ docs' = [docs EXCEPT ![d] = y]
        /\ y.status = r.to /\ y.type = x.type /\ y.from = x.from
        /\ y.approval = x.approval /\ y.lines = x.lines /\ y.committed = x.committed
    BY <1>1, SetStatusStep DEF SalesBase
  <1>4. r.to = x.status \/ r.to \notin {"invoiced", "cancelled"}
    BY <1>2 DEF Effect
  <1>5. UNCHANGED <<fulfillments, reserved, out, receivable, journal, requests>>
    BY DEF ChangeOnly, Pay, hookVars
  <1>6. \A z \in Docs \ {d} : commission'[z] = commission[z]
    BY DEF ChangeOnly, Pay, hookVars, SalesBase, HooksTyped
  <1>7. commission'[d] = commission[d] \/ r.to # "cancelled"
    <2>1. CASE ChangeOnly(s)
      BY <2>1 DEF ChangeOnly, hookVars
    <2>2. CASE Pay(s)
      <3>1. Effect(r) = "paid"
        BY <2>2 DEF Pay, Changing
      <3> QED
        BY <1>2, <3>1 DEF Effect
    <2> QED
      BY <2>1, <2>2
  <1>8. x.status \in DocStatuses
    BY <1>2 DEF Document
  <1>9. y.status = "draft" => x.status = "draft"
    BY <1>2, <1>3, <1>8, Transitions
  <1>10. DocSound(x, receivable[d], journal[d], commission[d], reserved[d], out[d], requests[d])
    BY <1>2 DEF SoundAt
  <1> HIDE DEF y, x, d, r, DocSound
  <1>11. DocSound(y, receivable[d], journal[d], commission'[d], reserved[d], out[d], requests[d])
    BY <1>2, <1>3, <1>4, <1>7, <1>10, SoundPassive
  <1>12. y.approval = "pending" => y.status = x.status \/ y.status \in {"draft", "cancelled"}
    BY <1>2, <1>3
  <1> QED
    BY <1>2, <1>3, <1>5, <1>6, <1>9, <1>11, <1>12, OneDocSerial DEF x, r

(* A cancellation closes the receivable, the entries, the commission, the     *)
(* requests and the reservations of the row it cancels.                       *)
LEMMA CancelDocSerial ==
    ASSUME SalesBase, SalesSerial, ~Overlapping, NEW s \in Sessions, CancelDocument(s)
    PROVE  SalesSerial'
  <1> DEFINE r == session[s]
             d == r.doc
             x == docs[d]
             y == [x EXCEPT !.status = r.to]
             booked == [ref \in References |-> IF journal[d][ref] = "posted" THEN "reversed" ELSE journal[d][ref]]
             asked == [q \in Rules |-> IF requests[d][q] = "pending" THEN "cancelled" ELSE requests[d][q]]
             owed == IF receivable[d] = None THEN None ELSE "cancelled"
             earned == IF commission[d] = None THEN None ELSE "cancelled"
             kept == IF x.type = "order" THEN Nothing ELSE reserved[d]
  <1>1. Changing(s, "cancelled") /\ SetStatus(s)
    BY DEF CancelDocument
  <1>2. /\ d \in Docs /\ x \in Document /\ r.to \in DocStatuses /\ r.seen \in Document
        /\ r # Idle /\ session' = [session EXCEPT ![s] = Idle]
        /\ r.seen.type = x.type /\ Effect(r) = "cancelled" /\ SoundAt(d)
    BY <1>1, StatusRead
  <1>3. /\ y \in Document /\ docs' = [docs EXCEPT ![d] = y]
        /\ y.status = r.to /\ y.type = x.type /\ y.from = x.from
        /\ y.approval = x.approval /\ y.lines = x.lines /\ y.committed = x.committed
    BY <1>1, SetStatusStep DEF SalesBase
  <1>4. r.to = "cancelled"
    BY <1>2 DEF Effect
  <1>5. UNCHANGED <<fulfillments, out>>
    BY DEF CancelDocument
  <1>6. /\ receivable \in [Docs -> {None, "issued", "cancelled"}]
        /\ commission \in [Docs -> {None, "pending", "eligible", "cancelled"}]
        /\ journal \in [Docs -> [References -> {None, "posted", "reversed"}]]
        /\ requests \in [Docs -> [Rules -> {None, "pending", "approved", "rejected", "cancelled"}]]
        /\ reserved \in [Docs -> [Products -> Nat]]
    BY DEF SalesBase, HooksTyped, Typed, RowsTypeOK
  <1>7. /\ receivable' = [receivable EXCEPT ![d] = owed] /\ commission' = [commission EXCEPT ![d] = earned]
        /\ journal' = [journal EXCEPT ![d] = booked] /\ requests' = [requests EXCEPT ![d] = asked]
    BY <1>2, <1>6 DEF CancelDocument
  <1>8. reserved' = [reserved EXCEPT ![d] = kept]
    <2>1. CASE x.type = "order"
      BY <1>2, <2>1 DEF CancelDocument, ReleaseByReference
    <2>2. CASE x.type # "order"
      <3>1. reserved' = reserved
        BY <1>2, <2>2 DEF CancelDocument
      <3>2. [reserved EXCEPT ![d] = reserved[d]] = reserved
        BY <1>2, <1>6
      <3> QED
        BY <2>2, <3>1, <3>2
    <2> QED
      BY <2>1, <2>2
  <1>9. DocSound(x, receivable[d], journal[d], commission[d], reserved[d], out[d], requests[d])
    BY <1>2 DEF SoundAt
  <1>10. DocSound(y, owed, booked, earned, kept, out[d], asked)
    <2>1. /\ journal[d] \in [References -> {None, "posted", "reversed"}]
          /\ requests[d] \in [Rules -> {None, "pending", "approved", "rejected", "cancelled"}]
      BY <1>2, <1>6
    <2>2. y.status = "cancelled"
      BY <1>3, <1>4
    <2>3. PICK w \in Document : w = y
      BY <1>3
    <2> HIDE DEF DocSound, y
    <2> QED
      BY <1>2, <1>3, <1>9, <2>1, <2>2, <2>3, SoundCancelled
  <1> HIDE DEF y, owed, booked, earned, kept, asked, DocSound
  <1>11. /\ receivable'[d] = owed /\ journal'[d] = booked /\ commission'[d] = earned
         /\ reserved'[d] = kept /\ requests'[d] = asked /\ out'[d] = out[d]
         /\ \A z \in Docs \ {d} :
              /\ receivable'[z] = receivable[z] /\ journal'[z] = journal[z] /\ commission'[z] = commission[z]
              /\ reserved'[z] = reserved[z] /\ requests'[z] = requests[z] /\ out'[z] = out[z]
         /\ \A f \in Tasks : out'[f] = out[f]
    BY <1>2, <1>5, <1>6, <1>7, <1>8
  <1>12. kept # Nothing => reserved[d] # Nothing
    BY DEF kept
  <1>13. y.status = "cancelled"
    BY <1>3, <1>4
  <1> HIDE DEF x, d, r
  <1> QED
    BY <1>2, <1>3, <1>5, <1>10, <1>11, <1>12, <1>13, OneDocSerial DEF x, r

\* The issue of a document: what it does to the hooks and to the shelf.
LEMMA InvoiceRows ==
    ASSUME SalesBase, SalesSerial, NEW s \in Sessions, Invoice(s)
    PROVE  LET d == session[s].doc
               x == docs[d]
           IN  /\ UNCHANGED <<fulfillments, reserved, requests>>
               /\ \A z \in Docs \ {d} :
                    /\ receivable'[z] = receivable[z] /\ journal'[z] = journal[z]
                    /\ commission'[z] = commission[z] /\ out'[z] = out[z]
               /\ \A f \in Tasks : out'[f] = out[f]
               /\ IF x.type \in Fiscal
                  THEN receivable'[d] = (IF receivable[d] = None THEN "issued" ELSE receivable[d])
                  ELSE receivable'[d] = receivable[d]
               /\ journal'[d]["sales_document"] = IF x.type \in Fiscal /\ journal[d]["sales_document"] = None
                                                  THEN "posted" ELSE journal[d]["sales_document"]
               /\ IF x.committed THEN out'[d] = out[d]
                  ELSE \/ out'[d] = [p \in Products |-> out[d][p] + x.lines[p]]
                       \/ out'[d] = [p \in Products |-> out[d][p] - x.lines[p]]
  <1> DEFINE d == session[s].doc
             x == docs[d]
             moves == MovesStock(session[s].seen)
             cogs == IF moves THEN Generate(journal[d], "sales_document_cogs") ELSE journal[d]
  <1>1. d \in Docs /\ x \in Document /\ session[s].seen.committed = x.committed
    BY StatusRead DEF Invoice
  <1>2. UNCHANGED <<fulfillments, reserved, requests>>
    BY DEF Invoice
  <1>3. \A f \in Tasks : out'[f] = out[f]
    BY InvoiceHooks DEF SalesBase
  <1>4. /\ receivable \in [Docs -> {None, "issued", "cancelled"}]
        /\ commission \in [Docs -> {None, "pending", "eligible", "cancelled"}]
        /\ journal \in [Docs -> [References -> {None, "posted", "reversed"}]]
        /\ out \in [Docs \cup Tasks -> [Products -> Int]]
    BY DEF SalesBase, HooksTyped, Typed, RowsTypeOK
  <1>5. IF x.type \in Fiscal
        THEN /\ receivable' = [receivable EXCEPT ![d] = IF @ = None THEN "issued" ELSE @]
             /\ commission' = [commission EXCEPT ![d] = IF @ = None THEN "pending" ELSE @]
             /\ journal' = [journal EXCEPT ![d] = Generate(cogs, "sales_document")]
        ELSE /\ journal' = [journal EXCEPT ![d] = cogs]
             /\ UNCHANGED <<receivable, commission>>
    BY DEF Invoice
  <1>6. IF moves THEN DecrementStock(d) ELSE UNCHANGED out
    BY DEF Invoice
  <1>7. cogs \in [References -> {None, "posted", "reversed"}] /\ cogs["sales_document"] = journal[d]["sales_document"]
    BY <1>1, <1>4 DEF Generate, References
  <1>8. moves <=> ~x.committed
    BY <1>1 DEF MovesStock
  <1> HIDE DEF cogs, moves, d
  <1>9. Generate(cogs, "sales_document")["sales_document"] =
          IF journal[d]["sales_document"] = None THEN "posted" ELSE journal[d]["sales_document"]
    BY <1>7 DEF Generate, References
  <1>10. /\ \A z \in Docs \ {d} :
              receivable'[z] = receivable[z] /\ journal'[z] = journal[z] /\ commission'[z] = commission[z]
         /\ IF x.type \in Fiscal
            THEN receivable'[d] = (IF receivable[d] = None THEN "issued" ELSE receivable[d])
            ELSE receivable'[d] = receivable[d]
    BY <1>1, <1>4, <1>5
  <1>11. journal'[d]["sales_document"] = IF x.type \in Fiscal /\ journal[d]["sales_document"] = None
                                         THEN "posted" ELSE journal[d]["sales_document"]
    BY <1>1, <1>4, <1>5, <1>7, <1>9
  <1>12. /\ \A z \in Docs \ {d} : out'[z] = out[z]
         /\ IF x.committed THEN out'[d] = out[d]
            ELSE \/ out'[d] = [p \in Products |-> out[d][p] + x.lines[p]]
                 \/ out'[d] = [p \in Products |-> out[d][p] - x.lines[p]]
    <2>1. CASE moves
      <3>1. \/ out' = [out EXCEPT ![d] = [p \in Products |-> out[d][p] - x.lines[p]]]
            \/ out' = [out EXCEPT ![d] = [p \in Products |-> out[d][p] + x.lines[p]]]
        BY <1>1, <1>4, <1>6, <2>1 DEF DecrementStock
      <3> QED
        BY <1>1, <1>4, <1>8, <2>1, <3>1
    <2>2. CASE ~moves
      BY <1>6, <1>8, <2>2
    <2> QED
      BY <2>1, <2>2
  <1> QED
    BY <1>2, <1>3, <1>10, <1>11, <1>12 DEF d

(* An issue opens the receivable and the entries of a fiscal document, and    *)
(* moves stock when the flag says none was moved.                             *)
LEMMA InvoiceSerial ==
    ASSUME SalesBase, SalesSerial, ~Overlapping, NEW s \in Sessions, Invoice(s)
    PROVE  SalesSerial'
  <1> DEFINE r == session[s]
             d == r.doc
             x == docs[d]
             y == [x EXCEPT !.status = "invoiced", !.committed = x.committed \/ ~r.seen.committed]
  <1>1. /\ d \in Docs /\ x \in Document /\ r.to \in DocStatuses /\ r.seen \in Document
        /\ r # Idle /\ session' = [session EXCEPT ![s] = Idle]
        /\ r.seen.status = x.status /\ r.seen.committed = x.committed
        /\ r.to = x.status \/ r.to \in Allowed[x.status]
        /\ x.approval = "pending" => r.to \in {"cancelled", "draft"}
        /\ Effect(r) = "invoiced" /\ SoundAt(d)
    BY StatusRead DEF Invoice
  <1>2. /\ y \in Document /\ docs' = [docs EXCEPT ![d] = y]
        /\ y.status = "invoiced" /\ y.type = x.type /\ y.from = x.from
        /\ y.approval = x.approval /\ y.lines = x.lines
        /\ (y.committed <=> x.committed \/ ~r.seen.committed)
    BY InvoiceStep DEF SalesBase
  <1>3. r.to = "invoiced" /\ r.to # x.status
    BY <1>1 DEF Effect
  <1>4. x.status \in {"draft", "sent", "accepted"} /\ x.approval # "pending"
    <2>1. x.status \in DocStatuses
      BY <1>1 DEF Document
    <2> HIDE DEF x, r
    <2> QED
      BY <1>1, <1>3, <2>1, Transitions
  <1>5. y.committed
    BY <1>1, <1>2
  <1>6. /\ UNCHANGED <<fulfillments, reserved, requests>>
        /\ \A z \in Docs \ {d} :
             /\ receivable'[z] = receivable[z] /\ journal'[z] = journal[z]
             /\ commission'[z] = commission[z] /\ out'[z] = out[z]
        /\ \A f \in Tasks : out'[f] = out[f]
        /\ IF x.type \in Fiscal
           THEN receivable'[d] = (IF receivable[d] = None THEN "issued" ELSE receivable[d])
           ELSE receivable'[d] = receivable[d]
        /\ journal'[d]["sales_document"] = IF x.type \in Fiscal /\ journal[d]["sales_document"] = None
                                           THEN "posted" ELSE journal[d]["sales_document"]
        /\ IF x.committed THEN out'[d] = out[d]
           ELSE \/ out'[d] = [p \in Products |-> out[d][p] + x.lines[p]]
                \/ out'[d] = [p \in Products |-> out[d][p] - x.lines[p]]
    BY InvoiceRows
  <1>7. DocSound(x, receivable[d], journal[d], commission[d], reserved[d], out[d], requests[d])
    BY <1>1 DEF SoundAt
  <1>8. reserved[d] # Nothing => x.status # "draft"
    BY <1>1, <1>7 DEF DocSound
  <1>9. journal[d] \in [References -> {None, "posted", "reversed"}]
    BY <1>1 DEF SalesBase, HooksTyped
  <1>10. out[d] # Nothing => x.committed
    BY <1>1, <1>7 DEF DocSound
  <1>11. ~x.committed => out'[d] # Nothing \/ EmptyShipment'
    <2> SUFFICES ASSUME ~x.committed, out'[d] = Nothing PROVE EmptyShipment'
      OBVIOUS
    <2>1. out[d] = Nothing
      BY <1>10
    <2>2. x.lines \in [Products -> Int]
      BY <1>1, QuantityAssumption DEF Document, Quantities
    <2>3. \A p \in Products : x.lines[p] = 0
      <3>1. \A p \in Products : out[d][p] = 0 /\ out'[d][p] = 0
        BY <2>1 DEF Nothing
      <3> SUFFICES ASSUME NEW p \in Products PROVE x.lines[p] = 0
        OBVIOUS
      <3>2. out'[d][p] = out[d][p] + x.lines[p] \/ out'[d][p] = out[d][p] - x.lines[p]
        <4> HIDE DEF x, d
        <4>1. CASE out'[d] = [q \in Products |-> out[d][q] + x.lines[q]]
          BY <4>1
        <4>2. CASE out'[d] = [q \in Products |-> out[d][q] - x.lines[q]]
          BY <4>2
        <4> QED
          BY <1>6, <4>1, <4>2
      <3> HIDE DEF x, d
      <3> QED
        BY <2>2, <3>1, <3>2
    <2>4. x.lines = Nothing
      <3> HIDE DEF x
      <3> QED
        BY <2>2, <2>3 DEF Nothing
    <2>5. Related(d)
      BY <1>1 DEF SalesSerial
    <2>6. EmptyShipment
      BY <2>4, <2>5 DEF Related
    <2> QED
      BY <1>6, <2>6 DEF EmptyShipment, Nothing
  <1> HIDE DEF y, x, d, r, DocSound
  <1>12. DocSound(y, receivable'[d], journal'[d], commission'[d], reserved[d], out'[d], requests[d])
    BY <1>1, <1>2, <1>4, <1>5, <1>6, <1>7, <1>8, <1>9, SoundIssued
  <1>13. y.committed => x.committed \/ out'[d] # Nothing \/ EmptyShipment'
    BY <1>11
  <1>14. out[d] # Nothing => out'[d] # Nothing
    BY <1>6, <1>10
  <1> HIDE DEF EmptyShipment
  <1>15. /\ \A z \in Docs \ {d} :
              /\ receivable'[z] = receivable[z] /\ journal'[z] = journal[z] /\ commission'[z] = commission[z]
              /\ reserved'[z] = reserved[z] /\ out'[z] = out[z] /\ requests'[z] = requests[z]
         /\ reserved'[d] = reserved[d] /\ requests'[d] = requests[d]
    BY <1>6
  <1>16. y.status # "draft" /\ y.approval # "pending" /\ (x.committed => y.committed) /\ y.lines = x.lines
    BY <1>2, <1>4, <1>5
  <1> QED
    BY <1>1, <1>2, <1>6, <1>12, <1>13, <1>14, <1>15, <1>16, OneDocSerial DEF x, r

\* The handlers that only read.
LEMMA StillSerial ==
    ASSUME SalesSerial, UNCHANGED <<docs, fulfillments, reserved, out, hookVars>>,
           \A u \in Sessions : RequestStands(session[u])'
    PROVE  SalesSerial'
  <1>1. UNCHANGED <<receivable, commission, journal, requests>>
    BY DEF hookVars
  <1>2. \A d \in Docs : SoundAt(d)'
    <2>1. \A d \in Docs : SoundAt(d)
      BY DEF SalesSerial
    <2> HIDE DEF DocSound
    <2> QED
      BY <1>1, <2>1 DEF SoundAt
  <1>3. \A d \in Docs : docs'[d] \in Document => Related(d)'
    BY DEF SalesSerial, Related, EmptyShipment, ShippedFor, GuideOfShipment, Nothing
  <1>4. \A f \in Tasks : TaskStands(f)'
    BY DEF SalesSerial, TaskStands, Present, Nothing
  <1>5. ReservationsAreBacked'
    BY DEF SalesSerial, ReservationsAreBacked, Nothing
  <1> QED
    BY <1>2, <1>3, <1>4, <1>5 DEF SalesSerial

(* What a request on documents reads is what is there.                        *)
LEMMA DocReadSerial ==
    ASSUME SalesBase, SalesSerial, ~Overlapping', NEW s \in Sessions, DocRead(s)
    PROVE  SalesSerial'
  <1>1. UNCHANGED <<docs, fulfillments, reserved, out, hookVars>>
    BY DocReadStep DEF SalesBase
  <1>2. Idle.op = "idle" /\ DOMAIN Accepts = {"assign", "startPicking", "pack", "ship", "cancel"}
    BY DEF Idle, Accepts
  <1>3. \A u \in Sessions : RequestStands(session[u])'
    <2>1. CASE \E d \in Docs : ReadForUpdate(s, d)
      <3>1. PICK d \in Docs : ReadForUpdate(s, d)
        BY <2>1
      <3>2. PICK r : r = [op |-> "update", doc |-> d]
        OBVIOUS
      <3>3. r # Idle /\ session' = [session EXCEPT ![s] = r] /\ RequestStands(r)'
        BY <1>1, <1>2, <3>1, <3>2 DEF ReadForUpdate, Start, RequestStands
      <3> QED
        BY <3>3, AskedAlone DEF SalesBase
    <2>2. CASE \E d \in Docs : ReadForRemove(s, d)
      <3>1. PICK d \in Docs : ReadForRemove(s, d)
        BY <2>2
      <3>2. PICK r : r = [op |-> "remove", doc |-> d]
        OBVIOUS
      <3>3. r # Idle /\ session' = [session EXCEPT ![s] = r] /\ RequestStands(r)'
        BY <1>1, <1>2, <3>1, <3>2 DEF ReadForRemove, Start, RequestStands
      <3> QED
        BY <3>3, AskedAlone DEF SalesBase
    <2>3. CASE \E d \in Docs, to \in DocTypes : ReadForConvert(s, d, to)
      <3>1. PICK d \in Docs, to \in DocTypes : ReadForConvert(s, d, to)
        BY <2>3
      <3>2. docs[d] \in Document
        BY <3>1, DocExists DEF ReadForConvert, SalesBase
      <3>3. PICK x \in Document : x = docs[d]
        BY <3>2
      <3>4. PICK r : r = [op |-> "convert", doc |-> d, to |-> to, seen |-> x]
        OBVIOUS
      <3>5. r # Idle /\ session' = [session EXCEPT ![s] = r]
        BY <1>2, <3>1, <3>3, <3>4 DEF ReadForConvert, Start
      <3>6. to \in CONVERSION_MAP[x.type]
        BY <3>1, <3>3 DEF ReadForConvert
      <3>7. RequestStands(r)'
        BY <1>1, <1>2, <3>2, <3>3, <3>4, <3>6 DEF RequestStands, SameRow
      <3> QED
        BY <3>5, <3>7, AskedAlone DEF SalesBase
    <2>4. CASE \E d \in Docs, to \in DocStatuses : ReadForStatus(s, d, to)
      <3>1. PICK d \in Docs, to \in DocStatuses : ReadForStatus(s, d, to)
        BY <2>4
      <3>2. docs[d] \in Document
        BY <3>1, DocExists DEF ReadForStatus, SalesBase
      <3>3. PICK x \in Document : x = docs[d]
        BY <3>2
      <3>4. PICK r : r = [op |-> "changeStatus", doc |-> d, to |-> to, seen |-> x]
        OBVIOUS
      <3>5. r # Idle /\ session' = [session EXCEPT ![s] = r]
        BY <1>2, <3>1, <3>3, <3>4 DEF ReadForStatus, Start
      <3>6. ValidTransition(x.status, to) /\ ~Blocks(x.approval, to)
        BY <3>1, <3>3 DEF ReadForStatus
      <3>7. RequestStands(r)'
        BY <1>1, <1>2, <3>2, <3>3, <3>4, <3>6 DEF RequestStands, SameRow, Blocks
      <3> QED
        BY <3>5, <3>7, AskedAlone DEF SalesBase
    <2> QED
      BY <2>1, <2>2, <2>3, <2>4 DEF DocRead
  <1> QED
    BY <1>1, <1>3, StillSerial

(* So is what a request of the floor reads.                                   *)
LEMMA TaskReadSerial ==
    ASSUME SalesBase, SalesSerial, ~Overlapping', NEW s \in Sessions, UNCHANGED hookVars,
           TaskRead(s) \/ WritePick(s)
    PROVE  SalesSerial'
  <1>1. UNCHANGED <<docs, fulfillments, reserved, out>>
    BY TaskReadStep, WritePickStep DEF SalesBase
  <1>2. Idle.op = "idle" /\ DOMAIN Accepts = {"assign", "startPicking", "pack", "ship", "cancel"}
    BY DEF Idle, Accepts
  <1>3. \A u \in Sessions : RequestStands(session[u])'
    <2>1. CASE \E f \in Tasks, op \in DOMAIN Accepts : ReadTask(s, op, f)
      <3>1. PICK f \in Tasks, op \in DOMAIN Accepts : ReadTask(s, op, f)
        BY <2>1
      <3>2. PICK r : r = [op |-> op, task |-> f]
        OBVIOUS
      <3>3. r # Idle /\ session' = [session EXCEPT ![s] = r]
        BY <1>2, <3>1, <3>2 DEF ReadTask, Start
      <3>4. op \notin {"pick", "picked", "remove", "convert", "changeStatus"}
        BY <1>2
      <3>5. fulfillments'[f].status \in Accepts[op]
        BY <1>1, <3>1 DEF ReadTask
      <3>6. RequestStands(r)'
        BY <3>2, <3>4, <3>5 DEF RequestStands
      <3> QED
        BY <3>3, <3>6, AskedAlone DEF SalesBase
    <2>2. CASE \E f \in Tasks, p \in Products : ReadPick(s, f, p)
      <3>1. PICK f \in Tasks, p \in Products : ReadPick(s, f, p)
        BY <2>2
      <3>2. PICK status \in PickStatuses, qty \in 0..MaxQuantity :
               session' = [session EXCEPT ![s] =
                  [op |-> "pick", task |-> f, item |-> p, status |-> status, quantity |-> qty,
                   starts |-> fulfillments[f].status = "assigned"]]
        BY <3>1 DEF ReadPick, Start
      <3>3. PICK r : r = [op |-> "pick", task |-> f, item |-> p, status |-> status, quantity |-> qty,
                          starts |-> fulfillments[f].status = "assigned"]
        OBVIOUS
      <3>4. r.op = "pick" /\ r.task = f /\ r # Idle
        BY <1>2, <3>3
      <3>5. fulfillments'[f].status \in {"picking", "assigned"}
        BY <1>1, <3>1 DEF ReadPick
      <3>6. RequestStands(r)'
        BY <1>2, <3>4, <3>5 DEF RequestStands
      <3>7. session' = [session EXCEPT ![s] = r]
        BY <3>2, <3>3
      <3> QED
        BY <3>4, <3>6, <3>7, AskedAlone DEF SalesBase
    <2>3. CASE WritePick(s)
      <3>1. PICK w \in PickWritten : session' = [session EXCEPT ![s] = w] /\ w.task = session[s].task
        BY <2>3, WritePickStep DEF SalesBase
      <3>2. w.op = "picked" /\ w # Idle
        BY <1>2 DEF PickWritten
      <3>3. fulfillments[session[s].task].status \in {"picking", "assigned"}
        BY <2>3 DEF WritePick, SalesSerial, RequestStands
      <3>4. RequestStands(w)'
        BY <1>1, <1>2, <3>1, <3>2, <3>3 DEF RequestStands
      <3> QED
        BY <3>1, <3>2, <3>4, AskedAlone DEF SalesBase
    <2> QED
      BY <2>1, <2>2, <2>3 DEF TaskRead
  <1> QED
    BY <1>1, <1>3, StillSerial

(* A rollback changes no row.                                                 *)
LEMMA AbortSerial ==
    ASSUME SalesBase, SalesSerial, ~Overlapping, NEW s \in Sessions, UNCHANGED hookVars, Abort(s)
    PROVE  SalesSerial'
  <1>1. \A u \in Sessions : RequestStands(session[u])'
    BY NothingAsked DEF Abort, Done, SalesBase
  <1> QED
    BY <1>1, StillSerial DEF Abort

\* A new document.
LEMMA SoundDraft ==
    ASSUME NEW y, IsDraft(y), NEW owed, NEW booked, NEW earned, NEW kept, NEW left, NEW asked, NEW asked2,
           DocSound(NoDoc, owed, booked, earned, kept, left, asked),
           y.approval = "pending" => \E r \in Rules : asked2[r] = "pending"
    PROVE  DocSound(y, owed, booked, earned, kept, left, asked2)
  <1>1. y \in Document /\ y # NoDoc /\ y # Removed /\ y.status = "draft"
    BY DocumentRow DEF IsDraft
  <1> QED
    BY <1>1 DEF DocSound, OwedFor, Early, None

\* A write without a session leaves what the others read; an approval may only be settled.
LEMMA RequestsLater ==
    ASSUME SalesBase, SalesSerial, session' = session, fulfillments' = fulfillments,
           \A x \in Docs : docs[x] \in Document =>
              /\ docs'[x] \in Document /\ SameRow(docs[x], docs'[x])
              /\ docs'[x].approval = "pending" => docs[x].approval = "pending"
    PROVE  \A u \in Sessions : RequestStands(session[u])'
  <1> SUFFICES ASSUME NEW u \in Sessions PROVE RequestStands(session[u])'
    OBVIOUS
  <1> DEFINE r == session[u]
  <1>1. RequestStands(r)
    BY DEF SalesSerial
  <1>2. r.op = "remove" => docs'[r.doc].status = "draft"
    <2> SUFFICES ASSUME r.op = "remove" PROVE docs'[r.doc].status = "draft"
      OBVIOUS
    <2>1. r.doc \in Docs /\ docs[r.doc].status = "draft"
      BY <1>1, RequestKinds DEF SalesBase, RequestStands
    <2>2. docs[r.doc] \in Document
      <3>1. docs[r.doc] \in Document \cup {NoDoc, Removed}
        BY <2>1 DEF SalesBase, Typed, RowsTypeOK
      <3> QED
        BY <2>1, <3>1 DEF NoDoc, Removed
    <2> QED
      BY <2>1, <2>2 DEF SameRow
  <1>3. r.op \in {"convert", "changeStatus"} => r.doc \in Docs /\ docs[r.doc] \in Document
    BY <1>1, RequestKinds DEF SalesBase, RequestStands
  <1> QED
    BY <1>1, <1>2, <1>3 DEF RequestStands, SameRow

(* A draft stands on its own: it owes nothing, moved nothing and is linked to *)
(* nothing.                                                                   *)
LEMMA NewDocSerial ==
    ASSUME SalesBase, SalesSerial, NEW d \in Docs, docs[d] = NoDoc, NEW y, IsDraft(y),
           docs' = [docs EXCEPT ![d] = y],
           UNCHANGED <<fulfillments, reserved, out, session, receivable, commission, journal>>,
           \A x \in Docs \ {d} : requests'[x] = requests[x],
           y.approval = "pending" => \E r \in Rules : requests'[d][r] = "pending",
           y.lines # Nothing \/ EmptyShipment
    PROVE  SalesSerial'
  <1>1. docs'[d] = y /\ \A x \in Docs \ {d} : docs'[x] = docs[x]
    BY DEF SalesBase, Typed, RowsTypeOK
  <1>2. \A x \in Docs : docs[x] \in Document \/ docs[x] = Removed => x # d
    BY DocumentRow DEF NoDoc, Removed
  <1>3. ASSUME NEW x \in Docs PROVE SoundAt(x)'
    <2>1. DocSound(docs[x], receivable[x], journal[x], commission[x], reserved[x], out[x], requests[x])
      BY DEF SalesSerial, SoundAt
    <2>2. CASE x = d
      <3> HIDE DEF DocSound, IsDraft
      <3>1. DocSound(y, receivable[x], journal[x], commission[x], reserved[x], out[x], requests'[x])
        BY <2>1, <2>2, SoundDraft
      <3> QED
        BY <1>1, <2>2, <3>1 DEF SoundAt
    <2>3. CASE x # d
      <3> HIDE DEF DocSound
      <3> QED
        BY <1>1, <2>1, <2>3 DEF SoundAt
    <2> QED
      BY <2>2, <2>3
  <1>4. \A x \in Docs : docs'[x] \in Document => Related(x)'
    <2>1. \A f \in Tasks : fulfillments[f].status = "shipped" =>
              /\ fulfillments'[f].status = "shipped" /\ fulfillments'[f].order = fulfillments[f].order
              /\ fulfillments'[f].picked = fulfillments[f].picked
      OBVIOUS
    <2>2. \A x \in Docs : docs[x] = Removed => docs'[x] = Removed
      BY <1>1, <1>2
    <2>3. \A x \in Docs : docs[x] \in Document => docs'[x] \in Document /\ docs'[x].from = docs[x].from
      BY <1>1, <1>2
    <2>4. EmptyShipment' <=> EmptyShipment
      BY DEF EmptyShipment, Nothing
    <2>5. ASSUME NEW x \in Docs, docs'[x] \in Document
          PROVE  /\ \/ docs'[x].lines # Nothing \/ EmptyShipment'
                    \/ docs[x] \in Document /\ docs'[x].lines = docs[x].lines
                 /\ docs'[x].committed =>
                    \/ out'[x] # Nothing \/ ShippedFor(x)' \/ GuideOfShipment(x)' \/ EmptyShipment'
                    \/ /\ docs[x] \in Document /\ docs[x].committed /\ docs'[x].type = docs[x].type
                       /\ docs'[x].from = docs[x].from \/ ~ShippedFor(docs[x].from)
                       /\ out[x] # Nothing => out'[x] # Nothing
                 /\ docs'[x].approval = "pending" =>
                    \/ docs'[x].status \in {"draft", "cancelled"}
                    \/ \E z \in Docs : docs'[z] \in Document /\ docs'[z].from = x
                    \/ docs[x] \in Document /\ docs[x].approval = "pending" /\ docs'[x].status = docs[x].status
      <3>1. CASE x = d
        BY <1>1, <2>4, <3>1 DEF IsDraft
      <3>2. CASE x # d
        <4>1. docs'[x] = docs[x] /\ out'[x] = out[x]
          BY <1>1, <3>2
        <4> QED
          BY <2>5, <4>1
      <3> QED
        BY <3>1, <3>2
    <2> HIDE DEF EmptyShipment, ShippedFor, GuideOfShipment, Related
    <2> QED
      BY <2>1, <2>2, <2>3, <2>5, RelationsKept
  <1>5. (\A f \in Tasks : TaskStands(f)') /\ ReservationsAreBacked'
    <2>1. \A x \in Docs : docs[x] \in Document =>
              /\ docs[x].status # "draft" => docs'[x].status # "draft"
              /\ docs[x].committed => docs'[x].committed
      BY <1>1, <1>2
    <2>2. /\ \A x \in Docs : reserved'[x] # Nothing => reserved[x] # Nothing
          /\ \A f \in Tasks : out'[f] = out[f]
      OBVIOUS
    <2> QED
      BY <2>1, <2>2, TasksKept
  <1>6. \A u \in Sessions : RequestStands(session[u])'
    <2>1. \A x \in Docs : docs[x] \in Document =>
              /\ docs'[x] \in Document /\ SameRow(docs[x], docs'[x])
              /\ docs'[x].approval = "pending" => docs[x].approval = "pending"
      BY <1>1, <1>2 DEF SameRow
    <2> QED
      BY <2>1, RequestsLater
  <1> QED
    BY <1>3, <1>4, <1>5, <1>6 DEF SalesSerial

(* create and duplicate make such a draft.                                    *)
LEMMA MakeSerial ==
    ASSUME SalesBase, SalesSerial, NEW d \in Docs,
           \/ \E type \in DocTypes : CreateDocument(d, type)
           \/ \E source \in Docs : Duplicate(d, source)
    PROVE  SalesSerial'
  <1>1. CASE \E type \in DocTypes : CreateDocument(d, type)
    <2>1. PICK y \in Document, asked \in [Rules -> {None, "pending", "approved", "rejected", "cancelled"}] :
             /\ IsDraft(y) /\ y.lines # Nothing
             /\ y.approval = "pending" => \E r \in Rules : asked[r] = "pending"
             /\ docs' = [docs EXCEPT ![d] = y] /\ requests' = [requests EXCEPT ![d] = asked]
      BY <1>1, CreateStep DEF SalesBase
    <2>2. /\ docs[d] = NoDoc
          /\ UNCHANGED <<fulfillments, reserved, out, session, receivable, commission, journal>>
      BY <1>1, CreateStep DEF SalesBase
    <2>3. requests'[d] = asked /\ \A x \in Docs \ {d} : requests'[x] = requests[x]
      BY <2>1 DEF SalesBase, HooksTyped
    <2> QED
      BY <2>1, <2>2, <2>3, NewDocSerial
  <1>2. CASE \E source \in Docs : Duplicate(d, source)
    <2>1. PICK source \in Docs : Duplicate(d, source)
      BY <1>2
    <2>2. PICK y \in Document :
             /\ IsDraft(y) /\ y.lines = docs[source].lines /\ y.approval = "not_required"
             /\ docs' = [docs EXCEPT ![d] = y]
      BY <2>1, DuplicateStep DEF SalesBase
    <2>3. /\ docs[d] = NoDoc /\ docs[source] \in Document
          /\ UNCHANGED <<fulfillments, reserved, out, session, receivable, commission, journal, requests>>
      BY <2>1, DuplicateStep DEF SalesBase, hookVars
    <2>4. docs[source].lines # Nothing \/ EmptyShipment
      BY <2>3 DEF SalesSerial, Related
    <2> QED
      BY <2>2, <2>3, <2>4, NewDocSerial
  <1> QED
    BY <1>1, <1>2

(* A decision settles the request that held the document back.                *)
LEMMA DecideSerial ==
    ASSUME SalesBase, SalesSerial, NEW d \in Docs, NEW r \in Rules, Decide(d, r)
    PROVE  SalesSerial'
  <1>1. UNCHANGED <<fulfillments, reserved, out, session, receivable, commission, journal>>
    BY DecideStep DEF SalesBase
  <1>2. PICK asked \in [Rules -> {None, "pending", "approved", "rejected", "cancelled"}] :
           /\ requests' = [requests EXCEPT ![d] = asked]
           /\ \A q \in Rules : asked[q] = "pending" => requests[d][q] = "pending"
    BY DecideStep DEF SalesBase
  <1>3. requests'[d] = asked /\ \A x \in Docs \ {d} : requests'[x] = requests[x]
    BY <1>2 DEF SalesBase, HooksTyped
  <1>4. /\ \A x \in Docs \ {d} : docs'[x] = docs[x]
        /\ docs[d] \notin Document => docs'[d] = docs[d]
        /\ docs[d] \in Document =>
              /\ docs'[d] \in Document /\ docs'[d].type = docs[d].type /\ docs'[d].from = docs[d].from
              /\ docs'[d].lines = docs[d].lines /\ docs'[d].status = docs[d].status
              /\ docs'[d].committed = docs[d].committed /\ docs'[d].approval \in {"approved", "rejected"}
    <2>1. docs \in [Docs -> Document \cup {NoDoc, Removed}]
      BY DEF SalesBase, Typed, RowsTypeOK
    <2>2. CASE docs[d] \notin Document /\ docs' = docs
      BY <2>2
    <2>3. ASSUME NEW y \in Document, docs[d] \in Document, docs' = [docs EXCEPT ![d] = y],
                 y.type = docs[d].type, y.from = docs[d].from, y.lines = docs[d].lines,
                 y.status = docs[d].status, y.committed = docs[d].committed,
                 y.approval \in {"approved", "rejected"}
          PROVE  /\ \A x \in Docs \ {d} : docs'[x] = docs[x]
                 /\ docs'[d] \in Document /\ docs'[d].type = docs[d].type /\ docs'[d].from = docs[d].from
                 /\ docs'[d].lines = docs[d].lines /\ docs'[d].status = docs[d].status
                 /\ docs'[d].committed = docs[d].committed /\ docs'[d].approval \in {"approved", "rejected"}
      <3>1. docs'[d] = y
        BY <2>1, <2>3
      <3> QED
        BY <2>1, <2>3, <3>1
    <2> QED
      BY <2>2, <2>3, DecideStep DEF SalesBase
  <1>5. ASSUME NEW x \in Docs PROVE SoundAt(x)'
    <2>1. DocSound(docs[x], receivable[x], journal[x], commission[x], reserved[x], out[x], requests[x])
      BY DEF SalesSerial, SoundAt
    <2>2. CASE x # d
      <3> HIDE DEF DocSound
      <3> QED
        BY <1>1, <1>3, <1>4, <2>1, <2>2 DEF SoundAt
    <2>3. CASE x = d /\ docs[d] \in Document
      <3>1. docs'[d] # NoDoc /\ docs'[d] # Removed
        BY <1>4, <2>3, DocumentRow
      <3> QED
        BY <1>1, <1>2, <1>3, <1>4, <2>1, <2>3, <3>1 DEF SoundAt, DocSound, OwedFor, Nothing
    <2>4. CASE x = d /\ docs[d] \notin Document
      BY <1>1, <1>3, <1>4, <2>1, <2>4 DEF SoundAt, DocSound, Nothing
    <2> QED
      BY <2>2, <2>3, <2>4
  <1>6. \A x \in Docs : docs[x] \in Document <=> docs'[x] \in Document
    BY <1>4
  <1>7. \A x \in Docs : docs'[x] \in Document => Related(x)'
    <2>1. \A f \in Tasks : fulfillments[f].status = "shipped" =>
              /\ fulfillments'[f].status = "shipped" /\ fulfillments'[f].order = fulfillments[f].order
              /\ fulfillments'[f].picked = fulfillments[f].picked
      BY <1>1
    <2>2. \A x \in Docs : docs[x] = Removed => docs'[x] = Removed
      BY <1>4, DocumentRow
    <2>3. \A x \in Docs : docs[x] \in Document => docs'[x] \in Document /\ docs'[x].from = docs[x].from
      BY <1>4
    <2>4. ASSUME NEW x \in Docs, docs'[x] \in Document
          PROVE  /\ docs[x] \in Document /\ docs'[x].lines = docs[x].lines
                 /\ docs'[x].committed =>
                       /\ docs[x] \in Document /\ docs[x].committed /\ docs'[x].type = docs[x].type
                       /\ docs'[x].from = docs[x].from /\ (out[x] # Nothing => out'[x] # Nothing)
                 /\ docs'[x].approval = "pending" =>
                       docs[x] \in Document /\ docs[x].approval = "pending" /\ docs'[x].status = docs[x].status
      BY <1>1, <1>4, <1>6, <2>4
    <2> HIDE DEF EmptyShipment, ShippedFor, GuideOfShipment, Related
    <2> QED
      BY <2>1, <2>2, <2>3, <2>4, RelationsKept
  <1>8. (\A f \in Tasks : TaskStands(f)') /\ ReservationsAreBacked'
    <2>1. \A x \in Docs : docs[x] \in Document =>
              /\ docs[x].status # "draft" => docs'[x].status # "draft"
              /\ docs[x].committed => docs'[x].committed
      BY <1>4
    <2>2. /\ \A x \in Docs : reserved'[x] # Nothing => reserved[x] # Nothing
          /\ \A f \in Tasks : out'[f] = out[f]
      BY <1>1
    <2> QED
      BY <1>1, <2>1, <2>2, TasksKept
  <1>9. \A u \in Sessions : RequestStands(session[u])'
    <2>1. \A x \in Docs : docs[x] \in Document =>
              /\ docs'[x] \in Document /\ SameRow(docs[x], docs'[x])
              /\ docs'[x].approval = "pending" => docs[x].approval = "pending"
      BY <1>4 DEF SameRow
    <2> QED
      BY <1>1, <2>1, RequestsLater
  <1> QED
    BY <1>5, <1>7, <1>8, <1>9 DEF SalesSerial

\* A conversion moves its source on, which is no fiscal document.
LEMMA SoundMoved ==
    ASSUME NEW x \in Document, NEW y \in Document, NEW owed, NEW booked, NEW earned, NEW kept, NEW left, NEW asked,
           y.type = x.type, y.committed = x.committed, x.type \notin Fiscal, y.status \in {"accepted", "invoiced"},
           DocSound(x, owed, booked, earned, kept, left, asked)
    PROVE  DocSound(y, owed, booked, earned, kept, left, asked)
  <1>1. y # NoDoc /\ y # Removed
    BY DocumentRow
  <1> QED
    BY <1>1 DEF DocSound, OwedFor, None

\* No fiscal document is moved on by its conversion.
LEMMA MovedSource ==
    ASSUME NEW x \in Document, NEW to, to \in CONVERSION_MAP[x.type], SourceStatus(x, to) \in {"accepted", "invoiced"}
    PROVE  x.type \notin Fiscal
  <1>1. x.type \in DocTypes
    BY DEF Document
  <1> QED
    BY <1>1 DEF DocTypes, CONVERSION_MAP, SourceStatus, Fiscal, None

(* convert moves the source on without effects: the source is no fiscal       *)
(* document, and a source still to be approved has its conversion.            *)
LEMMA ConvertSerial ==
    ASSUME SalesBase, SalesSerial, ~Overlapping, NEW s \in Sessions, NEW d \in Docs, Convert(s, d)
    PROVE  SalesSerial'
  <1> DEFINE r == session[s]
             e == r.doc
             x == docs[e]
  <1>1. /\ docs[d] = NoDoc /\ UNCHANGED <<fulfillments, reserved, out, receivable, commission, journal, requests>>
        /\ session' = [session EXCEPT ![s] = Idle] /\ r.op = "convert"
        /\ e \in Docs /\ x \in Document /\ r.seen \in Document /\ e # d
    BY ConvertStep DEF SalesBase, hookVars
  <1>2. PICK y, z \in Document :
           /\ IsDraft(y) /\ y.lines = r.seen.lines /\ y.from = e /\ y.approval = "not_required"
           /\ z.type = x.type /\ z.from = x.from /\ z.lines = x.lines
           /\ z.approval = x.approval /\ z.committed = x.committed
           /\ \/ z = x
              \/ SourceStatus(r.seen, r.to) \in {"accepted", "invoiced"} /\ z.status = SourceStatus(r.seen, r.to)
           /\ docs' = [docs EXCEPT ![d] = y, ![e] = z]
    BY ConvertStep DEF SalesBase
  <1>3. r.seen.type = x.type /\ r.seen.lines = x.lines /\ r.to \in CONVERSION_MAP[r.seen.type]
    BY <1>1 DEF SalesSerial, RequestStands, SameRow
  <1>4. docs'[d] = y /\ docs'[e] = z /\ \A w \in Docs \ {d, e} : docs'[w] = docs[w]
    BY <1>1, <1>2 DEF SalesBase, Typed, RowsTypeOK
  <1>5. z = x \/ (x.type \notin Fiscal /\ z.status \in {"accepted", "invoiced"})
    <2>1. SourceStatus(r.seen, r.to) \in {"accepted", "invoiced"} => r.seen.type \notin Fiscal
      BY <1>1, <1>3, MovedSource
    <2> QED
      BY <1>2, <1>3, <2>1
  <1>6. \A w \in Docs : docs[w] \in Document \/ docs[w] = Removed => w # d
    BY <1>1, DocumentRow DEF NoDoc, Removed
  <1> HIDE DEF x, e, r
  <1>7. ASSUME NEW w \in Docs PROVE SoundAt(w)'
    <2>1. DocSound(docs[w], receivable[w], journal[w], commission[w], reserved[w], out[w], requests[w])
      BY DEF SalesSerial, SoundAt
    <2> SUFFICES DocSound(docs'[w], receivable[w], journal[w], commission[w], reserved[w], out[w], requests[w])
      <3> HIDE DEF DocSound
      <3> QED
        BY <1>1 DEF SoundAt
    <2> HIDE DEF DocSound, IsDraft
    <2>2. CASE w = d
      BY <1>1, <1>2, <1>4, <2>1, <2>2, SoundDraft
    <2>3. CASE w = e
      <3>1. docs[w] = x
        BY <2>3 DEF x
      <3>2. CASE z = x
        BY <1>4, <2>1, <2>3, <3>1, <3>2
      <3>3. CASE x.type \notin Fiscal /\ z.status \in {"accepted", "invoiced"}
        <4>1. DocSound(z, receivable[w], journal[w], commission[w], reserved[w], out[w], requests[w])
          BY <1>1, <1>2, <2>1, <3>1, <3>3, SoundMoved
        <4> QED
          BY <1>4, <2>3, <4>1
      <3> QED
        BY <1>5, <3>2, <3>3
    <2>4. CASE w \notin {d, e}
      BY <1>4, <2>1, <2>4
    <2> QED
      BY <2>2, <2>3, <2>4
  <1>8. \A w \in Docs : docs'[w] \in Document => Related(w)'
    <2>1. \A f \in Tasks : fulfillments[f].status = "shipped" =>
              /\ fulfillments'[f].status = "shipped" /\ fulfillments'[f].order = fulfillments[f].order
              /\ fulfillments'[f].picked = fulfillments[f].picked
      BY <1>1
    <2>2. \A w \in Docs : docs[w] = Removed => docs'[w] = Removed
      BY <1>1, <1>4, <1>6, DocumentRow DEF x
    <2>3. \A w \in Docs : docs[w] \in Document => docs'[w] \in Document /\ docs'[w].from = docs[w].from
      BY <1>1, <1>2, <1>4, <1>6 DEF x
    <2>4. EmptyShipment' <=> EmptyShipment
      BY <1>1 DEF EmptyShipment, Nothing
    <2>5. x.lines # Nothing \/ EmptyShipment
      BY <1>1 DEF SalesSerial, Related, x
    <2>6. ASSUME NEW w \in Docs, docs'[w] \in Document
          PROVE  /\ \/ docs'[w].lines # Nothing \/ EmptyShipment'
                    \/ docs[w] \in Document /\ docs'[w].lines = docs[w].lines
                 /\ docs'[w].committed =>
                    \/ out'[w] # Nothing \/ ShippedFor(w)' \/ GuideOfShipment(w)' \/ EmptyShipment'
                    \/ /\ docs[w] \in Document /\ docs[w].committed /\ docs'[w].type = docs[w].type
                       /\ docs'[w].from = docs[w].from \/ ~ShippedFor(docs[w].from)
                       /\ out[w] # Nothing => out'[w] # Nothing
                 /\ docs'[w].approval = "pending" =>
                    \/ docs'[w].status \in {"draft", "cancelled"}
                    \/ \E v \in Docs : docs'[v] \in Document /\ docs'[v].from = w
                    \/ docs[w] \in Document /\ docs[w].approval = "pending" /\ docs'[w].status = docs[w].status
      <3>1. CASE w = d
        BY <1>2, <1>3, <1>4, <2>4, <2>5, <3>1 DEF IsDraft
      <3>2. CASE w = e
        <4>1. docs[w] = x /\ docs'[w] = z /\ out'[w] = out[w]
          BY <1>1, <1>4, <3>2 DEF x
        <4>2. docs'[d] \in Document /\ docs'[d].from = w
          BY <1>2, <1>4, <3>2
        <4> HIDE DEF EmptyShipment, ShippedFor, GuideOfShipment
        <4> QED
          BY <1>1, <1>2, <4>1, <4>2
      <3>3. CASE w \notin {d, e}
        <4>1. docs'[w] = docs[w] /\ out'[w] = out[w]
          BY <1>1, <1>4, <3>3
        <4> QED
          BY <2>6, <4>1
      <3> QED
        BY <3>1, <3>2, <3>3
    <2> HIDE DEF EmptyShipment, ShippedFor, GuideOfShipment, Related
    <2> QED
      BY <2>1, <2>2, <2>3, <2>6, RelationsKept
  <1>9. (\A f \in Tasks : TaskStands(f)') /\ ReservationsAreBacked'
    <2>1. \A w \in Docs : docs[w] \in Document =>
              /\ docs[w].status # "draft" => docs'[w].status # "draft"
              /\ docs[w].committed => docs'[w].committed
      <3> SUFFICES ASSUME NEW w \in Docs, docs[w] \in Document
                   PROVE  /\ docs[w].status # "draft" => docs'[w].status # "draft"
                          /\ docs[w].committed => docs'[w].committed
        OBVIOUS
      <3>1. CASE w = e
        <4>1. docs[w] = x /\ docs'[w] = z
          BY <1>4, <3>1 DEF x
        <4> QED
          BY <1>2, <1>5, <4>1
      <3>2. CASE w # e
        BY <1>4, <1>6, <3>2
      <3> QED
        BY <3>1, <3>2
    <2>2. /\ \A w \in Docs : reserved'[w] # Nothing => reserved[w] # Nothing
          /\ \A f \in Tasks : out'[f] = out[f]
      BY <1>1
    <2> QED
      BY <1>1, <2>1, <2>2, TasksKept
  <1>10. \A u \in Sessions : RequestStands(session[u])'
    BY <1>1, UnderWay, NothingAsked DEF SalesBase, r
  <1> QED
    BY <1>7, <1>8, <1>9, <1>10 DEF SalesSerial

(* An acceptance reserves for the fulfillment it opens, and no earlier        *)
(* fulfillment of the order is left open or shipped.                          *)
LEMMA AcceptSerial ==
    ASSUME SalesBase, SalesSerial, ~Overlapping, NEW s \in Sessions, AcceptOrder(s)
    PROVE  SalesSerial'
  <1> DEFINE r == session[s]
             d == r.doc
             x == docs[d]
  <1>1. /\ d \in Docs /\ x \in Document /\ r.to \in DocStatuses /\ r.seen \in Document
        /\ r # Idle /\ session' = [session EXCEPT ![s] = Idle]
        /\ r.seen.type = x.type /\ r.seen.status = x.status
        /\ r.to = x.status \/ r.to \in Allowed[x.status]
        /\ x.approval = "pending" => r.to \in {"cancelled", "draft"}
        /\ Effect(r) = "accept" /\ SoundAt(d)
    BY StatusRead DEF AcceptOrder
  <1>2. r.to = "accepted" /\ x.type = "order" /\ x.approval # "pending"
    BY <1>1 DEF Effect
  <1>3. UNCHANGED <<out, receivable, commission, journal, requests>>
    BY DEF AcceptOrder, hookVars
  <1>4. PICK y \in Document :
           /\ docs' = [docs EXCEPT ![d] = y] /\ y.status = r.to
           /\ y.type = x.type /\ y.from = x.from /\ y.approval = x.approval
           /\ y.lines = x.lines /\ y.committed = x.committed
    BY AcceptStep DEF SalesBase
  <1>5. \/ UNCHANGED <<fulfillments, reserved>>
        \/ \E f \in Tasks, t \in Fulfillment, row \in [Products -> Nat] :
             /\ fulfillments[f] = NoTask /\ fulfillments' = [fulfillments EXCEPT ![f] = t]
             /\ t.order = d /\ t.status = "pending"
             /\ reserved' = [reserved EXCEPT ![d] = row]
             /\ \A g \in Tasks : Present(g) /\ fulfillments[g].order = d => fulfillments[g].status = "cancelled"
    BY AcceptStep DEF SalesBase
  <1>6. docs'[d] = y /\ \A w \in Docs \ {d} : docs'[w] = docs[w]
    <2> HIDE DEF x, d, r
    <2> QED
      BY <1>1, <1>4 DEF SalesBase, Typed, RowsTypeOK
  <1>7. DocSound(x, receivable[d], journal[d], commission[d], reserved[d], out[d], requests[d])
    BY <1>1 DEF SoundAt
  <1> HIDE DEF x, d, r
  <1>8. DocSound(y, receivable[d], journal[d], commission[d], reserved[d], out[d], requests[d])
    <2> HIDE DEF DocSound
    <2> QED
      BY <1>1, <1>2, <1>4, <1>7, SoundPassive
  <1>9. CASE UNCHANGED <<fulfillments, reserved>>
    <2> HIDE DEF DocSound, EmptyShipment
    <2>1. y.status # "draft" /\ y.approval # "pending"
      BY <1>2, <1>4
    <2> QED
      BY <1>1, <1>3, <1>4, <1>8, <1>9, <2>1, OneDocSerial DEF x, r
  <1>10. ASSUME NEW f \in Tasks, NEW t \in Fulfillment, NEW row \in [Products -> Nat],
                fulfillments[f] = NoTask, fulfillments' = [fulfillments EXCEPT ![f] = t],
                t.order = d, t.status = "pending", reserved' = [reserved EXCEPT ![d] = row],
                \A g \in Tasks : Present(g) /\ fulfillments[g].order = d => fulfillments[g].status = "cancelled"
         PROVE  SalesSerial'
    <2>1. fulfillments'[f] = t /\ \A g \in Tasks \ {f} : fulfillments'[g] = fulfillments[g]
      BY <1>10 DEF SalesBase, Typed, RowsTypeOK
    <2>2. reserved'[d] = row /\ \A w \in Docs \ {d} : reserved'[w] = reserved[w]
      BY <1>1, <1>10 DEF SalesBase, Typed, RowsTypeOK
    <2>3. ASSUME NEW w \in Docs PROVE SoundAt(w)'
      <3>1. CASE w = d
        <4>1. y # NoDoc /\ y # Removed
          BY DocumentRow
        <4>2. DocSound(y, receivable[d], journal[d], commission[d], row, out[d], requests[d])
          BY <1>2, <1>4, <1>8, <4>1 DEF DocSound
        <4> HIDE DEF DocSound
        <4> QED
          BY <1>3, <1>6, <2>2, <3>1, <4>2 DEF SoundAt
      <3>2. CASE w # d
        <4>1. SoundAt(w)
          BY DEF SalesSerial
        <4> HIDE DEF DocSound
        <4> QED
          BY <1>3, <1>6, <2>2, <3>2, <4>1 DEF SoundAt
      <3> QED
        BY <3>1, <3>2
    <2>4. fulfillments[f].status # "shipped" /\ ~Present(f) /\ out[f] = Nothing
      BY <1>10 DEF NoTask, Present, SalesBase, NewTasksAreUnmoved
    <2>5. \A g \in Tasks : fulfillments[g].status = "shipped" =>
              /\ fulfillments'[g].status = "shipped" /\ fulfillments'[g].order = fulfillments[g].order
              /\ fulfillments'[g].picked = fulfillments[g].picked
      BY <2>1, <2>4
    <2>6. \A w \in Docs : docs'[w] \in Document => Related(w)'
      <3>1. \A w \in Docs : docs[w] = Removed => docs'[w] = Removed
        BY <1>1, <1>6, DocumentRow DEF x
      <3>2. \A w \in Docs : docs[w] \in Document => docs'[w] \in Document /\ docs'[w].from = docs[w].from
        BY <1>4, <1>6 DEF x
      <3>3. ASSUME NEW w \in Docs, docs'[w] \in Document
            PROVE  /\ docs[w] \in Document /\ docs'[w].lines = docs[w].lines
                   /\ docs'[w].committed =>
                         /\ docs[w].committed /\ docs'[w].type = docs[w].type
                         /\ docs'[w].from = docs[w].from /\ (out[w] # Nothing => out'[w] # Nothing)
                   /\ docs'[w].approval = "pending" =>
                         docs[w].approval = "pending" /\ docs'[w].status = docs[w].status
        <4>1. CASE w = d
          BY <1>1, <1>2, <1>3, <1>4, <1>6, <4>1 DEF x
        <4>2. CASE w # d
          BY <1>3, <1>6, <3>3, <4>2
        <4> QED
          BY <4>1, <4>2
      <3> HIDE DEF EmptyShipment, ShippedFor, GuideOfShipment, Related
      <3> QED
        BY <2>5, <3>1, <3>2, <3>3, RelationsKept
    <2>7. ASSUME NEW g \in Tasks PROVE TaskStands(g)'
      <3>1. CASE g = f
        BY <1>2, <1>3, <1>4, <1>6, <1>10, <2>1, <2>4, <3>1 DEF TaskStands, Nothing
      <3>2. CASE g # f
        <4> SUFFICES ASSUME Present(g)
                     PROVE  /\ docs'[fulfillments[g].order].status # "draft"
                            /\ out'[g] # Nothing => fulfillments[g].status = "shipped"
                            /\ fulfillments[g].status = "shipped" =>
                                  /\ docs'[fulfillments[g].order].committed
                                  /\ reserved'[fulfillments[g].order] = Nothing
          BY <2>1, <3>2 DEF TaskStands, Present, Nothing
        <4>1. TaskStands(g)
          BY DEF SalesSerial
        <4>2. fulfillments[g].order \in Docs
          BY TaskRow DEF SalesBase, Fulfillment
        <4>3. CASE fulfillments[g].order = d
          BY <1>2, <1>3, <1>4, <1>6, <1>10, <4>1, <4>3 DEF TaskStands
        <4>4. CASE fulfillments[g].order # d
          BY <1>3, <1>6, <2>2, <4>1, <4>2, <4>4 DEF TaskStands
        <4> QED
          BY <4>3, <4>4
      <3> QED
        BY <3>1, <3>2
    <2>8. ASSUME NEW w \in Docs, reserved'[w] # Nothing
          PROVE  \E g \in Tasks : fulfillments'[g].status \in Open /\ fulfillments'[g].order = w
      <3>1. CASE w = d
        BY <1>10, <2>1, <3>1 DEF Open
      <3>2. CASE w # d
        <4>1. reserved[w] # Nothing
          BY <2>2, <2>8, <3>2
        <4>2. PICK g \in Tasks : fulfillments[g].status \in Open /\ fulfillments[g].order = w
          BY <4>1 DEF SalesSerial, ReservationsAreBacked
        <4>3. g # f
          BY <1>10, <4>2 DEF NoTask, Open
        <4> QED
          BY <2>1, <4>2, <4>3
      <3> QED
        BY <3>1, <3>2
    <2>9. ReservationsAreBacked'
      BY <2>8 DEF ReservationsAreBacked, Nothing
    <2>10. \A u \in Sessions : RequestStands(session[u])'
      BY <1>1, NothingAsked DEF SalesBase, r
    <2> QED
      BY <2>3, <2>6, <2>7, <2>9, <2>10 DEF SalesSerial
  <1> QED
    BY <1>5, <1>9, <1>10

(* Only a draft is removed, and a draft has no fulfillment, nothing owed and  *)
(* nothing reserved.                                                          *)
LEMMA RemoveSerial ==
    ASSUME SalesBase, SalesSerial, ~Overlapping, NEW s \in Sessions, Remove(s)
    PROVE  SalesSerial'
  <1> DEFINE d == session[s].doc
  <1>1. /\ d \in Docs /\ session[s].op = "remove" /\ docs[d] \in Document /\ docs'[d] = Removed
        /\ \A x \in Docs \ {d} :
             /\ docs[x] \notin Document => docs'[x] = docs[x]
             /\ docs[x] \in Document =>
                  /\ docs'[x] \in Document /\ docs'[x].type = docs[x].type /\ docs'[x].approval = docs[x].approval
                  /\ docs'[x].lines = docs[x].lines /\ docs'[x].status = docs[x].status
                  /\ docs'[x].committed = docs[x].committed
                  /\ docs'[x].from = docs[x].from \/ docs[x].from = d
        /\ fulfillments' = [f \in Tasks |->
              IF Present(f) /\ fulfillments[f].order = d THEN Removed ELSE fulfillments[f]]
        /\ commission' = [commission EXCEPT ![d] = None]
        /\ session' = [session EXCEPT ![s] = Idle]
        /\ UNCHANGED <<reserved, out, receivable, journal, requests>>
    BY RemoveStep DEF SalesBase
  <1>2. docs[d].status = "draft"
    BY <1>1 DEF SalesSerial, RequestStands
  <1> HIDE DEF d
  <1>3. \A f \in Tasks : Present(f) => fulfillments[f].order # d
    BY <1>2 DEF SalesSerial, TaskStands
  <1>4. fulfillments' = fulfillments
    <2>1. \A f \in Tasks : fulfillments'[f] = fulfillments[f]
      BY <1>1, <1>3
    <2> QED
      BY <1>1, <2>1 DEF SalesBase, Typed, RowsTypeOK
  <1>5. \A f \in Tasks : fulfillments[f].status = "shipped" => Present(f)
    BY TaskRow DEF SalesBase, FulfillmentStatuses
  <1>6. ~ShippedFor(d)
    BY <1>3, <1>5 DEF ShippedFor
  <1>7. ASSUME NEW x \in Docs PROVE SoundAt(x)'
    <2>1. DocSound(docs[x], receivable[x], journal[x], commission[x], reserved[x], out[x], requests[x])
      BY DEF SalesSerial, SoundAt
    <2>2. CASE x = d
      <3>1. Removed # NoDoc /\ Removed \notin Document
        BY DocumentRow DEF NoDoc, Removed
      <3>2. receivable[d] = None /\ journal[d]["sales_document"] = None /\ reserved[d] = Nothing
        BY <1>1, <1>2, <2>1, <2>2 DEF DocSound, Early
      <3>3. DocSound(Removed, receivable[d], journal[d], commission'[d], reserved[d], out[d], requests[d])
        BY <3>1, <3>2 DEF DocSound, None
      <3> HIDE DEF DocSound
      <3> QED
        BY <1>1, <2>2, <3>3 DEF SoundAt
    <2>3. CASE x # d /\ docs[x] \in Document
      <3>1. docs'[x] # NoDoc /\ docs'[x] # Removed /\ commission'[x] = commission[x]
        BY <1>1, <2>3, DocumentRow DEF SalesBase, HooksTyped
      <3>2. /\ docs'[x] \in Document /\ docs'[x].type = docs[x].type /\ docs'[x].approval = docs[x].approval
            /\ docs'[x].status = docs[x].status /\ docs'[x].committed = docs[x].committed
        BY <1>1, <2>3
      <3>3. DocSound(docs'[x], receivable[x], journal[x], commission[x], reserved[x], out[x], requests[x])
        BY <2>1, <2>3, <3>1, <3>2 DEF DocSound, OwedFor
      <3> HIDE DEF DocSound
      <3> QED
        BY <1>1, <3>1, <3>3 DEF SoundAt
    <2>4. CASE x # d /\ docs[x] \notin Document
      <3>1. commission'[x] = commission[x] /\ docs'[x] = docs[x]
        BY <1>1, <2>4 DEF SalesBase, HooksTyped
      <3> HIDE DEF DocSound
      <3> QED
        BY <1>1, <2>1, <3>1 DEF SoundAt
    <2> QED
      BY <2>2, <2>3, <2>4
  <1>8. \A x \in Docs : docs'[x] \in Document => x # d /\ docs[x] \in Document
    BY <1>1, DocumentRow
  <1>9. \A x \in Docs : docs'[x] \in Document => Related(x)'
    <2>1. \A f \in Tasks : fulfillments[f].status = "shipped" =>
              /\ fulfillments'[f].status = "shipped" /\ fulfillments'[f].order = fulfillments[f].order
              /\ fulfillments'[f].picked = fulfillments[f].picked
      BY <1>4
    <2>2. \A x \in Docs : docs[x] = Removed => docs'[x] = Removed
      BY <1>1, DocumentRow
    <2>3. \E x \in Docs : docs'[x] = Removed
      BY <1>1
    <2>4. ASSUME NEW x \in Docs, docs'[x] \in Document
          PROVE  /\ docs[x] \in Document /\ docs'[x].lines = docs[x].lines
                 /\ docs'[x].committed =>
                       /\ docs[x].committed /\ docs'[x].type = docs[x].type
                       /\ docs'[x].from = docs[x].from \/ ~ShippedFor(docs[x].from)
                       /\ out[x] # Nothing => out'[x] # Nothing
                 /\ docs'[x].approval = "pending" =>
                       docs[x].approval = "pending" /\ docs'[x].status = docs[x].status
      <3> HIDE DEF ShippedFor
      <3> QED
        BY <1>1, <1>6, <1>8, <2>4
    <2> HIDE DEF EmptyShipment, ShippedFor, GuideOfShipment, Related
    <2> QED
      BY <2>1, <2>2, <2>3, <2>4, RelationsKept
  <1>10. ASSUME NEW f \in Tasks PROVE TaskStands(f)'
    <2>1. TaskStands(f) /\ (Present(f)' <=> Present(f))
      BY <1>4 DEF SalesSerial, Present
    <2>2. Present(f) => fulfillments[f].order \in Docs \ {d} /\ docs[fulfillments[f].order] \in Document
      BY <1>3, TaskRow DEF SalesBase, OrdersExist, Fulfillment
    <2> QED
      BY <1>1, <1>4, <2>1, <2>2 DEF TaskStands, Nothing
  <1>11. ReservationsAreBacked'
    BY <1>1, <1>4 DEF SalesSerial, ReservationsAreBacked, Nothing
  <1>12. \A u \in Sessions : RequestStands(session[u])'
    BY <1>1, UnderWay, NothingAsked DEF SalesBase
  <1> QED
    BY <1>7, <1>9, <1>10, <1>11, <1>12 DEF SalesSerial

\* A row that loses its reservations stays sound.
LEMMA SoundReleased ==
    ASSUME NEW x, NEW owed, NEW booked, NEW earned, NEW kept, NEW left, NEW asked,
           DocSound(x, owed, booked, earned, kept, left, asked)
    PROVE  DocSound(x, owed, booked, earned, Nothing, left, asked)
  BY DEF DocSound

\* The floor may change a fulfillment that is not shipped, as long as what stays reserved has one open.
LEMMA TaskRowSerial ==
    ASSUME SalesBase, SalesSerial, ~Overlapping, NEW s \in Sessions, session[s] # Idle,
           session' = [session EXCEPT ![s] = Idle],
           NEW f \in Tasks, Present(f), fulfillments[f].status # "shipped",
           NEW t \in Fulfillment, t.order = fulfillments[f].order, t.status # "shipped",
           fulfillments' = [fulfillments EXCEPT ![f] = t],
           UNCHANGED <<docs, out, hookVars>>,
           \A x \in Docs : reserved'[x] = reserved[x] \/ reserved'[x] = Nothing,
           \A x \in Docs : reserved'[x] # Nothing =>
              \E g \in Tasks : fulfillments'[g].status \in Open /\ fulfillments'[g].order = x
    PROVE  SalesSerial'
  <1>1. fulfillments'[f] = t /\ \A g \in Tasks \ {f} : fulfillments'[g] = fulfillments[g]
    BY DEF SalesBase, Typed, RowsTypeOK
  <1>2. UNCHANGED <<receivable, commission, journal, requests>>
    BY DEF hookVars
  <1>3. ASSUME NEW x \in Docs PROVE SoundAt(x)'
    <2>1. DocSound(docs[x], receivable[x], journal[x], commission[x], reserved[x], out[x], requests[x])
      BY DEF SalesSerial, SoundAt
    <2> HIDE DEF DocSound
    <2>2. DocSound(docs[x], receivable[x], journal[x], commission[x], reserved'[x], out[x], requests[x])
      BY <2>1, SoundReleased
    <2> QED
      BY <1>2, <2>2 DEF SoundAt
  <1>4. \A x \in Docs : docs'[x] \in Document => Related(x)'
    <2>1. \A g \in Tasks : fulfillments[g].status = "shipped" =>
              /\ fulfillments'[g].status = "shipped" /\ fulfillments'[g].order = fulfillments[g].order
              /\ fulfillments'[g].picked = fulfillments[g].picked
      BY <1>1
    <2> HIDE DEF EmptyShipment, ShippedFor, GuideOfShipment, Related
    <2> QED
      BY <2>1, RelationsKept
  <1>5. ASSUME NEW g \in Tasks PROVE TaskStands(g)'
    <2>1. TaskStands(g) /\ TaskStands(f)
      BY DEF SalesSerial
    <2>2. CASE g = f
      BY <1>1, <2>1, <2>2 DEF TaskStands, Nothing
    <2>3. CASE g # f
      <3>1. Present(g)' <=> Present(g)
        BY <1>1, <2>3 DEF Present
      <3>2. Present(g) => fulfillments[g].order \in Docs
        BY TaskRow DEF SalesBase, Fulfillment
      <3> QED
        BY <1>1, <2>1, <2>3, <3>1, <3>2 DEF TaskStands, Nothing
    <2> QED
      BY <2>2, <2>3
  <1>6. ReservationsAreBacked'
    BY DEF ReservationsAreBacked, Nothing
  <1>7. \A u \in Sessions : RequestStands(session[u])'
    BY NothingAsked DEF SalesBase
  <1> QED
    BY <1>3, <1>4, <1>5, <1>6, <1>7 DEF SalesSerial

\* The reservations of a fulfillment that stays open.
LEMMA StillBacked ==
    ASSUME SalesBase, SalesSerial, NEW f \in Tasks, Present(f), NEW t \in Fulfillment,
           t.order = fulfillments[f].order, t.status \in Open,
           fulfillments' = [fulfillments EXCEPT ![f] = t], NEW x \in Docs, reserved[x] # Nothing
    PROVE  \E g \in Tasks : fulfillments'[g].status \in Open /\ fulfillments'[g].order = x
  <1>1. fulfillments'[f] = t /\ \A g \in Tasks \ {f} : fulfillments'[g] = fulfillments[g]
    BY DEF SalesBase, Typed, RowsTypeOK
  <1>2. PICK g \in Tasks : fulfillments[g].status \in Open /\ fulfillments[g].order = x
    BY DEF SalesSerial, ReservationsAreBacked
  <1> QED
    BY <1>1, <1>2

(* assign, startPicking, pack and recordPick find the fulfillment open, and   *)
(* leave it open.                                                             *)
LEMMA FloorWriteSerial ==
    ASSUME SalesBase, SalesSerial, ~Overlapping, NEW s \in Sessions, UNCHANGED hookVars,
           Assign(s) \/ StartPicking(s) \/ Pack(s) \/ CommitPick(s)
    PROVE  SalesSerial'
  <1>1. CASE Assign(s) \/ StartPicking(s) \/ Pack(s)
    <2>1. PICK op \in {"assign", "startPicking", "pack"}, status \in Open : WriteStatus(s, op, status)
      BY <1>1 DEF Assign, StartPicking, Pack, Open
    <2> DEFINE f == session[s].task
               t == [fulfillments[f] EXCEPT !.status = status]
    <2>2. status \in FulfillmentStatuses /\ status # "shipped"
      BY DEF Open, FulfillmentStatuses
    <2>3. /\ f \in Tasks /\ Present(f) /\ t \in Fulfillment /\ t.order = fulfillments[f].order
          /\ fulfillments' = [fulfillments EXCEPT ![f] = t] /\ session' = [session EXCEPT ![s] = Idle]
      BY <2>1, <2>2, WriteStatusStep DEF SalesBase
    <2>4. t.status = status
      BY <2>2, <2>3, TaskRow, NewStatus DEF SalesBase
    <2>5. session[s].op = op /\ UNCHANGED <<docs, out, reserved>>
      BY <2>1 DEF WriteStatus
    <2>6. fulfillments[f].status # "shipped"
      <3>1. fulfillments[f].status \in Accepts[op]
        BY <2>5 DEF SalesSerial, RequestStands, Accepts
      <3> QED
        BY <3>1 DEF Accepts
    <2>7. session[s] # Idle
      BY <2>5, UnderWay
    <2> HIDE DEF f, t
    <2>8. \A x \in Docs : reserved'[x] # Nothing =>
             \E g \in Tasks : fulfillments'[g].status \in Open /\ fulfillments'[g].order = x
      BY <2>3, <2>4, <2>5, StillBacked
    <2> QED
      BY <2>2, <2>3, <2>4, <2>5, <2>6, <2>7, <2>8, TaskRowSerial
  <1>2. CASE CommitPick(s)
    <2> DEFINE r == session[s]
               f == r.task
               status == IF r.complete THEN "picked"
                         ELSE IF r.starts THEN "picking" ELSE fulfillments[r.task].status
               t == PickedTask(fulfillments[r.task], r.item, r.status, r.quantity, status)
    <2>1. /\ f \in Tasks /\ Present(f) /\ t \in Fulfillment /\ t.order = fulfillments[f].order
          /\ t.status = status /\ fulfillments' = [fulfillments EXCEPT ![f] = t]
          /\ session' = [session EXCEPT ![s] = Idle]
      BY <1>2, CommitPickStep DEF SalesBase
    <2>2. fulfillments[f].status \in {"picking", "assigned"}
      BY <1>2 DEF CommitPick, SalesSerial, RequestStands
    <2>3. t.status \in Open
      BY <2>1, <2>2 DEF Open
    <2>4. session[s] # Idle /\ UNCHANGED <<docs, out, reserved>>
      BY <1>2, UnderWay DEF CommitPick
    <2> HIDE DEF f, t, status
    <2>5. \A x \in Docs : reserved'[x] # Nothing =>
             \E g \in Tasks : fulfillments'[g].status \in Open /\ fulfillments'[g].order = x
      BY <2>1, <2>3, <2>4, StillBacked
    <2>6. t.status # "shipped" /\ fulfillments[f].status # "shipped"
      BY <2>2, <2>3 DEF Open
    <2> QED
      BY <2>1, <2>4, <2>5, <2>6, TaskRowSerial
  <1> QED
    BY <1>1, <1>2

(* cancel keeps the reservations only when another fulfillment of the order   *)
(* is open.                                                                   *)
LEMMA SalesCancel ==
    ASSUME SalesBase, SalesSerial, ~Overlapping, NEW s \in Sessions, UNCHANGED hookVars, Cancel(s)
    PROVE  SalesSerial'
  <1> DEFINE f == session[s].task
             d == fulfillments[f].order
             t == [fulfillments[f] EXCEPT !.status = "cancelled"]
  <1>1. /\ f \in Tasks /\ Present(f) /\ t \in Fulfillment /\ session[s].op = "cancel"
        /\ t.order = d /\ t.status = "cancelled" /\ d \in Docs
        /\ fulfillments' = [fulfillments EXCEPT ![f] = t] /\ session' = [session EXCEPT ![s] = Idle]
    BY CancelStep DEF SalesBase
  <1>2. \/ /\ UNCHANGED reserved
           /\ \E g \in Tasks \ {f} : fulfillments[g].status \in Open /\ fulfillments[g].order = d
        \/ reserved' = [reserved EXCEPT ![d] = Nothing]
    BY DEF Cancel, ReleaseByReference
  <1>3. fulfillments[f].status # "shipped"
    <2>1. fulfillments[f].status \in Accepts["cancel"]
      BY <1>1 DEF SalesSerial, RequestStands, Accepts
    <2> QED
      BY <2>1 DEF Accepts, Open
  <1>4. UNCHANGED <<docs, out>> /\ session[s] # Idle
    BY UnderWay DEF Cancel
  <1> HIDE DEF f, t
  <1>5. fulfillments'[f] = t /\ \A g \in Tasks \ {f} : fulfillments'[g] = fulfillments[g]
    BY <1>1 DEF SalesBase, Typed, RowsTypeOK
  <1>6. \A x \in Docs : \/ reserved'[x] = reserved[x] /\ (x = d => UNCHANGED reserved)
                        \/ reserved'[x] = Nothing
    BY <1>1, <1>2 DEF SalesBase, Typed, RowsTypeOK
  <1>7. ASSUME NEW x \in Docs, reserved'[x] # Nothing
        PROVE  \E g \in Tasks : fulfillments'[g].status \in Open /\ fulfillments'[g].order = x
    <2>1. CASE x = d
      <3>1. \E g \in Tasks \ {f} : fulfillments[g].status \in Open /\ fulfillments[g].order = d
        BY <1>1, <1>2, <1>7, <2>1 DEF SalesBase, Typed, RowsTypeOK
      <3> QED
        BY <1>5, <2>1, <3>1
    <2>2. CASE x # d
      <3>1. PICK g \in Tasks : fulfillments[g].status \in Open /\ fulfillments[g].order = x
        BY <1>6, <1>7 DEF SalesSerial, ReservationsAreBacked
      <3>2. g # f
        BY <2>2, <3>1
      <3> QED
        BY <1>5, <3>1, <3>2
    <2> QED
      BY <2>1, <2>2
  <1>8. t.status # "shipped"
    BY <1>1
  <1> QED
    BY <1>1, <1>3, <1>4, <1>6, <1>7, <1>8, TaskRowSerial

(* ship sets the order's flag, keeps the rest of its row, and inserts at most *)
(* a guide.                                                                   *)
LEMMA ShippedRows ==
    ASSUME SalesBase, NEW s \in Sessions, Ship(s)
    PROVE  LET f == session[s].task
               d == fulfillments[f].order
           IN  /\ docs'[d].committed /\ docs[d] \in Document /\ docs'[d] \in Document
               /\ docs'[d].type = docs[d].type /\ docs'[d].status = docs[d].status
               /\ docs'[d].approval = docs[d].approval /\ docs'[d].from = docs[d].from
               /\ docs'[d].lines = docs[d].lines
               /\ \A x \in Docs \ {d} :
                    docs'[x] = docs[x] \/ (docs[x] = NoDoc /\ docs'[x] = DeliveryDoc(f))
  <1> DEFINE f == session[s].task
             d == fulfillments[f].order
             committed == [docs[d] EXCEPT !.committed = TRUE]
             shipped == [docs EXCEPT ![d] = committed]
  <1>1. f \in Tasks /\ Present(f) /\ d \in Docs
    BY ShipStep DEF SalesBase
  <1>2. docs[d] \in Document
    BY <1>1 DEF SalesBase, OrdersExist
  <1>3. /\ committed \in Document /\ committed.committed
        /\ committed.type = docs[d].type /\ committed.status = docs[d].status
        /\ committed.approval = docs[d].approval /\ committed.from = docs[d].from
        /\ committed.lines = docs[d].lines
    BY <1>2 DEF Document
  <1>4. docs \in [Docs -> Document \cup {NoDoc, Removed}]
    BY DEF SalesBase, Typed, RowsTypeOK
  <1>5. \/ docs' = shipped
        \/ \E guide \in Docs : docs[guide] = NoDoc /\ docs' = [shipped EXCEPT ![guide] = DeliveryDoc(f)]
    BY DEF Ship
  <1> HIDE DEF committed, d
  <1>6. shipped[d] = committed /\ \A x \in Docs \ {d} : shipped[x] = docs[x]
    BY <1>1, <1>4
  <1>7. CASE docs' = shipped
    <2> HIDE DEF shipped
    <2> QED
      BY <1>2, <1>3, <1>6, <1>7 DEF d
  <1>8. CASE \E guide \in Docs : docs[guide] = NoDoc /\ docs' = [shipped EXCEPT ![guide] = DeliveryDoc(f)]
    <2>1. PICK guide \in Docs : docs[guide] = NoDoc /\ docs' = [shipped EXCEPT ![guide] = DeliveryDoc(f)]
      BY <1>8
    <2>2. guide # d
      BY <1>2, <2>1, DocumentRow
    <2>3. DOMAIN shipped = Docs
      BY <1>4
    <2> HIDE DEF shipped
    <2>4. docs'[d] = committed /\ docs'[guide] = DeliveryDoc(f) /\ \A x \in Docs \ {d, guide} : docs'[x] = docs[x]
      BY <1>1, <1>6, <2>1, <2>2, <2>3
    <2> QED
      BY <1>2, <1>3, <2>1, <2>4 DEF d
  <1> QED
    BY <1>5, <1>7, <1>8

(* The guide a shipment makes owes nothing.                                   *)
LEMMA SoundGuide ==
    ASSUME NEW y \in Document, y.type = "delivery", y.status = "sent", NEW owed, NEW booked, NEW earned,
           NEW kept, NEW left, NEW asked, DocSound(NoDoc, owed, booked, earned, kept, left, asked)
    PROVE  DocSound(y, owed, booked, earned, kept, left, asked)
  <1>1. y # NoDoc /\ y # Removed
    BY DocumentRow
  <1> QED
    BY <1>1 DEF DocSound, OwedFor, Early, Fiscal, None

(* ship leaves nothing reserved for the order, and its guide says where the   *)
(* goods came from.                                                           *)
LEMMA SalesShip ==
    ASSUME SalesBase, SalesSerial, ~Overlapping, NEW s \in Sessions, UNCHANGED hookVars, Ship(s)
    PROVE  SalesSerial'
  <1> DEFINE f == session[s].task
             d == fulfillments[f].order
             t == [fulfillments[f] EXCEPT !.status = "shipped"]
             left == [p \in Products |-> out[f][p] + fulfillments[f].picked[p]]
             guide == DeliveryDoc(f)
  <1>1. /\ f \in Tasks /\ Present(f) /\ d \in Docs /\ fulfillments[f] \in Fulfillment
        /\ t \in Fulfillment /\ t.order = d /\ t.picked = fulfillments[f].picked /\ t.status = "shipped"
        /\ fulfillments' = [fulfillments EXCEPT ![f] = t]
        /\ reserved' = [reserved EXCEPT ![d] = Nothing]
        /\ out' = [out EXCEPT ![f] = left]
        /\ session' = [session EXCEPT ![s] = Idle]
    BY ShipStep DEF SalesBase
  <1>2. /\ docs'[d].committed /\ docs[d] \in Document /\ docs'[d] \in Document
        /\ docs'[d].type = docs[d].type /\ docs'[d].status = docs[d].status
        /\ docs'[d].approval = docs[d].approval /\ docs'[d].from = docs[d].from
        /\ docs'[d].lines = docs[d].lines
        /\ \A x \in Docs \ {d} : docs'[x] = docs[x] \/ (docs[x] = NoDoc /\ docs'[x] = guide)
    BY ShippedRows
  <1>3. /\ guide \in Document /\ guide.type = "delivery" /\ guide.status = "sent" /\ guide.from = d
        /\ guide.lines = fulfillments[f].picked /\ guide.approval = "not_required"
    BY <1>1 DEF DeliveryDoc, Document, Fulfillment, DocTypes, DocStatuses, ApprovalStatuses
  <1>4. fulfillments[f].status # "shipped" /\ session[s] # Idle
    <2>1. session[s].op = "ship"
      BY DEF Ship
    <2>2. fulfillments[f].status \in Accepts["ship"]
      BY <2>1 DEF SalesSerial, RequestStands, Accepts
    <2> QED
      BY <2>1, <2>2, UnderWay DEF Accepts
  <1> HIDE DEF f, d, t, left, guide
  <1>5. /\ fulfillments'[f] = t /\ \A g \in Tasks \ {f} : fulfillments'[g] = fulfillments[g] /\ out'[g] = out[g]
        /\ reserved'[d] = Nothing /\ \A x \in Docs \ {d} : reserved'[x] = reserved[x]
        /\ \A x \in Docs : out'[x] = out[x]
    BY <1>1, IdsAssumption DEF SalesBase, Typed, RowsTypeOK
  <1>6. UNCHANGED <<receivable, commission, journal, requests>>
    BY DEF hookVars
  <1>7. ASSUME NEW x \in Docs PROVE SoundAt(x)'
    <2>1. DocSound(docs[x], receivable[x], journal[x], commission[x], reserved[x], out[x], requests[x])
      BY DEF SalesSerial, SoundAt
    <2>2. CASE x = d
      <3>1. docs'[d] # NoDoc /\ docs'[d] # Removed
        BY <1>2, DocumentRow
      <3>2. DocSound(docs'[d], receivable[d], journal[d], commission[d], Nothing, out[d], requests[d])
        BY <1>2, <2>1, <2>2, <3>1 DEF DocSound, OwedFor
      <3> HIDE DEF DocSound
      <3> QED
        BY <1>5, <1>6, <2>2, <3>2 DEF SoundAt
    <2>3. CASE x # d /\ docs'[x] = docs[x]
      <3> HIDE DEF DocSound
      <3> QED
        BY <1>5, <1>6, <2>1, <2>3 DEF SoundAt
    <2>4. CASE x # d /\ docs[x] = NoDoc /\ docs'[x] = guide
      <3> HIDE DEF DocSound
      <3>1. DocSound(guide, receivable[x], journal[x], commission[x], reserved[x], out[x], requests[x])
        BY <1>3, <2>1, <2>4, SoundGuide
      <3> QED
        BY <1>5, <1>6, <2>4, <3>1 DEF SoundAt
    <2> QED
      BY <1>2, <2>2, <2>3, <2>4
  <1>8. /\ \A x : x = d => \E g \in Tasks : fulfillments'[g].status = "shipped" /\ fulfillments'[g].order = x
        /\ fulfillments[f].picked = Nothing => EmptyShipment'
    <2>1. fulfillments'[f].status = "shipped" /\ fulfillments'[f].order = d /\ fulfillments'[f].picked = fulfillments[f].picked
      BY <1>1, <1>5
    <2> QED
      BY <1>1, <2>1 DEF EmptyShipment, Nothing
  <1>9. \A x \in Docs : docs'[x] \in Document => Related(x)'
    <2>1. \A g \in Tasks : fulfillments[g].status = "shipped" =>
              /\ fulfillments'[g].status = "shipped" /\ fulfillments'[g].order = fulfillments[g].order
              /\ fulfillments'[g].picked = fulfillments[g].picked
      BY <1>4, <1>5
    <2>2. \A x \in Docs : docs[x] = Removed => docs'[x] = Removed
      <3>1. NoDoc # Removed
        BY DEF NoDoc, Removed
      <3> QED
        BY <1>2, <3>1, DocumentRow
    <2>3. \A x \in Docs : docs[x] \in Document => docs'[x] \in Document /\ docs'[x].from = docs[x].from
      BY <1>2, DocumentRow
    <2>4. ASSUME NEW x \in Docs, docs'[x] \in Document
          PROVE  /\ \/ docs'[x].lines # Nothing \/ EmptyShipment'
                    \/ docs[x] \in Document /\ docs'[x].lines = docs[x].lines
                 /\ docs'[x].committed =>
                    \/ out'[x] # Nothing \/ ShippedFor(x)' \/ GuideOfShipment(x)' \/ EmptyShipment'
                    \/ /\ docs[x] \in Document /\ docs[x].committed /\ docs'[x].type = docs[x].type
                       /\ docs'[x].from = docs[x].from \/ ~ShippedFor(docs[x].from)
                       /\ out[x] # Nothing => out'[x] # Nothing
                 /\ docs'[x].approval = "pending" =>
                    \/ docs'[x].status \in {"draft", "cancelled"}
                    \/ \E y \in Docs : docs'[y] \in Document /\ docs'[y].from = x
                    \/ docs[x] \in Document /\ docs[x].approval = "pending" /\ docs'[x].status = docs[x].status
      <3>1. CASE x = d
        <4>1. ShippedFor(x)'
          BY <1>8, <3>1 DEF ShippedFor
        <4> QED
          BY <1>2, <3>1, <4>1
      <3>2. CASE docs'[x] = docs[x]
        <4>1. out'[x] = out[x]
          BY <1>5
        <4> QED
          BY <2>4, <3>2, <4>1
      <3>3. CASE docs'[x] = guide
        <4>1. GuideOfShipment(x)'
          <5>1. d # None
            BY <1>1, IdsAssumption DEF None
          <5>2. docs'[x].type = "delivery" /\ docs'[x].from = d
            BY <1>3, <3>3
          <5> QED
            BY <1>8, <5>1, <5>2 DEF GuideOfShipment, ShippedFor, None
        <4>2. docs'[x].lines # Nothing \/ EmptyShipment'
          BY <1>3, <1>8, <3>3
        <4>3. docs'[x].approval # "pending"
          BY <1>3, <3>3
        <4> HIDE DEF EmptyShipment, ShippedFor, GuideOfShipment
        <4> QED
          BY <4>1, <4>2, <4>3
      <3> QED
        BY <1>2, <3>1, <3>2, <3>3
    <2> HIDE DEF EmptyShipment, ShippedFor, GuideOfShipment, Related
    <2> QED
      BY <2>1, <2>2, <2>3, <2>4, RelationsKept
  <1>10. ASSUME NEW g \in Tasks PROVE TaskStands(g)'
    <2>1. TaskStands(g)
      BY DEF SalesSerial
    <2>2. Present(g) => fulfillments[g].order \in Docs /\ docs[fulfillments[g].order] \in Document
      BY TaskRow DEF SalesBase, OrdersExist, Fulfillment
    <2>3. Present(g)' => Present(g) /\ fulfillments'[g].order = fulfillments[g].order
      BY <1>1, <1>5 DEF Present, d
    <2>4. CASE g = f
      BY <1>1, <1>2, <1>5, <2>1, <2>2, <2>3, <2>4 DEF TaskStands, Nothing
    <2>5. CASE g # f
      <3> SUFFICES ASSUME Present(g)
                   PROVE  /\ docs'[fulfillments[g].order].status # "draft"
                          /\ out'[g] # Nothing => fulfillments[g].status = "shipped"
                          /\ fulfillments[g].status = "shipped" =>
                                /\ docs'[fulfillments[g].order].committed
                                /\ reserved'[fulfillments[g].order] = Nothing
        BY <1>5, <2>3, <2>5 DEF TaskStands, Nothing
      <3>1. CASE fulfillments[g].order = d
        BY <1>2, <1>5, <2>1, <2>5, <3>1 DEF TaskStands
      <3>2. CASE fulfillments[g].order # d
        <4>1. docs'[fulfillments[g].order] = docs[fulfillments[g].order]
          BY <1>2, <2>2, <3>2, DocumentRow
        <4> QED
          BY <1>5, <2>1, <2>2, <2>5, <3>2, <4>1 DEF TaskStands
      <3> QED
        BY <3>1, <3>2
    <2> QED
      BY <2>4, <2>5
  <1>11. ASSUME NEW x \in Docs, reserved'[x] # Nothing
         PROVE  \E g \in Tasks : fulfillments'[g].status \in Open /\ fulfillments'[g].order = x
    <2>1. x # d /\ reserved[x] # Nothing
      BY <1>5, <1>11
    <2>2. PICK g \in Tasks : fulfillments[g].status \in Open /\ fulfillments[g].order = x
      BY <2>1 DEF SalesSerial, ReservationsAreBacked
    <2>3. g # f
      BY <2>1, <2>2 DEF d
    <2> QED
      BY <1>5, <2>2, <2>3
  <1>12. ReservationsAreBacked'
    BY <1>11 DEF ReservationsAreBacked, Nothing
  <1>13. \A u \in Sessions : RequestStands(session[u])'
    BY <1>1, <1>4, NothingAsked DEF SalesBase
  <1> QED
    BY <1>7, <1>9, <1>10, <1>12, <1>13 DEF SalesSerial

(* Every step, until two requests overlap.                                    *)
LEMMA SerialStepOfSales ==
    ASSUME SalesBase, SalesSerial, ~Overlapping, ~Overlapping', SalesNext
    PROVE  SalesSerial'
  <1>1. ASSUME NEW s \in Sessions, SalesStep(s) PROVE SalesSerial'
    <2>1. CASE DocRead(s)
      BY <2>1, DocReadSerial
    <2>2. CASE \E d \in Docs : Convert(s, d)
      BY <2>2, ConvertSerial
    <2>3. CASE UpdateLines(s) \/ ChangeOnly(s) \/ Pay(s)
      BY <2>3, UpdateSerial, ChangeOnlySerial
    <2>4. CASE Remove(s) \/ AcceptOrder(s) \/ Invoice(s) \/ CancelDocument(s)
      BY <2>4, RemoveSerial, AcceptSerial, InvoiceSerial, CancelDocSerial
    <2> QED
      BY <1>1, <2>1, <2>2, <2>3, <2>4 DEF SalesStep, DocRead
  <1>2. ASSUME NEW s \in Sessions, FloorStep(s), UNCHANGED hookVars PROVE SalesSerial'
    <2>1. CASE TaskRead(s) \/ WritePick(s)
      BY <1>2, <2>1, TaskReadSerial
    <2>2. CASE Abort(s)
      BY <1>2, <2>2, AbortSerial
    <2>3. CASE Assign(s) \/ StartPicking(s) \/ Pack(s) \/ CommitPick(s)
      BY <1>2, <2>3, FloorWriteSerial
    <2>4. CASE Ship(s) \/ Cancel(s)
      BY <1>2, <2>4, SalesShip, SalesCancel
    <2> QED
      BY <1>2, <2>1, <2>2, <2>3, <2>4 DEF FloorStep, TaskRead
  <1>3. ASSUME NEW d \in Docs,
               \/ \E type \in DocTypes : CreateDocument(d, type)
               \/ \E source \in Docs : Duplicate(d, source)
        PROVE  SalesSerial'
    BY <1>3, MakeSerial
  <1>4. ASSUME NEW d \in Docs, NEW r \in Rules, Decide(d, r) PROVE SalesSerial'
    BY <1>4, DecideSerial
  <1> QED
    BY <1>1, <1>2, <1>3, <1>4 DEF SalesNext

(* Every step, overlapping or not.                                            *)
LEMMA SalesInvStep == SalesInv /\ [SalesNext]_salesVars => SalesInv'
  <1> SUFFICES ASSUME SalesInv, [SalesNext]_salesVars PROVE SalesInv'
    OBVIOUS
  <1>1. CASE SalesNext
    <2>1. SalesBase'
      BY <1>1, BaseStep DEF SalesInv
    <2>2. overlapped' = (overlapped \/ Overlapping')
      BY <1>1 DEF SalesNext
    <2>3. CASE overlapped \/ Overlapping'
      BY <2>1, <2>2, <2>3 DEF SalesInv
    <2>4. CASE ~overlapped /\ ~Overlapping'
      <3>1. SalesSerial'
        BY <1>1, <2>4, SerialStepOfSales DEF SalesInv
      <3> QED
        BY <2>1, <2>2, <2>4, <3>1 DEF SalesInv
    <2> QED
      BY <2>3, <2>4
  <1>2. CASE UNCHANGED salesVars
    <2>1. /\ UNCHANGED <<docs, fulfillments, reserved, out, session, overlapped>>
          /\ UNCHANGED <<receivable, commission, journal, requests>> /\ UNCHANGED hookVars
      BY <1>2 DEF salesVars, hookVars
    <2>2. SalesBase'
      <3>1. session' \in [Sessions -> AnyRequest] /\ SalesBase
        BY <2>1 DEF SalesInv, SalesBase, Typed, AnyRequest, Request
      <3> QED
        BY <2>1, <3>1, BaseStill
    <2>3. Overlapping' <=> Overlapping
      BY <2>1 DEF Overlapping, Idle
    <2>4. SalesSerial => SalesSerial'
      <3> SUFFICES ASSUME SalesSerial PROVE SalesSerial'
        OBVIOUS
      <3>1. \A u \in Sessions : RequestStands(session[u])'
        BY <2>1 DEF SalesSerial, RequestStands, SameRow, ValidTransition
      <3> QED
        BY <2>1, <3>1, StillSerial
    <2> QED
      BY <2>1, <2>2, <2>3, <2>4 DEF SalesInv
  <1> QED
    BY <1>1, <1>2

(* Only an issue moves stock for a document, and it reads the flag first.     *)
LEMMA MovesOnceStep ==
    ASSUME SalesInv, [SalesNext]_salesVars
    PROVE  overlapped' \/ MovesOnce
  <1>1. CASE UNCHANGED salesVars
    BY <1>1 DEF salesVars, MovesOnce
  <1>2. CASE SalesNext
    <2>1. overlapped' = (overlapped \/ Overlapping')
      BY <1>2 DEF SalesNext
    <2> SUFFICES ASSUME ~overlapped' PROVE MovesOnce
      OBVIOUS
    <2>2. SalesBase /\ SalesSerial /\ ~Overlapping
      BY <2>1 DEF SalesInv
    <2>3. ASSUME NEW s \in Sessions, Invoice(s) PROVE MovesOnce
      BY <2>2, <2>3, InvoiceRows DEF MovesOnce
    <2>4. ASSUME NEW s \in Sessions, Ship(s) PROVE MovesOnce
      <3>1. out' = [out EXCEPT ![session[s].task] =
                      [p \in Products |-> out[session[s].task][p] + fulfillments[session[s].task].picked[p]]]
            /\ session[s].task \in Tasks
        BY <2>2, <2>4, ShipStep DEF SalesBase
      <3>2. out \in [Docs \cup Tasks -> [Products -> Int]]
        BY <2>2 DEF SalesBase, Typed, RowsTypeOK
      <3> QED
        BY <3>1, <3>2, IdsAssumption DEF MovesOnce
    <2>5. ASSUME NEW s \in Sessions, SalesStep(s) PROVE MovesOnce
      <3>1. CASE Invoice(s)
        BY <2>3, <3>1
      <3>2. CASE ~Invoice(s)
        <4>1. UNCHANGED out
          BY <2>5, <3>2 DEF SalesStep, ReadForUpdate, ReadForRemove, ReadForConvert, ReadForStatus, Convert,
             UpdateLines, Remove, ChangeOnly, AcceptOrder, Pay, CancelDocument
        <4> QED
          BY <4>1 DEF MovesOnce
      <3> QED
        BY <3>1, <3>2
    <2>6. ASSUME NEW s \in Sessions, FloorStep(s) PROVE MovesOnce
      <3>1. CASE Ship(s)
        BY <2>4, <3>1
      <3>2. CASE ~Ship(s)
        <4>1. UNCHANGED out
          BY <2>6, <3>2 DEF FloorStep, ReadTask, ReadPick, Assign, StartPicking, Pack, WriteStatus, WritePick,
             CommitPick, Cancel, Abort
        <4> QED
          BY <4>1 DEF MovesOnce
      <3> QED
        BY <3>1, <3>2
    <2>7. ASSUME NEW d \in Docs,
                 \/ \E type \in DocTypes : CreateDocument(d, type)
                 \/ \E source \in Docs : Duplicate(d, source)
                 \/ \E r \in Rules : Decide(d, r)
          PROVE  MovesOnce
      <3>1. UNCHANGED out
        BY <2>7 DEF CreateDocument, Duplicate, Decide
      <3> QED
        BY <3>1 DEF MovesOnce
    <2> QED
      BY <1>2, <2>5, <2>6, <2>7 DEF SalesNext
  <1> QED
    BY <1>1, <1>2

(***************************************************************************)
(* After any sequence of requests that do not overlap, a document agrees   *)
(* with its receivable, its entries in the books, its approval requests    *)
(* and the stock it moved (documents.service.ts:594-726).                  *)
(***************************************************************************)
THEOREM SalesStayConsistent == SalesSpec => []DocumentsAgree
  <1>1. SalesInv => DocumentsAgree
    BY SalesIsTyped, SerialMeans DEF SalesInv, SalesBase, DocumentsAgree
  <1> QED
    BY <1>1, SalesStart, SalesInvStep, PTL DEF SalesSpec

(***************************************************************************)
(* What was shipped is known to its order, however requests overlap; and   *)
(* while they do not, goods are reserved only for an order somebody can    *)
(* still pick (fulfillments.service.ts:594-607,                            *)
(* stock-reservations.service.ts:75-145).                                  *)
(***************************************************************************)
THEOREM OrdersStayBacked == SalesSpec => []OrdersAreBacked
  <1>1. SalesInv => OrdersAreBacked
    BY SerialMeans DEF SalesInv, SalesBase, SalesSerial, OrdersAreBacked
  <1> QED
    BY <1>1, SalesStart, SalesInvStep, PTL DEF SalesSpec

(***************************************************************************)
(* A committed document is not decremented again by its own status         *)
(* changes, while requests do not overlap (documents.service.ts:658).      *)
(***************************************************************************)
THEOREM DocumentsMoveOnce == SalesSpec => DocumentMovesOnce
  <1>1. SalesInv /\ [SalesNext]_salesVars => [overlapped' \/ MovesOnce]_salesVars
    BY MovesOnceStep
  <1> QED
    BY <1>1, SalesStart, SalesInvStep, PTL DEF SalesSpec, DocumentMovesOnce

================================================================================
