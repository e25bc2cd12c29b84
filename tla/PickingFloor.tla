------------------------------ MODULE PickingFloor ------------------------------
(***************************************************************************)
(* The picking floor at work on orders just accepted: the handlers of      *)
(* module Fulfillments, any number of them at once, and what they keep.    *)
(* No handler locks what it reads, so some overlaps do break what the      *)
(* floor goes by.  crossed remembers the fulfillments that met with one of *)
(* these, and only these.                                                  *)
(***************************************************************************)
EXTENDS Fulfillments

VARIABLE crossed         \* history: fulfillments whose requests have crossed

vars == <<docs, fulfillments, reserved, out, session, crossed>>

\* Orders just accepted, each with the fulfillment and the reservations of createForOrder.
\* One may have a second fulfillment, cancelled earlier and assigned again by a late write.
Init ==
    /\ \E first, again \in SUBSET Tasks, order \in [Tasks -> Docs],
          lines \in [Docs -> [Products -> 1..MaxQuantity]] :
        LET accepted == {order[f] : f \in first} IN
        /\ \A f \in again : f \notin first /\ order[f] \in accepted
        /\ \A f, g \in first : order[f] = order[g] => f = g
        /\ docs = [d \in Docs |-> IF d \in accepted
              THEN [type |-> "order", status |-> "accepted", committed |-> FALSE,
                    approval |-> "not_required", from |-> None, lines |-> lines[d]]
              ELSE NoDoc]
        /\ fulfillments = [f \in Tasks |-> IF f \notin first \cup again THEN NoTask
              ELSE [order |-> order[f], status |-> IF f \in again THEN "assigned" ELSE "pending",
                    requested |-> lines[order[f]], picked |-> Nothing,
                    items |-> [p \in Products |-> "pending"]]]
        /\ reserved = [d \in Docs |-> IF d \in accepted THEN lines[d] ELSE Nothing]
    /\ out = [ref \in Docs \cup Tasks |-> Nothing]
    /\ session = [s \in Sessions |-> Idle]
    /\ crossed = {}

\* A request that moves the fulfillment on, or puts an item back to pending, depends on what
\* it read until it is done; a pick does from its count of the pending items.
At(s, f) == session[s] # Idle /\ session[s].task = f
Relies(s) == \/ session[s].op \in DOMAIN Accepts
             \/ session[s].op \in {"pick", "picked"} /\ session[s].status = "pending"

Crossing(f) == \E s, u \in Sessions :
    /\ s # u /\ At(s, f) /\ At(u, f)
    /\ Relies(s) \/ (session[s].op = "picked" /\ session[u].op = "picked")

Next ==
    /\ \E s \in Sessions : FloorStep(s)
    /\ crossed' = crossed \cup {f \in Tasks : Crossing(f)'}

Spec == Init /\ [][Next]_vars

-------------------------------------------------------------------------------
(***************************************************************************)
(* Type invariant: rows and requests are well formed.                      *)
(***************************************************************************)
TypeOK ==
    /\ RowsTypeOK
    /\ session \in [Sessions -> {Idle} \cup TaskRequest \cup PickRequest \cup PickWritten]
    /\ crossed \subseteq Tasks

(***************************************************************************)
(* Picking is over exactly when no item is pending ("quando todos itens    *)
(* estão picked/missing/damaged, o fulfillment automaticamente vai pra     *)
(* status='picked'", fulfillments.service.ts:431-432), however many pick   *)
(* at once, unless two of them count before either commits, or somebody    *)
(* puts an item back or moves the fulfillment on meanwhile (crossed).      *)
(***************************************************************************)
AllPicked(f) == \A p \in Products : fulfillments[f].items[p] # "pending"

PickedWhenComplete ==
    \A f \in Tasks \ crossed : fulfillments[f].status \in Open =>
        (AllPicked(f) <=> fulfillments[f].status \in {"picked", "packed"})

(***************************************************************************)
(* What the floor's screens go by: rows are well formed, and the status of *)
(* a fulfillment says whether there is anything left to pick.              *)
(***************************************************************************)
FloorAgrees == TypeOK /\ PickedWhenComplete

(***************************************************************************)
(* The floor implements Shipments: a fulfillment closes once, its goods    *)
(* leave in that step only, and they are what was picked, unless requests  *)
(* on that fulfillment crossed; those on another do it no harm.            *)
(***************************************************************************)
Phase(f) == IF fulfillments[f].status \in Open THEN "open" ELSE fulfillments[f].status
Basket(f) == IF Present(f) THEN fulfillments[f].picked ELSE Nothing

S == INSTANCE Shipments WITH
        phase <- [f \in Tasks |-> Phase(f)],
        basket <- [f \in Tasks |-> Basket(f)],
        goods <- [f \in Tasks |-> out[f]],
        loose <- crossed

ImplementsShipments == S!ShipmentsSpec
================================================================================
