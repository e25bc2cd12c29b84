------------------------------- MODULE Shipments -------------------------------
(***************************************************************************)
(* What the picking floor promises for each fulfillment of an order        *)
(* (header of migrations/20260518100000_create_sales_warehouse.ts): it is  *)
(* opened once and closes once, by being shipped or cancelled; goods are   *)
(* put in and out of its basket only while it is open; what leaves the     *)
(* shelf is the basket, in the step that ships it.  Of a fulfillment that  *)
(* came loose nothing is promised any more but that it leaves the others   *)
(* alone.                                                                  *)
(***************************************************************************)
EXTENDS Naturals

CONSTANTS Tasks,         \* ids of sales_fulfillments
          Products       \* the products of the lines

VARIABLES phase,         \* how far each fulfillment is
          basket,        \* what has been picked for it
          goods,         \* what left the shelf for it
          loose          \* fulfillments of which nothing is promised any more

shipmentVars == <<phase, basket, goods, loose>>

Empty == [p \in Products |-> 0]

ShipmentsInit ==
    /\ phase \in [Tasks -> {"absent", "open"}]
    /\ basket = [f \in Tasks |-> Empty]
    /\ goods = [f \in Tasks |-> Empty]
    /\ loose = {}

OpenTask(f) ==
    /\ phase[f] = "absent"
    /\ phase' = [phase EXCEPT ![f] = "open"]
    /\ UNCHANGED <<basket, goods, loose>>

PickItem(f) ==
    /\ phase[f] = "open"
    /\ \E p \in Products : basket' = [basket EXCEPT ![f][p] = basket'[f][p]]
    /\ UNCHANGED <<phase, goods, loose>>

ShipBasket(f) ==
    /\ phase[f] = "open"
    /\ phase' = [phase EXCEPT ![f] = "shipped"]
    /\ goods' = [goods EXCEPT ![f] = basket[f]]
    /\ UNCHANGED <<basket, loose>>

CancelTask(f) ==
    /\ phase[f] = "open"
    /\ phase' = [phase EXCEPT ![f] = "cancelled"]
    /\ UNCHANGED <<basket, goods, loose>>

\* Coming loose changes nothing yet.
ComeLoose(f) ==
    /\ loose' = loose \cup {f}
    /\ UNCHANGED <<phase, basket, goods>>

LooseStep(f) ==
    /\ f \in loose
    /\ phase' = [phase EXCEPT ![f] = phase'[f]]
    /\ basket' = [basket EXCEPT ![f] = basket'[f]]
    /\ goods' = [goods EXCEPT ![f] = goods'[f]]
    /\ UNCHANGED loose

ShipmentsNext ==
    \E f \in Tasks : \/ OpenTask(f) \/ PickItem(f) \/ ShipBasket(f) \/ CancelTask(f)
                     \/ ComeLoose(f) \/ LooseStep(f)

ShipmentsSpec == ShipmentsInit /\ [][ShipmentsNext]_shipmentVars
================================================================================
