---------------------------- MODULE MCFulfillments ----------------------------
(* Instances of PickingFloor: one accepted order with two lines, and two       *)
(* pickers.                                                                    *)
EXTENDS PickingFloor, TLC

CONSTANTS p1, p2, d1, d2, f1, f2, s1, s2

Symmetry == Permutations({p1, p2}) \cup Permutations({d1, d2}) \cup Permutations({s1, s2}) \cup Permutations({f1, f2})

\* Bounds: a partial or a damaged item, or a quantity that does not go with the result, comes
\* up while the requests of one fulfillment follow one another.
PlainPick(r) == r.op \in {"pick", "picked"} =>
    \/ r.status \in {"pending", "missing"} /\ r.quantity = 0
    \/ r.status = "picked" /\ r.quantity = MaxQuantity
Two == Cardinality({f \in Tasks : Present(f)}) = 2
Overlapping == \E s, u \in Sessions : s # u /\ session[s] # Idle /\ session[u] # Idle

\* Of two fulfillments, only shipments and cancellations overlap.
Closing == \A s \in Sessions : session[s].op \in {"idle", "ship", "cancel"}

MCSpec == Init /\ [][/\ Next
                     /\ Overlapping' \/ Two => \A s \in Sessions : PlainPick(session'[s])
                     /\ Overlapping' /\ Two => Closing']_vars
================================================================================
