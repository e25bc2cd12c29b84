\* Fulfillments
SPECIFICATION MCSpec
CONSTANTS
    p1 = p1
    p2 = p2
    d1 = d1
    d2 = d2
    f1 = f1
    f2 = f2
    s1 = s1
    s2 = s2
    Products = {p1, p2}
    Docs = {d1, d2}
    Tasks = {f1, f2}
    Sessions = {s1, s2}
    MaxQuantity = 2
    StockAtStart = 3
SYMMETRY Symmetry
INVARIANT FloorAgrees
INVARIANT ShippedIsSettled
PROPERTY ImplementsShipments
\* Everything may be shipped or cancelled.
CHECK_DEADLOCK FALSE
