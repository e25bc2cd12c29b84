\* SalesDocuments
SPECIFICATION MCSalesSpec
CONSTANTS
    p1 = p1
    d1 = d1
    d2 = d2
    s1 = s1
    s2 = s2
    Products = {p1}
    Docs = {d1, d2}
    Tasks = {f1}
    Sessions = {s1, s2}
    Rules = {r1}
    MaxQuantity = 1
    StockAtStart = 2
SYMMETRY Symmetry
INVARIANT DocumentsAgree
INVARIANT OrdersAreBacked
PROPERTY DocumentMovesOnce
\* Everything may end up cancelled, and the ids run out.
CHECK_DEADLOCK FALSE
