\* Purchases_twice
SPECIFICATION Spec
CONSTANTS
    p1 = p1
    d1 = d1
    d2 = d2
    s1 = s1
    r1 = r1
    Products = {p1}
    Docs = {d1, d2}
    Rules = {r1}
    Sessions = {s1}
    MaxQuantity = 2
INVARIANT GoodsEnterOnce
\* The ids run out, and every document may have been removed.
CHECK_DEADLOCK FALSE
