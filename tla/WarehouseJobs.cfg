\* WarehouseJobs
SPECIFICATION Spec
CONSTANTS
    None = None
    Products = {p1}
    Warehouses = {w1, w2}
    Transfers = {t1}
    Counts = {c1}
    Sessions = {s1, s2}
    MaxQuantity = 2
INVARIANT TransferIsWhole
INVARIANT CountSettlesOnce
PROPERTY TransferMovesOnce
