\* StockEngine_race
SPECIFICATION Spec
CONSTANTS
    p1 = p1
    w1 = w1
    w2 = w2
    t1 = t1
    t2 = t2
    Products = {p1}
    Warehouses = {w1, w2}
    Txns = {t1, t2}
    Programs <- TwoWarehousePrograms
    InitialStock = {1}
    DirectEdits = {}
    MaxMovements = 2
INVARIANT AggregateIsSum
\* The model stops beginning transactions at the bound on ledger rows.
CHECK_DEADLOCK FALSE
