\* StockEngine
SPECIFICATION FairSpec
CONSTANTS
    p1 = p1
    w1 = w1
    w2 = w2
    t1 = t1
    t2 = t2
    Products = {p1}
    Warehouses = {w1, w2}
    Txns = {t1, t2}
    Programs <- TwoWarehousePrograms
    InitialStock = {1}
    DirectEdits = {0}
    MaxMovements = 3
INVARIANT EngineInv
INVARIANT TransfersConserve
PROPERTY LedgerSpec
PROPERTY TransactionsEnd
\* The model stops beginning transactions at the bound on ledger rows.
CHECK_DEADLOCK FALSE
