---------------------------- MODULE MCStockEngine ----------------------------
(* Instances of StockEngine: one product in one or two warehouses, and the    *)
(* callers' programs on it, with quantities around the available stock.       *)
EXTENDS StockEngine

CONSTANTS p1, w1, w2, t1, t2

Line(q) == [product |-> p1, quantity |-> q]

\* Opposite transfers, a sale, a purchase, an entry of quantity zero and a count loss:
\* two warehouses.
TwoWarehousePrograms ==
    {Transfer(<<Line(1)>>, w1, w2), Transfer(<<Line(1)>>, w2, w1), Issue(<<Line(1)>>, w1),
     Receipt(<<Line(1)>>, w2), Receipt(<<Line(0)>>, w2), CountDifference(p1, w1, -1)}

================================================================================
