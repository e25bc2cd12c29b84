\* Accounts
SPECIFICATION Spec
CONSTANTS
    Entries = {e1}
    Payments = {m1, m2}
    Batches = {b1, b2}
    Sessions = {s1, s2}
    Allocators = {s1}
    FormStatuses = {"cancelled", "paid"}
    Total = 2
INVARIANT MoneyIsBacked
PROPERTY SyncIsBacked
SYMMETRY Symmetry
\* Entries, documents and payments may all be used up.
CHECK_DEADLOCK FALSE
