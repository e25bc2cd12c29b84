\* Finance
SPECIFICATION FinanceSpec
CONSTANTS
    u1 = u1
    u2 = u2
    j1 = j1
    d1 = d1
    Clerks = {u1, u2}
    Chart <- SmallChart
    Summary = "summary"
    Retained = "retained"
    Journals = {j1}
    Refs = {d1}
    Postings <- SmallPostings
    Bills <- SmallBills
    Templates <- SmallTemplates
    Years = {1, 2}
    MaxEntries = 6
    b1 = b1
    b2 = b2
    Cashiers = {u1, u2}
    BankIds = {b1, b2}
    Currencies = {"AOA", "USD"}
    Days = {1, 2}
    Amounts = {1}
    Files <- SmallFiles
    MaxRows = 4
SYMMETRY ThePeople
INVARIANT BooksAreNumbered
INVARIANT TrialBalanceIsOffByCents
INVARIANT YearsCloseOnce
INVARIANT StatementsReconcile
INVARIANT BalanceIsMovements
INVARIANT StatementsAreBacked
PROPERTY RatesLookForward
\* The entries are bounded.
CHECK_DEADLOCK FALSE
