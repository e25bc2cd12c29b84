SPECIFICATION CollectionsSpec
CONSTANTS
    s2 = s2
    k1 = k1
    k2 = k2
    u1 = u1
    u2 = u2
    r1 = r1
    r2 = r2
    d1 = d1
    d2 = d2
    v1 = v1
    q2 = q2
    p1 = p1
    ann = ann
    Wordings <- MCWordings
    Customers = {c1, c2}
    Suppliers = {v1}
    Codes = {x}
    Numbers <- MCNumbers
    Types = {"cpf", "nif"}
    Accounts = {i1}
    Nobody = Nobody
    None = None
    Keep = Keep
    Docs = {d1, d2}
    Sessions = {s1, s2}
    Totals = {1, 2}
    Ceilings = {1, 2}
    Unlimited = Unlimited
    Nothing = Nothing
    Receivables = {r1, r2}
    Rules = {k1, k2}
    Offsets = {0, 1}
    DefaultOffset <- MCDefault
    Runs = {u1, u2}
    MaxDay = 2
    MaxEdits = 3
    MaxRuns = 3
    Dues = {0, 1}
    Nil = Nil
    Papers = {p1}
    Policies = {q1, q2}
    Staff = {ann, bob}
    Positions = {"sales", "manager"}
    Observed = {1, 2, NoValue}
    NoValue = NoValue
    PriceLists = {l1, l2}
    Clerks = {c3, c4}
    NoList = NoList
INVARIANT RegistryHolds
INVARIANT CreditHolds
INVARIANT PaidMakesEligible
INVARIANT ChasingEscalates
INVARIANT WaitingIsAnswerable
INVARIANT TwoDefaultsWereRaced
CHECK_DEADLOCK FALSE
