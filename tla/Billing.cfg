\* Billing
SPECIFICATION MCSpec
CONSTANTS
    s1 = s1
    p1 = p1
    u1 = u1
    i1 = i1
    i2 = i2
    a1 = a1
    Issuers = {i1, i2}
    Runners = {"cron", "manual"}
    Admins = {a1}
    Years = {2026}
    Codes = {"A", "B"}
    MaxNumber = 2
    Subs = {s1}
    Plans = {p1}
    Users = {u1}
    Cycles = {"monthly", "annual"}
    CycleDays <- CycleLengths
    Shapes = {"plain", "trial"}
    Terms <- ShapeTerms
    MaxDay = 2
INVARIANT CountersCoverNumbers
INVARIANT PeriodsFollow
PROPERTY DueIsTreated
\* The calendar and the numbers end.
CHECK_DEADLOCK FALSE
