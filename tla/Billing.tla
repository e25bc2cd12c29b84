-------------------------------- MODULE Billing --------------------------------
(* Recurring billing (src/modules/billing): plans, subscriptions, and the run  *)
(* that invoices them, by the cron at 6 and by hand. A run reads the due       *)
(* subscriptions once and works through those rows; requests of users change   *)
(* the subscriptions meanwhile. Invoices are numbered by the older counter.    *)
EXTENDS Numbering

CONSTANTS
    Subs, Plans, Users,
    Cycles, CycleDays,     \* billing_cycle and its length
    Shapes, Terms,         \* what a plan may sell: Terms[shape] is its cycle and trial_days
    MaxDay                 \* bound: the calendar stops here

None == "none"

ASSUME BillingAssumption ==
    /\ None \notin Subs \cup Plans \cup Shapes
    /\ Cycles # {} /\ CycleDays \in [Cycles -> Nat \ {0}] /\ Terms \in [Shapes -> [cycle: Cycles, trial: Nat]]
    /\ MaxDay \in Nat

VARIABLES
    today,
    plans,       \* billing_plans
    subs,        \* billing_subscriptions
    invoices,    \* billing_subscription_invoices
    run,         \* per runner: the rows it has still to treat, and the one it treats
    request      \* per user: the rows the handler read

billingVars == <<today, plans, subs, invoices, run, request>>
vars == <<numberingVars, billingVars>>

NoDate == 0
AddCycle(day, c) == day + CycleDays[c]
TheYear == CHOOSE y \in Years : TRUE

Statuses == {"none", "trialing", "active", "paused", "cancelled"}
Days == Nat
PlanRow == [shape: Shapes \cup {None}, isActive: BOOLEAN]
SubscriptionRow ==
    [status: Statuses, trialEnd: Days, start: Days, end: Days, next: Days, cycle: Cycles,
     cancelAt: Days, plan: Plans \cup {None}, first: Days]
InvoiceRow == [sub: Subs, start: Days, end: Days]

NoSub == [status |-> "none", trialEnd |-> NoDate, start |-> NoDate, end |-> NoDate,
          next |-> NoDate, cycle |-> CHOOSE c \in Cycles : TRUE, cancelAt |-> NoDate,
          plan |-> None, first |-> NoDate]
NoPlan == [shape |-> None, isActive |-> FALSE]
NoRequest == [sub |-> None, status |-> "none", end |-> NoDate]
Resting == [rows |-> <<>>, at |-> None, step |-> "rest"]

Init ==
    /\ NumberingInit
    /\ today = 1
    /\ plans = [p \in Plans |-> NoPlan]
    /\ subs = [s \in Subs |-> NoSub]
    /\ invoices = {}
    /\ run = [r \in Runners |-> Resting]
    /\ request = [u \in Users |-> NoRequest]

NextDay ==
    /\ today < MaxDay /\ today' = today + 1
    /\ UNCHANGED <<numberingVars, plans, subs, invoices, run, request>>

--------------------------------------------------------------------------------
\* Plans.

SavePlan(p, shape, active) ==
    /\ plans' = [plans EXCEPT ![p] = [shape |-> shape, isActive |-> active]]
    /\ UNCHANGED <<numberingVars, today, subs, invoices, run, request>>

\* A plan with subscriptions is only deactivated. (Were one made between the check and the
\* deletion, its plan_id would be emptied; the row keeps its own cycle and amount.)
RemovePlan(p) ==
    /\ plans[p] # NoPlan
    /\ plans' = [plans EXCEPT ![p] =
           IF \E s \in Subs : subs[s].plan = p THEN [@ EXCEPT !.isActive = FALSE] ELSE NoPlan]
    /\ UNCHANGED <<numberingVars, today, subs, invoices, run, request>>

--------------------------------------------------------------------------------
\* Subscriptions: each handler reads the row and then writes fields of it. The plan is read
\* by the statement before the write and is taken as it is then.

Read(u, s) ==
    /\ request[u] = NoRequest
    /\ request' = [request EXCEPT ![u] = [sub |-> s, status |-> subs[s].status, end |-> subs[s].end]]
    /\ UNCHANGED <<numberingVars, today, plans, subs, invoices, run>>

Write(u, row) ==
    /\ request[u].sub # None
    /\ subs' = [subs EXCEPT ![request[u].sub] = row]
    /\ request' = [request EXCEPT ![u] = NoRequest]
    /\ UNCHANGED <<numberingVars, today, plans, invoices, run>>

\* The row as it is now, of a subscription that was not cancelled when it was read.
Current(u) == subs[request[u].sub]
MayEdit(u) == request[u].sub # None /\ request[u].status \notin {"none", "cancelled"}

CreateSubscription(u, p) ==
    LET terms == Terms[plans[p].shape]
        first == today + terms.trial IN
    /\ request[u].sub # None /\ Current(u) = NoSub
    /\ plans[p] # NoPlan /\ plans[p].isActive
    /\ Write(u, [status |-> IF terms.trial > 0 THEN "trialing" ELSE "active",
                 trialEnd |-> IF terms.trial > 0 THEN first ELSE NoDate,
                 start |-> first, end |-> AddCycle(first, terms.cycle) - 1, next |-> first,
                 cycle |-> terms.cycle, cancelAt |-> NoDate, plan |-> p, first |-> first])

\* pause and resume.
ChangeStatus(u, status) ==
    /\ MayEdit(u)
    /\ Write(u, [Current(u) EXCEPT !.status = status])

CancelNow(u) ==
    /\ MayEdit(u)
    /\ Write(u, [Current(u) EXCEPT !.status = "cancelled", !.cancelAt = today])

\* The date is the end of the period that was read; the next run on or after it cancels.
CancelAtPeriodEnd(u) ==
    /\ MayEdit(u)
    /\ Write(u, [Current(u) EXCEPT !.cancelAt = request[u].end, !.next = request[u].end])

\* Both values of dto.effective write the plan's cycle at once and leave the dates.
ChangePlan(u, p) ==
    /\ MayEdit(u) /\ plans[p] # NoPlan
    /\ Write(u, [Current(u) EXCEPT !.cycle = Terms[plans[p].shape].cycle, !.plan = p])

Refuse(u) ==
    /\ request[u] # NoRequest
    /\ request' = [request EXCEPT ![u] = NoRequest]
    /\ UNCHANGED <<numberingVars, today, plans, subs, invoices, run>>

--------------------------------------------------------------------------------
\* The run.

Due(row) == row.status \in {"trialing", "active"} /\ row.next <= today

\* Faulty variant: the scan asks for next_billing_date before today.
StartRunLate(r) ==
    LET due == {s \in Subs : Due(subs[s]) /\ subs[s].next < today} IN
    /\ run[r] = Resting /\ due # {}
    /\ run' = [run EXCEPT ![r] = [rows |-> [s \in due |-> subs[s]], at |-> None, step |-> "next"]]
    /\ UNCHANGED <<numberingVars, today, plans, subs, invoices, request>>

StartRun(r) ==
    LET due == {s \in Subs : Due(subs[s])} IN
    /\ run[r] = Resting /\ due # {}
    /\ run' = [run EXCEPT ![r] = [rows |-> [s \in due |-> subs[s]], at |-> None, step |-> "next"]]
    /\ UNCHANGED <<numberingVars, today, plans, subs, invoices, request>>

\* The row a run works on, as its scan read it.
RowOf(r) == run[r].rows[run[r].at]

Without(rows, s) == [o \in DOMAIN rows \ {s} |-> rows[o]]

\* The run after it is done with subscription s.
After(r, s) ==
    LET left == Without(run[r].rows, s) IN
    IF DOMAIN left = {} THEN Resting ELSE [rows |-> left, at |-> None, step |-> "next"]

EndCancelled(r, s) ==
    LET row == run[r].rows[s] IN
    /\ row.cancelAt # NoDate /\ row.cancelAt <= today
    /\ subs' = [subs EXCEPT ![s].status = "cancelled"]
    /\ run' = [run EXCEPT ![r] = After(r, s)]

StillTrialing(r, s) ==
    LET row == run[r].rows[s] IN
    /\ row.status = "trialing" /\ row.trialEnd > today
    /\ run' = [run EXCEPT ![r] = After(r, s)]
    /\ UNCHANGED subs

\* A trial that is over makes the subscription active; then, and for an active one, the
\* invoice of the period that was read.
TakeUp(r, s) ==
    LET row == run[r].rows[s] IN
    /\ row.status = "trialing" => row.trialEnd <= today
    /\ subs' = IF row.status = "trialing" THEN [subs EXCEPT ![s].status = "active"] ELSE subs
    /\ run' = [run EXCEPT ![r].at = s, ![r].step = "generate"]

Treat(r, s) ==
    /\ run[r].step = "next" /\ s \in DOMAIN run[r].rows
    /\ LET row == run[r].rows[s] IN
       \/ EndCancelled(r, s)
       \/ /\ ~(row.cancelAt # NoDate /\ row.cancelAt <= today)
          /\ StillTrialing(r, s) \/ TakeUp(r, s)
    /\ UNCHANGED <<numberingVars, today, plans, invoices, request>>

\* advanceSubscription: the next period is computed from the row as the scan read it.
Advanced(current, row) ==
    LET start == AddCycle(row.start, row.cycle) IN
    [current EXCEPT !.start = start, !.end = AddCycle(start, row.cycle) - 1, !.next = start]

Invoiced(s, start) == \E i \in invoices : i.sub = s /\ i.start = start

AdvanceOnly(r) ==
    /\ run[r].step = "generate" /\ drawing[r] = Idle
    /\ Invoiced(run[r].at, RowOf(r).start)
    /\ subs' = [subs EXCEPT ![run[r].at] = Advanced(@, RowOf(r))]
    /\ run' = [run EXCEPT ![r] = After(r, run[r].at)]
    /\ UNCHANGED <<numberingVars, today, plans, invoices, request>>

\* No invoice of the period yet: the transaction goes on to draw a number.
BeginInvoice(r) ==
    /\ run[r].step = "generate" /\ drawing[r] = Idle
    /\ ~Invoiced(run[r].at, RowOf(r).start)
    /\ DrawFromCounter(r, TheYear)
    /\ UNCHANGED <<series, counters, numbered, removing, billingVars>>

\* Document, line, receivable, commission and the row of the period, with the new pointer.
CommitInvoice(r) ==
    LET s == run[r].at row == RowOf(r) IN
    /\ run[r].step = "generate" /\ drawing[r] # Idle
    /\ ~Invoiced(s, row.start)
    /\ IssueNumber(r)
    /\ invoices' = invoices \cup {[sub |-> s, start |-> row.start, end |-> row.end]}
    /\ subs' = [subs EXCEPT ![s] = Advanced(@, row)]
    /\ run' = [run EXCEPT ![r] = After(r, s)]
    /\ UNCHANGED <<today, plans, request>>

\* Faulty variant: the pointer is advanced outside the invoice's transaction.
FailInvoiceAdvances(r) ==
    /\ run[r].step = "generate" /\ drawing[r] # Idle
    /\ drawing' = [drawing EXCEPT ![r] = Idle]
    /\ subs' = [subs EXCEPT ![run[r].at] = Advanced(@, RowOf(r))]
    /\ run' = [run EXCEPT ![r] = After(r, run[r].at)]
    /\ UNCHANGED <<series, counters, numbered, removing, today, plans, invoices, request>>

\* A duplicate period, a taken number or any other error: rolled back, counted, next row.
FailInvoice(r) ==
    /\ run[r].step = "generate" /\ drawing[r] # Idle
    /\ drawing' = [drawing EXCEPT ![r] = Idle]
    /\ run' = [run EXCEPT ![r] = After(r, run[r].at)]
    /\ UNCHANGED <<series, counters, numbered, removing, today, plans, subs, invoices, request>>

\* The process stops: open transactions are rolled back and every run is forgotten. Bound:
\* not on the last day, which stands for the time after the last crash.
Crash ==
    /\ today < MaxDay
    /\ run' = [r \in Runners |-> Resting] /\ request' = [u \in Users |-> NoRequest]
    /\ drawing' = [t \in Transactions |-> Idle]
    /\ UNCHANGED <<series, counters, numbered, removing, today, plans, subs, invoices>>

--------------------------------------------------------------------------------
PlanNext ==
    \E p \in Plans :
        \/ RemovePlan(p)
        \/ \E shape \in Shapes, active \in BOOLEAN : SavePlan(p, shape, active)

RequestNext ==
    \E u \in Users :
        \/ \E s \in Subs : Read(u, s)
        \/ \E p \in Plans : CreateSubscription(u, p) \/ ChangePlan(u, p)
        \/ \E status \in {"paused", "active"} : ChangeStatus(u, status)
        \/ CancelNow(u) \/ CancelAtPeriodEnd(u) \/ Refuse(u)

RunNext ==
    \E r \in Runners :
        \/ StartRun(r) \/ \E s \in Subs : Treat(r, s)
        \/ AdvanceOnly(r) \/ BeginInvoice(r) \/ CommitInvoice(r) \/ FailInvoice(r)

Next ==
    \/ NextDay \/ PlanNext \/ RequestNext \/ RunNext \/ Crash
    \/ NumberingNext /\ UNCHANGED billingVars

Spec == Init /\ [][Next]_vars

\* The cron's run starts whenever something is due, and goes on; runs by hand have no such
\* promise. Days pass. Whoever made it, a transaction that holds the counter ends; the counter's lock
\* queue lets the cron in, and its commit is not failed every time.
CronStep(r) == StartRun(r) \/ (\E s \in Subs : Treat(r, s)) \/ AdvanceOnly(r)
CronFairness(r) == WF_vars(CronStep(r)) /\ SF_vars(BeginInvoice(r)) /\ SF_vars(CommitInvoice(r))
Fairness ==
    /\ WF_vars(NextDay)
    /\ WF_vars(\E r \in Runners : CommitInvoice(r) \/ FailInvoice(r))
    /\ \A r \in {q \in Runners : q = "cron"} : CronFairness(r)
FairSpec == Spec /\ Fairness

--------------------------------------------------------------------------------
BillingTypeOK ==
    /\ NumberingTypeOK
    /\ plans \in [Plans -> PlanRow] /\ subs \in [Subs -> SubscriptionRow]
    /\ \A i \in invoices : i \in InvoiceRow /\ subs[i.sub] # NoSub
    /\ \A r \in Runners : /\ \A s \in DOMAIN run[r].rows : run[r].rows[s] \in SubscriptionRow
                           /\ run[r].step = "generate" <=> run[r].at \in DOMAIN run[r].rows

LengthOf(period) == period.end - period.start + 1
InvoicesOf(s) == {i \in invoices : i.sub = s}

\* The period is the first one of the subscription, or as far from an invoiced one as it is long.
Follows(s, period) ==
    \/ period.start = subs[s].first
    \/ \E i \in InvoicesOf(s) : period.start = i.start + LengthOf(period)

\* The pointer of a subscription leaves a period only when that period was invoiced, and an
\* invoice is for a period the pointer came to: no period is skipped, though runs overlap, fail
\* half-way and write stale rows back (advanceSubscription, inside the invoice's transaction).
NoPeriodSkipped ==
    /\ \A s \in Subs : Follows(s, subs[s])
    /\ \A i \in invoices : Follows(i.sub, i)

\* A period that begins on a day is invoiced once, whoever runs (period_start is looked up in
\* the transaction that inserts it, and unique).
InvoicedOnce ==
    \A i, j \in invoices : i.sub = j.sub /\ i.start = j.start => i = j

\* The invoices of a subscription whose plan always had one length have no day in common: the
\* stale pointer is harmless then. (After a change of plan it is not: a run that goes on with a
\* row of before leads to periods that overlap.)
PeriodsDisjoint ==
    \A s \in Subs : (\A i, j \in InvoicesOf(s) : LengthOf(i) = LengthOf(j)) =>
        \A i, j \in InvoicesOf(s) : i # j => i.end < j.start \/ j.end < i.start

\* Every period is invoiced once.
PeriodsFollow == BillingTypeOK /\ NoPeriodSkipped /\ InvoicedOnce /\ PeriodsDisjoint

\* What is due does not stay due: the cron invoices it, or it is paused or ends. The one
\* way out is the counter: a document of series 'A' that has its next number already makes
\* every invoice fail and roll the counter back, until that document is removed.
CounterFree == ~Taken(DocNumber(Counter(TheYear), counters[TheYear] + 1))
DueIsTreated == \A s \in Subs : []<>(Due(subs[s]) => ~CounterFree)
================================================================================
