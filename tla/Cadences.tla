-------------------------------- MODULE Cadences --------------------------------
(* A cadence of prospecting (src/modules/prospecting/sequences): its steps,    *)
(* the people enrolled, and the tasks (step executions) that lead each of them *)
(* from step to step. Concluding a task is a transaction: it locks the task,   *)
(* reads where its person stands, and writes when it commits. One cadence; the *)
(* texts, the assignees and the notes are left out.                            *)
EXTENDS Integers, FiniteSets, Sequences

CONSTANTS
    Sellers,           \* requests that may be under way at once
    Leads,             \* people who may be enrolled
    StepIds, Waits,    \* ids of steps, never used again; values of wait_days
    LastDay,           \* bound: days, of which day 0 is a Sunday
    MaxTasks           \* bound: executions

ASSUME CadencesAssumption == IsFiniteSet(Leads) /\ Waits \subseteq Nat /\ LastDay \in Nat /\ MaxTasks \in Nat

VARIABLES
    sequence,    \* prospect_sequences: the status, and whether weekends are skipped
    step,        \* prospect_sequence_steps
    enrolled,    \* prospect_sequence_enrollments
    tasks,       \* prospect_sequence_step_executions, in the order of commit
    seller,      \* what each request is about to do
    today,
    disturbed    \* history: people two requests advanced at once, or whose order of steps changed

cadenceVars == <<sequence, step, enrolled, tasks, seller, today, disturbed>>

Missing == [state |-> "none"]
Gone == [state |-> "gone"]
Kept(row) == row.state = "kept"
SequenceStatuses == {"draft", "active", "paused", "archived"}
SequenceRow == [state: {"kept"}, status: SequenceStatuses, skip: BOOLEAN]
StepRow == [state: {"kept"}, order: Nat \ {0}, wait: Waits]
NoDay == -1
EnrollmentStatuses == {"active", "paused", "completed", "replied", "unsubscribed", "failed"}
EnrollmentRow == [state: {"kept"}, status: EnrollmentStatuses, order: Nat, next: Int]
Outcomes == {"completed", "skipped", "failed"}
\* made, and the rule, are those of the scheduling; the row has only its day.
ExecutionRow ==
    [person: Leads, step: StepIds, status: Outcomes \cup {"pending", "gone"},
     day: Nat, made: Nat, wait: Waits, skip: BOOLEAN]

Resting == [op |-> "rest"]
Turn(u, work) == seller' = [seller EXCEPT ![u] = work]

CadencesInit ==
    /\ sequence = Missing /\ step = [s \in StepIds |-> Missing]
    /\ enrolled = [p \in Leads |-> Missing] /\ tasks = <<>>
    /\ seller = [u \in Sellers |-> Resting] /\ today \in 0..6 /\ disturbed = {}

--------------------------------------------------------------------------------
\* The day of a task.

Weekend(day) == day % 7 \in {0, 6}
\* Faulty variant: the day after a Friday is a Saturday.
NextDay(day) == day + 1
NextWorkday(day) == CHOOSE d \in day + 1..day + 3 : ~Weekend(d) /\ \A e \in day + 1..d - 1 : Weekend(e)
ThisWorkday(day) == IF Weekend(day) THEN NextWorkday(day) ELSE day

ComputeScheduledDate(from, wait, skip) ==
    LET after[n \in 0..wait] == IF n = 0 THEN from ELSE NextWorkday(after[n - 1])
    IN  IF ~skip THEN from + wait
        ELSE IF wait = 0 THEN ThisWorkday(from) ELSE after[wait]

--------------------------------------------------------------------------------
\* The cadence and its steps.

CreateSequence(status, skip) ==
    /\ sequence = Missing /\ sequence' = [state |-> "kept", status |-> status, skip |-> skip]
    /\ UNCHANGED <<step, enrolled, tasks, seller, today, disturbed>>

\* Nobody is taken out of a cadence that is paused or archived.
UpdateSequence(status, skip) ==
    /\ Kept(sequence) /\ sequence' = [sequence EXCEPT !.status = status, !.skip = skip]
    /\ UNCHANGED <<step, enrolled, tasks, seller, today, disturbed>>

\* A task a transaction has updated is locked until it ends; a deletion that reaches it waits.
Holds(u, t) == seller[u].op = "advance" /\ seller[u].task = t
LockedTask(t) == \E u \in Sellers : Holds(u, t)
Delete(rows) == tasks' = [t \in DOMAIN tasks |->
    IF t \in rows THEN [tasks[t] EXCEPT !.status = "gone"] ELSE tasks[t]]

\* Everything that refers to it goes with it (ON DELETE CASCADE).
RemoveSequence ==
    /\ Kept(sequence) /\ \A t \in DOMAIN tasks : ~LockedTask(t)
    /\ sequence' = Gone
    /\ step' = [s \in StepIds |-> IF Kept(step[s]) THEN Gone ELSE step[s]]
    /\ enrolled' = [p \in Leads |-> IF Kept(enrolled[p]) THEN Gone ELSE enrolled[p]]
    /\ Delete(DOMAIN tasks)
    /\ UNCHANGED <<seller, today, disturbed>>

Steps == {s \in StepIds : Kept(step[s])}
OrderOf(s) == step[s].order
LastOrder == IF Steps = {} THEN 0 ELSE CHOOSE n \in {OrderOf(s) : s \in Steps} : \A s \in Steps : OrderOf(s) <= n
IsEnrolled == {p \in Leads : Kept(enrolled[p])}
Shifted(from, by) == [s \in StepIds |->
    IF Kept(step[s]) /\ OrderOf(s) >= from THEN [step[s] EXCEPT !.order = @ + by] ELSE step[s]]
NewStep(order, wait) == [state |-> "kept", order |-> order, wait |-> wait]

AddStepLast(s, wait) ==
    /\ Kept(sequence) /\ step[s] = Missing
    /\ step' = [step EXCEPT ![s] = NewStep(LastOrder + 1, wait)]
    /\ UNCHANGED <<sequence, enrolled, tasks, seller, today, disturbed>>

\* The orders of steps that follow move, not those of the people (current_step_order). With more
\* than one to move the unique index refuses the UPDATE, or not, as the rows happen to lie.
AddStepAt(s, order, wait) ==
    /\ Kept(sequence) /\ step[s] = Missing /\ order <= LastOrder
    /\ step' = [Shifted(order, 1) EXCEPT ![s] = NewStep(order, wait)]
    /\ disturbed' = disturbed \cup IsEnrolled
    /\ UNCHANGED <<sequence, enrolled, tasks, seller, today>>

UpdateStep(s, order, wait) ==
    /\ s \in Steps /\ \A r \in Steps \ {s} : OrderOf(r) # order
    /\ step' = [step EXCEPT ![s].order = order, ![s].wait = wait]
    /\ disturbed' = IF order = OrderOf(s) THEN disturbed ELSE disturbed \cup IsEnrolled
    /\ UNCHANGED <<sequence, enrolled, tasks, seller, today>>

\* The tasks of the step go with it, the pending ones too; the steps after it move down.
PassedBy(s) ==
    {p \in IsEnrolled : enrolled[p].order >= OrderOf(s)}
      \cup {tasks[seller[u].task].person : u \in {v \in Sellers : seller[v].op = "advance"}}

RemoveStep(s) ==
    /\ s \in Steps /\ \A t \in DOMAIN tasks : tasks[t].step = s => ~LockedTask(t)
    /\ step' = [Shifted(OrderOf(s) + 1, -1) EXCEPT ![s] = Gone]
    /\ Delete({t \in DOMAIN tasks : tasks[t].step = s})
    /\ disturbed' = disturbed \cup PassedBy(s)
    /\ UNCHANGED <<sequence, enrolled, seller, today>>

--------------------------------------------------------------------------------
\* People.

Above(order) == {s \in Steps : OrderOf(s) > order}
First(S) == CHOOSE s \in S : \A r \in S : OrderOf(s) <= OrderOf(r)
DayOf(s) == ComputeScheduledDate(today, step[s].wait, sequence.skip)
Task(p, s) ==
    [person |-> p, step |-> s, status |-> "pending", made |-> today, wait |-> step[s].wait,
     skip |-> sequence.skip, day |-> DayOf(s)]

\* Those enrolled already are skipped. A cadence without steps enrolls people who have no task.
EnrollPeople(P) ==
    /\ Kept(sequence) /\ sequence.status # "archived" /\ Len(tasks) + Cardinality(P) <= MaxTasks
    /\ P # {} /\ \A p \in P : enrolled[p] = Missing
    /\ LET s == First(Steps)
           row == IF Steps = {} THEN [state |-> "kept", status |-> "active", order |-> 0, next |-> NoDay]
                  ELSE [state |-> "kept", status |-> "active", order |-> OrderOf(s), next |-> DayOf(s)]
       IN  /\ enrolled' = [p \in Leads |-> IF p \in P THEN row ELSE enrolled[p]]
           /\ \E list \in [1..Cardinality(P) -> P] :
                 /\ {list[i] : i \in DOMAIN list} = P
                 /\ tasks' = IF Steps = {} THEN tasks ELSE tasks \o [i \in DOMAIN list |-> Task(list[i], s)]
    /\ UNCHANGED <<sequence, step, seller, today, disturbed>>

\* Any status follows any; the pending task stays, and one who is active again gets none.
UpdateEnrollment(p, status) ==
    /\ p \in IsEnrolled
    /\ enrolled' = [enrolled EXCEPT ![p].status = status,
                                    ![p].next = IF status \in {"active", "paused"} THEN @ ELSE NoDay]
    /\ UNCHANGED <<sequence, step, tasks, seller, today, disturbed>>

\* Faulty variant: a task that is finished may be concluded again.
BeginCompletionAgain(u, t) ==
    /\ seller[u] = Resting /\ tasks[t].status # "gone"
    /\ Turn(u, [op |-> "claim", task |-> t])
    /\ disturbed' = disturbed \cup
          {p \in {tasks[t].person} : \E v \in Sellers : seller[v].op # "rest" /\ tasks[seller[v].task].person = p}
    /\ UNCHANGED <<sequence, step, enrolled, tasks, today>>

\* completeExecution. The status of the person is not looked at, nor is the task locked when read.
BeginCompletion(u, t) ==
    /\ seller[u] = Resting /\ tasks[t].status = "pending"
    /\ Turn(u, [op |-> "claim", task |-> t])
    /\ disturbed' = disturbed \cup
          {p \in {tasks[t].person} : \E v \in Sellers : seller[v].op # "rest" /\ tasks[seller[v].task].person = p}
    /\ UNCHANGED <<sequence, step, enrolled, tasks, today>>

\* Faulty variant: from the order of the person on.
FromHere(order) == {s \in Steps : OrderOf(s) >= order}
NextSteps(order) == Above(order)
NoStep == [none |-> TRUE]

\* The update takes the lock (of a row that may be gone); where the person stands is read after.
Claim(u) ==
    /\ seller[u].op = "claim"
    /\ LET t == seller[u].task
           p == tasks[t].person
       IN  /\ ~LockedTask(t)
           /\ IF ~Kept(enrolled[p]) THEN Turn(u, Resting)
              ELSE LET next == NextSteps(enrolled[p].order)
                   IN  Turn(u, [op |-> "advance", task |-> t,
                                next |-> IF next = {} THEN NoStep ELSE Task(p, First(next)),
                                order |-> IF next = {} THEN 0 ELSE OrderOf(First(next))])
    /\ UNCHANGED <<sequence, step, enrolled, tasks, today, disturbed>>

Finish(t, outcome) == [tasks EXCEPT ![t].status = IF @ = "gone" THEN @ ELSE outcome]
\* The commit. A step removed since it was read refuses the task that refers to it.
Advance(u, outcome) ==
    /\ seller[u].op = "advance" /\ Len(tasks) < MaxTasks
    /\ LET t == seller[u].task
           p == tasks[t].person
           next == seller[u].next
       IN  IF next = NoStep THEN
               /\ tasks' = Finish(t, outcome)
               /\ enrolled' = IF Kept(enrolled[p])
                              THEN [enrolled EXCEPT ![p].status = "completed", ![p].next = NoDay]
                              ELSE enrolled
           ELSE IF next.step \notin Steps THEN UNCHANGED <<tasks, enrolled>>
           ELSE /\ tasks' = Append(Finish(t, outcome), next)
                /\ enrolled' = [enrolled EXCEPT ![p].order = seller[u].order, ![p].next = next.day]
    /\ Turn(u, Resting)
    /\ UNCHANGED <<sequence, step, today, disturbed>>

Tick ==
    /\ today < LastDay /\ today' = today + 1
    /\ UNCHANGED <<sequence, step, enrolled, tasks, seller, disturbed>>

ManageSequence ==
    \/ \E status \in SequenceStatuses, skip \in BOOLEAN : CreateSequence(status, skip) \/ UpdateSequence(status, skip)
    \/ RemoveSequence
    \/ \E s \in StepIds, wait \in Waits :
        \/ AddStepLast(s, wait)
        \/ \E order \in 1..LastOrder : AddStepAt(s, order, wait)
        \/ \E order \in 1..LastOrder + 1 : UpdateStep(s, order, wait)
    \/ \E s \in StepIds : RemoveStep(s)

ManagePeople ==
    \/ \E P \in SUBSET Leads : EnrollPeople(P)
    \/ \E p \in Leads, status \in EnrollmentStatuses : UpdateEnrollment(p, status)

WorkQueue ==
    \/ \E u \in Sellers, t \in DOMAIN tasks : BeginCompletion(u, t)
    \/ \E u \in Sellers : Claim(u) \/ \E outcome \in Outcomes : Advance(u, outcome)

CadencesNext == ManageSequence \/ ManagePeople \/ WorkQueue \/ Tick
CadencesSpec == CadencesInit /\ [][CadencesNext]_cadenceVars

--------------------------------------------------------------------------------
\* The shape of the rows; a task that is there is of a step and a person that are there.
CadencesTypeOK ==
    /\ sequence \in SequenceRow \cup {Missing, Gone}
    /\ \A s \in StepIds : step[s] \in StepRow \cup {Missing, Gone}
    /\ \A p \in Leads : enrolled[p] \in EnrollmentRow \cup {Missing, Gone}
    /\ \A t \in DOMAIN tasks :
        /\ tasks[t] \in ExecutionRow
        /\ tasks[t].status # "gone" => Kept(step[tasks[t].step]) /\ Kept(enrolled[tasks[t].person])

TasksOf(p) == {t \in DOMAIN tasks : tasks[t].person = p /\ tasks[t].status # "gone"}
Pending(p) == {t \in TasksOf(p) : tasks[t].status = "pending"}

\* Nobody has two things to do at once, however statuses, steps and sellers change meanwhile.
\* (Unless two requests concluded one of the person's tasks together: disturbed.)
OneTaskAtATime == \A p \in Leads \ disturbed : Cardinality(Pending(p)) <= 1

\* A person goes through the steps in order, none twice and none left out, whatever else
\* is added to or taken from the end of the cadence on the way.
StepsInOrder ==
    [][\A t \in DOMAIN tasks' \ DOMAIN tasks :
          LET p == tasks'[t].person
              at == step[tasks'[t].step].order
              before == {step[tasks[i].step].order : i \in TasksOf(p)}
          IN  p \in disturbed' \/ (/\ \A n \in before : n < at
                                   /\ \A s \in Steps : OrderOf(s) < at => \E n \in before : OrderOf(s) <= n)
      ]_cadenceVars

\* Where weekends are skipped, a task falls on a working day, as many working days after the
\* one it was made as the step says to wait; where not, that many days.
WorkdaysIn(from, to) == Cardinality({d \in from + 1..to : ~Weekend(d)})
TasksOnWorkdays ==
    \A t \in DOMAIN tasks :
        LET task == tasks[t]
        IN  IF ~task.skip THEN task.day = task.made + task.wait
            ELSE /\ ~Weekend(task.day)
                 /\ IF task.wait = 0 THEN task.made <= task.day /\ WorkdaysIn(task.made, task.day - 1) = 0
                    ELSE WorkdaysIn(task.made, task.day) = task.wait

\* Rows are well formed; a person has one task at a time, on the day it belongs to.
TasksInTime == CadencesTypeOK /\ OneTaskAtATime /\ TasksOnWorkdays
================================================================================
