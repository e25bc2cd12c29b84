------------------------------ MODULE MCProspecting ------------------------------
(* Instances of Prospects, Cadences and Signals. A run is about one desk:      *)
(* credits (with what they buy), one person in a changing cadence, two people  *)
(* in one cadence, the calendar of tasks, triggers, scores or lists. The other *)
(* modules rest. Each desk checks every property; that of scores ends with one, *)
(* once nobody else is about to change a profile.                              *)
EXTENDS Prospects, Cadences, Signals, Desks

CONSTANTS p1, c1, a, b, x1, x2

EmployerOf == [p \in {p1} |-> c1]
ProfileWeights ==
    [saas |-> [industry |-> 20, country |-> 10, seniority |-> 15], any |-> [industry |-> 0], none |-> <<>>]

resting == <<prospectVars, cadenceVars, signalVars>>

\* Steps are numbered as they are added. Nothing is tried any more once the cadence is gone or
\* everybody's order of steps is disturbed.
NewId(s) == \A r \in StepIds : r < s => step[r] # Missing
Going == sequence # Gone /\ IF desk = "one" THEN a \notin disturbed ELSE disturbed # Leads

Queue ==
    \/ CreateSequence("active", TRUE) \/ RemoveSequence
    \/ \E s \in StepIds : NewId(s) /\ AddStepLast(s, 0)
    \/ \E s \in StepIds : RemoveStep(s)
    \/ \E P \in SUBSET Leads : (desk = "one" => P = {a}) /\ EnrollPeople(P)
    \/ \E p \in Leads, status \in {"active", "replied"} : (desk = "one" \/ p = a) /\ UpdateEnrollment(p, status)
    \/ \E u \in Sellers, t \in DOMAIN tasks : BeginCompletion(u, t)
    \/ \E u \in Sellers : Claim(u) \/ Advance(u, "completed")

Rearrange ==
    \/ \E status \in SequenceStatuses : UpdateSequence(status, TRUE)
    \/ \E s \in StepIds : NewId(s) /\ AddStepAt(s, 1, 0)
    \/ LastOrder < 4 /\ \E s \in StepIds : UpdateStep(s, LastOrder + 1, 0)

\* Any day, any wait, with weekends or without, for the first task and the one after it.
Calendar ==
    \/ Tick
    \/ \E skip \in BOOLEAN : CreateSequence("active", skip) \/ UpdateSequence("paused", skip)
    \/ \E wait \in Waits : AddStepLast(1, wait) \/ (step[1] # Missing /\ step[2] = Missing /\ AddStepLast(2, wait))
    \/ EnrollPeople({a})
    \/ tasks # <<>> /\ BeginCompletion(u1, 1)
    \/ Claim(u1) \/ Advance(u1, "skipped")

ProspectingRests == ProspectsInit /\ CadencesInit /\ SignalsInit /\ today = 3

ProspectingInit ==
    /\ ProspectsInit /\ CadencesInit /\ SignalsInit
    /\ desk \in {"credits", "one", "two", "calendar", "triggers", "scores", "lists"}
    /\ today = 3 \/ desk = "calendar"

ProspectingNext ==
    /\ desk' = desk
    /\ \/ desk = "credits" /\ ProspectsNext /\ UNCHANGED <<cadenceVars, signalVars>>
       \/ desk \in {"one", "two"} /\ Going /\ Queue /\ UNCHANGED <<prospectVars, signalVars>>
       \/ desk = "one" /\ Going /\ Rearrange /\ UNCHANGED <<prospectVars, signalVars>>
       \/ desk = "calendar" /\ Calendar /\ UNCHANGED <<prospectVars, signalVars>>
       \/ desk = "triggers" /\ Watch /\ UNCHANGED <<prospectVars, cadenceVars>>
       \/ /\ desk = "scores" /\ score = NoScore /\ Rate /\ UNCHANGED <<prospectVars, cadenceVars>>
          /\ score' # NoScore => \A u \in Scouts : scout'[u] = AtRest
       \/ desk = "lists" /\ KeepList /\ UNCHANGED <<prospectVars, cadenceVars>>
================================================================================
