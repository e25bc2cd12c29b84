--------------------------------- MODULE Signals --------------------------------
(* What prospecting watches and rates (src/modules/prospecting: triggers, icps,*)
(* lists): checks of a trigger that note events of companies, ideal customer   *)
(* profiles and the scores they give, and lists of people. One trigger, one    *)
(* list; how a company matches a keyword and what is shown are left out.       *)
EXTENDS Integers, FiniteSets, Sums

CONSTANTS
    Scouts,            \* requests that may be under way at once
    Watched,           \* companies the filters of the trigger match
    Profiles,          \* ids of prospect_icps
    Criteria,          \* what a profile may ask for
    Weights,           \* of the profiles: id -> (criterion -> weight), or a part of the criteria
    Listable,          \* people and companies that exist
    LastNow,           \* bound: days
    MaxEvents          \* bound: events

ASSUME SignalsAssumption ==
    /\ LastNow \in Nat /\ MaxEvents \in Nat /\ IsFiniteSet(Criteria)
    /\ \A i \in Profiles : DOMAIN Weights[i] \subseteq Criteria /\ \A c \in DOMAIN Weights[i] : Weights[i][c] \in Nat

VARIABLES
    trigger,     \* prospect_triggers
    events,      \* prospect_trigger_events
    icps,        \* prospect_icps
    score,       \* fit_score of a person, with what it was computed from
    list,        \* prospect_lists with prospect_list_items
    scout,       \* what each request is about to do
    now          \* the clock, in days

signalVars == <<trigger, events, icps, score, list, scout, now>>

Unmade == [state |-> "none"]
Dropped == [state |-> "gone"]
Is(row) == row.state = "kept"
TriggerRow == [state: {"kept"}, active: BOOLEAN, total: Nat]
NoCompany == "nobody"
TriggerEventRow == [n: 1..MaxEvents, company: Watched \cup {NoCompany}, day: 0..LastNow]
IcpRow == [state: {"kept"}, isDefault: BOOLEAN, isActive: BOOLEAN]
ListRow == [state: {"kept"}, archived: BOOLEAN, items: SUBSET Listable]
NoScore == [points |-> -1]
Facts == {"match", "miss", "unknown"}

AtRest == [op |-> "rest"]
Set(u, work) == scout' = [scout EXCEPT ![u] = work]
Stop(u) == Set(u, AtRest)

SignalsInit ==
    /\ trigger = Unmade /\ events = {} /\ now = 0
    /\ icps = [i \in Profiles |-> Unmade] /\ score = NoScore
    /\ list = Unmade /\ scout = [u \in Scouts |-> AtRest]

--------------------------------------------------------------------------------
\* Triggers. No operation of theirs is a transaction.

CreateTrigger(active) ==
    /\ trigger = Unmade /\ trigger' = [state |-> "kept", active |-> active, total |-> 0]
    /\ UNCHANGED <<events, icps, score, list, scout, now>>
UpdateTrigger(active) ==
    /\ Is(trigger) /\ trigger' = [trigger EXCEPT !.active = active]
    /\ UNCHANGED <<events, icps, score, list, scout, now>>
\* Its events go with it (ON DELETE CASCADE).
RemoveTrigger ==
    /\ Is(trigger) /\ trigger' = Dropped /\ events' = {}
    /\ UNCHANGED <<icps, score, list, scout, now>>

NextEvent == Cardinality(events) + 1
Event(company, day) == [n |-> NextEvent, company |-> company, day |-> day]
Note(company, day) == NextEvent <= MaxEvents /\ events' = events \cup {Event(company, day)}

CreateManualEvent(u) ==
    /\ scout[u] = AtRest /\ Is(trigger)
    /\ Note(NoCompany, now) /\ Set(u, [op |-> "manual"])
    /\ UNCHANGED <<trigger, icps, score, list, now>>

CountManualEvent(u) ==
    /\ scout[u].op = "manual"
    /\ trigger' = IF Is(trigger) THEN [trigger EXCEPT !.total = @ + 1] ELSE trigger
    /\ Stop(u)
    /\ UNCHANGED <<events, icps, score, list, now>>

BeginCheck(u) ==
    /\ scout[u] = AtRest /\ Is(trigger) /\ trigger.active
    /\ Set(u, [op |-> "check", total |-> trigger.total, day |-> now, left |-> Watched, created |-> 0])
    /\ UNCHANGED <<trigger, events, icps, score, list, now>>

\* The same company and title in the last 24 hours; nothing is locked.
Known(u, c) == \E e \in events : e.company = c /\ e.day >= scout[u].day - 1
CheckCompany(u, c) ==
    /\ scout[u].op = "check" /\ c \in scout[u].left
    /\ IF Known(u, c) THEN UNCHANGED events /\ Set(u, [scout[u] EXCEPT !.left = @ \ {c}])
       ELSE IF ~Is(trigger) THEN UNCHANGED events /\ Stop(u)
       ELSE /\ Note(c, scout[u].day)
            /\ Set(u, [scout[u] EXCEPT !.left = @ \ {c}, !.created = @ + 1])
    /\ UNCHANGED <<trigger, icps, score, list, now>>

\* The count is what was read at the beginning and what was created since.
FinishCheck(u) ==
    /\ scout[u].op = "check" /\ scout[u].left = {}
    /\ trigger' = IF Is(trigger) THEN [trigger EXCEPT !.total = scout[u].total + scout[u].created]
                  ELSE trigger
    /\ Stop(u)
    /\ UNCHANGED <<events, icps, score, list, now>>

\* The process stops, or the database refuses a statement: what was written stays.
BreakOff(u) ==
    /\ scout[u].op \in {"check", "manual"} /\ Stop(u)
    /\ UNCHANGED <<trigger, events, icps, score, list, now>>

NewDay ==
    /\ now < LastNow /\ now' = now + 1
    /\ UNCHANGED <<trigger, events, icps, score, list, scout>>

--------------------------------------------------------------------------------
\* Profiles and scores.

\* A transaction first takes the mark off the other profiles it sees, then saves its own.
BeginProfile(u, i, isDefault, isActive) ==
    /\ scout[u] = AtRest /\ icps[i] # Dropped
    /\ Set(u, [op |-> "profile", of |-> i, row |-> [state |-> "kept", isDefault |-> isDefault, isActive |-> isActive],
                 seen |-> {j \in Profiles \ {i} : isDefault /\ Is(icps[j]) /\ icps[j].isDefault},
                 isNew |-> icps[i] = Unmade])
    /\ UNCHANGED <<trigger, events, icps, score, list, now>>

SaveProfile(u) ==
    /\ scout[u].op = "profile"
    /\ LET work == scout[u]
           unmarked == [j \in Profiles |->
               IF j \in work.seen /\ Is(icps[j]) THEN [icps[j] EXCEPT !.isDefault = FALSE] ELSE icps[j]]
       IN  icps' = IF work.isNew /\ icps[work.of] # Unmade THEN icps       \* the name is taken
                   ELSE IF ~work.isNew /\ ~Is(icps[work.of]) THEN unmarked  \* it was removed
                   ELSE [unmarked EXCEPT ![work.of] = work.row]
    /\ Stop(u)
    /\ UNCHANGED <<trigger, events, score, list, now>>

RemoveProfile(i) ==
    /\ Is(icps[i]) /\ icps' = [icps EXCEPT ![i] = Dropped]
    /\ UNCHANGED <<trigger, events, score, list, scout, now>>

\* The criteria a person, or the company, says nothing about are left out of the score.
Applicable(i, facts) == {c \in DOMAIN Weights[i] : facts[c] # "unknown"}
Matched(i, facts) == {c \in DOMAIN Weights[i] : facts[c] = "match"}
WeightOf(i, S) == SumOver(Weights[i], S)
\* Faulty variant: what is unknown counts against the person.
ScoreOfAll(i, facts) ==
    LET total == WeightOf(i, DOMAIN Weights[i])
    IN  IF Applicable(i, facts) = {} \/ total = 0 THEN 50
        ELSE (200 * WeightOf(i, Matched(i, facts)) + total) \div (2 * total)
\* Math.round of the share, in percent: to the nearest, and up from a half.
ComputeScore(i, facts) ==
    LET total == WeightOf(i, Applicable(i, facts))
    IN  IF Applicable(i, facts) = {} \/ total = 0 THEN 50
        ELSE (200 * WeightOf(i, Matched(i, facts)) + total) \div (2 * total)

DefaultProfiles == {i \in Profiles : Is(icps[i]) /\ icps[i].isDefault /\ icps[i].isActive}
RecalculatePerson(i, facts) ==
    /\ i \in DefaultProfiles
    /\ score' = [points |-> ComputeScore(i, facts), by |-> i, facts |-> facts]
    /\ UNCHANGED <<trigger, events, icps, list, scout, now>>

\* Everybody is rated, in a transaction, by the profile that was the default before it.
BeginRecalculation(u, i) ==
    /\ scout[u] = AtRest /\ i \in DefaultProfiles /\ Set(u, [op |-> "rate", by |-> i])
    /\ UNCHANGED <<trigger, events, icps, score, list, now>>
RecalculateAll(u, facts) ==
    /\ scout[u].op = "rate" /\ Stop(u)
    /\ score' = [points |-> ComputeScore(scout[u].by, facts), by |-> scout[u].by, facts |-> facts]
    /\ UNCHANGED <<trigger, events, icps, list, now>>

--------------------------------------------------------------------------------
\* A list.

SaveList(archived) ==
    /\ list # Dropped
    /\ list' = IF Is(list) THEN [list EXCEPT !.archived = archived]
               ELSE [state |-> "kept", archived |-> FALSE, items |-> {}]
    /\ UNCHANGED <<trigger, events, icps, score, scout, now>>
RemoveList ==
    /\ Is(list) /\ list' = Dropped
    /\ UNCHANGED <<trigger, events, icps, score, scout, now>>

\* Whether it is archived is asked before the transaction that adds.
BeginAddItems(u, items) ==
    /\ scout[u] = AtRest /\ Is(list) /\ ~list.archived /\ Set(u, [op |-> "add", items |-> items])
    /\ UNCHANGED <<trigger, events, icps, score, list, now>>
AddItems(u) ==
    /\ scout[u].op = "add" /\ Stop(u)
    /\ list' = IF Is(list) THEN [list EXCEPT !.items = @ \cup scout[u].items] ELSE list
    /\ UNCHANGED <<trigger, events, icps, score, now>>
RemoveItem(x) ==
    /\ Is(list) /\ x \in list.items /\ list' = [list EXCEPT !.items = @ \ {x}]
    /\ UNCHANGED <<trigger, events, icps, score, scout, now>>

--------------------------------------------------------------------------------
Watch ==
    \/ \E active \in BOOLEAN : CreateTrigger(active) \/ UpdateTrigger(active)
    \/ RemoveTrigger \/ NewDay
    \/ \E u \in Scouts :
        \/ CreateManualEvent(u) \/ CountManualEvent(u)
        \/ BeginCheck(u) \/ FinishCheck(u) \/ BreakOff(u) \/ \E c \in Watched : CheckCompany(u, c)

Rate ==
    \/ \E i \in Profiles :
        \/ RemoveProfile(i)
        \/ \E facts \in [Criteria -> Facts] : RecalculatePerson(i, facts)
        \/ \E u \in Scouts, isDefault, isActive \in BOOLEAN : BeginProfile(u, i, isDefault, isActive)
        \/ \E u \in Scouts : BeginRecalculation(u, i)
    \/ \E u \in Scouts : SaveProfile(u) \/ \E facts \in [Criteria -> Facts] : RecalculateAll(u, facts)

KeepList ==
    \/ RemoveList \/ \E archived \in BOOLEAN : SaveList(archived)
    \/ \E x \in Listable : RemoveItem(x)
    \/ \E u \in Scouts : AddItems(u) \/ \E items \in SUBSET Listable \ {{}} : BeginAddItems(u, items)

SignalsNext == Watch \/ Rate \/ KeepList
SignalsSpec == SignalsInit /\ [][SignalsNext]_signalVars

--------------------------------------------------------------------------------
\* The shape of the rows.
SignalsTypeOK ==
    /\ trigger \in TriggerRow \cup {Unmade, Dropped} /\ events \subseteq TriggerEventRow
    /\ \A i \in Profiles : icps[i] \in IcpRow \cup {Unmade, Dropped}
    /\ list \in ListRow \cup {Unmade, Dropped}

\* total_events_fired may forget events (two checks at once, a check and an event by hand, a
\* check that stops half way), but never counts one that was not noted.
CountedWereNoted == Is(trigger) => trigger.total <= Cardinality(events)

\* A score is the share of what is known of the person that matches, rounded to a whole number
\* of percent: within half a point, from 0 to 100, and 50 where nothing is known.
ScoreIsShare ==
    score # NoScore =>
        LET known == {c \in DOMAIN Weights[score.by] : score.facts[c] # "unknown" /\ Weights[score.by][c] > 0}
            total == WeightOf(score.by, known)
            met == WeightOf(score.by, {c \in known : score.facts[c] = "match"})
        IN  /\ score.points \in 0..100
            /\ IF known = {} THEN score.points = 50
               ELSE 2 * (score.points * total - 100 * met) \in (1 - total)..total

\* Rows are well formed; triggers and scores agree with what they are made from.
SignalsAgree == SignalsTypeOK /\ CountedWereNoted /\ ScoreIsShare
================================================================================
