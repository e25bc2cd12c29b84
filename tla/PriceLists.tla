------------------------------ MODULE PriceLists ------------------------------
(* The price lists of an organization and which is the default                 *)
(* (src/modules/sales/price-lists). Making one the default takes the mark from *)
(* the others and sets its own in one transaction, under READ COMMITTED: of    *)
(* two such transactions neither sees the mark the other is about to set.      *)
(* Prices, currencies and dates are left out.                                  *)
EXTENDS Integers, FiniteSets

CONSTANTS PriceLists, Clerks, NoList

ListRow == [default: BOOLEAN, active: BOOLEAN, used: BOOLEAN]
MarkRow == [list: PriceLists, seen: SUBSET PriceLists, new: BOOLEAN]

ASSUME PriceListsAssumption == NoList \notin ListRow \cup MarkRow

VARIABLES
    lists,      \* sales_price_lists: marked default, active, used by a document
    marking,    \* a transaction that took the mark from the defaults it saw
    together    \* history: pairs of lists that were made the default at once

priceVars == <<lists, marking, together>>

PriceListsInit ==
    /\ lists = [l \in PriceLists |-> NoList]
    /\ marking = [c \in Clerks |-> NoList]
    /\ together = {}

Existing == {l \in PriceLists : lists[l] # NoList}
Defaults == {l \in Existing : lists[l].default}

\* Faulty variant: an inactive list keeps its mark.
UnmarkedActive(l) == {x \in Defaults \ {l} : lists[x].active}
Unmarked(l) == Defaults \ {l}

\* A row that a transaction unmarked is locked until it ends.
LockedFor(c, l) == \E b \in Clerks \ {c} : marking[b] # NoList /\ l \in marking[b].seen

\* create and update with isDefault, up to the update that takes the mark from the others.
BeginMarking(c, l, new) ==
    /\ marking[c] = NoList /\ new = (l \notin Existing)
    /\ new => \A b \in Clerks : marking[b] # NoList => marking[b].list # l
    /\ marking' = [marking EXCEPT ![c] = [list |-> l, seen |-> Unmarked(l), new |-> new]]
    /\ together' = together \cup {{l, marking[b].list} : b \in {b \in Clerks : marking[b] # NoList}}
    /\ UNCHANGED lists

\* The rest of the transaction. A list deleted meanwhile is updated nowhere, and a transaction that
\* waited for one of the rows finds it unmarked and leaves it.
EndMarking(c, active) ==
    LET t == marking[c]
    IN  /\ t # NoList /\ ~LockedFor(c, t.list)
        /\ marking' = [b \in Clerks |-> IF b = c \/ marking[b] = NoList THEN NoList
                                        ELSE [marking[b] EXCEPT !.seen = @ \ t.seen]]
        /\ lists' = [l \in PriceLists |->
                       IF l = t.list /\ (t.new \/ l \in Existing)
                       THEN [default |-> TRUE, active |-> active, used |-> ~t.new /\ lists[l].used]
                       ELSE IF l \in t.seen THEN [lists[l] EXCEPT !.default = FALSE] ELSE lists[l]]
        /\ UNCHANGED together

\* Two transactions, each making the default what the other unmarked: PostgreSQL ends one.
DeadlockVictim(c) ==
    /\ \E b \in Clerks \ {c} : /\ marking[c] # NoList /\ marking[b] # NoList
                             /\ marking[c].list \in marking[b].seen /\ marking[b].list \in marking[c].seen
    /\ marking' = [marking EXCEPT ![c] = NoList]
    /\ UNCHANGED <<lists, together>>

\* create without isDefault; update without it, which leaves the mark, or with FALSE.
Save(c, l, keep, active) ==
    /\ ~LockedFor(c, l) /\ marking[c] = NoList
    /\ l \notin Existing => \A b \in Clerks : marking[b] # NoList => marking[b].list # l
    /\ lists' = [lists EXCEPT ![l] = [default |-> keep /\ @ # NoList /\ @.default, active |-> active,
                                      used |-> @ # NoList /\ @.used]]
    /\ UNCHANGED <<marking, together>>

UseInDocument(l) ==
    /\ l \in Existing /\ ~lists[l].used
    /\ lists' = [lists EXCEPT ![l].used = TRUE]
    /\ UNCHANGED <<marking, together>>

\* A list that documents use is only made inactive, and keeps its mark.
RemoveList(c, l) ==
    /\ l \in Existing /\ ~LockedFor(c, l) /\ marking[c] = NoList
    /\ lists' = [lists EXCEPT ![l] = IF @.used THEN [@ EXCEPT !.active = FALSE] ELSE NoList]
    /\ UNCHANGED <<marking, together>>

Tariff ==
    \/ \E c \in Clerks, l \in PriceLists, new \in BOOLEAN : BeginMarking(c, l, new)
    \/ \E c \in Clerks, active \in BOOLEAN : EndMarking(c, active)
    \/ \E c \in Clerks : DeadlockVictim(c)
    \/ \E c \in Clerks, l \in PriceLists, keep, active \in BOOLEAN : Save(c, l, keep, active)
    \/ \E c \in Clerks, l \in PriceLists : RemoveList(c, l)
    \/ \E l \in PriceLists : UseInDocument(l)

PriceListsSpec == PriceListsInit /\ [][Tariff]_priceVars

--------------------------------------------------------------------------------
(* Two lists are both the default only after two transactions that made them   *)
(* so overlapped (price-lists.service.ts:150-155, :186-204): changes, removals *)
(* and lists that are switched off and on never leave two.                     *)
TwoDefaultsWereRaced ==
    \A l, x \in Defaults : l # x => {l, x} \in together
================================================================================
