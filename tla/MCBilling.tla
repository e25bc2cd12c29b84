------------------------------- MODULE MCBilling -------------------------------
(* Instances of Billing, with cycles of one and two days. A run is about one   *)
(* desk: that of the series, where users make and remove documents, or that of *)
(* the subscriptions. They share the unique index of numbers only, and a       *)
(* number that is taken does to an invoice what any other failure does         *)
(* (FailInvoice).                                                              *)
EXTENDS Billing

CONSTANTS s1, p1, u1, i1, i2, a1

VARIABLE desk

CycleLengths == [monthly |-> 1, annual |-> 2]
ShapeTerms == [plain |-> [cycle |-> "annual", trial |-> 0],
               trial |-> [cycle |-> "monthly", trial |-> 1]]


\* Bound: plans are edited on the first day, before anything is invoiced.
PlansAreEdited == today = 1 /\ invoices = {} /\ \A r \in Runners : run[r] = Resting

MCInit == Init /\ desk \in {"series", "subscriptions"}
MCNext ==
    /\ desk' = desk
    /\ \/ desk = "series" /\ NumberingNext /\ UNCHANGED billingVars
       \/ desk = "subscriptions" /\ NextDay
       \/ desk = "subscriptions" /\ PlansAreEdited /\ PlanNext
       \/ desk = "subscriptions" /\ RequestNext
       \/ desk = "subscriptions" /\ RunNext
       \/ desk = "subscriptions" /\ Crash
MCSpec == MCInit /\ [][MCNext]_<<vars, desk>> /\ Fairness
================================================================================
