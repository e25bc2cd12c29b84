------------------------------ MODULE Approvals -------------------------------
(* Who has to agree to a sales document (src/modules/approvals): the rules an  *)
(* administrator keeps, the requests they raise when a document is created,    *)
(* each with the approvers found at that moment, and the decisions. Priorities *)
(* only order the requests; approvals_required is stored and read by nobody.   *)
(* A rule looks at one number of the document ('in', over names, is left out). *)
EXTENDS Integers

CONSTANTS
    Papers,             \* documents
    Policies,           \* identities of approval_rules
    Staff, Positions,   \* users and roles
    Observed,           \* what a rule may see: a number, or NoValue
    Wordings,           \* what an administrator may write in a rule
    NoValue

Operators == {">", ">=", "<", "<=", "=="}
NoPolicy == [state |-> "none"]
Policy == [state : {"kept"}, operator : Operators, value : Observed \ {NoValue},
           positions : SUBSET Positions, staff : SUBSET Staff, active : BOOLEAN]
ASSUME ApprovalsAssumption == Wordings \subseteq Policy
NotAsked == [status |-> "not asked"]

VARIABLES
    policy,     \* approval_rules
    position,   \* users: their role, or "left"
    paper,      \* sales_documents: approval_status, or how it ended
    asked       \* approval_requests of a document, by rule

approvalVars == <<policy, position, paper, asked>>

ApprovalsInit ==
    /\ policy = [k \in Policies |-> NoPolicy]
    /\ position \in [Staff -> Positions]
    /\ paper = [d \in Papers |-> "unwritten"]
    /\ asked = [d \in Papers |-> [k \in Policies |-> NotAsked]]

Evaluate(observed, operator, value) ==
    /\ observed # NoValue
    /\ \/ operator = ">" /\ observed > value
       \/ operator = ">=" /\ observed >= value
       \/ operator = "<" /\ observed < value
       \/ operator = "<=" /\ observed <= value
       \/ operator = "==" /\ observed = value

\* Users named by the rule, whether they are still there or not, and whoever has one of its roles.
Eligible(k) == policy[k].staff \cup {x \in Staff : position[x] \in policy[k].positions}

Matching(observed) ==
    {k \in Policies : /\ policy[k] # NoPolicy /\ policy[k].active
                      /\ Evaluate(observed, policy[k].operator, policy[k].value)}
\* Faulty variant: a rule nobody can answer raises a request too.
FiringAll(observed) == Matching(observed)
Firing(observed) == {k \in Matching(observed) : Eligible(k) # {}}

\* evaluateAndCreate, in the transaction that creates the document.
Write(d, observed) ==
    /\ paper[d] = "unwritten"
    /\ paper' = [paper EXCEPT ![d] = IF Firing(observed) = {} THEN "not needed" ELSE "pending"]
    /\ asked' = [asked EXCEPT ![d] =
                   [k \in Policies |-> IF k \in Firing(observed)
                                       THEN [status |-> "pending", by |-> Eligible(k)] ELSE NotAsked]]
    /\ UNCHANGED <<policy, position>>

\* The last decision is what the document has, whatever the other requests say.
Decide(x, d, k, decision) ==
    /\ position[x] # "left" /\ asked[d][k].status = "pending" /\ x \in asked[d][k].by
    /\ asked' = [asked EXCEPT ![d][k].status = decision]
    /\ paper' = [paper EXCEPT ![d] = IF @ = "removed" THEN @ ELSE decision]
    /\ UNCHANGED <<policy, position>>

CancelledRequests(d) ==
    [k \in Policies |-> IF asked[d][k].status = "pending"
                        THEN [asked[d][k] EXCEPT !.status = "cancelled"] ELSE asked[d][k]]
CancelPaper(d) ==
    /\ paper[d] \notin {"unwritten", "cancelled", "removed"}
    /\ paper' = [paper EXCEPT ![d] = "cancelled"]
    /\ asked' = [asked EXCEPT ![d] = CancelledRequests(d)]
    /\ UNCHANGED <<policy, position>>

\* The requests of a draft that is deleted stay, and stay in the inbox.
DeletePaper(d) ==
    /\ paper[d] \in {"not needed", "pending", "approved", "rejected"}
    /\ paper' = [paper EXCEPT ![d] = "removed"]
    /\ UNCHANGED <<policy, position, asked>>

\* Creating a rule takes an approver; editing one may leave it without.
CreatePolicy(k, new) ==
    /\ policy[k] = NoPolicy /\ (new.positions # {} \/ new.staff # {})
    /\ policy' = [policy EXCEPT ![k] = new] /\ UNCHANGED <<position, paper, asked>>
UpdatePolicy(k, new) ==
    policy[k] # NoPolicy /\ policy' = [policy EXCEPT ![k] = new] /\ UNCHANGED <<position, paper, asked>>
\* The requests it raised stay.
RemovePolicy(k) ==
    policy[k] # NoPolicy /\ policy' = [policy EXCEPT ![k] = NoPolicy] /\ UNCHANGED <<position, paper, asked>>
ChangePosition(x, new) ==
    position[x] # "left" /\ position' = [position EXCEPT ![x] = new] /\ UNCHANGED <<policy, paper, asked>>

Approve ==
    \/ \E k \in Policies, new \in Wordings : CreatePolicy(k, new) \/ UpdatePolicy(k, new)
    \/ \E k \in Policies : RemovePolicy(k)
    \/ \E x \in Staff, new \in Positions \cup {"left"} : ChangePosition(x, new)
    \/ \E d \in Papers, observed \in Observed : Write(d, observed)
    \/ \E d \in Papers : CancelPaper(d) \/ DeletePaper(d)
    \/ \E x \in Staff, d \in Papers, k \in Policies, decision \in {"approved", "rejected"} : Decide(x, d, k, decision)

ApprovalsSpec == ApprovalsInit /\ [][Approve]_approvalVars

--------------------------------------------------------------------------------
Waiting(d) == {k \in Policies : asked[d][k].status = "pending"}

(* A document that waits has a request somebody was chosen to answer, however  *)
(* the rules and the staff changed since, and one that is settled by a         *)
(* cancellation leaves nobody anything to answer (requests.service.ts:116-152, *)
(* :315-329).                                                                  *)
WaitingIsAnswerable ==
    \A d \in Papers :
        /\ paper[d] = "pending" => \E k \in Waiting(d) : asked[d][k].by # {}
        /\ \A k \in Waiting(d) : asked[d][k].by # {} /\ paper[d] \notin {"unwritten", "not needed", "cancelled"}
================================================================================
