---------------------------- MODULE CustomerCredit ----------------------------
(* The credit of one customer (src/modules/sales/credit) and the commissions   *)
(* on its documents (src/modules/sales/commissions), with the steps of sales   *)
(* documents and of their receivables that these two depend on. A request      *)
(* reads a row, or the sums of the check, and writes later by id alone, so     *)
(* requests may overlap. Amounts are whole units; approvals, stock, numbering  *)
(* and moving a document to another customer are left out.                     *)
EXTENDS Integers, FiniteSets, Sums

CONSTANTS
    Docs,               \* identities of documents
    Sessions,
    Totals,             \* what a document may amount to
    Ceilings,           \* credit limits
    Unlimited, Nothing

\* A customer_return is treated as a credit_note.
DocTypes == {"quote", "order", "delivery", "invoice", "credit_note"}
NotYet == [status |-> "not yet"]
Gone == [status |-> "gone"]
Early == {"draft", "sent", "accepted"}
Doc == [type : DocTypes, total : Totals, got : Nat,
        status : Early \cup {"rejected", "invoiced", "partially_paid", "paid", "cancelled"}]
Account == [amount : Int, open : Int, paid : Nat, live : BOOLEAN]
CommissionStatuses == {"pending", "eligible", "paid", "cancelled"}
\* What a request has read: for a document to be created, for a write on a document or on an account, for a commission.
Request ==
    [does : {"check", "insert"}, id : Docs, type : DocTypes, preview : Totals, total : Totals,
     under : Ceilings \cup {Unlimited}, seen : Int]
    \cup [does : {"write"}, id : Docs, was : Doc]
    \cup [does : {"settle"}, id : Docs, was : Account]
    \cup [does : {"note"}, id : Docs, paid : BOOLEAN]
ASSUME NothingAssumption == Nothing \notin CommissionStatuses \cup Account \cup Request
ASSUME AmountsAssumption == IsFiniteSet(Docs) /\ Totals \subseteq Nat /\ Ceilings \subseteq Nat

VARIABLES
    limit, blocked,     \* of the customer
    doc,                \* sales_documents
    owed,               \* accounts_receivable of a document, or raised by hand at an identity without one
    commission,         \* of the seller on a document, or Nothing
    request,            \* of a session: what it read and has not acted upon
    waived,             \* history: why exposure may exceed the ceiling although every check was made
    byHand              \* history: documents whose commission was set by hand, or noted across a payment

creditVars == <<limit, blocked, doc, owed, commission, request, waived, byHand>>

CreditInit ==
    /\ limit \in Ceilings \cup {Unlimited} /\ blocked = FALSE
    /\ doc = [d \in Docs |-> NotYet] /\ owed = [d \in Docs |-> Nothing] /\ commission = [d \in Docs |-> Nothing]
    /\ request = [s \in Sessions |-> Nothing]
    /\ waived = {} /\ byHand = {}

Written == {d \in Docs : doc[d] \notin {NotYet, Gone}}
Doing(s, what) == request[s] # Nothing /\ request[s].does \in what
Creating(s) == Doing(s, {"check", "insert"})
Free(d) == doc[d] = NotYet /\ owed[d] = Nothing /\ \A u \in Sessions : Creating(u) => request[u].id # d
Waive(reason, when) == waived' = waived \cup {r \in {reason} : when}
Finish(s) == request' = [request EXCEPT ![s] = Nothing]

--------------------------------------------------------------------------------
\* getStatus: what is owed, and the quotes and orders that are under way. Drafts of invoices are not.
OpenOf == [d \in Docs |-> IF owed[d] # Nothing /\ owed[d].live THEN owed[d].open ELSE 0]
TotalOf(S) == [d \in Docs |-> IF d \in S THEN doc[d].total ELSE 0]
Outstanding == SumOver(OpenOf, Docs)
EarlyOf(types) == {d \in Written : doc[d].type \in types /\ doc[d].status \in Early}
\* Faulty variant: an accepted order does not count.
UnderWayOpen == {d \in EarlyOf({"quote", "order"}) : doc[d].status # "accepted"}
UnderWay == EarlyOf({"quote", "order"})
\* An invoice that waits to be issued is seen by no check.
Unseen == EarlyOf({"invoice"})

\* All the customer owes or may come to owe, counted here on its own.
Risk == Outstanding + SumOver(TotalOf(EarlyOf({"quote", "order", "invoice"})), Docs)
NeedsCredit == {"order", "invoice"}
Checking == {u \in Sessions : Creating(u) /\ request[u].type \in NeedsCredit}

\* create: the ceiling is checked for a preview of the total, with the tax the lines state and not
\* the one they come to have; the customer and what is owed are read first, ...
BeginCreate(s, d, type, preview, total) ==
    /\ request[s] = Nothing /\ Free(d)
    /\ type \in NeedsCredit => ~blocked
    /\ request' = [request EXCEPT ![s] = [does |-> IF type \in NeedsCredit THEN "check" ELSE "insert", id |-> d, type |-> type,
                                        preview |-> preview, total |-> total, under |-> limit, seen |-> Outstanding]]
    /\ UNCHANGED <<limit, blocked, doc, owed, commission, waived, byHand>>

\* ... then what is under way. A document that is too much is refused (GiveUp).
AssertCanCreateDocument(s) ==
    /\ Doing(s, {"check"})
    /\ request[s].under # Unlimited =>
         request[s].seen + SumOver(TotalOf(UnderWay), Docs) + request[s].preview <= request[s].under
    /\ request' = [request EXCEPT ![s].does = "insert"]
    /\ Waive("unseen", Unseen # {})
    /\ UNCHANGED <<limit, blocked, doc, owed, commission, byHand>>

InsertDocument(s) ==
    LET c == request[s]
    IN  /\ Doing(s, {"insert"})
        /\ doc' = [doc EXCEPT ![c.id] = [type |-> c.type, total |-> c.total, got |-> 0, status |-> "draft"]]
        /\ Finish(s)
        \* A quote is never checked; a check that another session has made, or is making, does not see this
        \* document; the limit, or the estimate of the total, was another.
        /\ waived' = waived \cup {r \in {"unchecked"} : c.type = "quote"}
                            \cup {r \in {"raced"} : c.type \in NeedsCredit /\ Checking # {s}}
                            \cup {r \in {"limit"} : c.type \in NeedsCredit /\ c.under # limit}
                            \cup {r \in {"estimate"} : c.type \in NeedsCredit /\ c.total > c.preview}
        /\ UNCHANGED <<limit, blocked, owed, commission, byHand>>

\* Refused, or a query fails.
GiveUp(s) == request[s] # Nothing /\ Finish(s) /\ UNCHANGED <<limit, blocked, doc, owed, commission, waived, byHand>>

--------------------------------------------------------------------------------
\* Every other write on a document reads it first, without a lock.
ReadDocument(s, d) ==
    /\ request[s] = Nothing /\ d \in Written
    /\ request' = [request EXCEPT ![s] = [does |-> "write", id |-> d, was |-> doc[d]]]
    /\ UNCHANGED <<limit, blocked, doc, owed, commission, waived, byHand>>

\* The write finds no row when the document was removed meanwhile.
Overwrite(d, row) == doc' = IF doc[d] = Gone THEN doc ELSE [doc EXCEPT ![d] = row]

Allowed ==
    [draft |-> {"sent", "cancelled", "invoiced"}, sent |-> {"accepted", "rejected", "invoiced", "cancelled"},
     accepted |-> {"invoiced", "cancelled"}, rejected |-> {"cancelled"},
     invoiced |-> {"paid", "partially_paid", "cancelled"}, partially_paid |-> {"paid", "cancelled"},
     paid |-> {"cancelled"}, cancelled |-> {}]

\* Faulty variant: the commissions of a paid document wait.
EarnedLate(d) == commission[d]
Earned(d) == IF commission[d] = "pending" THEN "eligible" ELSE commission[d]

\* assigned: the document has a seller with a percentage. The account of a credit note is negative.
Invoiced(d, assigned) ==
    LET amount == IF doc[d].type = "invoice" THEN doc[d].total ELSE -doc[d].total
    IN  IF doc[d].type \notin {"invoice", "credit_note"} THEN UNCHANGED <<owed, commission>>
        ELSE /\ owed' = [owed EXCEPT ![d] =
                           IF @ = Nothing THEN [amount |-> amount, open |-> amount, paid |-> 0, live |-> TRUE] ELSE @]
             /\ commission' = [commission EXCEPT ![d] = IF @ = Nothing /\ assigned THEN "pending" ELSE @]

Cancelled(d) ==
    /\ owed' = [owed EXCEPT ![d] = IF @ = Nothing THEN @ ELSE [@ EXCEPT !.live = FALSE]]
    /\ commission' = [commission EXCEPT ![d] = IF @ \in {Nothing, "paid", "cancelled"} THEN @ ELSE "cancelled"]

\* A document in the status it is given already is written too, without the effects; of a removed one
\* nothing can be issued.
ChangeStatus(s, to, assigned) ==
    LET d == request[s].id
        was == request[s].was
        anew == to # was.status
    IN  /\ Doing(s, {"write"}) /\ to \in Allowed[was.status] \cup {was.status}
        /\ Overwrite(d, [doc[d] EXCEPT !.status = to,
                                  !.got = IF anew /\ to = "paid" /\ was.got < was.total THEN was.total ELSE @])
        /\ CASE anew /\ to = "invoiced" -> doc[d] # Gone /\ Invoiced(d, assigned)
             [] anew /\ to = "paid" -> commission' = [commission EXCEPT ![d] = Earned(d)] /\ UNCHANGED owed
             [] anew /\ to = "cancelled" -> Cancelled(d)
             [] OTHER -> UNCHANGED <<owed, commission>>
        /\ Finish(s)
        \* The document moved on meanwhile, or a credit is taken back; a check under way read what is owed before.
        /\ waived' = waived \cup {r \in {"overlap"} : Risk' > Risk /\ doc[d].status # was.status}
                            \cup {r \in {"credit"} : Risk' > Risk /\ was.type = "credit_note"}
                            \cup {r \in {"raced"} : Outstanding' > Outstanding /\ Checking # {}}
        /\ byHand' = byHand \cup {e \in {d} : to = "paid" /\ ~anew /\ doc[d].status # "paid"}
        /\ UNCHANGED <<limit, blocked>>

RemoveDocument(s) ==
    LET d == request[s].id
    IN  /\ Doing(s, {"write"}) /\ request[s].was.status = "draft"
        /\ doc' = [doc EXCEPT ![d] = Gone] /\ commission' = [commission EXCEPT ![d] = Nothing]
        /\ Finish(s) /\ UNCHANGED <<limit, blocked, owed, waived, byHand>>

\* Neither an edit, nor a copy, nor a conversion is checked.
Edit(s, total) ==
    LET was == request[s].was
    IN  /\ Doing(s, {"write"}) /\ was.status # "cancelled"
        /\ was.type \in {"invoice", "credit_note"} => was.status = "draft"
        /\ Overwrite(request[s].id, [doc[request[s].id] EXCEPT !.total = total])
        /\ Finish(s) /\ UNCHANGED <<limit, blocked, owed, commission, byHand>>
        /\ Waive("unchecked", Risk' > Risk)

Draft(type, total) == [type |-> type, total |-> total, got |-> 0, status |-> "draft"]
Duplicate(s, e) ==
    /\ Doing(s, {"write"}) /\ Free(e)
    /\ doc' = [doc EXCEPT ![e] = Draft(request[s].was.type, request[s].was.total)]
    /\ Finish(s) /\ UNCHANGED <<limit, blocked, owed, commission, byHand>>
    /\ Waive("unchecked", Risk' > Risk)

Conversions == {<<"quote", "order">>, <<"quote", "invoice">>, <<"order", "delivery">>, <<"order", "invoice">>,
                <<"delivery", "invoice">>, <<"invoice", "credit_note">>}
Convert(s, e, type) ==
    LET d == request[s].id
        was == request[s].was
        source == IF type = "credit_note" \/ doc[d] = Gone THEN doc[d]
                  ELSE [doc[d] EXCEPT !.status = IF type = "order" THEN "accepted" ELSE "invoiced"]
    IN  /\ Doing(s, {"write"}) /\ Free(e) /\ was.status # "cancelled" /\ <<was.type, type>> \in Conversions
        /\ doc' = [doc EXCEPT ![d] = source, ![e] = Draft(type, was.total)]
        /\ Finish(s) /\ UNCHANGED <<limit, blocked, owed, commission, byHand>>
        /\ Waive("unchecked", Risk' > Risk)

\* A subscription writes its invoice as issued, without an account; a fulfillment its delivery as sent.
Generate(e, row) ==
    /\ Free(e) /\ doc' = [doc EXCEPT ![e] = row]
    /\ <<row.type, row.status>> \in {<<"invoice", "invoiced">>, <<"delivery", "sent">>} /\ row.got = 0
    /\ UNCHANGED <<limit, blocked, owed, commission, request, waived, byHand>>

StatusFromPayment(r, paid) ==
    IF r.status \in {"cancelled", "draft"} \/ r.total = 0 THEN r.status
    ELSE IF paid >= r.total THEN "paid"
    ELSE IF paid > 0 THEN "partially_paid"
    ELSE IF r.status \in {"paid", "partially_paid"} THEN "invoiced" ELSE r.status

SyncDocumentPayments(s) ==
    LET d == request[s].id
        was == request[s].was
        paid == IF owed[d] = Nothing THEN 0 ELSE owed[d].paid
        status == StatusFromPayment(was, paid)
    IN  /\ Doing(s, {"write"}) /\ <<was.got, was.status>> # <<paid, status>>
        /\ Overwrite(d, [doc[d] EXCEPT !.status = status, !.got = paid])
        /\ commission' = IF status # "paid" THEN commission ELSE [commission EXCEPT ![d] = Earned(d)]
        /\ Finish(s) /\ UNCHANGED <<limit, blocked, owed, byHand>>
        /\ Waive("overlap", Risk' > Risk /\ doc[d].status # was.status)

--------------------------------------------------------------------------------
\* Accounts by hand, which no check sees: raised (for a document or without one), then paid, cancelled,
\* opened again or deleted by requests that read them first.
Post(d, new) == owed' = [owed EXCEPT ![d] = new] /\ Waive("unchecked", Risk' > Risk)

CreateReceivable(d, amount) ==
    /\ owed[d] = Nothing /\ (doc[d] = NotYet => Free(d))
    /\ UNCHANGED <<limit, blocked, doc, commission, request, byHand>>
    /\ Post(d, [amount |-> amount, open |-> amount, paid |-> 0, live |-> TRUE])

ReadAccount(s, d) ==
    /\ request[s] = Nothing /\ owed[d] # Nothing
    /\ request' = [request EXCEPT ![s] = [does |-> "settle", id |-> d, was |-> owed[d]]]
    /\ UNCHANGED <<limit, blocked, doc, owed, commission, waived, byHand>>

Settling(s) == Doing(s, {"settle"}) /\ owed[request[s].id] # Nothing
\* recordPayment looks neither at what is open nor at a cancellation, which it undoes.
RecordPayment(s, amount) ==
    LET was == request[s].was
        paid == was.paid + amount
    IN  /\ Settling(s) /\ was.paid < Max(Totals)
        /\ Finish(s) /\ UNCHANGED <<limit, blocked, doc, commission, byHand>>
        /\ Post(request[s].id, [amount |-> was.amount, open |-> Max({0, was.amount - paid}), paid |-> paid, live |-> TRUE])

UpdateReceivable(s, live) ==
    /\ Settling(s) /\ (~live => request[s].was.paid = 0)
    /\ Finish(s) /\ UNCHANGED <<limit, blocked, doc, commission, byHand>>
    /\ Post(request[s].id, [owed[request[s].id] EXCEPT !.live = live])

DeleteReceivable(s) ==
    /\ Settling(s) /\ request[s].was.paid = 0
    /\ Finish(s) /\ UNCHANGED <<limit, blocked, doc, commission, byHand>>
    /\ Post(request[s].id, Nothing)

--------------------------------------------------------------------------------
\* Nothing compares the limit with what is already exposed.
SetCreditLimit(new) ==
    /\ limit' = new
    /\ Waive("limit", new # Unlimited /\ Risk > new)
    /\ UNCHANGED <<blocked, doc, owed, commission, request, byHand>>

\* block and unblock by hand; autoBlockOverdue blocks when something owed is late enough.
SetBlocked(value) == blocked' = value /\ UNCHANGED <<limit, doc, owed, commission, request, waived, byHand>>
AutoBlockOverdue == (\E d \in Docs : OpenOf[d] > 0) /\ SetBlocked(TRUE)

BeginNote(s, d) ==
    /\ request[s] = Nothing /\ d \in Written /\ commission[d] = Nothing
    /\ request' = [request EXCEPT ![s] = [does |-> "note", id |-> d, paid |-> doc[d].status = "paid"]]
    /\ UNCHANGED <<limit, blocked, doc, owed, commission, waived, byHand>>

\* The unique key on document and seller refuses a second one, the foreign key a removed
\* document.
FirstStatus(n) == IF n.paid THEN "eligible" ELSE "pending"
InsertNote(s) ==
    LET n == request[s]
    IN  /\ Doing(s, {"note"}) /\ commission[n.id] = Nothing /\ doc[n.id] # Gone
        /\ commission' = [commission EXCEPT ![n.id] = FirstStatus(n)]
        /\ byHand' = byHand \cup {d \in {n.id} : n.paid # (doc[d].status = "paid")}
        /\ Finish(s) /\ UNCHANGED <<limit, blocked, doc, owed, waived>>

UpdateCommission(d, status) ==
    /\ commission[d] # Nothing
    /\ commission' = [commission EXCEPT ![d] = status] /\ byHand' = byHand \cup {d}
    /\ UNCHANGED <<limit, blocked, doc, owed, request, waived>>

RemoveCommission(d) ==
    /\ commission[d] # Nothing
    /\ commission' = [commission EXCEPT ![d] = Nothing] /\ byHand' = byHand \ {d}
    /\ UNCHANGED <<limit, blocked, doc, owed, request, waived>>

WriteRead(s) ==
    \/ \E to \in DOMAIN Allowed, assigned \in BOOLEAN : ChangeStatus(s, to, assigned)
    \/ RemoveDocument(s) \/ SyncDocumentPayments(s)
    \/ \E total \in Totals : Edit(s, total)
    \/ \E e \in Docs : Duplicate(s, e) \/ \E type \in DocTypes : Convert(s, e, type)

SettleAccount(s) ==
    \/ \E amount \in Totals : RecordPayment(s, amount)
    \/ \E live \in BOOLEAN : UpdateReceivable(s, live)
    \/ DeleteReceivable(s)

Sell ==
    \/ \E s \in Sessions, d \in Docs, type \in DocTypes, preview, total \in Totals : BeginCreate(s, d, type, preview, total)
    \/ \E s \in Sessions : AssertCanCreateDocument(s) \/ InsertDocument(s) \/ GiveUp(s)
    \/ \E s \in Sessions, d \in Docs : ReadDocument(s, d) \/ ReadAccount(s, d)
    \/ \E s \in Sessions : WriteRead(s) \/ SettleAccount(s)
    \/ \E e \in Docs, row \in [type : DocTypes, total : Totals, got : {0}, status : {"invoiced", "sent"}] : Generate(e, row)
    \/ \E d \in Docs, amount \in Totals : CreateReceivable(d, amount)
    \/ \E new \in Ceilings \cup {Unlimited} : SetCreditLimit(new)
    \/ (\E value \in BOOLEAN : SetBlocked(value)) \/ AutoBlockOverdue

Reward ==
    \/ \E s \in Sessions, d \in Docs : BeginNote(s, d)
    \/ \E s \in Sessions : InsertNote(s)
    \/ \E d \in Docs, status \in CommissionStatuses : UpdateCommission(d, status)
    \/ \E d \in Docs : RemoveCommission(d)

CreditSpec == CreditInit /\ [][Sell \/ Reward]_creditVars

--------------------------------------------------------------------------------
CreditTypeOK ==
    /\ limit \in Ceilings \cup {Unlimited} /\ blocked \in BOOLEAN
    /\ doc \in [Docs -> Doc \cup {NotYet, Gone}]
    /\ owed \in [Docs -> Account \cup {Nothing}]
    /\ commission \in [Docs -> CommissionStatuses \cup {Nothing}]
    /\ request \in [Sessions -> Request \cup {Nothing}]

(* What a customer owes and may come to owe stays within the ceiling: neither  *)
(* issuing, rejecting or cancelling documents, nor payments, nor conversions   *)
(* that only move an amount, let more in than the checks did, unless a write   *)
(* that none covers did, a check did not see what another session was          *)
(* creating or issuing, or an invoice that waited; the final total was more    *)
(* than the estimate; a write by a stale read brought a document back; or the  *)
(* limit was lowered (customer-credit.service.ts:91-104, :152-175,             *)
(* documents.service.ts:368-379, :599-642).                                    *)
CreditHolds == limit # Unlimited /\ waived = {} => Risk <= limit

(* The commission on a paid document does not stay pending, whichever way the  *)
(* payment arrives (status by hand, synchronisation) and whenever the          *)
(* commission is noted, except across the payment itself or by hand            *)
(* (sales-payments.service.ts:296-301, documents.service.ts:694-697,           *)
(* commissions.service.ts:193).                                                *)
PaidMakesEligible ==
    \A d \in Written : doc[d].status = "paid" /\ commission[d] = "pending" => d \in byHand
================================================================================
