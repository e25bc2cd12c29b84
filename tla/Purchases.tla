------------------------------- MODULE Purchases -------------------------------
(***************************************************************************)
(* Purchases from request to credit note: the handlers of                  *)
(* purchases/documents/documents.service.ts that change state, with the    *)
(* hooks they call inside their transaction: stock entry, payable          *)
(* (purchases/payments/purchase-payments.service.ts), automatic journal    *)
(* entries (accounting/auto-journal) and approval requests                 *)
(* (approvals/requests).                                                   *)
(*                                                                         *)
(* Handlers decide on a document read without a lock (seen, existing in the*)
(* code): each is a Read action and a Write action.  Every line is a       *)
(* tracked product of unit cost 1, so that a document's total is a number  *)
(* of pieces; average cost, numbering, withholding and the wording of      *)
(* journal rules (every event has an active one) are left out.  Payments   *)
(* reach a payable in one step here; Accounts has their interleavings, and *)
(* the statuses users set on a payable by hand.                            *)
(***************************************************************************)
EXTENDS Sums, FiniteSets, Functions

CONSTANTS Products,      \* tracked products, one per line
          Docs,          \* ids for purchase_documents (a bound)
          Rules,         \* approval rules that may fire when a document is created
          Sessions,      \* requests that can be in progress at once
          MaxQuantity    \* bound on the quantity of a line and on what is paid

VARIABLES docs,          \* purchase_documents with their lines
          entered,       \* quantity that entered the warehouse for each document
          payable,       \* its accounts_payable row
          journal,       \* status of its automatic entries, by reference type
          requests,      \* status of its approval_requests, by rule
          session        \* the request each session is in the middle of

hookVars == <<entered, payable, journal, requests>>
vars == <<docs, hookVars, session>>

ASSUME QuantityAssumption == MaxQuantity \in Nat \ {0}
\* "Documento sem linhas" (documents.service.ts:328).
ASSUME ProductsAssumption == IsFiniteSet(Products) /\ Products # {}

-------------------------------------------------------------------------------
None == "none"
Nothing == [p \in Products |-> 0]
Quantities == [Products -> 0..MaxQuantity]
Lines == [Products -> 1..MaxQuantity]
Pieces(quantities) == SumOver(quantities, Products)

DocTypes == {"request", "order", "receipt", "invoice", "credit_note", "return"}
DocStatuses == {"draft", "sent", "accepted", "rejected", "received", "invoiced",
                "partially_paid", "paid", "cancelled"}
References == {"purchase_document", "purchase_document_receipt"}
Fiscal == {"invoice", "credit_note"}

\* JS tables of documents.service.ts.
CONVERSION_MAP == [request |-> {"order"}, order |-> {"receipt", "invoice"},
    receipt |-> {"invoice", "return"}, invoice |-> {"credit_note"},
    credit_note |-> {}, return |-> {}]

Allowed == [draft |-> {"sent", "cancelled", "received", "invoiced"},
    sent |-> {"accepted", "rejected", "received", "cancelled"},
    accepted |-> {"received", "invoiced", "cancelled"},
    received |-> {"invoiced", "cancelled"},
    invoiced |-> {"paid", "partially_paid", "cancelled"},
    partially_paid |-> {"paid", "cancelled"}, paid |-> {"cancelled"},
    rejected |-> {"cancelled"}, cancelled |-> {}]

\* received is quantity_received of each line; total and amountPaid are header columns.
Document == [type: DocTypes, status: DocStatuses, committed: BOOLEAN,
             approval: {"not_required", "pending"}, from: Docs \cup {None},
             lines: Quantities, received: Quantities, total: Nat, amountPaid: Nat]
NoDoc == [status |-> "absent"]
Removed == [status |-> "removed"]
Exists(d) == docs[d] \notin {NoDoc, Removed}

Draft(type, from, approval, lines, received, total) ==
    [type |-> type, status |-> "draft", committed |-> FALSE, approval |-> approval,
     from |-> from, lines |-> lines, received |-> received, total |-> total,
     amountPaid |-> 0]

\* A credit note is owed to us: its payable has a negative amount.
Payable == [status: {"issued", "partial", "paid", "cancelled"}, paid: 0..MaxQuantity]
NoPayable == [status |-> "none", paid |-> 0]
AmountOf(d) == IF docs[d].type = "credit_note" THEN -docs[d].total ELSE docs[d].total

Idle == [op |-> "idle"]
Start(s, request) == session[s] = Idle /\ session' = [session EXCEPT ![s] = request]
Done(s) == session' = [session EXCEPT ![s] = Idle]

Init ==
    /\ docs = [d \in Docs |-> NoDoc]
    /\ entered = [d \in Docs |-> Nothing]
    /\ payable = [d \in Docs |-> NoPayable]
    /\ journal = [d \in Docs |-> [ref \in References |-> None]]
    /\ requests = [d \in Docs |-> [r \in Rules |-> None]]
    /\ session = [s \in Sessions |-> Idle]

-------------------------------------------------------------------------------
(***************************************************************************)
(* Documents.                                                              *)
(***************************************************************************)
\* create: a draft, with one pending request for every rule its amounts satisfy.
CreateDocument(d, type) ==
    /\ docs[d] = NoDoc
    /\ \E fired \in SUBSET Rules, lines \in Lines :
        /\ docs' = [docs EXCEPT ![d] =
              Draft(type, None, IF fired = {} THEN "not_required" ELSE "pending",
                    lines, Nothing, Pieces(lines))]
        /\ requests' = [requests EXCEPT ![d] =
              [r \in Rules |-> IF r \in fired THEN "pending" ELSE None]]
    /\ UNCHANGED <<entered, payable, journal, session>>

\* The unlocked read of update, remove and convert, and the refusals that follow it.
ReadForUpdate(s, d) ==
    /\ Exists(d)
    /\ docs[d].status # "cancelled"
    /\ docs[d].type \in Fiscal => docs[d].status = "draft"
    /\ Start(s, [op |-> "update", doc |-> d])
    /\ UNCHANGED <<docs, hookVars>>

ReadForRemove(s, d) ==
    /\ docs[d].status = "draft"
    /\ Start(s, [op |-> "remove", doc |-> d])
    /\ UNCHANGED <<docs, hookVars>>

ReadForConvert(s, d, to) ==
    /\ Exists(d)
    /\ to \in CONVERSION_MAP[docs[d].type]
    /\ docs[d].status # "cancelled"
    /\ Start(s, [op |-> "convert", doc |-> d, to |-> to, seen |-> docs[d]])
    /\ UNCHANGED <<docs, hookVars>>

\* update replaces all lines; what was received of the old ones is forgotten.
UpdateLines(s) ==
    /\ session[s].op = "update"
    /\ Exists(session[s].doc)
    /\ \E lines \in Lines :
          docs' = [docs EXCEPT ![session[s].doc] =
              [@ EXCEPT !.lines = lines, !.received = Nothing, !.total = Pieces(lines)]]
    /\ Done(s)
    /\ UNCHANGED hookVars

\* remove: the row goes, and the links to it (ON DELETE SET NULL); its requests have no
\* foreign key.
RemoveDocument(s) ==
    /\ session[s].op = "remove"
    /\ LET d == session[s].doc IN
          docs' = [x \in Docs |->
              IF x = d THEN Removed
              ELSE IF Exists(x) /\ docs[x].from = d THEN [docs[x] EXCEPT !.from = None]
              ELSE docs[x]]
    /\ Done(s)
    /\ UNCHANGED hookVars

\* Faulty variant: the source gets a status of its own.
SourceConverted(source, to) == "converted"

\* convert: a draft with the source's lines, of which a receipt may take a part, and a new
\* status for the source, with none of the effects of changeStatus.
SourceStatus(source, to) ==
    IF source.type = "order" /\ to = "receipt" THEN "received"
    ELSE IF source.type \in {"order", "receipt"} /\ to = "invoice" THEN "invoiced"
    ELSE None

ReceivedAtOnce(to, lines) ==
    IF to = "receipt" THEN {r \in Quantities : \A p \in Products : r[p] <= lines[p]}
    ELSE {Nothing}

Convert(s, d) ==
    /\ session[s].op = "convert"
    /\ docs[d] = NoDoc
    /\ LET r == session[s]
           status == SourceStatus(r.seen, r.to)
       IN  /\ Exists(r.doc)
           /\ \E received \in ReceivedAtOnce(r.to, r.seen.lines) :
                LET total == Pieces(IF r.to = "receipt" THEN received ELSE r.seen.lines)
                    draft == Draft(r.to, r.doc, "not_required", r.seen.lines, received, total)
                IN  docs' = [docs EXCEPT ![d] = draft,
                        ![r.doc].status = IF status = None THEN @ ELSE status]
    /\ Done(s)
    /\ UNCHANGED hookVars

-------------------------------------------------------------------------------
(***************************************************************************)
(* changeStatus.                                                           *)
(***************************************************************************)
ValidTransition(from, to) == from = to \/ to \in Allowed[from]

Blocks(approval, to) == approval = "pending" /\ to \notin {"cancelled", "draft"}

ReadForStatus(s, d, to) ==
    /\ Exists(d)
    /\ ValidTransition(docs[d].status, to)
    /\ ~Blocks(docs[d].approval, to)
    /\ Start(s, [op |-> "changeStatus", doc |-> d, to |-> to, seen |-> docs[d]])
    /\ UNCHANGED <<docs, hookVars>>

Changing(s, statuses) ==
    /\ session[s].op = "changeStatus"
    /\ session[s].to \in statuses
    /\ Exists(session[s].doc)
    /\ Done(s)

\* Goods enter by the flag as read.  Faulty variant: they enter whatever it says.
EntersAgain(r) == r.to \in {"received", "invoiced"}
EntersStock(r) == r.to \in {"received", "invoiced"} /\ ~r.seen.committed

\* commitStockEntry: what was received of a line, or all of it if nothing was; always in.
EntryOf(doc) == [p \in Products |-> IF doc.received[p] > 0 THEN doc.received[p] ELSE doc.lines[p]]

\* generate posts an entry unless the document ever had one of that reference.
Generate(booked, ref) == [booked EXCEPT ![ref] = IF @ = None THEN "posted" ELSE @]

\* Only a change is journaled; staying received or invoiced is not one.
Journaled(r, booked) ==
    CASE r.to = r.seen.status -> booked
      [] r.to = "received" -> Generate(booked, "purchase_document_receipt")
      [] OTHER -> Generate(booked, "purchase_document")

\* Received or invoiced: stock enters by the flag as read, a payable is made for a fiscal
\* document that has none.
ReceiveOrInvoice(s) ==
    /\ Changing(s, {"received", "invoiced"})
    /\ LET r == session[s]
           d == r.doc
           owes == r.to = "invoiced" /\ r.seen.status # "invoiced" /\ docs[d].type \in Fiscal
       IN  /\ docs' = [docs EXCEPT ![d].status = r.to, ![d].committed = @ \/ EntersStock(r)]
           /\ entered' = [entered EXCEPT ![d] =
                 IF EntersStock(r) THEN [p \in Products |-> @[p] + EntryOf(docs[d])[p]] ELSE @]
           /\ payable' = [payable EXCEPT ![d] =
                 IF owes /\ @ = NoPayable THEN [status |-> "issued", paid |-> 0] ELSE @]
           /\ journal' = [journal EXCEPT ![d] = Journaled(r, @)]
    /\ UNCHANGED requests

\* A document marked paid by hand counts as paid in full.
TopUp(r, amount) ==
    IF r.to = "paid" /\ r.seen.status # "paid" /\ r.seen.amountPaid < r.seen.total
    THEN r.seen.total ELSE amount

\* sent, accepted, rejected, partially_paid and paid, and a draft that stays one.
ChangeOnly(s) ==
    /\ Changing(s, DocStatuses \ {"received", "invoiced", "cancelled"})
    /\ LET r == session[s] IN
          docs' = [docs EXCEPT ![r.doc].status = r.to, ![r.doc].amountPaid = TopUp(r, @)]
    /\ UNCHANGED hookVars

\* Faulty variant: the entry of the receipt is forgotten.
ReverseInvoiceOnly(booked) ==
    [booked EXCEPT !["purchase_document"] = IF @ = "posted" THEN "reversed" ELSE @]

ReverseAll(booked) ==
    [ref \in References |-> IF booked[ref] = "posted" THEN "reversed" ELSE booked[ref]]

\* The stock that entered stays where it is.
CancelDocument(s) ==
    /\ Changing(s, {"cancelled"})
    /\ LET r == session[s]
           d == r.doc
       IN  /\ docs' = [docs EXCEPT ![d].status = "cancelled"]
           /\ IF r.seen.status = "cancelled" THEN UNCHANGED <<payable, journal, requests>>
              ELSE /\ payable' = [payable EXCEPT ![d] =
                         IF @ = NoPayable THEN @ ELSE [@ EXCEPT !.status = "cancelled"]]
                   /\ journal' = [journal EXCEPT ![d] = ReverseAll(@)]
                   /\ requests' = [requests EXCEPT ![d] =
                         [q \in Rules |-> IF @[q] = "pending" THEN "cancelled" ELSE @[q]]]
    /\ UNCHANGED entered

-------------------------------------------------------------------------------
\* recordPayment of accounts payable, which does not mind a cancelled payable.
PayPayable(d, amount) ==
    /\ Exists(d)
    /\ payable[d] # NoPayable
    /\ LET paid == payable[d].paid + amount IN
        /\ paid <= MaxQuantity
        /\ payable' = [payable EXCEPT ![d] =
              [status |-> IF AmountOf(d) <= paid THEN "paid" ELSE "partial", paid |-> paid]]
    /\ UNCHANGED <<docs, entered, journal, requests, session>>

StatusFromPayment(doc, paid) ==
    IF doc.status \in {"draft", "cancelled"} \/ doc.total = 0 THEN doc.status
    ELSE IF paid >= doc.total THEN "paid"
    ELSE IF paid > 0 THEN "partially_paid" ELSE "invoiced"

ReadForSync(s, d) ==
    /\ Exists(d)
    /\ LET paid == payable[d].paid IN
          Start(s, [op |-> "sync", doc |-> d, paid |-> paid,
                    status |-> StatusFromPayment(docs[d], paid)])
    /\ UNCHANGED <<docs, hookVars>>

SyncDocument(s) ==
    /\ session[s].op = "sync"
    /\ LET r == session[s] IN
          docs' = IF Exists(r.doc)
                  THEN [docs EXCEPT ![r.doc].status = r.status, ![r.doc].amountPaid = r.paid]
                  ELSE docs
    /\ Done(s)
    /\ UNCHANGED hookVars

\* decide: the request has an outcome, of which the document never hears.
Decide(d, r) ==
    /\ requests[d][r] = "pending"
    /\ \E decision \in {"approved", "rejected"} :
          requests' = [requests EXCEPT ![d][r] = decision]
    /\ UNCHANGED <<docs, entered, payable, journal, session>>

\* A request that throws, or whose process dies, is rolled back.
Abort(s) ==
    /\ session[s] # Idle
    /\ Done(s)
    /\ UNCHANGED <<docs, hookVars>>

DocStep(s) ==
    \/ \E d \in Docs :
        \/ ReadForUpdate(s, d) \/ ReadForRemove(s, d) \/ ReadForSync(s, d) \/ Convert(s, d)
        \/ \E to \in DocTypes : ReadForConvert(s, d, to)
        \/ \E to \in DocStatuses : ReadForStatus(s, d, to)
    \/ UpdateLines(s) \/ RemoveDocument(s) \/ SyncDocument(s)
    \/ ReceiveOrInvoice(s) \/ ChangeOnly(s) \/ CancelDocument(s) \/ Abort(s)

Next ==
    \/ \E s \in Sessions : DocStep(s)
    \/ \E d \in Docs :
        \/ \E type \in DocTypes : CreateDocument(d, type)
        \/ \E amount \in 1..MaxQuantity : PayPayable(d, amount)
        \/ \E r \in Rules : Decide(d, r)

Spec == Init /\ [][Next]_vars

-------------------------------------------------------------------------------
(***************************************************************************)
(* Rows and requests are well formed.                                      *)
(***************************************************************************)
Request ==
    [op: {"update", "remove"}, doc: Docs]
    \cup [op: {"convert"}, doc: Docs, to: DocTypes, seen: Document]
    \cup [op: {"changeStatus"}, doc: Docs, to: DocStatuses, seen: Document]
    \cup [op: {"sync"}, doc: Docs, paid: 0..MaxQuantity, status: DocStatuses]

TypeOK ==
    /\ docs \in [Docs -> Document \cup {NoDoc, Removed}]
    /\ entered \in [Docs -> [Products -> Nat]]
    /\ payable \in [Docs -> Payable \cup {NoPayable}]
    /\ journal \in [Docs -> [References -> {None, "posted", "reversed"}]]
    /\ requests \in [Docs -> [Rules -> {None, "pending", "approved", "rejected", "cancelled"}]]
    /\ session \in [Sessions -> Request \cup {Idle}]

(***************************************************************************)
(* The flag stock_committed tells the truth: goods entered for a document  *)
(* iff it is set, whatever was edited, converted or cancelled since        *)
(* (documents.service.ts:616-625).                                         *)
(***************************************************************************)
CommittedMeansEntered ==
    \A d \in Docs : Exists(d) => (docs[d].committed <=> entered[d] # Nothing)

(***************************************************************************)
(* A cancelled document leaves nothing open behind it: no entry in the     *)
(* books, no approval request in an inbox, and no payable, unless somebody *)
(* recorded a payment on it (documents.service.ts:683-701).                *)
(***************************************************************************)
CancelledLeavesNothingOpen ==
    \A d \in Docs : docs[d].status = "cancelled" =>
        /\ \A ref \in References : journal[d][ref] # "posted"
        /\ \A r \in Rules : requests[d][r] # "pending"
        /\ payable[d].paid = 0 => payable[d].status \in {"none", "cancelled"}

(***************************************************************************)
(* While a document waits for approval nothing happens on its account: no  *)
(* goods enter, nothing is owed, nothing is booked, not even after a       *)
(* conversion or a synchronisation moved its status on ("Documento aguarda *)
(* aprovação", documents.service.ts:586-595).                              *)
(***************************************************************************)
PendingHasNoEffects ==
    \A d \in Docs : Exists(d) /\ docs[d].approval = "pending" =>
        /\ entered[d] = Nothing
        /\ payable[d] = NoPayable
        /\ \A ref \in References : journal[d][ref] = None

(***************************************************************************)
(* An invoice or credit note that says paid says it is paid in full,       *)
(* whether a user marked it or a synchronisation did                       *)
(* (documents.service.ts:675-681, purchase-payments.service.ts:192-197).   *)
(***************************************************************************)
PaidInFull ==
    \A d \in Docs : docs[d].status = "paid" /\ docs[d].type \in Fiscal =>
        docs[d].amountPaid >= docs[d].total

(***************************************************************************)
(* A document agrees with its goods, its payable, its entries in the books *)
(* and its requests, at whatever status its history left it.               *)
(***************************************************************************)
DocumentsAgree ==
    TypeOK /\ CommittedMeansEntered /\ CancelledLeavesNothingOpen /\ PendingHasNoEffects /\ PaidInFull

(***************************************************************************)
(* Goods enter once for a document: once stock_committed is set, no step of*)
(* it enters more ("idempotente", documents.service.ts:616).               *)
(***************************************************************************)
DocumentEntersOnce ==
    [][\A d \in Docs : Exists(d) /\ docs[d].committed => entered'[d] = entered[d]]_vars

(***************************************************************************)
(* Goods enter by the receipt or, without one, by the invoice ("entra no   *)
(* momento de receipt (Recepção) OU em invoice direto",                    *)
(* migrations/20260519150000_create_purchases_module.ts:7): of a receipt   *)
(* and the invoice it was converted to, only one enters.                   *)
(***************************************************************************)
GoodsEnterOnce ==
    \A d, source \in Docs :
        Exists(d) /\ Exists(source) /\ docs[d].from = source /\ docs[source].type = "receipt"
            /\ docs[d].type = "invoice"
        => entered[d] = Nothing \/ entered[source] = Nothing
================================================================================
