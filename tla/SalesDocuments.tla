----------------------------- MODULE SalesDocuments -----------------------------
(***************************************************************************)
(* Sales from quote to credit note: the handlers of                        *)
(* sales/documents/documents.service.ts that change state, with the hooks  *)
(* they call inside their transaction: fulfillments and reservations       *)
(* (module Fulfillments), receivable and commission                        *)
(* (sales/payments/sales-payments.service.ts), automatic journal entries   *)
(* (accounting/auto-journal) and approval requests (approvals/requests).   *)
(* The picking floor runs at the same time and shares docs, fulfillments   *)
(* and reserved.                                                           *)
(*                                                                         *)
(* changeStatus, convert, update and remove read the document without a    *)
(* lock and decide on that row (seen, existing in the code); their first   *)
(* write locks it, and what they read again after that is current.  Each is*)
(* a Read action and a Write action.  Amounts, numbering, credit limits and*)
(* accounting rules are left out: every document has a salesperson on      *)
(* commission, and every event an active journal rule.                     *)
(***************************************************************************)
EXTENDS Fulfillments

CONSTANTS Rules          \* approval rules that may fire when a document is created

VARIABLES receivable,    \* status of the accounts_receivable row of each document
          commission,    \* status of its sales_commissions row
          journal,       \* status of its automatic entries, by reference type
          requests,      \* status of its approval_requests, by rule
          overlapped     \* history: two requests were under way at once

hookVars == <<receivable, commission, journal, requests>>
salesVars == <<docs, fulfillments, reserved, out, session, hookVars, overlapped>>

Overlapping == \E s, u \in Sessions : s # u /\ session[s] # Idle /\ session[u] # Idle

\* JS tables of documents.service.ts.
CONVERSION_MAP == [quote |-> {"order", "invoice"}, order |-> {"delivery", "invoice"},
    delivery |-> {"invoice"}, invoice |-> {"credit_note", "customer_return"},
    credit_note |-> {}, customer_return |-> {}]

Allowed == [draft |-> {"sent", "cancelled", "invoiced"},
    sent |-> {"accepted", "rejected", "invoiced", "cancelled"},
    accepted |-> {"invoiced", "cancelled"}, rejected |-> {"cancelled"},
    invoiced |-> {"paid", "partially_paid", "cancelled"},
    partially_paid |-> {"paid", "cancelled"}, paid |-> {"cancelled"}, cancelled |-> {}]

Fiscal == {"invoice", "credit_note", "customer_return"}
CreditSide == {"credit_note", "customer_return"}

References == {"sales_document", "sales_document_cogs"}
NewLines == [Products -> 1..MaxQuantity]

Draft(type, from, approval, lines) ==
    [type |-> type, status |-> "draft", committed |-> FALSE, approval |-> approval,
     from |-> from, lines |-> lines]

SalesInit ==
    /\ docs = [d \in Docs |-> NoDoc]
    /\ fulfillments = [f \in Tasks |-> NoTask]
    /\ reserved = [d \in Docs |-> Nothing]
    /\ out = [ref \in Docs \cup Tasks |-> Nothing]
    /\ session = [s \in Sessions |-> Idle]
    /\ receivable = [d \in Docs |-> None]
    /\ commission = [d \in Docs |-> None]
    /\ journal = [d \in Docs |-> [ref \in References |-> None]]
    /\ requests = [d \in Docs |-> [r \in Rules |-> None]]
    /\ overlapped = FALSE

-------------------------------------------------------------------------------
\* create: a draft, with one pending request for every rule its amounts satisfy.
CreateDocument(d, type) ==
    /\ docs[d] = NoDoc
    /\ \E fired \in SUBSET Rules, lines \in NewLines :
        /\ docs' = [docs EXCEPT ![d] =
              Draft(type, None, IF fired = {} THEN "not_required" ELSE "pending", lines)]
        /\ requests' = [requests EXCEPT ![d] =
              [r \in Rules |-> IF r \in fired THEN "pending" ELSE None]]
    /\ UNCHANGED <<fulfillments, reserved, out, session, receivable, commission, journal>>

\* duplicate: a draft of the same type and lines, whatever the source; no rule is evaluated.
Duplicate(d, source) ==
    /\ docs[d] = NoDoc
    /\ Exists(source)
    /\ docs' = [docs EXCEPT ![d] =
          Draft(docs[source].type, None, "not_required", docs[source].lines)]
    /\ UNCHANGED <<fulfillments, reserved, out, session, hookVars>>

\* The unlocked read of update, remove and convert, and the refusals that follow it.
ReadForUpdate(s, d) ==
    /\ Exists(d)
    /\ docs[d].status # "cancelled"
    /\ docs[d].type \in Fiscal => docs[d].status = "draft"
    /\ Start(s, [op |-> "update", doc |-> d])
    /\ UNCHANGED <<docs, fulfillments, reserved, out, hookVars>>

ReadForRemove(s, d) ==
    /\ docs[d].status = "draft"
    /\ Start(s, [op |-> "remove", doc |-> d])
    /\ UNCHANGED <<docs, fulfillments, reserved, out, hookVars>>

ReadForConvert(s, d, to) ==
    /\ Exists(d)
    /\ to \in CONVERSION_MAP[docs[d].type]
    /\ docs[d].status # "cancelled"
    /\ Start(s, [op |-> "convert", doc |-> d, to |-> to, seen |-> docs[d]])
    /\ UNCHANGED <<docs, fulfillments, reserved, out, hookVars>>

\* update replaces all lines; approval and fulfillment items stay as they are.
UpdateLines(s) ==
    /\ session[s].op = "update"
    /\ Exists(session[s].doc)
    /\ \E lines \in NewLines : docs' = [docs EXCEPT ![session[s].doc].lines = lines]
    /\ Done(s)
    /\ UNCHANGED <<fulfillments, reserved, out, hookVars>>

\* remove: the row goes, its fulfillments with it (ON DELETE CASCADE) and the links to it
\* (ON DELETE SET NULL); reservations, receivable and requests have no foreign key.
Remove(s) ==
    /\ session[s].op = "remove"
    /\ LET d == session[s].doc IN
        /\ Exists(d)
        /\ docs' = [x \in Docs |->
              IF x = d THEN Removed
              ELSE IF Exists(x) /\ docs[x].from = d THEN [docs[x] EXCEPT !.from = None]
              ELSE docs[x]]
        /\ fulfillments' = [f \in Tasks |->
              IF Present(f) /\ fulfillments[f].order = d THEN Removed
              ELSE fulfillments[f]]
        /\ commission' = [commission EXCEPT ![d] = None]
    /\ Done(s)
    /\ UNCHANGED <<reserved, out, receivable, journal, requests>>

\* Faulty variant: the source gets a status of its own.
SourceConverted(source, to) == "converted"

\* convert: a draft with the source's lines, and a new status for the source: accepted or
\* invoiced, with none of the effects of changeStatus.
SourceStatus(source, to) ==
    IF source.type = "quote" /\ to = "order" THEN "accepted"
    ELSE IF source.type # "invoice" /\ to \in {"invoice", "delivery"} THEN "invoiced"
    ELSE None

Convert(s, d) ==
    /\ session[s].op = "convert"
    /\ docs[d] = NoDoc
    /\ LET r == session[s]
           status == SourceStatus(r.seen, r.to)
           converted == [docs EXCEPT ![d] = Draft(r.to, r.doc, "not_required", r.seen.lines)]
       IN  /\ Exists(r.doc)
           /\ docs' = IF status = None THEN converted
                      ELSE [converted EXCEPT ![r.doc].status = status]
    /\ Done(s)
    /\ UNCHANGED <<fulfillments, reserved, out, hookVars>>

(***************************************************************************)
(* changeStatus.                                                           *)
(***************************************************************************)
\* validateStatusTransition, and the block of a document not approved.
ValidTransition(from, to) == from = to \/ to \in Allowed[from]

Blocks(approval, to) == approval \in {"pending", "rejected"} /\ to \notin {"cancelled", "draft"}

ReadForStatus(s, d, to) ==
    /\ Exists(d)
    /\ ValidTransition(docs[d].status, to)
    /\ ~Blocks(docs[d].approval, to)
    /\ Start(s, [op |-> "changeStatus", doc |-> d, to |-> to, seen |-> docs[d]])
    /\ UNCHANGED <<docs, fulfillments, reserved, out, hookVars>>

\* The side effects a change has: none when the status read was already the new one.
Effect(r) ==
    IF r.to = r.seen.status THEN "none"
    ELSE IF r.to = "accepted" THEN IF r.seen.type = "order" THEN "accept" ELSE "none"
    ELSE IF r.to \in {"invoiced", "paid", "cancelled"} THEN r.to
    ELSE "none"

Changing(s, effect) ==
    /\ session[s].op = "changeStatus"
    /\ Effect(session[s]) = effect
    /\ Exists(session[s].doc)
    /\ Done(s)

SetStatus(s) == docs' = [docs EXCEPT ![session[s].doc].status = session[s].to]

ChangeOnly(s) ==
    /\ Changing(s, "none")
    /\ SetStatus(s)
    /\ UNCHANGED <<fulfillments, reserved, out, hookVars>>

AcceptOrder(s) ==
    /\ Changing(s, "accept")
    /\ SetStatus(s)
    /\ CreateForOrder(session[s].doc)
    /\ UNCHANGED <<out, hookVars>>

\* Faulty variant: a return is committed without putting the goods back.
DecrementSalesOnly(d) ==
    IF docs[d].type \in CreditSide THEN UNCHANGED out
    ELSE /\ \A p \in Products : docs[d].lines[p] <= OnHand(p)
         /\ out' = [out EXCEPT ![d] = [p \in Products |-> @[p] + docs[d].lines[p]]]

\* decrementStock: out of the shelf, if it holds enough, or back into it for a return.
DecrementStock(d) ==
    IF docs[d].type \in CreditSide
    THEN out' = [out EXCEPT ![d] = [p \in Products |-> @[p] - docs[d].lines[p]]]
    ELSE /\ \A p \in Products : docs[d].lines[p] <= OnHand(p)
         /\ out' = [out EXCEPT ![d] = [p \in Products |-> @[p] + docs[d].lines[p]]]

\* generate posts an entry unless the document ever had one of that reference.
Generate(entries, ref) == [entries EXCEPT ![ref] = IF @ = None THEN "posted" ELSE @]

\* The flag as read decides whether the issue moves stock.  Faulty variant: it always does.
AlwaysMovesStock(seen) == TRUE
MovesStock(seen) == ~seen.committed

\* Stock is decremented once per document (by the flag it read), the receivable, the
\* commission and the entries are created once (by what is there now).
Invoice(s) ==
    /\ Changing(s, "invoiced")
    /\ LET d == session[s].doc
           seen == session[s].seen
           cogs == IF MovesStock(seen) THEN Generate(journal[d], "sales_document_cogs")
                   ELSE journal[d]
       IN  /\ docs' = [docs EXCEPT ![d].status = "invoiced",
                                   ![d].committed = @ \/ MovesStock(seen)]
           /\ IF MovesStock(seen) THEN DecrementStock(d) ELSE UNCHANGED out
           /\ IF docs[d].type \in Fiscal
              THEN /\ receivable' = [receivable EXCEPT ![d] = IF @ = None THEN "issued" ELSE @]
                   /\ commission' = [commission EXCEPT ![d] = IF @ = None THEN "pending" ELSE @]
                   /\ journal' = [journal EXCEPT ![d] = Generate(cogs, "sales_document")]
              ELSE /\ journal' = [journal EXCEPT ![d] = cogs]
                   /\ UNCHANGED <<receivable, commission>>
    /\ UNCHANGED <<fulfillments, reserved, requests>>

Pay(s) ==
    /\ Changing(s, "paid")
    /\ SetStatus(s)
    /\ commission' = [commission EXCEPT ![session[s].doc] = IF @ = "pending" THEN "eligible" ELSE @]
    /\ UNCHANGED <<fulfillments, reserved, out, receivable, journal, requests>>

CancelDocument(s) ==
    /\ Changing(s, "cancelled")
    /\ SetStatus(s)
    /\ LET d == session[s].doc IN
        /\ receivable' = [receivable EXCEPT ![d] = IF @ = None THEN None ELSE "cancelled"]
        /\ commission' = [commission EXCEPT ![d] = IF @ = None THEN None ELSE "cancelled"]
        /\ journal' = [journal EXCEPT ![d] =
              [ref \in References |-> IF @[ref] = "posted" THEN "reversed" ELSE @[ref]]]
        /\ requests' = [requests EXCEPT ![d] =
              [r \in Rules |-> IF @[r] = "pending" THEN "cancelled" ELSE @[r]]]
        /\ IF session[s].seen.type = "order" THEN ReleaseByReference(d) ELSE UNCHANGED reserved
    /\ UNCHANGED <<fulfillments, out>>

\* decide: locks the request; its outcome becomes the document's approval status.
Decide(d, r) ==
    /\ requests[d][r] = "pending"
    /\ \E decision \in {"approved", "rejected"} :
        /\ requests' = [requests EXCEPT ![d][r] = decision]
        /\ docs' = IF Exists(d) THEN [docs EXCEPT ![d].approval = decision] ELSE docs
    /\ UNCHANGED <<fulfillments, reserved, out, session, receivable, commission, journal>>

SalesStep(s) ==
    \/ \E d \in Docs :
        \/ ReadForUpdate(s, d) \/ ReadForRemove(s, d) \/ Convert(s, d)
        \/ \E to \in DocTypes : ReadForConvert(s, d, to)
        \/ \E to \in DocStatuses : ReadForStatus(s, d, to)
    \/ UpdateLines(s) \/ Remove(s)
    \/ ChangeOnly(s) \/ AcceptOrder(s) \/ Invoice(s) \/ Pay(s) \/ CancelDocument(s)

SalesNext ==
    /\ \/ \E s \in Sessions : SalesStep(s) \/ (FloorStep(s) /\ UNCHANGED hookVars)
       \/ \E d \in Docs :
           \/ \E type \in DocTypes : CreateDocument(d, type)
           \/ \E source \in Docs : Duplicate(d, source)
           \/ \E r \in Rules : Decide(d, r)
    /\ overlapped' = (overlapped \/ Overlapping')

SalesSpec == SalesInit /\ [][SalesNext]_salesVars

-------------------------------------------------------------------------------
(***************************************************************************)
(* Type invariant: rows, requests in progress and hooks are well formed.   *)
(***************************************************************************)
DocRequest ==
    [op: {"update", "remove"}, doc: Docs]
    \cup [op: {"convert"}, doc: Docs, to: DocTypes, seen: Document]
    \cup [op: {"changeStatus"}, doc: Docs, to: DocStatuses, seen: Document]

SalesTypeOK ==
    /\ RowsTypeOK
    /\ session \in [Sessions -> {Idle} \cup TaskRequest \cup PickRequest \cup PickWritten
                                   \cup DocRequest]
    /\ receivable \in [Docs -> {None, "issued", "cancelled"}]
    /\ commission \in [Docs -> {None, "pending", "eligible", "cancelled"}]
    /\ journal \in [Docs -> [References -> {None, "posted", "reversed"}]]
    /\ requests \in [Docs -> [Rules -> {None, "pending", "approved", "rejected", "cancelled"}]]
    /\ overlapped \in BOOLEAN

(***************************************************************************)
(* The customer owes for exactly the fiscal documents that are issued and  *)
(* not cancelled: a live receivable and a posted entry on one side, the    *)
(* status on the other (hooks of changeStatus, documents.service.ts:655-   *)
(* 726; conversion never issues a fiscal document, 933-945).               *)
(***************************************************************************)
Issued(d) == docs[d].status \in {"invoiced", "partially_paid", "paid"}

ReceivableFollowsDocument ==
    \A d \in Docs :
        LET owed == Exists(d) /\ docs[d].type \in Fiscal /\ Issued(d)
        IN  /\ receivable[d] = "issued" <=> owed
            /\ journal[d]["sales_document"] = "posted" <=> owed

(***************************************************************************)
(* A cancelled document leaves nothing open behind it: no receivable, no   *)
(* commission to pay, no entry in the books, no reservation, no approval   *)
(* request in an inbox (documents.service.ts:703-726).                     *)
(***************************************************************************)
CancelledLeavesNothingOpen ==
    \A d \in Docs : docs[d].status = "cancelled" =>
        /\ receivable[d] # "issued"
        /\ commission[d] \notin {"pending", "eligible"}
        /\ \A ref \in References : journal[d][ref] # "posted"
        /\ reserved[d] = Nothing
        /\ \A r \in Rules : requests[d][r] # "pending"

(***************************************************************************)
(* The flag stock_committed tells the truth: it is set on a document iff   *)
(* its own issue moved stock, or a fulfillment of it shipped, or a shipment*)
(* made it (migration 20260518100000, lines 18-20).  The exception is a    *)
(* shipment of which nothing was found: its guide has no lines, and what is*)
(* copied from that guide is issued with nothing to move                   *)
(* (fulfillments.service.ts:721, documents.service.ts:658-664).            *)
(***************************************************************************)
ShippedFor(d) == \E f \in Tasks : fulfillments[f].status = "shipped" /\ fulfillments[f].order = d
EmptyShipment == \E f \in Tasks : fulfillments[f].status = "shipped" /\ fulfillments[f].picked = Nothing
GuideOfShipment(d) == docs[d].type = "delivery" /\ docs[d].from # None /\ ShippedFor(docs[d].from)

CommittedMeansMoved ==
    \A d \in Docs : Exists(d) =>
        /\ out[d] # Nothing \/ ShippedFor(d) => docs[d].committed
        /\ docs[d].committed => out[d] # Nothing \/ ShippedFor(d) \/ GuideOfShipment(d) \/ EmptyShipment

(***************************************************************************)
(* A document moves stock once: a committed document is not decremented    *)
(* again by its own status changes (documents.service.ts:658).             *)
(***************************************************************************)
MovesOnce == \A d \in Docs : Exists(d) /\ docs[d].committed => out'[d] = out[d]

(***************************************************************************)
(* A document somebody still has to approve is a draft, was cancelled, or  *)
(* was moved on by its conversion ("enquanto status='draft' OR aprovação   *)
(* pendente, NÃO permitimos avançar", documents.service.ts:606-607), and   *)
(* somebody still has its request to decide while it is a draft.           *)
(***************************************************************************)
PendingHoldsBack ==
    \A d \in Docs : Exists(d) /\ docs[d].approval = "pending" =>
        /\ \/ docs[d].status \in {"draft", "cancelled"}
           \/ \E x \in Docs : docs[x] = Removed \/ (Exists(x) /\ docs[x].from = d)
        /\ docs[d].status = "draft" => \E r \in Rules : requests[d][r] = "pending"

(***************************************************************************)
(* A document agrees with its receivable, its entries in the books, its    *)
(* requests and the stock it moved, after any sequence of requests that do *)
(* not overlap (documents.service.ts:594-726).                             *)
(***************************************************************************)
DocumentsAgree ==
    /\ SalesTypeOK
    /\ overlapped \/ /\ ReceivableFollowsDocument /\ CancelledLeavesNothingOpen
                     /\ CommittedMeansMoved /\ PendingHoldsBack

(***************************************************************************)
(* What was shipped is known to its order, however requests overlap        *)
(* (fulfillments.service.ts:594-607).                                      *)
(***************************************************************************)
ShippedIsKnown ==
    \A f \in Tasks :
        Present(f) /\ (fulfillments[f].status = "shipped" \/ out[f] # Nothing) =>
            docs[fulfillments[f].order].committed

(***************************************************************************)
(* Stock is held back only for an order somebody can still pick, and no    *)
(* longer for one that was shipped, while requests do not overlap          *)
(* (stock-reservations.service.ts:75-145).  A cancellation and an          *)
(* acceptance that both read the order before it was shipped leave goods   *)
(* reserved that have left.                                                *)
(***************************************************************************)
OrdersAreBacked == ShippedIsKnown /\ (overlapped \/ (ReservationsAreBacked /\ ShippedIsSettled))

(***************************************************************************)
(* A committed document is not decremented again by its own status changes,*)
(* while requests do not overlap (documents.service.ts:658).               *)
(***************************************************************************)
DocumentMovesOnce == [][overlapped' \/ MovesOnce]_salesVars
================================================================================
