-------------------------------- MODULE Accounts --------------------------------
(***************************************************************************)
(* Accounts receivable and payable (finance/accounts-receivable and        *)
(* finance/accounts-payable), the documents they mirror (the payments      *)
(* services of sales and purchases) and the allocation of payments         *)
(* (finance/allocations).                                                  *)
(*                                                                         *)
(* recordPayment runs inside knex.transaction, but its repository queries  *)
(* the pool, not the transaction: it reads the entry, inserts the payment  *)
(* and overwrites the entry in three statements that commit one by one.    *)
(* The other handlers read without a lock and write later; only allocate   *)
(* locks (the entries it allocates to).  A document and its entry share    *)
(* their id here; the unique index on reference_number keeps them one to   *)
(* one.  Names, dates, currencies and journal entries are left out.        *)
(***************************************************************************)
EXTENDS Integers, FiniteSets, Sums

CONSTANTS Entries,       \* ids for rows of accounts_receivable and accounts_payable
          Payments,      \* ids for receivable_payments and payable_payments (a bound)
          Batches,       \* ids for what one call of allocate inserts (a bound)
          Sessions,      \* requests that can be in progress at once
          Allocators,    \* the sessions that allocate payments
          FormStatuses,  \* the statuses a user sets by hand (a bound)
          Total          \* what every entry and document amounts to

VARIABLES docs,          \* status and amount_paid of the document an entry mirrors, if any
          entries,       \* accounts_receivable and accounts_payable
          payments,      \* receivable_payments and payable_payments
          batches,       \* payment_allocations, grouped by the call that inserted them
          session        \* the request each session is in the middle of

vars == <<docs, entries, payments, batches, session>>

ASSUME AllocatorsAssumption == Allocators \subseteq Sessions
ASSUME TotalAssumption == Total \in Nat \ {0}
ASSUME TablesAssumption == IsFiniteSet(Entries) /\ IsFiniteSet(Payments) /\ IsFiniteSet(Batches)

-------------------------------------------------------------------------------
Kinds == {"receivable", "payable"}
Absent == [status |-> "absent"]
Removed == [status |-> "removed"]

EntryStatuses == {"draft", "issued", "partial", "paid", "overdue", "cancelled"}

\* A credit note has a negative amount; allows_partial_payment matters to payables only.
Entry == [kind: Kinds, status: EntryStatuses, original: {Total, -Total}, paid: Nat, outstanding: Int,
          partial: BOOLEAN]
ASSUME FormAssumption == FormStatuses \subseteq EntryStatuses

NewEntry(kind, amount, partial) ==
    [kind |-> kind, status |-> "issued", original |-> amount, paid |-> 0, outstanding |-> amount,
     partial |-> partial]
HasEntry(e) == entries[e] \notin {Absent, Removed}

\* A receivable mirrors a sales document, a payable a purchase document.
DocStatuses == {"accepted", "invoiced", "partially_paid", "paid", "cancelled"}
Doc == [kind: Kinds, status: DocStatuses, amountPaid: Nat]
HasDoc(d) == docs[d] # Absent

Payment == [entry: Entries, amount: 1..Total]
HasPayment(p) == payments[p] \notin {Absent, Removed}
Split == [Entries -> 0..Total]
Batch == [payment: Payments, split: Split]

PaidTo(e) == [p \in Payments |-> IF HasPayment(p) /\ payments[p].entry = e THEN payments[p].amount ELSE 0]
PaidIn(e) == SumOver(PaidTo(e), Payments)
SplitTotal(split) == SumOver(split, Entries)

Idle == [op |-> "idle"]
Start(s, request) == session[s] = Idle /\ session' = [session EXCEPT ![s] = request]
Done(s) == session' = [session EXCEPT ![s] = Idle]

Init ==
    /\ docs \in [Entries -> [kind: Kinds, status: {"accepted"}, amountPaid: {0}] \cup {Absent}]
    /\ entries = [e \in Entries |-> Absent]
    /\ payments = [p \in Payments |-> Absent]
    /\ batches = [b \in Batches |-> Absent]
    /\ session = [s \in Sessions |-> Idle]

-------------------------------------------------------------------------------
(***************************************************************************)
(* Entries.                                                                *)
(***************************************************************************)
\* onDocumentInvoiced, in the transaction of changeStatus; a credit note owes the reverse.
InvoiceDocument(d, amount) ==
    /\ docs[d].status = "accepted"
    /\ docs' = [docs EXCEPT ![d].status = "invoiced"]
    /\ entries' = [entries EXCEPT ![d] = IF @ = Absent THEN NewEntry(docs[d].kind, amount, TRUE)
                                             ELSE @]
    /\ UNCHANGED <<payments, batches, session>>

\* onDocumentCancelled: the entry follows, paid or not.
CancelDocument(d) ==
    /\ HasDoc(d) /\ docs[d].status # "cancelled"
    /\ docs' = [docs EXCEPT ![d].status = "cancelled"]
    /\ entries' = [entries EXCEPT ![d] = IF HasEntry(d) THEN [@ EXCEPT !.status = "cancelled"] ELSE @]
    /\ UNCHANGED <<payments, batches, session>>

\* changeStatus by hand: partially_paid changes nothing else, paid tops the amount up.
MarkPaid(d, status) ==
    /\ \/ docs[d].status = "invoiced" /\ status \in {"paid", "partially_paid"}
       \/ docs[d].status = "partially_paid" /\ status = "paid"
    /\ docs' = [docs EXCEPT ![d].status = status,
                            ![d].amountPaid = IF status = "paid" /\ @ < Total THEN Total ELSE @]
    /\ UNCHANGED <<entries, payments, batches, session>>

\* createReceivable and createPayable, for what has no document.
CreateEntry(e, kind, partial) ==
    /\ ~HasDoc(e) /\ entries[e] = Absent
    /\ entries' = [entries EXCEPT ![e] = NewEntry(kind, Total, partial)]
    /\ UNCHANGED <<docs, payments, batches, session>>

\* updateReceivable and updatePayable check the entry they read, then set the status.
ReadForUpdate(s, e, status) ==
    /\ HasEntry(e)
    /\ status \in {"draft", "cancelled"} => entries[e].paid <= 0
    /\ Start(s, [op |-> "update", entry |-> e, status |-> status])
    /\ UNCHANGED <<docs, entries, payments, batches>>

UpdateEntry(s) ==
    /\ session[s].op = "update"
    /\ HasEntry(session[s].entry)
    /\ entries' = [entries EXCEPT ![session[s].entry].status = session[s].status]
    /\ Done(s)
    /\ UNCHANGED <<docs, payments, batches>>

\* deleteReceivable and deletePayable; the payments of the row go with it (ON DELETE CASCADE).
ReadForDelete(s, e) ==
    /\ HasEntry(e) /\ entries[e].status # "paid" /\ entries[e].paid <= 0
    /\ Start(s, [op |-> "delete", entry |-> e])
    /\ UNCHANGED <<docs, entries, payments, batches>>

DeleteEntry(s) ==
    /\ session[s].op = "delete"
    /\ LET e == session[s].entry IN
        /\ entries' = [entries EXCEPT ![e] = IF HasEntry(e) THEN Removed ELSE @]
        /\ payments' = [p \in Payments |->
              IF HasPayment(p) /\ payments[p].entry = e THEN Removed ELSE payments[p]]
    /\ Done(s)
    /\ UNCHANGED <<docs, batches>>

-------------------------------------------------------------------------------
(***************************************************************************)
(* Payments.                                                               *)
(***************************************************************************)
\* The only check on the amount is a payable's that takes no partial payment.
ReadForPayment(s, e, amount) ==
    /\ HasEntry(e)
    /\ entries[e].kind = "payable" /\ ~entries[e].partial => amount >= entries[e].outstanding
    /\ Start(s, [op |-> "pay", entry |-> e, amount |-> amount, paid |-> entries[e].paid])
    /\ UNCHANGED <<docs, entries, payments, batches>>

\* INSERT of the payment, refused by the foreign key if the entry is gone ...
InsertPayment(s) ==
    /\ session[s].op = "pay"
    /\ LET r == session[s] IN
        /\ HasEntry(r.entry)
        /\ \E p \in Payments :
              payments[p] = Absent /\ payments' = [payments EXCEPT
                  ![p] = [entry |-> r.entry, amount |-> r.amount]]
        /\ session' = [session EXCEPT ![s].op = "paid"]
    /\ UNCHANGED <<docs, entries, batches>>

\* ... and UPDATE of the entry from the amount read before, which may be stale by now.
SettleEntry(s) ==
    /\ session[s].op = "paid"
    /\ LET r == session[s]
           paid == r.paid + r.amount
       IN entries' = [entries EXCEPT ![r.entry] =
            IF HasEntry(r.entry)
            THEN [@ EXCEPT !.paid = paid,
                           !.outstanding = Max({0, entries[r.entry].original - paid}),
                           !.status = IF entries[r.entry].original <= paid THEN "paid" ELSE "partial"]
            ELSE @]
    /\ Done(s)
    /\ UNCHANGED <<docs, payments, batches>>

-------------------------------------------------------------------------------
(***************************************************************************)
(* Synchronisation of a document with its entry.                           *)
(***************************************************************************)
\* computeStatusFromPayment of sales keeps the status of a document without payments;
\* purchases make it invoiced.
StatusFromPayment(d, paid) ==
    LET unpaid == IF docs[d].kind = "payable" \/ docs[d].status \in {"paid", "partially_paid"}
                  THEN "invoiced" ELSE docs[d].status
    IN  CASE docs[d].status = "cancelled" -> "cancelled"
          [] paid >= Total -> "paid"
          [] paid = 0 -> unpaid
          [] OTHER -> "partially_paid"

\* Faulty variant: the entry's total is added to the document's once more.
ReadForSyncTwice(s, d) ==
    /\ HasDoc(d)
    /\ LET paid == docs[d].amountPaid + IF HasEntry(d) THEN entries[d].paid ELSE 0 IN
        Start(s, [op |-> "sync", doc |-> d, paid |-> paid, status |-> StatusFromPayment(d, paid)])
    /\ UNCHANGED <<docs, entries, payments, batches>>

\* syncDocumentPayments reads document and entry, without locking either ...
ReadForSync(s, d) ==
    /\ HasDoc(d)
    /\ LET paid == IF HasEntry(d) THEN entries[d].paid ELSE 0 IN
        Start(s, [op |-> "sync", doc |-> d, paid |-> paid, status |-> StatusFromPayment(d, paid)])
    /\ UNCHANGED <<docs, entries, payments, batches>>

\* ... and writes what it computed, whatever the document has become.
SyncDocument(s) ==
    /\ session[s].op = "sync"
    /\ docs' = [docs EXCEPT ![session[s].doc].status = session[s].status,
                            ![session[s].doc].amountPaid = session[s].paid]
    /\ Done(s)
    /\ UNCHANGED <<entries, payments, batches>>

-------------------------------------------------------------------------------
(***************************************************************************)
(* Allocations.                                                            *)
(***************************************************************************)
BatchesOf(p) == {b \in Batches : batches[b] # Absent /\ batches[b].payment = p}
AllocatedFrom(p) == [b \in Batches |-> IF b \in BatchesOf(p) THEN SplitTotal(batches[b].split) ELSE 0]

\* The rows a session has deleted and not committed, which others wait for.
Held(s) == IF session[s].op = "deleted" THEN session[s].doomed ELSE {}

\* allocate reads the payment and checks the sum ...
ReadForAllocation(s, p, split) ==
    /\ HasPayment(p) /\ SplitTotal(split) <= payments[p].amount
    /\ Start(s, [op |-> "allocate", payment |-> p, split |-> split, seen |-> BatchesOf(p)])
    /\ UNCHANGED <<docs, entries, payments, batches>>

\* Faulty variant: the previous allocations stay.
DeleteNone(s) ==
    /\ session[s].op = "allocate"
    /\ session' = [session EXCEPT ![s] = [op |-> "deleted", payment |-> session[s].payment,
            split |-> session[s].split, doomed |-> {}]]
    /\ UNCHANGED <<docs, entries, payments, batches>>

\* ... deletes the rows it sees of the payment, waiting for who is deleting them too ...
DeleteOld(s) ==
    /\ session[s].op = "allocate"
    /\ LET r == session[s] IN
        /\ \A u \in Sessions \ {s} : Held(u) \cap r.seen = {}
        /\ session' = [session EXCEPT ![s] = [op |-> "deleted", payment |-> r.payment,
              split |-> r.split, doomed |-> r.seen \cap BatchesOf(r.payment)]]
    /\ UNCHANGED <<docs, entries, payments, batches>>

\* ... locks the entries, checks that each part fits what is outstanding, and inserts.
InsertNew(s) ==
    /\ session[s].op = "deleted"
    /\ LET r == session[s] IN
        /\ \A e \in Entries : r.split[e] > 0 => HasEntry(e) /\ r.split[e] <= entries[e].outstanding
        /\ \E b \in Batches :
            /\ batches[b] = Absent
            /\ batches' = [c \in Batches |->
                  CASE c \in r.doomed -> Absent
                    [] c = b /\ SplitTotal(r.split) > 0 -> [payment |-> r.payment, split |-> r.split]
                    [] OTHER -> batches[c]]
    /\ Done(s)
    /\ UNCHANGED <<docs, entries, payments>>

\* remove deletes one row of a batch.
RemoveAllocation(b, e) ==
    /\ batches[b] # Absent
    /\ batches[b].split[e] > 0
    /\ \A u \in Sessions : b \notin Held(u)
    /\ batches' = [batches EXCEPT ![b] =
          IF \A x \in Entries \ {e} : batches[b].split[x] = 0 THEN Absent
          ELSE [@ EXCEPT !.split[e] = 0]]
    /\ UNCHANGED <<docs, entries, payments, session>>

-------------------------------------------------------------------------------
\* A request that throws, or whose process dies; statements that committed stay.
Abort(s) ==
    /\ session[s] # Idle
    /\ Done(s)
    /\ UNCHANGED <<docs, entries, payments, batches>>

EntryStep(s) ==
    \/ \E e \in Entries :
        \/ \E status \in FormStatuses : ReadForUpdate(s, e, status)
        \/ ReadForDelete(s, e)
        \/ \E amount \in 1..Total : ReadForPayment(s, e, amount)
    \/ \E d \in Entries : ReadForSync(s, d)
    \/ UpdateEntry(s) \/ DeleteEntry(s) \/ InsertPayment(s) \/ SettleEntry(s) \/ SyncDocument(s)

AllocationStep(s) ==
    \/ \E p \in Payments, split \in Split : ReadForAllocation(s, p, split)
    \/ DeleteOld(s) \/ InsertNew(s)

Next ==
    \/ \E d \in Entries :
        \/ \E amount \in {Total, -Total} : InvoiceDocument(d, amount)
        \/ CancelDocument(d)
        \/ \E status \in {"paid", "partially_paid"} : MarkPaid(d, status)
    \/ \E e \in Entries, kind \in Kinds, partial \in BOOLEAN : CreateEntry(e, kind, partial)
    \/ \E s \in Sessions : EntryStep(s) \/ Abort(s)
    \/ \E s \in Allocators : AllocationStep(s)
    \/ \E b \in Batches, e \in Entries : RemoveAllocation(b, e)

Spec == Init /\ [][Next]_vars

-------------------------------------------------------------------------------
(***************************************************************************)
(* Rows and requests are well formed.                                      *)
(***************************************************************************)
Request ==
    [op: {"update"}, entry: Entries, status: EntryStatuses] \cup [op: {"delete"}, entry: Entries]
    \cup [op: {"pay", "paid"}, entry: Entries, amount: 1..Total, paid: Nat]
    \cup [op: {"sync"}, doc: Entries, paid: Nat, status: DocStatuses]
    \cup [op: {"allocate"}, payment: Payments, split: Split, seen: SUBSET Batches]
    \cup [op: {"deleted"}, payment: Payments, split: Split, doomed: SUBSET Batches]

TypeOK ==
    /\ docs \in [Entries -> Doc \cup {Absent}]
    /\ entries \in [Entries -> Entry \cup {Absent, Removed}]
    /\ payments \in [Payments -> Payment \cup {Absent, Removed}]
    /\ batches \in [Batches -> Batch \cup {Absent}]
    /\ session \in [Sessions -> Request \cup {Idle}]

(***************************************************************************)
(* An entry never says that more was paid than there are payments for it:  *)
(* payments recorded at once, or cut short by a crash, may be missing from *)
(* paid_amount, but none is counted twice (recordPayment,                  *)
(* receivable.repository.ts:96-122).                                       *)
(***************************************************************************)
PaidIsBacked == \A e \in Entries : HasEntry(e) => entries[e].paid <= PaidIn(e)

(***************************************************************************)
(* What a synchronisation writes to a document is covered by the payments  *)
(* of its entry, however stale it is by then (syncDocumentPayments of      *)
(* sales and purchases); an entry that was deleted meanwhile is out.       *)
(***************************************************************************)
SyncIsBacked ==
    [][\A s \in Sessions, d \in Entries :
          session[s] # session'[s] /\ session[s].op = "sync" /\ session[s].doc = d
          /\ docs'[d] # docs[d] /\ HasEntry(d) => docs'[d].amountPaid <= PaidIn(d)]_vars

(***************************************************************************)
(* While one session at a time allocates, a payment is never allocated for *)
(* more than it is worth, however often its allocation is redone or cut    *)
(* short ("chamadas repetidas não duplicam - substitui as alocações        *)
(* anteriores deste pagamento", allocations.service.ts:84-85).             *)
(***************************************************************************)
AllocationsFitPayment ==
    \A p \in Payments : HasPayment(p) => SumOver(AllocatedFrom(p), Batches) <= payments[p].amount

(***************************************************************************)
(* Money is counted once, on the entry it pays and in the allocations of a *)
(* payment.                                                                *)
(***************************************************************************)
MoneyIsBacked == TypeOK /\ PaidIsBacked /\ AllocationsFitPayment
================================================================================
