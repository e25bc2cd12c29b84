----------------------------- MODULE LedgersProofs -----------------------------
(* What is proved of the parts that add up: for any products, accounts, rows   *)
(* and requests under way.                                                     *)
(*                                                                             *)
(* Part 1, purchases. A document agrees with its goods, payable, entries and   *)
(* requests as long as no two handlers work on it at the same time. The        *)
(* strengthening is Rows, what each status says of the rows, and ReadingsStand:*)
(* what a handler read is still so when it writes.                             *)
(*                                                                             *)
(* Part 2, the balances of the treasury. The strengthening is LocksHold: what a*)
(* request read of an account it holds is what is there, and no two requests   *)
(* hold the same account.                                                      *)
(*                                                                             *)
(* Part 3, exchange rates. Part 4, bank reconciliation: the strengthening is   *)
(* PapersStand, that what a batch saw of its statement, and the payment of a   *)
(* line to be marked, are still there when it writes.                          *)
(*                                                                             *)
(* Part 5, the general ledger, for any chart, rules, users and entries. The    *)
(* strengthening is BooksInv: History, what an entry says of the one it        *)
(* reverses; YearStands, the closings a row of a year accounts for; NoGaps, the*)
(* numbers below a given one; ClerksStand, what a transaction under way relies *)
(* on. Grows and Writes are what every step does to the entries: it adds rows, *)
(* and changes no more of the old ones than their status.                      *)
EXTENDS Purchases, Treasury, Bookkeeping, SumsProofs, SequenceTheorems

--------------------------------------------------------------------------------
\* Part 1. Purchases.

Statuses == {None, "posted", "reversed"}
Decisions == {None, "pending", "approved", "rejected", "cancelled"}

RowType(x, in, owed, booked, asked) ==
    /\ x \in Document \cup {NoDoc, Removed} /\ in \in [Products -> Nat]
    /\ owed \in Payable \cup {NoPayable}
    /\ booked \in [References -> Statuses] /\ asked \in [Rules -> Decisions]

Untouched(in, owed, booked) ==
    in = Nothing /\ owed = NoPayable /\ \A ref \in References : booked[ref] = None

RowSafe(x, in, owed, booked, asked) ==
    /\ x = NoDoc => Untouched(in, owed, booked)
    /\ x \in Document =>
        /\ x.lines \in Lines
        /\ x.committed <=> in # Nothing
        /\ x.approval = "pending" => Untouched(in, owed, booked)
        /\ x.status = "paid" /\ x.type \in Fiscal => x.amountPaid >= x.total
        /\ x.status = "cancelled" =>
              /\ \A ref \in References : booked[ref] # "posted"
              /\ \A r \in Rules : asked[r] # "pending"
              /\ owed.paid = 0 => owed.status \in {"none", "cancelled"}

Row(x, in, owed, booked, asked) ==
    RowType(x, in, owed, booked, asked) /\ RowSafe(x, in, owed, booked, asked)

Rows == \A d \in Docs : Row(docs[d], entered[d], payable[d], journal[d], requests[d])

\* What two readings of a row of purchase_documents have in common, its link aside.
Same(x, y) ==
    /\ x.type = y.type /\ x.status = y.status /\ x.committed = y.committed
    /\ x.approval = y.approval /\ x.lines = y.lines /\ x.received = y.received
    /\ x.total = y.total /\ x.amountPaid = y.amountPaid

\* What a handler read is still so.
StandsOn(r, x) ==
    /\ x \in Document
    /\ r.op \in {"convert", "changeStatus"} => Same(r.seen, x)
    /\ r.op = "convert" => x.status # "cancelled"
    /\ r.op = "changeStatus" => ~Blocks(x.approval, r.to)
    /\ r.op = "update" => x.status # "cancelled" /\ (x.type \in Fiscal => x.status = "draft")
    /\ r.op = "sync" => r.status = StatusFromPayment(x, r.paid)

ReadingsStand == \A s \in Sessions : session[s] # Idle => StandsOn(session[s], docs[session[s].doc])

PurchasesInv == TypeOK /\ Rows /\ ReadingsStand

Alone == \A s, t \in Sessions :
    session[s] # Idle /\ session[t] # Idle /\ session[s].doc = session[t].doc => s = t

(* The pieces of a document are counted, however many products there are.     *)
LEMMA PiecesType == ASSUME NEW q \in Quantities PROVE Pieces(q) \in Nat
<1>1. \A p \in Products : q[p] \in Nat
  BY DEF Quantities
<1>. QED BY <1>1, SumNat, ProductsAssumption DEF Pieces

(* Quantities of lines, and none, are quantities.                             *)
LEMMA LinesType == Lines \subseteq Quantities /\ Nothing \in Quantities /\ Nothing \in [Products -> Nat]
  BY QuantityAssumption DEF Lines, Quantities, Nothing

(* A row is a document unless the document is not there yet or removed.       *)
LEMMA DocumentIsOne ==
    ASSUME NEW x \in Document \cup {NoDoc, Removed} PROVE x \in Document <=> x \notin {NoDoc, Removed}
  BY DEF Document, NoDoc, Removed, DocStatuses

(* What a request under way carries, by its kind.                             *)
LEMMA RequestKinds ==
    ASSUME NEW r \in Request \cup {Idle}
    PROVE  /\ r # Idle => r.doc \in Docs /\ r.op \in {"update", "remove", "convert", "changeStatus", "sync"}
           /\ r = Idle <=> r.op = "idle"
           /\ r.op = "convert" => r.to \in DocTypes /\ r.seen \in Document
           /\ r.op = "changeStatus" => r.to \in DocStatuses /\ r.seen \in Document
           /\ r.op = "sync" => r.paid \in 0..MaxQuantity /\ r.status \in DocStatuses
  BY DEF Request, Idle

(* What was read of a row stands while the row is the same, its link aside.   *)
LEMMA SameStands ==
    ASSUME NEW r \in Request, NEW x \in Document, NEW y \in Document, Same(x, y), StandsOn(r, x)
    PROVE  StandsOn(r, y)
  BY RequestKinds DEF Same, StandsOn, StatusFromPayment

(***************************************************************************)
(* A step that writes only to the row of its own document, to an id nobody *)
(* uses, or to links, leaves the readings of the others as they were.      *)
(***************************************************************************)
LEMMA OthersStand ==
    ASSUME TypeOK, ReadingsStand, Alone, NEW s \in Sessions, session[s] # Idle, Done(s),
           \A d \in Docs : docs[d] \in Document /\ d # session[s].doc =>
               docs'[d] \in Document /\ Same(docs[d], docs'[d])
    PROVE  ReadingsStand'
<1>. SUFFICES ASSUME NEW t \in Sessions, session'[t] # Idle
              PROVE  StandsOn(session'[t], docs'[session'[t].doc])
  BY DEF ReadingsStand
<1>1. t # s /\ session'[t] = session[t] /\ session[t] \in Request
  BY DEF Done, TypeOK
<1>2. session[t].doc # session[s].doc /\ session[t].doc \in Docs /\ docs[session[t].doc] \in Document
  BY <1>1, RequestKinds DEF Alone, ReadingsStand, StandsOn
<1>3. docs'[session[t].doc] \in Document /\ Same(docs[session[t].doc], docs'[session[t].doc])
  BY <1>2
<1>. QED BY <1>1, <1>2, <1>3, SameStands DEF ReadingsStand

(* A step that writes the row of its own document only leaves the other       *)
(* readings as they were.                                                     *)
LEMMA OneRowStands ==
    ASSUME TypeOK, ReadingsStand, Alone, NEW s \in Sessions, session[s] # Idle, Done(s),
           NEW x, docs' = [docs EXCEPT ![session[s].doc] = x]
    PROVE  ReadingsStand'
<1>1. \A d \in Docs : docs[d] \in Document /\ d # session[s].doc =>
          docs'[d] \in Document /\ Same(docs[d], docs'[d])
  BY DEF TypeOK, Same
<1>. QED BY <1>1, OthersStand

(***************************************************************************)
(* The rest of the invariant when one document's rows are written.         *)
(***************************************************************************)
LEMMA OneRowChanges ==
    ASSUME TypeOK, Rows, NEW d \in Docs, NEW x, NEW in, NEW owed, NEW booked, NEW asked,
           docs' = [docs EXCEPT ![d] = x], entered' = [entered EXCEPT ![d] = in],
           payable' = [payable EXCEPT ![d] = owed], journal' = [journal EXCEPT ![d] = booked],
           requests' = [requests EXCEPT ![d] = asked],
           session' \in [Sessions -> Request \cup {Idle}],
           Row(x, in, owed, booked, asked)
    PROVE  TypeOK' /\ Rows'
<1>1. TypeOK'
  BY DEF TypeOK, Row, RowType, Statuses, Decisions
<1>2. ASSUME NEW e \in Docs PROVE Row(docs[e], entered[e], payable[e], journal[e], requests[e])'
  <2>1. CASE e = d
    BY <2>1 DEF TypeOK
  <2>2. CASE e # d
    BY <2>2 DEF TypeOK, Rows
  <2>. QED BY <2>1, <2>2
<1>. QED BY <1>1, <1>2 DEF Rows

(* A step that writes one row and nothing of the hooks keeps all rows, when   *)
(* it keeps that one.                                                         *)
LEMMA OneDocChanges ==
    ASSUME TypeOK, Rows, NEW d \in Docs, NEW x, docs' = [docs EXCEPT ![d] = x], UNCHANGED hookVars,
           session' \in [Sessions -> Request \cup {Idle}],
           Row(x, entered[d], payable[d], journal[d], requests[d])
    PROVE  TypeOK' /\ Rows'
<1>1. /\ entered' = [entered EXCEPT ![d] = entered[d]] /\ payable' = [payable EXCEPT ![d] = payable[d]]
      /\ journal' = [journal EXCEPT ![d] = journal[d]] /\ requests' = [requests EXCEPT ![d] = requests[d]]
  BY DEF hookVars, TypeOK
<1>. QED BY <1>1, OneRowChanges

(* Sessions keep their type when one of them ends.                            *)
LEMMA SessionEnds ==
    ASSUME TypeOK, NEW s \in Sessions, Done(s) PROVE session' \in [Sessions -> Request \cup {Idle}]
  BY DEF TypeOK, Done

(* A first step, which only reads, starts with what stands.                   *)
LEMMA Reading ==
    ASSUME PurchasesInv, NEW s \in Sessions, NEW r \in Request, Start(s, r),
           StandsOn(r, docs[r.doc]), UNCHANGED <<docs, hookVars>>
    PROVE  PurchasesInv'
<1>1. TypeOK' /\ Rows'
  BY DEF PurchasesInv, TypeOK, Rows, Start, hookVars
<1>2. ReadingsStand'
  BY DEF PurchasesInv, TypeOK, ReadingsStand, Start
<1>. QED BY <1>1, <1>2 DEF PurchasesInv

(* The rows of one document, taken from those of all.                         *)
LEMMA RowOf ==
    ASSUME Rows, NEW d \in Docs
    PROVE  /\ Row(docs[d], entered[d], payable[d], journal[d], requests[d])
           /\ docs[d] \in Document <=> Exists(d)
  BY DocumentIsOne DEF Rows, Row, RowType, Exists

(* The first steps of update, remove, convert, changeStatus and the           *)
(* synchronisation of payments.                                               *)
LEMMA ReadsStep ==
    ASSUME PurchasesInv, NEW s \in Sessions, NEW d \in Docs,
           \/ ReadForUpdate(s, d) \/ ReadForRemove(s, d) \/ ReadForSync(s, d)
           \/ \E to \in DocTypes : ReadForConvert(s, d, to)
           \/ \E to \in DocStatuses : ReadForStatus(s, d, to)
    PROVE  PurchasesInv'
<1>. USE RowOf DEF PurchasesInv
<1>0. docs[d].status = "draft" => Exists(d)
  BY DEF Exists, NoDoc, Removed
<1>1. CASE ReadForUpdate(s, d)
  <2>1. [op |-> "update", doc |-> d] \in Request
    BY DEF Request
  <2>2. StandsOn([op |-> "update", doc |-> d], docs[d])
    BY <1>1 DEF ReadForUpdate, StandsOn
  <2>. QED BY <1>1, <2>1, <2>2, Reading DEF ReadForUpdate
<1>2. CASE ReadForRemove(s, d)
  <2>1. [op |-> "remove", doc |-> d] \in Request
    BY DEF Request
  <2>2. StandsOn([op |-> "remove", doc |-> d], docs[d])
    BY <1>0, <1>2 DEF ReadForRemove, StandsOn
  <2>. QED BY <1>2, <2>1, <2>2, Reading DEF ReadForRemove
<1>3. CASE ReadForSync(s, d)
  <2>. DEFINE paid == payable[d].paid
              r == [op |-> "sync", doc |-> d, paid |-> paid, status |-> StatusFromPayment(docs[d], paid)]
  <2>1. docs[d] \in Document /\ paid \in 0..MaxQuantity
    BY <1>3, QuantityAssumption DEF ReadForSync, TypeOK, Payable, NoPayable
  <2>2. StatusFromPayment(docs[d], paid) \in DocStatuses
    BY <2>1 DEF StatusFromPayment, Document, DocStatuses
  <2>3. r \in Request
    BY <2>1, <2>2 DEF Request
  <2>4. StandsOn(r, docs[d])
    BY <2>1 DEF StandsOn
  <2>. QED BY <1>3, <2>3, <2>4, Reading DEF ReadForSync
<1>4. ASSUME NEW to \in DocTypes, ReadForConvert(s, d, to) PROVE PurchasesInv'
  <2>. DEFINE r == [op |-> "convert", doc |-> d, to |-> to, seen |-> docs[d]]
  <2>1. docs[d] \in Document
    BY <1>4 DEF ReadForConvert
  <2>2. r \in Request
    BY <2>1 DEF Request
  <2>3. StandsOn(r, docs[d])
    BY <1>4, <2>1 DEF StandsOn, Same, ReadForConvert
  <2>. QED BY <1>4, <2>2, <2>3, Reading DEF ReadForConvert
<1>5. ASSUME NEW to \in DocStatuses, ReadForStatus(s, d, to) PROVE PurchasesInv'
  <2>. DEFINE r == [op |-> "changeStatus", doc |-> d, to |-> to, seen |-> docs[d]]
  <2>1. docs[d] \in Document
    BY <1>5 DEF ReadForStatus
  <2>2. r \in Request
    BY <2>1 DEF Request
  <2>3. StandsOn(r, docs[d])
    BY <1>5, <2>1 DEF StandsOn, Same, ReadForStatus
  <2>. QED BY <1>5, <2>2, <2>3, Reading DEF ReadForStatus
<1>. QED BY <1>1, <1>2, <1>3, <1>4, <1>5

(***************************************************************************)
(* The request a session is in, and the row it is about.                   *)
(***************************************************************************)
LEMMA Own ==
    ASSUME PurchasesInv, NEW s \in Sessions, session[s].op # "idle"
    PROVE  /\ session[s] \in Request /\ session[s] # Idle /\ session[s].doc \in Docs
           /\ docs[session[s].doc] \in Document
           /\ StandsOn(session[s], docs[session[s].doc])
  BY RequestKinds DEF PurchasesInv, TypeOK, ReadingsStand, StandsOn

(* createDocument: nothing of the new document is in stock, owed or booked.   *)
LEMMA CreateStep ==
    ASSUME PurchasesInv, NEW d \in Docs, NEW type \in DocTypes, CreateDocument(d, type)
    PROVE  PurchasesInv'
<1>1. PICK fired \in SUBSET Rules, lines \in Lines :
        /\ docs' = [docs EXCEPT ![d] =
              Draft(type, None, IF fired = {} THEN "not_required" ELSE "pending",
                    lines, Nothing, Pieces(lines))]
        /\ requests' = [requests EXCEPT ![d] =
              [r \in Rules |-> IF r \in fired THEN "pending" ELSE None]]
  BY DEF CreateDocument
<1>. DEFINE x == Draft(type, None, IF fired = {} THEN "not_required" ELSE "pending",
                       lines, Nothing, Pieces(lines))
            asked == [r \in Rules |-> IF r \in fired THEN "pending" ELSE None]
<1>2. x \in Document /\ x.lines = lines /\ ~x.committed /\ x.status = "draft"
  BY PiecesType, LinesType DEF Draft, Document, DocStatuses
<1>3. asked \in [Rules -> Decisions]
  BY DEF Decisions
<1>. HIDE DEF x, asked
<1>4. Row(x, entered[d], payable[d], journal[d], asked)
  <2>1. Row(docs[d], entered[d], payable[d], journal[d], requests[d]) /\ docs[d] = NoDoc
    BY RowOf DEF PurchasesInv, CreateDocument
  <2>2. x # NoDoc
    BY <1>2 DEF NoDoc
  <2>. QED BY <1>2, <1>3, <2>1, <2>2 DEF Row, RowType, RowSafe, Untouched
<1>5. /\ entered' = [entered EXCEPT ![d] = entered[d]] /\ payable' = [payable EXCEPT ![d] = payable[d]]
      /\ journal' = [journal EXCEPT ![d] = journal[d]]
  BY DEF CreateDocument, PurchasesInv, TypeOK
<1>6. session' \in [Sessions -> Request \cup {Idle}]
  BY DEF CreateDocument, PurchasesInv, TypeOK
<1>7. docs' = [docs EXCEPT ![d] = x] /\ requests' = [requests EXCEPT ![d] = asked]
  BY <1>1 DEF x, asked
<1>8. TypeOK' /\ Rows'
  BY <1>4, <1>5, <1>6, <1>7, OneRowChanges DEF PurchasesInv
<1>9. ReadingsStand'
  <2>1. docs[d] \notin Document
    BY RowOf DEF PurchasesInv, CreateDocument, Exists
  <2>. QED BY <1>7, <2>1, Own, RequestKinds DEF CreateDocument, PurchasesInv, ReadingsStand, TypeOK
<1>. QED BY <1>8, <1>9 DEF PurchasesInv

(* update: only a document whose goods did not enter has its lines changed.   *)
LEMMA UpdateStep ==
    ASSUME PurchasesInv, Alone, NEW s \in Sessions, UpdateLines(s) PROVE PurchasesInv'
<1>. DEFINE d == session[s].doc
<1>1. /\ session[s] # Idle /\ d \in Docs /\ docs[d] \in Document
      /\ docs[d].status # "cancelled" /\ (docs[d].type \in Fiscal => docs[d].status = "draft")
  BY Own DEF UpdateLines, StandsOn
<1>2. PICK lines \in Lines : docs' = [docs EXCEPT ![d] =
          [@ EXCEPT !.lines = lines, !.received = Nothing, !.total = Pieces(lines)]]
  BY DEF UpdateLines
<1>. DEFINE x == [docs[d] EXCEPT !.lines = lines, !.received = Nothing, !.total = Pieces(lines)]
<1>3. docs' = [docs EXCEPT ![d] = x]
  BY <1>2
<1>4. /\ x \in Document /\ x.lines = lines /\ x.committed = docs[d].committed
      /\ x.status = docs[d].status /\ x.approval = docs[d].approval /\ x.type = docs[d].type
  BY <1>1, PiecesType, LinesType DEF Document
<1>. HIDE DEF x, d
<1>5. Row(x, entered[d], payable[d], journal[d], requests[d])
  <2>1. x # NoDoc
    BY <1>4 DEF Document, NoDoc, DocStatuses
  <2>. QED BY <1>1, <1>4, <2>1, RowOf DEF PurchasesInv, Row, RowType, RowSafe
<1>6. TypeOK' /\ Rows'
  BY <1>1, <1>3, <1>5, SessionEnds, OneDocChanges DEF PurchasesInv, UpdateLines
<1>7. ReadingsStand'
  BY <1>1, <1>3, OneRowStands DEF PurchasesInv, UpdateLines, d
<1>. QED BY <1>6, <1>7 DEF PurchasesInv

(* remove: what goes leaves nothing in stock, owed or booked that the         *)
(* invariant speaks of.                                                       *)
LEMMA RemoveStep ==
    ASSUME PurchasesInv, Alone, NEW s \in Sessions, RemoveDocument(s) PROVE PurchasesInv'
<1>. DEFINE d == session[s].doc
<1>1. session[s] # Idle /\ d \in Docs
  BY Own DEF RemoveDocument
<1>2. docs' = [x \in Docs |->
              IF x = d THEN Removed
              ELSE IF Exists(x) /\ docs[x].from = d THEN [docs[x] EXCEPT !.from = None]
              ELSE docs[x]]
  BY DEF RemoveDocument
<1>3. ASSUME NEW e \in Docs, e # d, docs[e] \in Document
      PROVE  docs'[e] \in Document /\ Same(docs[e], docs'[e])
  BY <1>2, <1>3 DEF Document, Same
<1>4. \A e \in Docs : e # d /\ docs[e] \notin Document => docs'[e] = docs[e]
  BY <1>2, DocumentIsOne DEF PurchasesInv, TypeOK, Exists
<1>5. docs'[d] = Removed /\ Removed \notin Document /\ Removed # NoDoc
  BY <1>1, <1>2 DEF Removed, Document, NoDoc, DocStatuses
<1>6. docs' \in [Docs -> Document \cup {NoDoc, Removed}]
  BY <1>2, <1>3, <1>4, <1>5 DEF PurchasesInv, TypeOK
<1>7. TypeOK'
  BY <1>6, SessionEnds DEF PurchasesInv, TypeOK, RemoveDocument, hookVars
<1>8. Rows'
  <2>1. ASSUME NEW e \in Docs PROVE Row(docs'[e], entered[e], payable[e], journal[e], requests[e])
    <3>0. Row(docs[e], entered[e], payable[e], journal[e], requests[e])
      BY RowOf DEF PurchasesInv
    <3>1. CASE e = d
      BY <1>5, <3>0, <3>1 DEF Row, RowType, RowSafe
    <3>2. CASE e # d /\ docs[e] \in Document
      <4>1. docs'[e] # NoDoc
        BY <1>3, <3>2 DEF Document, NoDoc, DocStatuses
      <4>. QED BY <1>3, <3>0, <3>2, <4>1 DEF Row, RowType, RowSafe, Same
    <3>3. CASE e # d /\ docs[e] \notin Document
      BY <1>4, <3>0, <3>3
    <3>. QED BY <3>1, <3>2, <3>3
  <2>. QED BY <2>1 DEF Rows, RemoveDocument, hookVars
<1>9. ReadingsStand'
  BY <1>1, <1>3, OthersStand DEF PurchasesInv, RemoveDocument
<1>. QED BY <1>7, <1>8, <1>9 DEF PurchasesInv

(* convert: the copy starts without goods, and the source is linked to it.    *)
LEMMA ConvertStep ==
    ASSUME PurchasesInv, Alone, NEW s \in Sessions, NEW d \in Docs, Convert(s, d)
    PROVE  PurchasesInv'
<1>. DEFINE r == session[s]
            e == r.doc
            status == SourceStatus(r.seen, r.to)
            y == [docs[e] EXCEPT !.status = IF status = None THEN @ ELSE status]
<1>1. /\ session[s] # Idle /\ e \in Docs /\ docs[e] \in Document /\ docs[e].status # "cancelled"
      /\ Same(r.seen, docs[e]) /\ r.to \in DocTypes /\ r.seen \in Document
  BY Own, RequestKinds DEF Convert, StandsOn
<1>2. d # e /\ docs[d] = NoDoc
  BY <1>1 DEF Convert, Document, NoDoc, DocStatuses
<1>3. PICK received \in ReceivedAtOnce(r.to, r.seen.lines) :
          docs' = [docs EXCEPT ![d] =
              Draft(r.to, e, "not_required", r.seen.lines, received,
                    Pieces(IF r.to = "receipt" THEN received ELSE r.seen.lines)),
              ![e].status = IF status = None THEN @ ELSE status]
  BY DEF Convert
<1>. DEFINE x == Draft(r.to, e, "not_required", r.seen.lines, received,
                       Pieces(IF r.to = "receipt" THEN received ELSE r.seen.lines))
<1>4. docs' = [docs EXCEPT ![d] = x, ![e] = y]
  BY <1>1, <1>2, <1>3 DEF PurchasesInv, TypeOK
<1>5. r.seen.lines \in Lines /\ received \in Quantities
  BY <1>1, RowOf, LinesType DEF PurchasesInv, Row, RowSafe, Same, ReceivedAtOnce
<1>6. x \in Document /\ x.lines \in Lines /\ ~x.committed /\ x.status = "draft" /\ x.approval = "not_required"
  <2>1. Pieces(IF r.to = "receipt" THEN received ELSE r.seen.lines) \in Nat
    BY <1>5, PiecesType, LinesType
  <2>. QED BY <1>1, <1>5, <2>1, LinesType DEF Draft, Document, DocStatuses
<1>7. /\ y \in Document /\ y.lines = docs[e].lines /\ y.committed = docs[e].committed
      /\ y.approval = docs[e].approval /\ y.type = docs[e].type /\ y.status # "cancelled"
      /\ y.total = docs[e].total /\ y.amountPaid = docs[e].amountPaid
      /\ y.status = "paid" => docs[e].status = "paid"
  BY <1>1 DEF SourceStatus, Document, DocStatuses, None
<1>. HIDE DEF x, y, e, r, status
<1>8. docs'[d] = x /\ docs'[e] = y /\ \A g \in Docs \ {d, e} : docs'[g] = docs[g]
  BY <1>1, <1>2, <1>4 DEF PurchasesInv, TypeOK
<1>9. TypeOK'
  <2>1. docs' \in [Docs -> Document \cup {NoDoc, Removed}]
    BY <1>4, <1>6, <1>7 DEF PurchasesInv, TypeOK
  <2>. QED BY <2>1, SessionEnds DEF PurchasesInv, TypeOK, Convert, hookVars
<1>10. Rows'
  <2>1. x # NoDoc /\ y # NoDoc
    BY <1>6, <1>7 DEF Document, NoDoc, DocStatuses
  <2>2. Row(x, entered[d], payable[d], journal[d], requests[d])
    BY <1>2, <1>6, <2>1, RowOf DEF PurchasesInv, Row, RowType, RowSafe, Untouched
  <2>3. Row(y, entered[e], payable[e], journal[e], requests[e])
    BY <1>1, <1>7, <2>1, RowOf DEF PurchasesInv, Row, RowType, RowSafe
  <2>. QED BY <1>8, <2>2, <2>3, RowOf DEF Rows, PurchasesInv, Convert, hookVars
<1>11. ReadingsStand'
  <2>1. \A g \in Docs : docs[g] \in Document /\ g # e => docs'[g] \in Document /\ Same(docs[g], docs'[g])
    BY <1>2, <1>8, DocumentIsOne DEF PurchasesInv, TypeOK, Same
  <2>. QED BY <1>1, <2>1, OthersStand DEF PurchasesInv, Convert, e, r
<1>. QED BY <1>9, <1>10, <1>11 DEF PurchasesInv

(* What a receipt or an invoice enters is something, of some product.         *)
LEMMA EntryEnters ==
    ASSUME NEW x \in Document, x.lines \in Lines, NEW in \in [Products -> Nat]
    PROVE  /\ [p \in Products |-> in[p] + EntryOf(x)[p]] \in [Products -> Nat]
           /\ [p \in Products |-> in[p] + EntryOf(x)[p]] # Nothing
<1>1. \A p \in Products : EntryOf(x)[p] \in Nat \ {0}
  BY QuantityAssumption DEF EntryOf, Lines, Document, Quantities
<1>2. PICK p \in Products : TRUE
  BY ProductsAssumption
<1>3. in[p] + EntryOf(x)[p] # 0
  BY <1>1, <1>2
<1>. QED BY <1>1, <1>2, <1>3 DEF Nothing

\* What changeStatus finds of its row when it writes.
LEMMA Changed ==
    ASSUME PurchasesInv, NEW s \in Sessions, NEW S, Changing(s, S)
    PROVE  /\ session[s] # Idle /\ session[s].doc \in Docs /\ docs[session[s].doc] \in Document
           /\ session[s].to \in S /\ session[s].to \in DocStatuses
           /\ Same(session[s].seen, docs[session[s].doc])
           /\ ~Blocks(docs[session[s].doc].approval, session[s].to)
           /\ Done(s)
           /\ LET d == session[s].doc
              IN  Row(docs[d], entered[d], payable[d], journal[d], requests[d])
  BY Own, RowOf, RequestKinds DEF Changing, StandsOn, PurchasesInv

(* changeStatus to received or invoiced: goods enter, the payable is opened,  *)
(* the entry posted.                                                          *)
LEMMA ReceiveStep ==
    ASSUME PurchasesInv, Alone, NEW s \in Sessions, ReceiveOrInvoice(s) PROVE PurchasesInv'
<1>. DEFINE r == session[s]
            d == r.doc
            owes == r.to = "invoiced" /\ r.seen.status # "invoiced" /\ docs[d].type \in Fiscal
            x == [docs[d] EXCEPT !.status = r.to, !.committed = docs[d].committed \/ EntersStock(r)]
            in == IF EntersStock(r) THEN [p \in Products |-> entered[d][p] + EntryOf(docs[d])[p]] ELSE entered[d]
            owed == IF owes /\ payable[d] = NoPayable THEN [status |-> "issued", paid |-> 0] ELSE payable[d]
            booked == Journaled(r, journal[d])
<1>1. /\ r # Idle /\ d \in Docs /\ docs[d] \in Document /\ r.to \in {"received", "invoiced"}
      /\ Same(r.seen, docs[d]) /\ docs[d].approval # "pending" /\ Done(s)
      /\ Row(docs[d], entered[d], payable[d], journal[d], requests[d])
  BY Changed DEF ReceiveOrInvoice, Blocks
<1>2. /\ docs' = [docs EXCEPT ![d] = x] /\ entered' = [entered EXCEPT ![d] = in]
      /\ payable' = [payable EXCEPT ![d] = owed] /\ journal' = [journal EXCEPT ![d] = booked]
      /\ requests' = [requests EXCEPT ![d] = requests[d]]
  BY <1>1 DEF ReceiveOrInvoice, PurchasesInv, TypeOK
<1>3. /\ x \in Document /\ x.lines = docs[d].lines /\ x.approval = docs[d].approval
      /\ x.status \in {"received", "invoiced"}
      /\ x.committed = (docs[d].committed \/ EntersStock(r))
  BY <1>1 DEF Document, DocStatuses
<1>4. in \in [Products -> Nat] /\ (x.committed <=> in # Nothing)
  <2>1. EntersStock(r) <=> ~docs[d].committed
    BY <1>1 DEF EntersStock, Same, Document
  <2>2. CASE EntersStock(r)
    BY <1>1, <1>3, <2>2, EntryEnters DEF Row, RowType, RowSafe
  <2>3. CASE ~EntersStock(r)
    BY <1>1, <1>3, <2>1, <2>3 DEF Row, RowType, RowSafe
  <2>. QED BY <2>2, <2>3
<1>5. owed \in Payable \cup {NoPayable}
  BY <1>1, QuantityAssumption DEF Row, RowType, Payable
<1>6. booked \in [References -> Statuses]
  BY <1>1 DEF Row, RowType, Journaled, Generate, Statuses, References
<1>. HIDE DEF x, in, owed, booked
<1>7. Row(x, in, owed, booked, requests[d])
  <2>1. x # NoDoc
    BY <1>3 DEF NoDoc
  <2>. QED BY <1>1, <1>3, <1>4, <1>5, <1>6, <2>1 DEF Row, RowType, RowSafe
<1>8. TypeOK' /\ Rows'
  BY <1>1, <1>2, <1>7, SessionEnds, OneRowChanges DEF PurchasesInv
<1>9. ReadingsStand'
  BY <1>1, <1>2, OneRowStands DEF PurchasesInv
<1>. QED BY <1>8, <1>9 DEF PurchasesInv

(* changeStatus without goods: what was paid covers the total of what becomes *)
(* paid.                                                                      *)
LEMMA ChangeStep ==
    ASSUME PurchasesInv, Alone, NEW s \in Sessions, ChangeOnly(s) PROVE PurchasesInv'
<1>. DEFINE r == session[s]
            d == r.doc
            x == [docs[d] EXCEPT !.status = r.to, !.amountPaid = TopUp(r, docs[d].amountPaid)]
<1>1. /\ r # Idle /\ d \in Docs /\ docs[d] \in Document /\ Same(r.seen, docs[d]) /\ Done(s)
      /\ r.to \in DocStatuses \ {"received", "invoiced", "cancelled"}
      /\ Row(docs[d], entered[d], payable[d], journal[d], requests[d])
  BY Changed DEF ChangeOnly
<1>2. docs' = [docs EXCEPT ![d] = x]
  BY <1>1 DEF ChangeOnly, PurchasesInv, TypeOK
<1>3. TopUp(r, docs[d].amountPaid) \in Nat
  BY <1>1 DEF TopUp, Same, Document
<1>4. /\ x \in Document /\ x.lines = docs[d].lines /\ x.committed = docs[d].committed
      /\ x.approval = docs[d].approval /\ x.type = docs[d].type /\ x.total = docs[d].total
      /\ x.status = r.to /\ x.amountPaid = TopUp(r, docs[d].amountPaid)
  BY <1>1, <1>3 DEF Document
<1>5. r.to = "paid" /\ docs[d].type \in Fiscal => TopUp(r, docs[d].amountPaid) >= docs[d].total
  BY <1>1 DEF TopUp, Same, Document, Row, RowSafe
<1>. HIDE DEF x
<1>6. Row(x, entered[d], payable[d], journal[d], requests[d])
  <2>1. x # NoDoc
    BY <1>4 DEF NoDoc, Document, DocStatuses
  <2>. QED BY <1>1, <1>4, <1>5, <2>1 DEF Row, RowType, RowSafe
<1>7. TypeOK' /\ Rows'
  BY <1>1, <1>2, <1>6, SessionEnds, OneDocChanges DEF PurchasesInv, ChangeOnly
<1>8. ReadingsStand'
  BY <1>1, <1>2, OneRowStands DEF PurchasesInv
<1>. QED BY <1>7, <1>8 DEF PurchasesInv

(* cancel: goods go back, the payable is cancelled and entries reversed.      *)
LEMMA CancelStep ==
    ASSUME PurchasesInv, Alone, NEW s \in Sessions, CancelDocument(s) PROVE PurchasesInv'
<1>. DEFINE r == session[s]
            d == r.doc
            x == [docs[d] EXCEPT !.status = "cancelled"]
            first == docs[d].status # "cancelled"
            owed == IF first /\ payable[d] # NoPayable THEN [payable[d] EXCEPT !.status = "cancelled"] ELSE payable[d]
            booked == IF first THEN ReverseAll(journal[d]) ELSE journal[d]
            asked == IF first THEN [q \in Rules |-> IF requests[d][q] = "pending" THEN "cancelled" ELSE requests[d][q]]
                     ELSE requests[d]
<1>1. /\ r # Idle /\ d \in Docs /\ docs[d] \in Document /\ Same(r.seen, docs[d]) /\ Done(s)
      /\ Row(docs[d], entered[d], payable[d], journal[d], requests[d])
  BY Changed DEF CancelDocument
<1>2. /\ docs' = [docs EXCEPT ![d] = x] /\ entered' = [entered EXCEPT ![d] = entered[d]]
      /\ payable' = [payable EXCEPT ![d] = owed] /\ journal' = [journal EXCEPT ![d] = booked]
      /\ requests' = [requests EXCEPT ![d] = asked]
  <2>1. docs' = [docs EXCEPT ![d] = x] /\ entered' = [entered EXCEPT ![d] = entered[d]]
    BY <1>1 DEF CancelDocument, PurchasesInv, TypeOK
  <2>2. CASE ~first
    <3>1. r.seen.status = "cancelled"
      BY <1>1, <2>2 DEF Same
    <3>2. UNCHANGED <<payable, journal, requests>>
      BY <3>1 DEF CancelDocument
    <3>. QED BY <1>1, <2>1, <2>2, <3>2 DEF PurchasesInv, TypeOK
  <2>3. CASE first
    <3>1. r.seen.status # "cancelled"
      BY <1>1, <2>3 DEF Same
    <3>2. /\ payable' = [payable EXCEPT ![d] = IF @ = NoPayable THEN @ ELSE [@ EXCEPT !.status = "cancelled"]]
          /\ journal' = [journal EXCEPT ![d] = ReverseAll(@)]
          /\ requests' = [requests EXCEPT ![d] =
                [q \in Rules |-> IF @[q] = "pending" THEN "cancelled" ELSE @[q]]]
      BY <3>1 DEF CancelDocument
    <3>. QED BY <1>1, <2>1, <2>3, <3>2 DEF PurchasesInv, TypeOK
  <2>. QED BY <2>2, <2>3
<1>3. /\ x \in Document /\ x.lines = docs[d].lines /\ x.committed = docs[d].committed
      /\ x.approval = docs[d].approval /\ x.status = "cancelled"
  BY <1>1 DEF Document, DocStatuses
<1>4. /\ owed \in Payable \cup {NoPayable} /\ (payable[d] = NoPayable => owed = NoPayable)
      /\ first => owed.status \in {"none", "cancelled"}
      /\ ~first => owed = payable[d]
  BY <1>1 DEF Row, RowType, Payable, NoPayable
<1>5. /\ booked \in [References -> Statuses]
      /\ first => \A ref \in References : booked[ref] # "posted"
      /\ ~first => booked = journal[d]
      /\ \A ref \in References : journal[d][ref] = None => booked[ref] = None
  BY <1>1 DEF Row, RowType, ReverseAll, Statuses, None
<1>6. /\ asked \in [Rules -> Decisions]
      /\ first => \A q \in Rules : asked[q] # "pending"
      /\ ~first => asked = requests[d]
  BY <1>1 DEF Row, RowType, Decisions
<1>. HIDE DEF x, owed, booked, asked
<1>7. Row(x, entered[d], owed, booked, asked)
  <2>1. x # NoDoc /\ "cancelled" # "paid"
    BY <1>3 DEF NoDoc
  <2>. QED BY <1>1, <1>3, <1>4, <1>5, <1>6, <2>1 DEF Row, RowType, RowSafe, Untouched
<1>8. TypeOK' /\ Rows'
  BY <1>1, <1>2, <1>7, SessionEnds, OneRowChanges DEF PurchasesInv
<1>9. ReadingsStand'
  BY <1>1, <1>2, OneRowStands DEF PurchasesInv
<1>. QED BY <1>8, <1>9 DEF PurchasesInv

(* A payment of the payable, made where payables are.                         *)
LEMMA PayStep ==
    ASSUME PurchasesInv, NEW d \in Docs, NEW amount \in 1..MaxQuantity, PayPayable(d, amount)
    PROVE  PurchasesInv'
<1>. DEFINE paid == payable[d].paid + amount
            owed == [status |-> IF AmountOf(d) <= paid THEN "paid" ELSE "partial", paid |-> paid]
<1>1. /\ payable' = [payable EXCEPT ![d] = owed] /\ payable[d] # NoPayable /\ paid <= MaxQuantity
      /\ UNCHANGED <<docs, entered, journal, requests, session>>
      /\ Row(docs[d], entered[d], payable[d], journal[d], requests[d])
  BY RowOf DEF PayPayable, PurchasesInv
<1>2. payable[d].paid \in 0..MaxQuantity
  BY <1>1 DEF Row, RowType, Payable
<1>3. owed \in Payable /\ owed.paid # 0
  BY <1>1, <1>2, QuantityAssumption DEF Payable
<1>. HIDE DEF owed
<1>4. Row(docs[d], entered[d], owed, journal[d], requests[d])
  BY <1>1, <1>3 DEF Row, RowType, RowSafe, Untouched
<1>5. /\ docs' = [docs EXCEPT ![d] = docs[d]] /\ entered' = [entered EXCEPT ![d] = entered[d]]
      /\ journal' = [journal EXCEPT ![d] = journal[d]] /\ requests' = [requests EXCEPT ![d] = requests[d]]
      /\ session' \in [Sessions -> Request \cup {Idle}]
  BY <1>1 DEF PurchasesInv, TypeOK
<1>6. TypeOK' /\ Rows'
  <2>1. payable' = [payable EXCEPT ![d] = owed] /\ TypeOK /\ Rows
    BY <1>1 DEF PurchasesInv
  <2>. QED BY <1>4, <1>5, <2>1, OneRowChanges
<1>7. ReadingsStand'
  BY <1>1 DEF PurchasesInv, ReadingsStand
<1>. QED BY <1>6, <1>7 DEF PurchasesInv

(* The status that follows the payments is written.                           *)
LEMMA SyncStep ==
    ASSUME PurchasesInv, Alone, NEW s \in Sessions, SyncDocument(s) PROVE PurchasesInv'
<1>. DEFINE r == session[s]
            d == r.doc
            x == [docs[d] EXCEPT !.status = r.status, !.amountPaid = r.paid]
<1>1. /\ r # Idle /\ d \in Docs /\ docs[d] \in Document /\ r.status = StatusFromPayment(docs[d], r.paid)
      /\ r.paid \in Nat /\ r.status \in DocStatuses /\ Done(s)
      /\ Row(docs[d], entered[d], payable[d], journal[d], requests[d]) /\ Exists(d)
  BY Own, RowOf, RequestKinds, QuantityAssumption DEF SyncDocument, StandsOn, PurchasesInv
<1>2. docs' = [docs EXCEPT ![d] = x]
  BY <1>1 DEF SyncDocument, PurchasesInv, TypeOK
<1>3. /\ x \in Document /\ x.lines = docs[d].lines /\ x.committed = docs[d].committed
      /\ x.approval = docs[d].approval /\ x.type = docs[d].type /\ x.total = docs[d].total
      /\ x.status = r.status /\ x.amountPaid = r.paid
  BY <1>1 DEF Document
<1>4. /\ r.status = "cancelled" => docs[d].status = "cancelled"
      /\ r.status = "paid" => r.paid >= docs[d].total \/ docs[d].total = 0
  BY <1>1 DEF StatusFromPayment
<1>5. docs[d].total \in Nat
  BY <1>1 DEF Document
<1>. HIDE DEF x
<1>6. Row(x, entered[d], payable[d], journal[d], requests[d])
  <2>1. x # NoDoc
    BY <1>3 DEF NoDoc, Document, DocStatuses
  <2>2. x.status = "paid" => x.amountPaid >= x.total
    BY <1>1, <1>3, <1>4, <1>5
  <2>. QED BY <1>1, <1>3, <1>4, <2>1, <2>2 DEF Row, RowType, RowSafe
<1>7. TypeOK' /\ Rows'
  BY <1>1, <1>2, <1>6, SessionEnds, OneDocChanges DEF PurchasesInv, SyncDocument
<1>8. ReadingsStand'
  BY <1>1, <1>2, OneRowStands DEF PurchasesInv
<1>. QED BY <1>7, <1>8 DEF PurchasesInv

(* An approver decides on one request.                                        *)
LEMMA DecideStep ==
    ASSUME PurchasesInv, NEW d \in Docs, NEW q \in Rules, Decide(d, q) PROVE PurchasesInv'
<1>1. PICK decision \in {"approved", "rejected"} : requests' = [requests EXCEPT ![d][q] = decision]
  BY DEF Decide
<1>. DEFINE asked == [requests[d] EXCEPT ![q] = decision]
<1>2. /\ requests' = [requests EXCEPT ![d] = asked]
      /\ Row(docs[d], entered[d], payable[d], journal[d], requests[d])
  BY <1>1, RowOf DEF PurchasesInv, TypeOK
<1>3. asked \in [Rules -> Decisions] /\ \A x \in Rules : asked[x] = "pending" => requests[d][x] = "pending"
  BY <1>2 DEF Row, RowType, Decisions
<1>. HIDE DEF asked
<1>4. Row(docs[d], entered[d], payable[d], journal[d], asked)
  BY <1>2, <1>3 DEF Row, RowType, RowSafe
<1>5. /\ docs' = [docs EXCEPT ![d] = docs[d]] /\ entered' = [entered EXCEPT ![d] = entered[d]]
      /\ payable' = [payable EXCEPT ![d] = payable[d]] /\ journal' = [journal EXCEPT ![d] = journal[d]]
      /\ session' \in [Sessions -> Request \cup {Idle}]
  BY DEF PurchasesInv, TypeOK, Decide
<1>6. TypeOK' /\ Rows'
  BY <1>2, <1>4, <1>5, OneRowChanges DEF PurchasesInv
<1>7. ReadingsStand'
  BY DEF PurchasesInv, ReadingsStand, Decide
<1>. QED BY <1>6, <1>7 DEF PurchasesInv

(* A handler fails, or its process dies, between its two steps.               *)
LEMMA AbortStep == ASSUME PurchasesInv, NEW s \in Sessions, Abort(s) PROVE PurchasesInv'
<1>1. TypeOK' /\ Rows'
  BY SessionEnds DEF PurchasesInv, TypeOK, Rows, Abort, hookVars
<1>2. ReadingsStand'
  BY DEF PurchasesInv, TypeOK, ReadingsStand, Abort, Done
<1>. QED BY <1>1, <1>2 DEF PurchasesInv

(* Nothing is bought when the system starts.                                  *)
LEMMA PurchasesInit == Init => PurchasesInv
<1>. SUFFICES ASSUME Init PROVE PurchasesInv
  OBVIOUS
<1>1. TypeOK
  BY LinesType DEF Init, TypeOK
<1>2. Rows
  <2>1. ASSUME NEW d \in Docs PROVE Row(docs[d], entered[d], payable[d], journal[d], requests[d])
    <3>1. NoDoc \notin Document
      BY DEF NoDoc, Document, DocStatuses
    <3>. QED BY <3>1, LinesType DEF Init, Row, RowType, RowSafe, Untouched, Statuses, Decisions
  <2>. QED BY <2>1 DEF Rows
<1>3. ReadingsStand
  BY DEF Init, ReadingsStand
<1>. QED BY <1>1, <1>2, <1>3 DEF PurchasesInv

(* Every step keeps the invariant while each document has one handler at a    *)
(* time.                                                                      *)
LEMMA PurchasesStep == PurchasesInv /\ Alone /\ [Next]_vars => PurchasesInv'
<1>. SUFFICES ASSUME PurchasesInv, Alone, [Next]_vars PROVE PurchasesInv'
  OBVIOUS
<1>1. CASE UNCHANGED vars
  BY <1>1 DEF vars, hookVars, PurchasesInv, TypeOK, Rows, ReadingsStand
<1>2. ASSUME NEW s \in Sessions, DocStep(s) PROVE PurchasesInv'
  BY <1>2, ReadsStep, ConvertStep, UpdateStep, RemoveStep, SyncStep, ReceiveStep, ChangeStep,
     CancelStep, AbortStep DEF DocStep
<1>. QED BY <1>1, <1>2, CreateStep, PayStep, DecideStep DEF Next

(* The invariant is stronger than what the run checks.                        *)
LEMMA InvIsSafe == PurchasesInv => DocumentsAgree
<1>. SUFFICES ASSUME PurchasesInv PROVE DocumentsAgree
  OBVIOUS
<1>1. CommittedMeansEntered
  BY RowOf DEF PurchasesInv, CommittedMeansEntered, Row, RowSafe
<1>2. CancelledLeavesNothingOpen
  <2>1. \A d \in Docs : docs[d].status = "cancelled" => Exists(d)
    BY DEF Exists, NoDoc, Removed
  <2>. QED BY <2>1, RowOf DEF PurchasesInv, CancelledLeavesNothingOpen, Row, RowSafe
<1>3. PendingHasNoEffects
  BY RowOf DEF PurchasesInv, PendingHasNoEffects, Row, RowSafe, Untouched
<1>4. PaidInFull
  <2>1. \A d \in Docs : docs[d].status = "paid" => Exists(d)
    BY DEF Exists, NoDoc, Removed
  <2>. QED BY <2>1, RowOf DEF PurchasesInv, PaidInFull, Row, RowSafe
<1>. QED BY <1>1, <1>2, <1>3, <1>4 DEF PurchasesInv, DocumentsAgree

(* What a purchase document says of its goods, its payable, its entries and   *)
(* its approvals agrees with those, for any documents, products, rules and    *)
(* quantities, as long as no two handlers work on one document at the same    *)
(* time (documents.service.ts reads them without a lock and writes in a later *)
(* transaction: two at once may both enter the goods).                        *)
THEOREM PurchasesStayConsistent == Spec /\ []Alone => []DocumentsAgree
  BY PurchasesInit, PurchasesStep, InvIsSafe, PTL DEF Spec

(* A document whose goods entered has no goods entered or taken back by any   *)
(* step.                                                                      *)
LEMMA EntersOnceStep ==
    ASSUME PurchasesInv, Next
    PROVE  \A d \in Docs : Exists(d) /\ docs[d].committed => entered'[d] = entered[d]
<1>. SUFFICES ASSUME NEW s \in Sessions, ReceiveOrInvoice(s), NEW d \in Docs, Exists(d), docs[d].committed
              PROVE  entered'[d] = entered[d]
  <2>1. ASSUME NEW s \in Sessions, DocStep(s) PROVE ReceiveOrInvoice(s) \/ entered' = entered
    BY <2>1 DEF DocStep, hookVars, ReadForUpdate, ReadForRemove, ReadForSync, ReadForConvert, ReadForStatus,
       Convert, UpdateLines, RemoveDocument, SyncDocument, ChangeOnly, CancelDocument, Abort
  <2>2. (\E s \in Sessions : DocStep(s)) \/ entered' = entered
    BY DEF Next, CreateDocument, PayPayable, Decide
  <2>. QED BY <2>1, <2>2
<1>1. CASE d # session[s].doc
  BY <1>1 DEF ReceiveOrInvoice, PurchasesInv, TypeOK
<1>2. CASE d = session[s].doc
  <2>1. Same(session[s].seen, docs[d])
    BY <1>2, Changed DEF ReceiveOrInvoice
  <2>2. ~EntersStock(session[s])
    BY <2>1 DEF EntersStock, Same
  <2>. QED BY <1>2, <2>2 DEF ReceiveOrInvoice, PurchasesInv, TypeOK
<1>. QED BY <1>1, <1>2

(* The goods of a document enter the stock once, as long as no two handlers   *)
(* work on it at the same time.                                               *)
THEOREM GoodsEnterOncePerDocument == Spec /\ []Alone => DocumentEntersOnce
<1>1. PurchasesInv /\ Alone /\ [Next]_vars =>
          [\A d \in Docs : Exists(d) /\ docs[d].committed => entered'[d] = entered[d]]_vars
  BY EntersOnceStep
<1>. QED BY <1>1, PurchasesInit, PurchasesStep, PTL DEF Spec, DocumentEntersOnce

--------------------------------------------------------------------------------
\* Part 2. Balances of bank accounts.

Reads == UNION {[S -> BankRow] : S \in SUBSET BankIds}
Transfer == [op: {"transfer"}, from: BankIds, to: BankIds, amount: Amounts, read: Reads]
IsMatch(c) == /\ c.op \in {"confirm", "paid"}
              /\ c = [op |-> c.op, file |-> c.file, id |-> c.id, line |-> c.line]

\* What the requests hold and read of the accounts.
CashierOK(u) ==
    LET c == cashier[u] IN
    /\ c.op \in {"rest", "remove", "move", "transfer", "reconcile", "decided", "confirm", "paid"}
    /\ c.op = "move" => c.amount \in Int /\ \E a \in BankIds : DOMAIN c.read = {a}
    /\ c.op = "transfer" => c \in Transfer /\ c.from # c.to /\ DOMAIN c.read \subseteq {c.from, c.to}
    /\ c.op \in {"confirm", "paid"} => IsMatch(c)

LocksHold ==
    /\ cashier = [u \in Cashiers |-> cashier[u]]
    /\ \A u \in Cashiers :
        /\ CashierOK(u)
        /\ \A a \in HeldBy(u) : a \in BankIds /\ HasAccount(a) /\ cashier[u].read[a] = bank[a]
        /\ \A v \in Cashiers : u # v => HeldBy(u) \cap HeldBy(v) = {}

BankTypeOK ==
    /\ bank \in [BankIds -> BankRow \cup {NoAccount, GoneAccount}]
    /\ moves \in Seq(MoveRow)

NewAccountsAreUnmoved ==
    \A a \in BankIds : bank[a] = NoAccount => \A i \in DOMAIN moves : moves[i].account # a

BankInv == BankTypeOK /\ LocksHold /\ NewAccountsAreUnmoved /\ BalanceIsMovements

Worth(ms, a) == [i \in DOMAIN ms |-> IF ms[i].account = a THEN ms[i].amount ELSE 0]
Worths(ms, a) == SumOver(Worth(ms, a), DOMAIN ms)
Share(row, a) == IF row.account = a THEN row.amount ELSE 0

(* What movements say of an account is a number.                              *)
LEMMA WorthsType == ASSUME NEW ms \in Seq(MoveRow), NEW a PROVE Worths(ms, a) \in Int
<1>1. IsFiniteSet(DOMAIN ms)
  BY FS_Interval
<1>2. \A i \in DOMAIN ms : Worth(ms, a)[i] \in Int
  <2>1. \A i \in DOMAIN ms : ms[i] \in MoveRow
    OBVIOUS
  <2>2. \A row \in MoveRow : row.amount \in Int
    BY DEF MoveRow
  <2>. QED BY <2>1, <2>2 DEF Worth
<1>. QED BY <1>1, <1>2, SumType DEF Worths

(* A new movement counts for its own account only.                            *)
LEMMA WorthsAppend ==
    ASSUME NEW ms \in Seq(MoveRow), NEW row \in MoveRow, NEW a
    PROVE  Worths(Append(ms, row), a) = Worths(ms, a) + Share(row, a)
<1>. DEFINE n == Len(ms)
            f == Worth(ms, a)
            g == Worth(Append(ms, row), a)
<1>1. n \in Nat /\ DOMAIN ms = 1..n /\ DOMAIN Append(ms, row) = 1..(n + 1)
  OBVIOUS
<1>2. \A i \in 1..n : f[i] \in Int /\ g[i] = f[i]
  <2>1. \A i \in 1..n : ms[i] \in MoveRow /\ Append(ms, row)[i] = ms[i]
    BY <1>1
  <2>2. \A r \in MoveRow : r.amount \in Int
    BY DEF MoveRow
  <2>. QED BY <1>1, <2>1, <2>2 DEF Worth
<1>3. g[n + 1] = Share(row, a) /\ g[n + 1] \in Int
  BY <1>1 DEF Worth, Share, MoveRow
<1>. HIDE DEF f, g, n
<1>4. SumOver(g, 1..(n + 1)) = SumOver(f, 1..n) + g[n + 1]
  BY <1>1, <1>2, <1>3, SumAppend
<1>5. Worths(Append(ms, row), a) = SumOver(g, 1..(n + 1)) /\ Worths(ms, a) = SumOver(f, 1..n)
  BY <1>1, Zenon DEF Worths, f, g
<1>. QED BY <1>3, <1>4, <1>5

(* Movements of other accounts say nothing of an account.                     *)
LEMMA WorthsNone ==
    ASSUME NEW ms \in Seq(MoveRow), NEW a, \A i \in DOMAIN ms : ms[i].account # a
    PROVE  Worths(ms, a) = 0
<1>1. IsFiniteSet(DOMAIN ms)
  BY FS_Interval
<1>2. \A i \in DOMAIN ms : Worth(ms, a)[i] = 0
  BY DEF Worth
<1>. QED BY <1>1, <1>2, SumZero DEF Worths

(* MovedOn, as a function of the movements.                                   *)
LEMMA Moved == ASSUME NEW a PROVE MovedOn(a) = Worths(moves, a) /\ MovedOn(a)' = Worths(moves', a)
  BY DEF MovedOn, Worths, Worth

\* A cashier that takes or leaves work of which no lock is part.
LEMMA CashierMoves ==
    ASSUME BankInv, NEW u \in Cashiers, NEW work, cashier' = [cashier EXCEPT ![u] = work],
           work.op \in {"rest", "remove", "reconcile", "decided"} \/ IsMatch(work), UNCHANGED bookOfBank
    PROVE  BankInv'
<1>1. work.op \notin {"move", "transfer"}
  BY DEF IsMatch
<1>2. CashierOK(u)'
  BY <1>1 DEF BankInv, LocksHold, CashierOK, IsMatch
<1>3. HeldBy(u)' = {}
  BY <1>1 DEF BankInv, LocksHold, HeldBy
<1>4. \A v \in Cashiers \ {u} : cashier'[v] = cashier[v] /\ HeldBy(v)' = HeldBy(v) /\ CashierOK(v)'
  BY DEF BankInv, LocksHold, HeldBy, CashierOK
<1>5. LocksHold'
  BY <1>2, <1>3, <1>4 DEF BankInv, LocksHold, HasAccount, bookOfBank
<1>. QED BY <1>5, Moved DEF BankInv, BankTypeOK, NewAccountsAreUnmoved, BalanceIsMovements, HasAccount, bookOfBank

\* A cashier that takes work with a lock on a row nobody has locked.
LEMMA CashierLocks ==
    ASSUME BankInv, NEW u \in Cashiers, NEW work, NEW a \in BankIds, HasAccount(a), ~Locked(a),
           cashier' = [cashier EXCEPT ![u] = work], UNCHANGED bookOfBank,
           work.op \in {"move", "transfer"}, CashierOK(u)',
           DOMAIN work.read = HeldBy(u) \cup {a}, work.read[a] = bank[a],
           \A b \in HeldBy(u) : b # a => work.read[b] = cashier[u].read[b]
    PROVE  BankInv'
<1>1. cashier'[u] = work /\ HeldBy(u)' = HeldBy(u) \cup {a}
  BY DEF BankInv, LocksHold, HeldBy
<1>2. \A v \in Cashiers \ {u} : cashier'[v] = cashier[v] /\ HeldBy(v)' = HeldBy(v) /\ CashierOK(v)'
  BY DEF BankInv, LocksHold, HeldBy, CashierOK
<1>3. \A v \in Cashiers : a \notin HeldBy(v)
  BY DEF Locked
<1>4. \A b \in HeldBy(u)' : b \in BankIds /\ HasAccount(b) /\ work.read[b] = bank[b]
  BY <1>1 DEF BankInv, LocksHold
<1>5. LocksHold'
  BY <1>1, <1>2, <1>3, <1>4 DEF BankInv, LocksHold, HasAccount, bookOfBank
<1>. QED BY <1>5, Moved DEF BankInv, BankTypeOK, NewAccountsAreUnmoved, BalanceIsMovements, HasAccount, bookOfBank

(* BeginMovement locks one account that nobody holds.                         *)
LEMMA MovementBegins ==
    ASSUME BankInv, NEW u \in Cashiers, NEW a \in BankIds, NEW amount \in Int, BeginMovement(u, a, amount)
    PROVE  BankInv'
<1>. DEFINE work == [op |-> "move", amount |-> amount, read |-> [x \in {a} |-> bank[x]]]
<1>1. cashier[u] = Waiting /\ cashier' = [cashier EXCEPT ![u] = work] /\ UNCHANGED bookOfBank
  BY DEF BeginMovement, Take
<1>2. HeldBy(u) = {}
  BY <1>1 DEF HeldBy, Waiting
<1>3. CashierOK(u)'
  BY <1>1 DEF CashierOK, BankInv, LocksHold
<1>. QED BY <1>1, <1>2, <1>3, CashierLocks DEF BeginMovement

(* BeginTransfer locks the first of its two accounts.                         *)
LEMMA TransferBegins ==
    ASSUME BankInv, NEW u \in Cashiers, NEW from \in BankIds, NEW to \in BankIds, NEW amount \in Amounts,
           BeginTransfer(u, from, to, amount)
    PROVE  BankInv'
<1>1. PICK a \in {from, to} :
        /\ ~Locked(a)
        /\ Take(u, [op |-> "transfer", from |-> from, to |-> to, amount |-> amount,
                    read |-> [x \in {a} |-> bank[x]]])
  BY DEF BeginTransfer
<1>. DEFINE work == [op |-> "transfer", from |-> from, to |-> to, amount |-> amount,
                     read |-> [x \in {a} |-> bank[x]]]
<1>2. cashier[u] = Waiting /\ cashier' = [cashier EXCEPT ![u] = work] /\ UNCHANGED bookOfBank
      /\ HasAccount(a) /\ from # to /\ a \in BankIds
  BY <1>1 DEF BeginTransfer, Take
<1>3. HeldBy(u) = {}
  BY <1>2 DEF HeldBy, Waiting
<1>4. CashierOK(u)'
  <2>1. bank[a] \in BankRow
    BY <1>2 DEF BankInv, BankTypeOK, HasAccount, NoAccount, GoneAccount
  <2>2. [x \in {a} |-> bank[x]] \in [{a} -> BankRow] /\ {a} \in SUBSET BankIds
    BY <1>2, <2>1
  <2>3. [x \in {a} |-> bank[x]] \in Reads
    BY <2>2 DEF Reads
  <2>4. work \in Transfer
    BY <2>3 DEF Transfer
  <2>5. cashier'[u] = work
    BY <1>2 DEF BankInv, LocksHold
  <2>. QED BY <1>2, <2>4, <2>5 DEF CashierOK
<1>. QED BY <1>1, <1>2, <1>3, <1>4, CashierLocks

(* LockOther adds the second account to what a transfer holds.                *)
LEMMA OtherLocked == ASSUME BankInv, NEW u \in Cashiers, LockOther(u) PROVE BankInv'
<1>. DEFINE c == cashier[u]
<1>1. c \in Transfer /\ c.from # c.to /\ HeldBy(u) \subseteq {c.from, c.to} /\ HeldBy(u) = DOMAIN c.read
      /\ c.op = "transfer"
  BY DEF LockOther, BankInv, LocksHold, CashierOK, HeldBy
<1>2. PICK a \in {c.from, c.to} \ HeldBy(u) :
        /\ HasAccount(a) /\ ~Locked(a)
        /\ cashier' = [cashier EXCEPT ![u].read = [x \in HeldBy(u) \cup {a} |-> IF x = a THEN bank[a] ELSE @[x]]]
  BY DEF LockOther
<1>. DEFINE read == [x \in HeldBy(u) \cup {a} |-> IF x = a THEN bank[a] ELSE c.read[x]]
            work == [c EXCEPT !.read = read]
<1>3. cashier' = [cashier EXCEPT ![u] = work] /\ cashier'[u] = work
  BY <1>2 DEF BankInv, LocksHold
<1>4. /\ work.op = "transfer" /\ work.from = c.from /\ work.to = c.to /\ work.read = read
      /\ work.amount = c.amount
  BY <1>1 DEF Transfer
<1>5. CashierOK(u)'
  <2>1. bank[a] \in BankRow
    BY <1>1, <1>2 DEF BankInv, BankTypeOK, HasAccount, NoAccount, GoneAccount, Transfer
  <2>2. \A x \in HeldBy(u) : c.read[x] \in BankRow
    BY <1>1 DEF BankInv, LocksHold, BankTypeOK, HasAccount, NoAccount, GoneAccount
  <2>3. read \in [HeldBy(u) \cup {a} -> BankRow] /\ HeldBy(u) \cup {a} \in SUBSET BankIds
    BY <1>1, <1>2, <2>1, <2>2 DEF Transfer
  <2>4. read \in Reads
    BY <2>3 DEF Reads
  <2>5. work \in Transfer
    BY <1>1, <2>4 DEF Transfer
  <2>. QED BY <1>1, <1>2, <1>3, <1>4, <2>5 DEF CashierOK
<1>6. UNCHANGED bookOfBank /\ a \in BankIds
  BY <1>1, <1>2 DEF LockOther, Transfer
<1>. HIDE DEF work
<1>. QED BY <1>2, <1>3, <1>4, <1>5, <1>6, CashierLocks

\* Rows that are written, with the movements that go with them.
Reckons(own) ==
    /\ own \subseteq BankIds
    /\ \A a \in BankIds \ own : bank'[a] = bank[a] /\ Worths(moves', a) = Worths(moves, a)
    /\ \A a \in own :
        /\ bank'[a] # NoAccount
        /\ bank'[a].state = "kept" => bank'[a].balance >= 0 /\ bank'[a].balance = Worths(moves', a)
    /\ \A i \in DOMAIN moves' :
          moves'[i].account \in own \/ \E k \in DOMAIN moves : moves'[i].account = moves[k].account

(* A step that reckons what it writes on accounts nobody else holds keeps the *)
(* invariant.                                                                 *)
LEMMA Reckoned ==
    ASSUME BankInv, BankTypeOK', NEW own, Reckons(own),
           \/ cashier' = cashier /\ \A u \in Cashiers : own \cap HeldBy(u) = {}
           \/ \E u \in Cashiers : /\ cashier' = [cashier EXCEPT ![u] = Waiting]
                                  /\ \A v \in Cashiers : v # u => own \cap HeldBy(v) = {}
    PROVE  BankInv'
<1>1. \A v \in Cashiers :
        /\ CashierOK(v)'
        /\ HeldBy(v)' \subseteq HeldBy(v)
        /\ HeldBy(v)' # {} => cashier'[v] = cashier[v] /\ own \cap HeldBy(v) = {}
  <2>1. CASE cashier' = cashier /\ \A u \in Cashiers : own \cap HeldBy(u) = {}
    BY <2>1 DEF BankInv, LocksHold, CashierOK, HeldBy
  <2>2. ASSUME NEW u \in Cashiers, cashier' = [cashier EXCEPT ![u] = Waiting],
               \A v \in Cashiers : v # u => own \cap HeldBy(v) = {}
        PROVE  <1>1!:
    <3>1. CashierOK(u)' /\ HeldBy(u)' = {}
      BY <2>2 DEF BankInv, LocksHold, CashierOK, HeldBy, Waiting
    <3>2. \A v \in Cashiers \ {u} : cashier'[v] = cashier[v] /\ HeldBy(v)' = HeldBy(v) /\ CashierOK(v)'
      BY <2>2 DEF BankInv, LocksHold, CashierOK, HeldBy
    <3>. QED BY <2>2, <3>1, <3>2
  <2>. QED BY <2>1, <2>2
<1>2. cashier' = [v \in Cashiers |-> cashier'[v]]
  BY DEF BankInv, LocksHold
<1>3. ASSUME NEW v \in Cashiers, NEW a \in HeldBy(v)'
      PROVE  a \in BankIds /\ HasAccount(a)' /\ cashier'[v].read[a] = bank'[a]
  <2>1. a \in HeldBy(v) /\ a \notin own /\ cashier'[v] = cashier[v]
    BY <1>1, <1>3
  <2>2. a \in BankIds /\ HasAccount(a) /\ cashier[v].read[a] = bank[a]
    BY <2>1 DEF BankInv, LocksHold
  <2>. QED BY <2>1, <2>2 DEF Reckons, HasAccount
<1>4. \A v, w \in Cashiers : v # w => HeldBy(v)' \cap HeldBy(w)' = {}
  BY <1>1 DEF BankInv, LocksHold
<1>5. LocksHold'
  BY <1>1, <1>2, <1>3, <1>4 DEF LocksHold
<1>6. NewAccountsAreUnmoved'
  BY DEF BankInv, NewAccountsAreUnmoved, Reckons
<1>7. BalanceIsMovements'
  BY Moved DEF BankInv, BalanceIsMovements, HasAccount, Reckons
<1>. QED BY <1>5, <1>6, <1>7 DEF BankInv

(* The row of an account there is.                                            *)
LEMMA RowTypes ==
    ASSUME BankInv, NEW a \in BankIds, HasAccount(a)
    PROVE  bank[a] \in BankRow /\ bank[a].balance \in Int /\ bank[a] # NoAccount /\ bank[a].balance >= 0
           /\ bank[a].balance = Worths(moves, a)
<1>1. bank[a] \in BankRow
  BY DEF BankInv, BankTypeOK, HasAccount, NoAccount, GoneAccount
<1>. QED BY <1>1, Moved DEF BankInv, BalanceIsMovements, BankRow, NoAccount

(* The accounts of movements, one of them new.                                *)
LEMMA AppendAccounts ==
    ASSUME NEW ms \in Seq(MoveRow), NEW row \in MoveRow
    PROVE  \A i \in DOMAIN Append(ms, row) :
              \/ Append(ms, row)[i].account = row.account
              \/ \E k \in DOMAIN ms : Append(ms, row)[i].account = ms[k].account
<1>1. \A i \in DOMAIN Append(ms, row) : Append(ms, row)[i] = row \/ (i \in DOMAIN ms /\ Append(ms, row)[i] = ms[i])
  OBVIOUS
<1>. QED BY <1>1

(* createBankAccount: the opening is a movement, and the account had none.    *)
LEMMA AccountCreated ==
    ASSUME BankInv, NEW a \in BankIds, NEW initial \in Amounts \cup {0}, NEW currency \in Currencies,
           NEW active \in BOOLEAN, CreateAccount(a, initial, currency, active)
    PROVE  BankInv'
<1>. DEFINE row == [state |-> "kept", isActive |-> active, currency |-> currency, balance |-> initial]
            move == Move("bank_account_opening", a, initial)
<1>1. /\ initial \in Nat /\ row \in BankRow /\ move \in MoveRow /\ move.account = a /\ move.amount = initial
      /\ bank[a] = NoAccount /\ cashier' = cashier /\ bank' = [bank EXCEPT ![a] = row]
      /\ moves' = IF initial > 0 THEN Append(moves, move) ELSE moves
      /\ moves \in Seq(MoveRow) /\ BankTypeOK
  <2>1. initial \in Nat
    <3>1. Amounts \subseteq Nat
      BY TreasuryAssumption
    <3>. QED BY <3>1
  <2>2. row \in BankRow /\ move \in MoveRow /\ move.account = a /\ move.amount = initial
    BY <2>1 DEF BankRow, MoveRow, Move
  <2>. QED BY <2>1, <2>2 DEF CreateAccount, BankInv, BankTypeOK
<1>2. moves' \in Seq(MoveRow)
  BY <1>1
<1>3. BankTypeOK'
  BY <1>1, <1>2 DEF BankTypeOK
<1>4. \A v \in Cashiers : a \notin HeldBy(v)
  BY <1>1 DEF BankInv, LocksHold, HasAccount, NoAccount
<1>5. Worths(moves, a) = 0
  BY <1>1, WorthsNone DEF BankInv, NewAccountsAreUnmoved
<1>6. Worths(moves', a) = initial /\ \A b \in BankIds \ {a} : Worths(moves', b) = Worths(moves, b)
  <2>1. CASE initial > 0
    <3>1. \A b \in BankIds : Worths(moves', b) = Worths(moves, b) + Share(move, b)
      BY <1>1, <2>1, WorthsAppend
    <3>. QED BY <1>1, <1>5, <3>1, WorthsType DEF Share
  <2>2. CASE ~(initial > 0)
    BY <1>1, <1>5, <2>2
  <2>. QED BY <2>1, <2>2
<1>7. \A i \in DOMAIN moves' : moves'[i].account \in {a} \/ \E k \in DOMAIN moves : moves'[i].account = moves[k].account
  BY <1>1, AppendAccounts
<1>8. bank'[a] = row /\ row.balance = initial /\ row # NoAccount /\ \A b \in BankIds \ {a} : bank'[b] = bank[b]
  BY <1>1 DEF BankTypeOK, NoAccount
<1>. HIDE DEF row, move
<1>9. Reckons({a})
  BY <1>1, <1>6, <1>7, <1>8 DEF Reckons
<1>10. cashier' = cashier /\ \A v \in Cashiers : {a} \cap HeldBy(v) = {}
  BY <1>1, <1>4
<1>. QED BY <1>3, <1>9, <1>10, Reckoned

(* updateBankAccount leaves the balance alone.                                *)
LEMMA AccountEdited ==
    ASSUME BankInv, NEW a \in BankIds, NEW currency \in Currencies, NEW active \in BOOLEAN,
           EditAccount(a, currency, active)
    PROVE  BankInv'
<1>. DEFINE row == [bank[a] EXCEPT !.currency = currency, !.isActive = active]
<1>1. /\ bank' = [bank EXCEPT ![a] = row] /\ moves' = moves /\ cashier' = cashier /\ HasAccount(a)
      /\ \A v \in Cashiers : a \notin HeldBy(v)
  BY DEF EditAccount, BankInv, BankTypeOK, Locked
<1>2. row \in BankRow /\ row.balance = bank[a].balance /\ row.state = "kept"
  BY <1>1, RowTypes DEF BankRow
<1>. HIDE DEF row
<1>3. BankTypeOK' /\ bank'[a] = row /\ \A b \in BankIds \ {a} : bank'[b] = bank[b]
  BY <1>1, <1>2 DEF BankInv, BankTypeOK
<1>4. LocksHold'
  BY <1>1, <1>3 DEF BankInv, LocksHold, HeldBy, CashierOK, HasAccount
<1>5. NewAccountsAreUnmoved' /\ BalanceIsMovements'
  <2>1. \A b \in BankIds : (bank'[b] = NoAccount => bank[b] = NoAccount) /\ (HasAccount(b)' => HasAccount(b) /\ bank'[b].balance = bank[b].balance)
    BY <1>1, <1>2, <1>3 DEF NoAccount, HasAccount
  <2>. QED BY <1>1, <2>1, Moved DEF BankInv, NewAccountsAreUnmoved, BalanceIsMovements
<1>. QED BY <1>3, <1>4, <1>5 DEF BankInv

(* recordMovement writes the balance from the row it holds.                   *)
LEMMA MovementRecorded == ASSUME BankInv, NEW u \in Cashiers, RecordMovement(u) PROVE BankInv'
<1>. DEFINE c == cashier[u]
            a == CHOOSE x \in HeldBy(u) : TRUE
            balance == c.read[a].balance + c.amount
            row == [bank[a] EXCEPT !.balance = balance]
            move == Move("treasury_movement", a, c.amount)
<1>1. /\ c.op = "move" /\ c.amount \in Int /\ a \in HeldBy(u) /\ HeldBy(u) = {a} /\ a \in BankIds
      /\ HasAccount(a) /\ c.read[a] = bank[a]
  <2>1. PICK b \in BankIds : HeldBy(u) = {b}
    BY DEF RecordMovement, BankInv, LocksHold, CashierOK, HeldBy
  <2>2. a = b
    BY <2>1
  <2>. QED BY <2>1, <2>2 DEF RecordMovement, BankInv, LocksHold, CashierOK
<1>2. bank[a] \in BankRow /\ bank[a].balance \in Int /\ bank[a].balance = Worths(moves, a)
  BY <1>1, RowTypes
<1>3. /\ balance >= 0 /\ bank' = [bank EXCEPT ![a] = row] /\ moves' = Append(moves, move)
      /\ cashier' = [cashier EXCEPT ![u] = Waiting]
  BY <1>1 DEF RecordMovement, Leave, BankInv, BankTypeOK
<1>4. move \in MoveRow /\ move.account = a /\ move.amount = c.amount /\ moves \in Seq(MoveRow)
  BY <1>1 DEF Move, MoveRow, BankInv, BankTypeOK
<1>. HIDE DEF a, move
<1>5. row \in BankRow /\ row.balance = balance /\ balance \in Int /\ row # NoAccount /\ balance = bank[a].balance + c.amount
  <2>1. balance = bank[a].balance + c.amount /\ balance \in Int
    BY <1>1, <1>2
  <2>. HIDE DEF balance
  <2>. QED BY <1>2, <2>1 DEF BankRow, NoAccount
<1>. HIDE DEF row, balance
<1>6. BankTypeOK' /\ bank'[a] = row /\ \A b \in BankIds \ {a} : bank'[b] = bank[b]
  BY <1>1, <1>3, <1>4, <1>5 DEF BankInv, BankTypeOK
<1>7. \A b \in BankIds : Worths(moves', b) = Worths(moves, b) + Share(move, b)
  BY <1>3, <1>4, WorthsAppend
<1>8. bank'[a].balance = Worths(moves', a) /\ \A b \in BankIds \ {a} : Worths(moves', b) = Worths(moves, b)
  BY <1>1, <1>2, <1>4, <1>5, <1>6, <1>7, WorthsType DEF Share
<1>9. \A i \in DOMAIN moves' : moves'[i].account \in {a} \/ \E k \in DOMAIN moves : moves'[i].account = moves[k].account
  BY <1>3, <1>4, AppendAccounts
<1>10. \A v \in Cashiers : v # u => {a} \cap HeldBy(v) = {}
  BY <1>1 DEF BankInv, LocksHold
<1>11. Reckons({a})
  BY <1>1, <1>3, <1>5, <1>6, <1>8, <1>9 DEF Reckons
<1>. QED BY <1>3, <1>6, <1>10, <1>11, Reckoned

(* Two of two accounts are both.                                              *)
LEMMA PairHeld ==
    ASSUME NEW from, NEW to, from # to, NEW S, S \subseteq {from, to}, Cardinality(S) = 2
    PROVE  S = {from, to}
<1>. SUFFICES ASSUME S # {from, to} PROVE FALSE
  OBVIOUS
<1>1. S = {} \/ \E x \in {from, to} : S = {x}
  OBVIOUS
<1>2. S # {}
  BY FS_EmptySet
<1>3. ASSUME NEW x \in {from, to}, S = {x} PROVE FALSE
  <2>1. Cardinality(S) = 1
    BY <1>3, FS_Singleton, Zenon
  <2>. QED BY <2>1
<1>. QED BY <1>1, <1>2, <1>3

(* recordTransfer writes two balances from the rows it holds, and two         *)
(* movements that cancel out.                                                 *)
LEMMA TransferRecorded == ASSUME BankInv, NEW u \in Cashiers, RecordTransfer(u) PROVE BankInv'
<1>. DEFINE t == cashier[u]
            a == t.from
            b == t.to
            n == t.amount
            rowA == [bank[a] EXCEPT !.balance = bank[a].balance - n]
            rowB == [bank[b] EXCEPT !.balance = bank[b].balance + n]
            out == Move("treasury_transfer_out", a, -n)
            in == Move("treasury_transfer_in", b, n)
<1>1. /\ t \in Transfer /\ a # b /\ HeldBy(u) = {a, b} /\ a \in BankIds /\ b \in BankIds
      /\ HasAccount(a) /\ HasAccount(b) /\ t.read[a] = bank[a] /\ t.read[b] = bank[b]
  <2>1. t \in Transfer /\ a # b /\ HeldBy(u) \subseteq {a, b} /\ Cardinality(HeldBy(u)) = 2
    BY DEF RecordTransfer, BankInv, LocksHold, CashierOK, HeldBy
  <2>2. HeldBy(u) = {a, b}
    BY <2>1, PairHeld
  <2>. QED BY <2>1, <2>2 DEF BankInv, LocksHold
<1>2. n \in Nat
  <2>1. Amounts \subseteq Nat
    BY TreasuryAssumption
  <2>. QED BY <1>1, <2>1 DEF Transfer
<1>3. \A x \in {a, b} : bank[x] \in BankRow /\ bank[x].balance \in Int /\ bank[x].balance >= 0
                        /\ bank[x].balance = Worths(moves, x)
  BY <1>1, RowTypes
<1>4. /\ bank' = [bank EXCEPT ![a] = rowA, ![b] = rowB] /\ bank[a].balance - n >= 0
      /\ moves' = moves \o <<out, in>> /\ cashier' = [cashier EXCEPT ![u] = Waiting]
  BY <1>1 DEF RecordTransfer, Leave, Covers, BankInv, BankTypeOK
<1>5. /\ out \in MoveRow /\ out.account = a /\ out.amount = -n /\ moves \in Seq(MoveRow)
      /\ in \in MoveRow /\ in.account = b /\ in.amount = n
  BY <1>1, <1>2 DEF Move, MoveRow, BankInv, BankTypeOK
<1>. HIDE DEF out, in, a, b, n
<1>6. /\ rowA \in BankRow /\ rowA.balance = bank[a].balance - n /\ rowA # NoAccount
      /\ rowB \in BankRow /\ rowB.balance = bank[b].balance + n /\ rowB # NoAccount
  BY <1>2, <1>3 DEF BankRow, NoAccount
<1>. HIDE DEF rowA, rowB
<1>7. moves' = Append(Append(moves, out), in) /\ Append(moves, out) \in Seq(MoveRow) /\ moves' \in Seq(MoveRow)
  BY <1>4, <1>5
<1>8. /\ BankTypeOK' /\ bank'[a] = rowA /\ bank'[b] = rowB
      /\ \A x \in BankIds \ {a, b} : bank'[x] = bank[x]
  BY <1>1, <1>4, <1>6, <1>7 DEF BankInv, BankTypeOK
<1>9. \A x \in BankIds : Worths(moves', x) = Worths(moves, x) + Share(out, x) + Share(in, x)
  <2>1. \A x \in BankIds : Worths(Append(moves, out), x) = Worths(moves, x) + Share(out, x)
    BY <1>5, WorthsAppend
  <2>2. \A x \in BankIds : Worths(Append(Append(moves, out), in), x) = Worths(Append(moves, out), x) + Share(in, x)
    BY <1>5, <1>7, WorthsAppend
  <2>. QED BY <1>7, <2>1, <2>2
<1>10. /\ bank'[a].balance = Worths(moves', a) /\ bank'[b].balance = Worths(moves', b)
       /\ bank'[a].balance >= 0 /\ bank'[b].balance >= 0
       /\ \A x \in BankIds \ {a, b} : Worths(moves', x) = Worths(moves, x)
  <2>1. \A x \in BankIds : Worths(moves, x) \in Int
    BY <1>5, WorthsType
  <2>2. /\ Share(out, a) = -n /\ Share(in, a) = 0 /\ Share(out, b) = 0 /\ Share(in, b) = n
        /\ \A x \in BankIds \ {a, b} : Share(out, x) = 0 /\ Share(in, x) = 0
    BY <1>1, <1>5 DEF Share
  <2>3. Worths(moves', a) = Worths(moves, a) - n /\ Worths(moves', b) = Worths(moves, b) + n
    BY <1>1, <1>2, <1>9, <2>1, <2>2
  <2>4. \A x \in BankIds \ {a, b} : Worths(moves', x) = Worths(moves, x)
    BY <1>9, <2>1, <2>2
  <2>5. bank'[a].balance = bank[a].balance - n /\ bank'[b].balance = bank[b].balance + n
    BY <1>6, <1>8
  <2>6. bank'[a].balance = Worths(moves', a) /\ bank'[b].balance = Worths(moves', b)
    BY <1>3, <2>3, <2>5
  <2>7. bank'[a].balance >= 0 /\ bank'[b].balance >= 0
    BY <1>2, <1>3, <1>4, <2>5
  <2>. QED BY <2>4, <2>6, <2>7
<1>11. \A i \in DOMAIN moves' :
          moves'[i].account \in {a, b} \/ \E k \in DOMAIN moves : moves'[i].account = moves[k].account
  <2>1. \A i \in DOMAIN moves' : moves'[i].account = b
            \/ \E k \in DOMAIN Append(moves, out) : moves'[i].account = Append(moves, out)[k].account
    BY <1>5, <1>7, AppendAccounts
  <2>2. \A k \in DOMAIN Append(moves, out) : Append(moves, out)[k].account = a
            \/ \E j \in DOMAIN moves : Append(moves, out)[k].account = moves[j].account
    BY <1>5, AppendAccounts
  <2>. QED BY <2>1, <2>2
<1>12. \A v \in Cashiers : v # u => {a, b} \cap HeldBy(v) = {}
  BY <1>1 DEF BankInv, LocksHold
<1>13. Reckons({a, b})
  BY <1>1, <1>6, <1>8, <1>10, <1>11 DEF Reckons
<1>. QED BY <1>4, <1>8, <1>12, <1>13, Reckoned

(* A removal deactivates an account, or takes it away with its balance.       *)
LEMMA RemovalFinished == ASSUME BankInv, NEW u \in Cashiers, FinishRemoval(u) PROVE BankInv'
<1>. DEFINE a == cashier[u].account
<1>1. /\ ~Locked(a) /\ moves' = moves /\ cashier' = [cashier EXCEPT ![u] = Waiting]
      /\ \/ bank' = bank
         \/ HasAccount(a) /\ bank' = [bank EXCEPT ![a].isActive = FALSE]
         \/ HasAccount(a) /\ bank' = [bank EXCEPT ![a] = GoneAccount]
  BY DEF FinishRemoval, Leave
<1>2. CASE bank' = bank \/ a \notin BankIds
  <2>1. bank' = bank
    BY <1>1, <1>2 DEF BankInv, BankTypeOK
  <2>. QED BY <1>1, <2>1, CashierMoves DEF Waiting, bookOfBank
<1>3. CASE HasAccount(a) /\ a \in BankIds /\ bank' = [bank EXCEPT ![a].isActive = FALSE]
  <2>. DEFINE row == [bank[a] EXCEPT !.isActive = FALSE]
  <2>1. bank[a] \in BankRow /\ bank[a].balance >= 0 /\ bank[a].balance = Worths(moves, a)
    BY <1>3, RowTypes
  <2>2. row \in BankRow /\ row.balance = bank[a].balance /\ row # NoAccount
    BY <2>1 DEF BankRow, NoAccount
  <2>3. bank' = [bank EXCEPT ![a] = row]
    BY <1>3
  <2>. HIDE DEF row, a
  <2>4. BankTypeOK' /\ Reckons({a})
    BY <1>1, <1>3, <2>1, <2>2, <2>3 DEF BankInv, BankTypeOK, Reckons
  <2>5. \A v \in Cashiers : {a} \cap HeldBy(v) = {}
    BY <1>1 DEF Locked
  <2>. QED BY <1>1, <2>4, <2>5, Reckoned
<1>4. CASE HasAccount(a) /\ a \in BankIds /\ bank' = [bank EXCEPT ![a] = GoneAccount]
  <2>1. GoneAccount.state # "kept" /\ GoneAccount # NoAccount
    BY DEF GoneAccount, NoAccount
  <2>. HIDE DEF a
  <2>2. BankTypeOK' /\ Reckons({a})
    BY <1>1, <1>4, <2>1 DEF BankInv, BankTypeOK, Reckons
  <2>3. \A v \in Cashiers : {a} \cap HeldBy(v) = {}
    BY <1>1 DEF Locked
  <2>. QED BY <1>1, <2>2, <2>3, Reckoned
<1>. QED BY <1>1, <1>2, <1>3, <1>4

(* Every step of a request on accounts keeps the balances.                    *)
LEMMA AccountsStep == ASSUME BankInv, NEW u \in Cashiers, AccountStep(u) PROVE BankInv'
<1>0. Amounts \subseteq Nat
  BY TreasuryAssumption
<1>1. ASSUME NEW a \in BankIds, BeginRemoval(u, a) PROVE BankInv'
  BY <1>1, CashierMoves DEF BeginRemoval, Take
<1>2. ASSUME NEW a \in BankIds, NEW amount \in Amounts, BeginMovement(u, a, amount) \/ BeginMovement(u, a, -amount)
      PROVE  BankInv'
  <2>1. amount \in Int /\ -amount \in Int
    BY <1>0
  <2>. QED BY <1>2, <2>1, MovementBegins
<1>. QED BY <1>1, <1>2, TransferBegins, RemovalFinished, MovementRecorded, OtherLocked, TransferRecorded DEF AccountStep

(* Every step of a request on statements keeps the balances.                  *)
LEMMA StatementsKeepAccounts == ASSUME BankInv, NEW u \in Cashiers, StatementStep(u) PROVE BankInv'
<1>0. UNCHANGED bookOfBank
  BY DEF StatementStep, BeginReconcile, BeginConfirm, DecideLines, Reconcile, PayMatch, MarkMatched, bookOfBank, bookOfStatements
<1>1. ASSUME NEW f, NEW decisions, BeginReconcile(u, f, decisions) PROVE BankInv'
  BY <1>0, <1>1, CashierMoves DEF BeginReconcile, Take
<1>2. CASE DecideLines(u)
  BY <1>0, <1>2, CashierMoves DEF DecideLines
<1>3. CASE Reconcile(u) \/ MarkMatched(u)
  BY <1>0, <1>3, CashierMoves DEF Reconcile, MarkMatched, Leave, Waiting
<1>4. CASE PayMatch(u)
  <2>. DEFINE work == [cashier[u] EXCEPT !.op = "paid"]
  <2>1. IsMatch(work) /\ cashier' = [cashier EXCEPT ![u] = work]
    BY <1>4 DEF PayMatch, BankInv, LocksHold, CashierOK, IsMatch
  <2>. QED BY <1>0, <2>1, CashierMoves
<1>5. ASSUME NEW f \in DOMAIN Files, HasStatement(f), NEW l \in StatementLines(f), BeginConfirm(u, f, l) PROVE BankInv'
  <2>. DEFINE work == [op |-> "confirm", file |-> f, id |-> statement[f].id, line |-> l]
  <2>1. IsMatch(work) /\ cashier' = [cashier EXCEPT ![u] = work]
    BY <1>5 DEF BeginConfirm, Take, IsMatch
  <2>. HIDE DEF work
  <2>. QED BY <1>0, <2>1, CashierMoves
<1>. QED BY <1>1, <1>2, <1>3, <1>4, <1>5 DEF StatementStep

(* No account is there at the start.                                          *)
LEMMA BankInit == TreasuryInit => BankInv
<1>. SUFFICES ASSUME TreasuryInit PROVE BankInv
  OBVIOUS
<1>1. BankTypeOK /\ NewAccountsAreUnmoved
  BY DEF TreasuryInit, BankTypeOK, NewAccountsAreUnmoved
<1>2. LocksHold
  BY DEF TreasuryInit, LocksHold, CashierOK, HeldBy, Waiting
<1>3. BalanceIsMovements
  BY DEF TreasuryInit, BalanceIsMovements, HasAccount, NoAccount
<1>. QED BY <1>1, <1>2, <1>3 DEF BankInv

(* Every step keeps the balances.                                             *)
LEMMA BankStep == BankInv /\ [TreasuryNext]_treasuryVars => BankInv'
<1>. SUFFICES ASSUME BankInv, [TreasuryNext]_treasuryVars PROVE BankInv'
  OBVIOUS
<1>1. ASSUME UNCHANGED <<bank, moves, cashier>> PROVE BankInv'
  BY <1>1, Moved DEF BankInv, BankTypeOK, LocksHold, CashierOK, HeldBy, HasAccount, NewAccountsAreUnmoved, BalanceIsMovements
<1>2. CASE UNCHANGED treasuryVars
  BY <1>1, <1>2 DEF treasuryVars
<1>3. CASE ManageAccounts
  BY <1>3, AccountEdited, AccountCreated DEF ManageAccounts
<1>4. CASE ManageStatements \/ ManageRates
  BY <1>1, <1>4 DEF ManageStatements, ManageRates, ImportStatement, DeleteStatement, SaveRate, RemoveRate, bookOfBank
<1>5. ASSUME NEW u \in Cashiers, LetGo(u) PROVE BankInv'
  BY <1>5, CashierMoves DEF LetGo, Leave, Waiting
<1>. QED BY <1>2, <1>3, <1>4, <1>5, AccountsStep, StatementsKeepAccounts DEF TreasuryNext

(* The balance of an account is what was opened, moved and transferred on it, *)
(* and is never below zero, for any accounts, amounts and requests at once:   *)
(* recordMovement and recordTransfer write from rows they hold FOR UPDATE, in *)
(* whatever order PostgreSQL gives out the locks.                             *)
THEOREM BalancesAreMovements == TreasurySpec => []BalanceIsMovements
<1>1. BankInv => BalanceIsMovements
  BY DEF BankInv
<1>. QED BY <1>1, BankInit, BankStep, PTL DEF TreasurySpec

--------------------------------------------------------------------------------
\* Part 3. Exchange rates.

(* The latest rate of a day is of that day or an earlier one.                 *)
LEMMA LatestQuoted ==
    ASSUME NEW x \in Currencies, NEW y \in Currencies, NEW day \in Days, Quoted(x, y, day) # {}
    PROVE  Max(Quoted(x, y, day)) \in Days /\ Max(Quoted(x, y, day)) <= day
<1>0. Days \subseteq Nat
  BY TreasuryAssumption
<1>1. day \in Nat /\ Quoted(x, y, day) \subseteq 0..day /\ Quoted(x, y, day) \subseteq Days
  <2>1. day \in Nat /\ \A d \in Days : d \in Nat
    BY <1>0
  <2>2. \A d \in Quoted(x, y, day) : d \in Days /\ d <= day
    BY DEF Quoted
  <2>3. ASSUME NEW d \in Quoted(x, y, day) PROVE d \in 0..day
    <3>1. d \in Nat /\ d <= day
      BY <2>1, <2>2
    <3>. QED BY <2>1, <3>1
  <2>. QED BY <2>1, <2>2, <2>3
<1>2. IsFiniteSet(Quoted(x, y, day))
  <2>1. IsFiniteSet(0..day)
    BY <1>1, FS_Interval
  <2>. QED BY <1>1, <2>1, FS_Subset
<1>3. Max(Quoted(x, y, day)) \in Quoted(x, y, day)
  BY <1>1, <1>2, MaxOf
<1>. QED BY <1>1, <1>3

(* A lookup depends on the rates of its pair up to its day only.              *)
LEMMA LookForward ==
    ASSUME NEW from \in Currencies, NEW to \in Currencies, NEW day \in Days,
           \A d \in Days, p \in {<<from, to>>, <<to, from>>} : d <= day => rates'[<<p, d>>] = rates[<<p, d>>]
    PROVE  LookupRate(from, to, day)' = LookupRate(from, to, day)
<1>1. Quoted(from, to, day)' = Quoted(from, to, day) /\ Quoted(to, from, day)' = Quoted(to, from, day)
  BY DEF Quoted
<1>2. Quoted(from, to, day) # {} =>
        rates'[<<<<from, to>>, Max(Quoted(from, to, day))>>] = rates[<<<<from, to>>, Max(Quoted(from, to, day))>>]
  BY LatestQuoted
<1>3. Quoted(to, from, day) # {} =>
        rates'[<<<<to, from>>, Max(Quoted(to, from, day))>>] = rates[<<<<to, from>>, Max(Quoted(to, from, day))>>]
  BY LatestQuoted
<1>. QED BY <1>1, <1>2, <1>3 DEF LookupRate

(* What was converted by the rate of a day is converted the same after a rate *)
(* of a later day, or of another pair, is entered, replaced or removed.       *)
THEOREM RatesOfTheDayStand == TreasurySpec => RatesLookForward
<1>1. [TreasuryNext]_treasuryVars =>
        [\A from, to \in Currencies, day \in Days :
          LookupRate(from, to, day)' # LookupRate(from, to, day) =>
              \E d \in Days, p \in {<<from, to>>, <<to, from>>} : d <= day /\ rates'[<<p, d>>] # rates[<<p, d>>]]_treasuryVars
  BY LookForward
<1>. QED BY <1>1, PTL DEF TreasurySpec, RatesLookForward

--------------------------------------------------------------------------------
\* Part 4. Bank reconciliation.

IsRecord(x, keys) == DOMAIN x = keys /\ x = [k \in keys |-> x[k]]
LineKept(x) == IsRecord(x, {"amount", "reconciled", "matched"})
StatementKept(r) ==
    /\ IsRecord(r, {"id", "status", "matched", "line", "import"})
    /\ r.id \in 1..MaxRows
    /\ r.line = [l \in DOMAIN r.line |-> r.line[l]] /\ DOMAIN r.line \subseteq AllLines
    /\ \A l \in DOMAIN r.line : LineKept(r.line[l])

PaymentRow == [file: DOMAIN Files, of: 1..MaxRows, line: AllLines]

StatementsKept ==
    /\ statement = [f \in DOMAIN Files |-> statement[f]]
    /\ \A f \in DOMAIN Files : HasStatement(f) => StatementKept(statement[f])
    /\ \A f, g \in DOMAIN Files : HasStatement(f) /\ HasStatement(g) /\ f # g => statement[f].id # statement[g].id
    /\ decided \subseteq Decision
    /\ settled \in Seq(PaymentRow)

\* What a request knows of a statement.
PaperKept(c) ==
    /\ c.op \in {"reconcile", "decided"} =>
        /\ c.file \in DOMAIN Files /\ c.id \in 1..MaxRows
        /\ DOMAIN c.decisions \subseteq AllLines /\ \A l \in DOMAIN c.decisions : c.decisions[l] \in MatchStatuses
        /\ \A d \in c.doomed : d.of = c.id /\ d.line \in DOMAIN c.decisions
    /\ c.op \in {"confirm", "paid"} => c.file \in DOMAIN Files /\ c.id \in 1..MaxRows /\ c.line \in AllLines

\* What a batch that has decided its lines saw still stands ...
BatchStands(c) ==
    /\ HasStatement(c.file) /\ statement[c.file].id = c.id
    /\ c.allDone => \A l \in StatementLines(c.file) \ DOMAIN c.decisions : DecisionsOn(c.id, l) # {}

\* ... and the payment of a line to be marked.
PaidFor(id, l) == \E i \in DOMAIN settled : settled[i].of = id /\ settled[i].line = l

PapersStand ==
    \A u \in Cashiers :
        /\ PaperKept(cashier[u])
        /\ cashier[u].op = "decided" => BatchStands(cashier[u])
        /\ cashier[u].op = "paid" => PaidFor(cashier[u].id, cashier[u].line)

StatementsInv == StatementsKept /\ PapersStand /\ ReconciledHasReason /\ ReconciledIsDecided

\* What the papers of a step rest on, when nothing said of statements is taken back.
LEMMA PapersLater ==
    ASSUME \A u \in Cashiers :
             /\ PaperKept(cashier'[u])
             /\ cashier'[u].op = "decided" =>
                    \E c : c = cashier'[u] /\ BatchStands(c)'
             /\ cashier'[u].op = "paid" =>
                    \E id, l : id = cashier'[u].id /\ l = cashier'[u].line /\ PaidFor(id, l)'
    PROVE  PapersStand'
<1>1. \A u \in Cashiers : PaperKept(cashier[u])'
  BY DEF PaperKept
<1>2. \A u \in Cashiers : cashier'[u].op = "decided" => BatchStands(cashier[u])'
  BY DEF BatchStands, HasStatement, StatementLines, DecisionsOn
<1>3. \A u \in Cashiers : cashier'[u].op = "paid" => PaidFor(cashier[u].id, cashier[u].line)'
  BY DEF PaidFor
<1>. QED BY <1>1, <1>2, <1>3 DEF PapersStand

(* A request that takes up work which stands keeps the invariant.             *)
LEMMA PaperWork ==
    ASSUME BankInv, StatementsInv, NEW u \in Cashiers, NEW work, cashier' = [cashier EXCEPT ![u] = work],
           PaperKept(work), work.op = "decided" => BatchStands(work), work.op = "paid" => PaidFor(work.id, work.line),
           UNCHANGED <<statement, decided, settled>>
    PROVE  StatementsInv'
<1>1. \A v \in Cashiers : cashier'[v] = IF v = u THEN work ELSE cashier[v]
  BY DEF BankInv, LocksHold
<1>2. \A c : BatchStands(c) => BatchStands(c)'
  BY DEF BatchStands, HasStatement, StatementLines, DecisionsOn
<1>3. \A id, l : PaidFor(id, l) => PaidFor(id, l)'
  BY DEF PaidFor
<1>4. PapersStand'
  BY <1>1, <1>2, <1>3, PapersLater DEF StatementsInv, PapersStand
<1>5. StatementsKept' /\ ReconciledHasReason' /\ ReconciledIsDecided'
  BY DEF StatementsInv, StatementsKept, ReconciledHasReason, ReconciledIsDecided, HasStatement, StatementLines, DecisionsOn
<1>. QED BY <1>4, <1>5 DEF StatementsInv

(* A request that takes up, or leaves, work of another kind keeps it too.     *)
LEMMA NoPaperWork ==
    ASSUME BankInv, StatementsInv, NEW u \in Cashiers, NEW work, cashier' = [cashier EXCEPT ![u] = work],
           work.op \notin {"reconcile", "decided", "confirm", "paid"}, UNCHANGED <<statement, decided, settled>>
    PROVE  StatementsInv'
<1>1. PaperKept(work)
  BY DEF PaperKept
<1>. QED BY <1>1, PaperWork

(* A request at rest knows nothing.                                           *)
LEMMA RestIsNoPaper == Waiting.op = "rest" /\ PaperKept(Waiting)
BY DEF Waiting, PaperKept

\* A request that goes on, or goes, keeps its papers.
LEMMA PapersGoOn ==
    ASSUME PapersStand, \A u \in Cashiers : cashier'[u] \in {cashier[u], Waiting},
           \A u \in Cashiers : \A c : c = cashier[u] /\ c.op = "decided" /\ cashier'[u] = c /\ BatchStands(c) => BatchStands(c)',
           \A i \in DOMAIN settled : i \in DOMAIN settled' /\ settled'[i] = settled[i]
    PROVE  PapersStand'
<1>1. \A id, l : PaidFor(id, l) => PaidFor(id, l)'
  BY DEF PaidFor
<1>. QED BY <1>1, PapersLater, RestIsNoPaper DEF PapersStand

\* What says that a line, or a statement, is reconciled and rests on what follows the step.
LEMMA BackedLater ==
    ASSUME \A f \in DOMAIN Files : \A id : HasStatement(f)' /\ id = statement'[f].id =>
             \A l \in StatementLines(f)' :
                /\ statement'[f].line[l].reconciled =>
                      (\E d \in DecisionsOn(id, l)' : d.status = "matched") \/ PaidFor(id, l)'
                /\ statement'[f].status = "reconciled" => DecisionsOn(id, l)' # {}
    PROVE  ReconciledHasReason' /\ ReconciledIsDecided'
BY DEF ReconciledHasReason, ReconciledIsDecided, HasStatement, StatementLines, DecisionsOn, PaidFor

\* ... and what precedes it.
LEMMA BackedBefore ==
    ASSUME StatementsInv, NEW f \in DOMAIN Files, HasStatement(f), NEW id, id = statement[f].id,
           NEW l \in StatementLines(f)
    PROVE  /\ statement[f].line[l].reconciled =>
                  (\E d \in DecisionsOn(id, l) : d.status = "matched") \/ PaidFor(id, l)
           /\ statement[f].status = "reconciled" => DecisionsOn(id, l) # {}
BY DEF StatementsInv, ReconciledHasReason, ReconciledIsDecided, PaidFor

(* The last id given to a statement is no less than any there is.             *)
LEMMA NewId ==
    ASSUME StatementsInv
    PROVE  LastImport \in Nat /\ \A f \in DOMAIN Files : HasStatement(f) => statement[f].id <= LastImport
<1>0. MaxRows \in Nat
  BY TreasuryAssumption
<1>1. ASSUME NEW f \in DOMAIN Files PROVE statement[f].id \in 0..MaxRows
  <2>1. CASE statement[f] = NoStatement
    <3>1. NoStatement.id = 0 /\ 0 \in 0..MaxRows
      BY <1>0 DEF NoStatement
    <3>. QED BY <2>1, <3>1
  <2>2. CASE HasStatement(f)
    <3>1. StatementKept(statement[f])
      BY <2>2 DEF StatementsInv, StatementsKept
    <3>2. statement[f].id \in 1..MaxRows
      BY <3>1 DEF StatementKept
    <3>. QED BY <1>0, <3>2
  <2>. QED BY <2>1, <2>2 DEF HasStatement
<1>2. \A d \in decided : d.of \in 1..MaxRows
  BY DEF StatementsInv, StatementsKept, Decision
<1>3. \A i \in DOMAIN settled : settled[i].of \in 1..MaxRows
  <2>0. settled \in Seq(PaymentRow)
    BY DEF StatementsInv, StatementsKept
  <2>1. \A i \in DOMAIN settled : settled[i] \in PaymentRow
    BY <2>0
  <2>2. ASSUME NEW i \in DOMAIN settled PROVE settled[i].of \in 1..MaxRows
    BY <2>1 DEF PaymentRow
  <2>. QED BY <2>2
<1>4. Imports \cup {0} \subseteq 0..MaxRows
  BY <1>0, <1>1, <1>2, <1>3 DEF Imports
<1>5. IsFiniteSet(Imports \cup {0})
  <2>1. IsFiniteSet(0..MaxRows)
    BY TreasuryAssumption, FS_Interval
  <2>. QED BY <1>4, <2>1, FS_Subset
<1>6. LastImport \in Imports \cup {0} /\ \A x \in Imports \cup {0} : x <= LastImport
  <2>1. \A x \in Imports \cup {0} : x \in Int
    BY <1>4
  <2>. QED BY <1>5, <2>1, MaxOf DEF LastImport
<1>. QED BY <1>4, <1>6 DEF Imports

(* An imported statement has an id that no decision and no payment names, and *)
(* no line reconciled.                                                        *)
LEMMA StatementImported ==
    ASSUME BankInv, StatementsInv, NEW f \in DOMAIN Files, NEW tracked \in BOOLEAN, ImportStatement(f, tracked)
    PROVE  StatementsInv'
<1>. DEFINE amount == AmountsOf(f, tracked)
            new(l) == [amount |-> amount[l], reconciled |-> FALSE, matched |-> "none"]
            row == [id |-> LastImport + 1, status |-> "uploaded", matched |-> 0,
                    line |-> [l \in DOMAIN amount |-> new(l)],
                    import |-> IF tracked THEN "imported" ELSE "none"]
<1>1. /\ ~HasStatement(f) /\ statement' = [statement EXCEPT ![f] = row]
      /\ LastImport < MaxRows /\ UNCHANGED <<decided, settled, cashier>>
  BY DEF ImportStatement
<1>2. DOMAIN amount \subseteq AllLines
  BY DEF AmountsOf, AllLines
<1>3. LastImport + 1 \in 1..MaxRows /\ \A g \in DOMAIN Files : HasStatement(g) => statement[g].id # LastImport + 1
  <2>1. \A g \in DOMAIN Files : HasStatement(g) => statement[g].id \in 1..MaxRows
    BY DEF StatementsInv, StatementsKept, StatementKept
  <2>2. MaxRows \in Nat
    BY TreasuryAssumption
  <2>3. LastImport \in Nat /\ \A g \in DOMAIN Files : HasStatement(g) => statement[g].id <= LastImport
    BY NewId
  <2>. QED BY <1>1, <2>1, <2>2, <2>3
<1>. HIDE DEF amount
<1>4. \A l \in DOMAIN amount : LineKept(new(l)) /\ new(l).reconciled = FALSE
  BY DEF LineKept, IsRecord
<1>. HIDE DEF new
<1>5. /\ StatementKept(row) /\ row.id = LastImport + 1 /\ row.status = "uploaded"
      /\ \A l \in DOMAIN row.line : row.line[l].reconciled = FALSE
  BY <1>2, <1>3, <1>4 DEF StatementKept, IsRecord
<1>. HIDE DEF row
<1>6. /\ statement' = [g \in DOMAIN Files |-> statement'[g]] /\ statement'[f] = row
      /\ \A g \in DOMAIN Files \ {f} : statement'[g] = statement[g]
  BY <1>1 DEF StatementsInv, StatementsKept
<1>7. StatementsKept'
  BY <1>1, <1>3, <1>5, <1>6 DEF StatementsInv, StatementsKept, HasStatement
<1>8. PapersStand'
  <2>1. \A u \in Cashiers : cashier[u].op = "decided" =>
            cashier[u].file \in DOMAIN Files \ {f}
    BY <1>1 DEF StatementsInv, PapersStand, PaperKept, BatchStands
  <2>2. \A u \in Cashiers : \A c : c = cashier[u] /\ c.op = "decided" /\ BatchStands(c) => BatchStands(c)'
    BY <1>1, <1>6, <2>1 DEF BatchStands, HasStatement, StatementLines, DecisionsOn
  <2>. QED BY <1>1, <2>2, PapersGoOn DEF StatementsInv
<1>9. ReconciledHasReason' /\ ReconciledIsDecided'
  BY <1>1, <1>5, <1>6 DEF StatementsInv, ReconciledHasReason, ReconciledIsDecided, HasStatement, StatementLines, DecisionsOn
<1>. QED BY <1>7, <1>8, <1>9 DEF StatementsInv

\* Statements go, with the decisions on their lines.
LEMMA StatementsGone ==
    ASSUME BankInv, StatementsInv, NEW mine, mine \subseteq DOMAIN Files, \A f \in mine : HasStatement(f),
           \A f \in mine, u \in Cashiers : cashier[u].op = "decided" => cashier[u].file # f,
           statement' = [f \in DOMAIN Files |-> IF f \in mine THEN NoStatement ELSE statement[f]],
           decided' = {d \in decided : \A f \in mine : d.of # statement[f].id},
           settled' = settled, \A u \in Cashiers : cashier'[u] \in {cashier[u], Waiting}
    PROVE  StatementsInv'
<1>1. \A g \in DOMAIN Files : HasStatement(g)' <=> HasStatement(g) /\ g \notin mine
  BY DEF HasStatement
<1>2. \A g \in DOMAIN Files : HasStatement(g) /\ g \notin mine =>
          statement'[g] = statement[g] /\ \A l : DecisionsOn(statement[g].id, l)' = DecisionsOn(statement[g].id, l)
  BY DEF StatementsInv, StatementsKept, DecisionsOn
<1>3. StatementsKept'
  BY <1>1, <1>2 DEF StatementsInv, StatementsKept
<1>4. PapersStand'
  <2>1. ASSUME NEW u \in Cashiers, NEW c, c = cashier[u], c.op = "decided", BatchStands(c)
        PROVE  BatchStands(c)'
    <3>1. c.file \in DOMAIN Files \ mine /\ HasStatement(c.file) /\ statement[c.file].id = c.id
      BY <2>1 DEF StatementsInv, PapersStand, PaperKept, BatchStands
    <3>2. HasStatement(c.file)' /\ statement'[c.file] = statement[c.file]
          /\ \A l : DecisionsOn(c.id, l)' = DecisionsOn(c.id, l)
      BY <1>1, <1>2, <3>1
    <3>. QED BY <2>1, <3>2 DEF BatchStands, StatementLines
  <2>. QED BY <2>1, PapersGoOn DEF StatementsInv
<1>5. ReconciledHasReason' /\ ReconciledIsDecided'
  <2>1. \A id, l : PaidFor(id, l)' = PaidFor(id, l)
    BY DEF PaidFor
  <2>. SUFFICES ASSUME NEW g \in DOMAIN Files, NEW id, HasStatement(g)', id = statement'[g].id,
                       NEW l \in StatementLines(g)'
                PROVE  /\ statement'[g].line[l].reconciled =>
                              (\E d \in DecisionsOn(id, l)' : d.status = "matched") \/ PaidFor(id, l)'
                       /\ statement'[g].status = "reconciled" => DecisionsOn(id, l)' # {}
    BY BackedLater
  <2>2. /\ HasStatement(g) /\ statement'[g] = statement[g] /\ l \in StatementLines(g)
        /\ DecisionsOn(id, l)' = DecisionsOn(id, l)
    BY <1>1, <1>2 DEF StatementLines
  <2>3. /\ statement[g].line[l].reconciled =>
                (\E d \in DecisionsOn(id, l) : d.status = "matched") \/ PaidFor(id, l)
        /\ statement[g].status = "reconciled" => DecisionsOn(id, l) # {}
    BY <2>2, BackedBefore
  <2>. QED BY <2>1, <2>2, <2>3
<1>. QED BY <1>3, <1>4, <1>5 DEF StatementsInv

(* BeginReconcile notes the decisions it will delete, which are on its own    *)
(* lines.                                                                     *)
LEMMA ReconcileBegins ==
    ASSUME BankInv, StatementsInv, NEW u \in Cashiers, NEW f \in DOMAIN Files,
           NEW lines \in SUBSET StatementLines(f), NEW status \in MatchStatuses,
           BeginReconcile(u, f, [l \in lines |-> status])
    PROVE  StatementsInv'
<1>. DEFINE decisions == [l \in lines |-> status]
            id == statement[f].id
            doomed == UNION {DecisionsOn(id, l) : l \in DOMAIN decisions}
            work == [op |-> "reconcile", file |-> f, id |-> id, decisions |-> decisions, doomed |-> doomed]
<1>1. /\ HasStatement(f) /\ cashier' = [cashier EXCEPT ![u] = work]
      /\ UNCHANGED <<statement, decided, settled>>
  BY DEF BeginReconcile, Take, bookOfStatements, BankInv, LocksHold
<1>2. id \in 1..MaxRows /\ lines \subseteq AllLines
  BY <1>1 DEF StatementsInv, StatementsKept, StatementKept, StatementLines
<1>3. \A d \in doomed : d.of = id /\ d.line \in DOMAIN decisions
  BY DEF DecisionsOn
<1>. HIDE DEF id, doomed
<1>4. PaperKept(work) /\ work.op = "reconcile"
  BY <1>2, <1>3 DEF PaperKept
<1>. HIDE DEF work
<1>. QED BY <1>1, <1>4, PaperWork

(* What has an id is a statement.                                             *)
LEMMA FileHasId ==
    ASSUME NEW row, row.id \in 1..MaxRows PROVE row # NoStatement
BY TreasuryAssumption DEF NoStatement

(* DecideLines: a batch that finds no line undecided has seen a decision on   *)
(* each other line.                                                           *)
LEMMA LinesDecided ==
    ASSUME BankInv, StatementsInv, NEW u \in Cashiers, DecideLines(u) PROVE StatementsInv'
<1>1. PICK r : r = cashier[u]
  OBVIOUS
<1>. DEFINE done == Undecided(r.file, r.id, r.decisions, decided \ r.doomed) = {}
            work == [op |-> "decided", file |-> r.file, id |-> r.id, decisions |-> r.decisions, doomed |-> r.doomed,
                     allDone |-> done]
<1>2. /\ r.op = "reconcile" /\ statement[r.file].id = r.id
      /\ cashier' = [cashier EXCEPT ![u] = work] /\ UNCHANGED <<statement, decided, settled>>
  BY <1>1 DEF DecideLines, bookOfStatements
<1>3. PaperKept(r)
  BY <1>1 DEF StatementsInv, PapersStand
<1>4. HasStatement(r.file)
  BY <1>2, <1>3 DEF PaperKept, HasStatement, NoStatement
<1>5. done => \A l \in StatementLines(r.file) \ DOMAIN r.decisions : DecisionsOn(r.id, l) # {}
  BY DEF Undecided, DecisionsOn
<1>. HIDE DEF done
<1>6. PaperKept(work) /\ work.op = "decided" /\ BatchStands(work)
  BY <1>2, <1>3, <1>4, <1>5 DEF PaperKept, BatchStands
<1>. HIDE DEF work
<1>. QED BY <1>2, <1>6, PaperWork

\* What reconcile leaves of the decisions on a line.
LEMMA DecisionsAfter ==
    ASSUME BankInv, StatementsInv, NEW u \in Cashiers, Reconcile(u), NEW id, NEW l
    PROVE  LET r == cashier[u]
               mine == id = r.id /\ l \in DOMAIN r.decisions
           IN  /\ mine => \E d \in DecisionsOn(id, l)' : d.status = r.decisions[l]
               /\ ~mine => DecisionsOn(id, l) \subseteq DecisionsOn(id, l)'
<1>. DEFINE r == cashier[u]
            last == Max({d.n : d \in decided} \cup {0})
<1>1. decided' = (decided \ r.doomed)
          \cup {[n |-> last + 1, of |-> r.id, line |-> k, status |-> r.decisions[k]] : k \in DOMAIN r.decisions}
  BY DEF Reconcile
<1>2. \A d \in r.doomed : d.of = r.id /\ d.line \in DOMAIN r.decisions
  BY DEF StatementsInv, PapersStand, PaperKept, Reconcile
<1>3. ASSUME id = r.id, l \in DOMAIN r.decisions
      PROVE  \E d \in DecisionsOn(id, l)' : d.status = r.decisions[l]
  <2>. DEFINE d == [n |-> last + 1, of |-> r.id, line |-> l, status |-> r.decisions[l]]
  <2>1. d \in decided' /\ d.of = id /\ d.line = l /\ d.status = r.decisions[l]
    BY <1>1, <1>3
  <2>. HIDE DEF d
  <2>. QED BY <2>1 DEF DecisionsOn
<1>4. ASSUME ~(id = r.id /\ l \in DOMAIN r.decisions)
      PROVE  DecisionsOn(id, l) \subseteq DecisionsOn(id, l)'
  BY <1>1, <1>2, <1>4 DEF DecisionsOn
<1>. QED BY <1>3, <1>4

(* A marked line is a line.                                                   *)
LEMMA LineMarked ==
    ASSUME NEW x, LineKept(x), NEW reconciled, NEW by
    PROVE  LineKept(Marked(x, reconciled, by)) /\ Marked(x, reconciled, by).reconciled = reconciled
BY DEF LineKept, IsRecord, Marked

(* What a batch writes of its statement.                                      *)
LEMMA StatementReconciled ==
    ASSUME NEW row, StatementKept(row), NEW r
    PROVE  LET new == Reconciled(row, r) IN
           /\ StatementKept(new) /\ new.id = row.id /\ DOMAIN new.line = DOMAIN row.line
           /\ new.status = (IF r.allDone THEN "reconciled" ELSE row.status)
           /\ \A l \in DOMAIN row.line :
                new.line[l].reconciled =
                    (IF l \in DOMAIN r.decisions THEN r.decisions[l] = "matched" ELSE row.line[l].reconciled)
<1>. DEFINE matched(l) == r.decisions[l] = "matched"
            lines == DOMAIN r.decisions
            status == IF r.allDone THEN "reconciled" ELSE row.status
            imported == IF row.import = "none" THEN "none" ELSE IF r.allDone THEN "reconciled" ELSE "imported"
            count == IF row.import = "none" THEN row.matched ELSE Cardinality({l \in lines : matched(l)})
            line == [l \in DOMAIN row.line |->
                        IF l \in lines
                        THEN Marked(row.line[l], IsMatched(r.decisions[l]), IF matched(l) THEN "transaction" ELSE "none")
                        ELSE row.line[l]]
            new == [row EXCEPT !.status = status, !.import = imported, !.matched = count, !.line = line]
<1>1. Reconciled(row, r) = new
  BY DEF Reconciled
<1>2. \A l \in DOMAIN row.line : LineKept(row.line[l])
  BY DEF StatementKept
<1>3. ASSUME NEW l \in DOMAIN row.line
      PROVE  /\ LineKept(line[l])
             /\ line[l].reconciled = (IF l \in lines THEN r.decisions[l] = "matched" ELSE row.line[l].reconciled)
  BY <1>2, LineMarked DEF IsMatched
<1>4. line = [l \in DOMAIN line |-> line[l]] /\ DOMAIN line = DOMAIN row.line
  OBVIOUS
<1>. HIDE DEF line, status, imported, count
<1>5. /\ new.id = row.id /\ new.line = line /\ new.status = status
      /\ IsRecord(new, {"id", "status", "matched", "line", "import"})
  BY DEF StatementKept, IsRecord
<1>. HIDE DEF new
<1>6. row.id \in 1..MaxRows /\ DOMAIN row.line \subseteq AllLines
  BY DEF StatementKept
<1>7. StatementKept(new)
  BY <1>3, <1>4, <1>5, <1>6 DEF StatementKept
<1>. QED BY <1>1, <1>3, <1>4, <1>5, <1>7 DEF status

(* What the step of a batch writes, by its parts.                             *)
LEMMA ReconcileWrites ==
    ASSUME BankInv, StatementsInv, NEW u \in Cashiers, NEW r, r = cashier[u], Reconcile(u)
    PROVE  /\ r.op = "decided" /\ PaperKept(r) /\ BatchStands(r)
           /\ statement' = [statement EXCEPT ![r.file] = Reconciled(statement[r.file], r)]
           /\ settled' = settled /\ \A v \in Cashiers : cashier'[v] = IF v = u THEN Waiting ELSE cashier[v]
BY DEF Reconcile, Leave, StatementsInv, PapersStand, BankInv, LocksHold

(* Decisions keep their type.                                                 *)
LEMMA DecisionsTyped ==
    ASSUME BankInv, StatementsInv, NEW u \in Cashiers, Reconcile(u) PROVE decided' \subseteq Decision
<1>1. PICK r : r = cashier[u]
  OBVIOUS
<1>. DEFINE last == Max({d.n : d \in decided} \cup {0})
<1>2. /\ last < MaxRows
      /\ decided' = (decided \ r.doomed)
             \cup {[n |-> last + 1, of |-> r.id, line |-> l, status |-> r.decisions[l]] : l \in DOMAIN r.decisions}
  BY <1>1 DEF Reconcile
<1>3. decided \subseteq Decision
  BY DEF StatementsInv, StatementsKept
<1>4. last + 1 \in 1..MaxRows
  <2>0. MaxRows \in Nat
    BY TreasuryAssumption
  <2>1. {d.n : d \in decided} \cup {0} \subseteq 0..MaxRows
    BY <1>3, <2>0 DEF Decision
  <2>2. IsFiniteSet(0..MaxRows)
    BY <2>0, FS_Interval
  <2>3. IsFiniteSet({d.n : d \in decided} \cup {0})
    BY <2>1, <2>2, FS_Subset
  <2>4. last \in {d.n : d \in decided} \cup {0}
    <3>1. \A x \in {d.n : d \in decided} \cup {0} : x \in Int
      BY <2>1
    <3>. QED BY <2>3, <3>1, MaxOf
  <2>5. last \in 0..MaxRows /\ last < MaxRows
    BY <1>2, <2>1, <2>4
  <2>. HIDE DEF last
  <2>. QED BY <2>0, <2>5
<1>5. r.id \in 1..MaxRows /\ DOMAIN r.decisions \subseteq AllLines
      /\ \A l \in DOMAIN r.decisions : r.decisions[l] \in MatchStatuses
  BY <1>1, ReconcileWrites DEF PaperKept
<1>. HIDE DEF last
<1>. QED BY <1>2, <1>3, <1>4, <1>5 DEF Decision

(* Reconcile writes the decisions that its lines and its statement rest on,   *)
(* and takes away only decisions it replaces.                                 *)
LEMMA BatchReconciled ==
    ASSUME BankInv, StatementsInv, NEW u \in Cashiers, Reconcile(u) PROVE StatementsInv'
<1>1. PICK r : r = cashier[u]
  OBVIOUS
<1>2. /\ r.op = "decided" /\ PaperKept(r) /\ BatchStands(r) /\ r.file \in DOMAIN Files
      /\ statement' = [statement EXCEPT ![r.file] = Reconciled(statement[r.file], r)]
      /\ settled' = settled /\ \A v \in Cashiers : cashier'[v] = IF v = u THEN Waiting ELSE cashier[v]
  BY <1>1, ReconcileWrites DEF PaperKept
<1>. DEFINE f == r.file
            new == Reconciled(statement[f], r)
<1>3. /\ statement = [g \in DOMAIN Files |-> statement[g]] /\ StatementKept(statement[f])
      /\ statement[f].id = r.id /\ HasStatement(f)
  BY <1>2 DEF StatementsInv, StatementsKept, BatchStands
<1>4. /\ statement' = [g \in DOMAIN Files |-> statement'[g]] /\ statement'[f] = new
      /\ \A g \in DOMAIN Files \ {f} : statement'[g] = statement[g]
  BY <1>2, <1>3
<1>5. /\ StatementKept(new) /\ new.id = r.id /\ DOMAIN new.line = StatementLines(f)
      /\ new.status = (IF r.allDone THEN "reconciled" ELSE statement[f].status)
      /\ \A l \in StatementLines(f) :
            new.line[l].reconciled =
                (IF l \in DOMAIN r.decisions THEN r.decisions[l] = "matched" ELSE statement[f].line[l].reconciled)
  BY <1>3, StatementReconciled DEF StatementLines
<1>6. \A id, l :
        /\ id = r.id /\ l \in DOMAIN r.decisions => \E d \in DecisionsOn(id, l)' : d.status = r.decisions[l]
        /\ ~(id = r.id /\ l \in DOMAIN r.decisions) => DecisionsOn(id, l) \subseteq DecisionsOn(id, l)'
        /\ DecisionsOn(id, l) # {} => DecisionsOn(id, l)' # {}
  BY <1>1, DecisionsAfter
<1>7. \A id, l : PaidFor(id, l)' = PaidFor(id, l)
  BY <1>2 DEF PaidFor
<1>. HIDE DEF new
<1>8. \A g \in DOMAIN Files : HasStatement(g)' => HasStatement(g)
  BY <1>3, <1>4 DEF HasStatement
<1>9. StatementsKept'
  <2>1. \A g \in DOMAIN Files : HasStatement(g)' => StatementKept(statement'[g]) /\ statement'[g].id = statement[g].id
    BY <1>3, <1>4, <1>5, <1>8 DEF StatementsInv, StatementsKept, HasStatement
  <2>. QED BY <1>2, <1>4, <1>8, <2>1, DecisionsTyped DEF StatementsInv, StatementsKept
<1>10. PapersStand'
  <2>1. ASSUME NEW v \in Cashiers, NEW c, c = cashier[v], c.op = "decided", BatchStands(c) PROVE BatchStands(c)'
    <3>1. c.file \in DOMAIN Files /\ HasStatement(c.file) /\ statement[c.file].id = c.id
      BY <2>1 DEF BatchStands, StatementsInv, PapersStand, PaperKept
    <3>2. HasStatement(c.file)' /\ statement'[c.file].id = c.id /\ StatementLines(c.file)' = StatementLines(c.file)
      <4>1. CASE c.file = f
        <5>1. new # NoStatement
          BY <1>5, FileHasId DEF StatementKept
        <5>2. statement'[c.file] = new /\ c.id = r.id
          BY <1>3, <1>4, <3>1, <4>1
        <5>. QED BY <1>5, <4>1, <5>1, <5>2 DEF HasStatement, StatementLines
      <4>2. CASE c.file # f
        BY <1>4, <3>1, <4>2 DEF HasStatement, StatementLines
      <4>. QED BY <4>1, <4>2
    <3>. QED BY <1>6, <2>1, <3>2 DEF BatchStands
  <2>. QED BY <1>2, <2>1, PapersGoOn DEF StatementsInv
<1>11. ReconciledHasReason' /\ ReconciledIsDecided'
  <2>. SUFFICES ASSUME NEW g \in DOMAIN Files, NEW id, HasStatement(g)', id = statement'[g].id,
                       NEW l \in StatementLines(g)'
                PROVE  /\ statement'[g].line[l].reconciled =>
                              (\E d \in DecisionsOn(id, l)' : d.status = "matched") \/ PaidFor(id, l)'
                       /\ statement'[g].status = "reconciled" => DecisionsOn(id, l)' # {}
    BY BackedLater
  <2>1. CASE g = f
    <3>1. id = r.id /\ l \in StatementLines(f)
      BY <1>4, <1>5, <2>1 DEF StatementLines
    <3>2. /\ statement[f].line[l].reconciled =>
                  (\E d \in DecisionsOn(id, l) : d.status = "matched") \/ PaidFor(id, l)
          /\ statement[f].status = "reconciled" => DecisionsOn(id, l) # {}
      BY <1>2, <1>3, <3>1, BackedBefore
    <3>3. CASE l \in DOMAIN r.decisions
      <4>1. \E d \in DecisionsOn(id, l)' : d.status = r.decisions[l]
        BY <1>6, <3>1, <3>3
      <4>2. statement'[g].line[l].reconciled = (r.decisions[l] = "matched")
        BY <1>4, <1>5, <2>1, <3>1, <3>3
      <4>3. DecisionsOn(id, l)' # {}
        BY <4>1
      <4>. QED BY <4>1, <4>2, <4>3
    <3>4. CASE l \notin DOMAIN r.decisions
      <4>1. r.allDone => DecisionsOn(id, l) # {}
        BY <1>2, <3>1, <3>4 DEF BatchStands
      <4>. QED BY <1>4, <1>5, <1>6, <1>7, <2>1, <3>1, <3>2, <3>4, <4>1
    <3>. QED BY <3>3, <3>4
  <2>2. CASE g # f
    <3>1. HasStatement(g) /\ statement'[g] = statement[g] /\ id # r.id
      BY <1>2, <1>3, <1>4, <1>8, <2>2 DEF StatementsInv, StatementsKept
    <3>2. l \in StatementLines(g)
      BY <3>1 DEF StatementLines
    <3>3. /\ statement[g].line[l].reconciled =>
                  (\E d \in DecisionsOn(id, l) : d.status = "matched") \/ PaidFor(id, l)
          /\ statement[g].status = "reconciled" => DecisionsOn(id, l) # {}
      BY <3>1, <3>2, BackedBefore
    <3>. QED BY <1>6, <1>7, <3>1, <3>3
  <2>. QED BY <2>1, <2>2
<1>. QED BY <1>9, <1>10, <1>11 DEF StatementsInv

\* What marks a line paid for.
LEMMA LineMatched ==
    ASSUME BankInv, StatementsInv, NEW u \in Cashiers, MarkMatched(u) PROVE StatementsInv'
<1>1. PICK c : c = cashier[u]
  OBVIOUS
<1>. DEFINE f == c.file
            row == statement[f]
            line == [row.line EXCEPT ![c.line] = Marked(row.line[c.line], TRUE, "entry")]
            new == [row EXCEPT !.line = line]
<1>2. /\ c.op = "paid" /\ PaperKept(c) /\ PaidFor(c.id, c.line) /\ f \in DOMAIN Files /\ c.id \in 1..MaxRows
      /\ UNCHANGED <<decided, settled>> /\ cashier' = [cashier EXCEPT ![u] = Waiting]
      /\ statement' = IF row.id # c.id THEN statement
                      ELSE [statement EXCEPT ![f].line = line]
  BY <1>1 DEF MarkMatched, Leave, StatementsInv, PapersStand, PaperKept
<1>3. CASE row.id # c.id
  BY <1>2, <1>3, NoPaperWork DEF Waiting
<1>4. CASE row.id = c.id
  <2>1. HasStatement(f) /\ StatementKept(row) /\ statement = [g \in DOMAIN Files |-> statement[g]]
    BY <1>2, <1>4, FileHasId DEF HasStatement, NoStatement, StatementsInv, StatementsKept
  <2>2. statement' = [statement EXCEPT ![f] = new]
    BY <1>2, <1>4
  <2>3. \A l \in DOMAIN row.line : LineKept(row.line[l]) /\ LineKept(Marked(row.line[l], TRUE, "entry"))
    BY <2>1, LineMarked DEF StatementKept
  <2>4. /\ DOMAIN line = DOMAIN row.line /\ line = [l \in DOMAIN line |-> line[l]]
        /\ \A l \in DOMAIN line : /\ LineKept(line[l])
                                  /\ l # c.line => line[l] = row.line[l]
    BY <2>1, <2>3 DEF StatementKept
  <2>. HIDE DEF line
  <2>5. /\ new.id = row.id /\ new.status = row.status /\ new.line = line
        /\ IsRecord(new, {"id", "status", "matched", "line", "import"})
    BY <2>1 DEF StatementKept, IsRecord
  <2>. HIDE DEF new
  <2>6. StatementKept(new)
    BY <2>1, <2>4, <2>5 DEF StatementKept
  <2>7. /\ statement' = [g \in DOMAIN Files |-> statement'[g]] /\ statement'[f] = new
        /\ \A g \in DOMAIN Files \ {f} : statement'[g] = statement[g]
    BY <1>2, <2>1, <2>2
  <2>8. \A g \in DOMAIN Files : HasStatement(g)' => /\ HasStatement(g) /\ statement'[g].id = statement[g].id
                                                    /\ statement'[g].status = statement[g].status
                                                    /\ StatementLines(g)' = StatementLines(g)
                                                    /\ \A l \in StatementLines(g) :
                                                          statement'[g].line[l] = statement[g].line[l]
                                                            \/ (l = c.line /\ statement[g].id = c.id)
    BY <1>4, <2>1, <2>4, <2>5, <2>7 DEF HasStatement, StatementLines
  <2>9. \A id, l : PaidFor(id, l)' = PaidFor(id, l) /\ DecisionsOn(id, l)' = DecisionsOn(id, l)
    BY <1>2 DEF PaidFor, DecisionsOn
  <2>10. StatementsKept'
    <3>1. \A g \in DOMAIN Files : HasStatement(g)' => StatementKept(statement'[g])
      BY <2>6, <2>7, <2>8 DEF StatementsInv, StatementsKept
    <3>2. \A g, h \in DOMAIN Files : HasStatement(g)' /\ HasStatement(h)' /\ g # h => statement'[g].id # statement'[h].id
      <4>1. \A g, h \in DOMAIN Files : HasStatement(g) /\ HasStatement(h) /\ g # h => statement[g].id # statement[h].id
        BY DEF StatementsInv, StatementsKept
      <4>. QED BY <2>8, <4>1
    <3>. QED BY <1>2, <2>7, <3>1, <3>2 DEF StatementsInv, StatementsKept
  <2>11. PapersStand'
    <3>1. ASSUME NEW v \in Cashiers, NEW p, p = cashier[v], p.op = "decided", BatchStands(p) PROVE BatchStands(p)'
      <4>1. p.file \in DOMAIN Files /\ HasStatement(p.file) /\ statement[p.file].id = p.id
        BY <3>1 DEF BatchStands, StatementsInv, PapersStand, PaperKept
      <4>2. HasStatement(p.file)'
        <5>1. CASE p.file = f
          <6>1. new # NoStatement
            BY <2>6, FileHasId DEF StatementKept
          <6>. QED BY <2>7, <5>1, <6>1 DEF HasStatement
        <5>2. CASE p.file # f
          BY <2>7, <4>1, <5>2 DEF HasStatement
        <5>. QED BY <5>1, <5>2
      <4>. QED BY <2>8, <2>9, <3>1, <4>1, <4>2 DEF BatchStands
    <3>2. \A v \in Cashiers : cashier'[v] \in {cashier[v], Waiting}
      BY <1>2 DEF BankInv, LocksHold
    <3>. QED BY <1>2, <3>1, <3>2, PapersGoOn DEF StatementsInv
  <2>12. ReconciledHasReason' /\ ReconciledIsDecided'
    <3>. SUFFICES ASSUME NEW g \in DOMAIN Files, NEW id, HasStatement(g)', id = statement'[g].id,
                         NEW l \in StatementLines(g)'
                  PROVE  /\ statement'[g].line[l].reconciled =>
                                (\E d \in DecisionsOn(id, l)' : d.status = "matched") \/ PaidFor(id, l)'
                         /\ statement'[g].status = "reconciled" => DecisionsOn(id, l)' # {}
      BY BackedLater
    <3>1. HasStatement(g) /\ id = statement[g].id /\ l \in StatementLines(g)
      BY <2>8
    <3>2. /\ statement[g].line[l].reconciled =>
                  (\E d \in DecisionsOn(id, l) : d.status = "matched") \/ PaidFor(id, l)
          /\ statement[g].status = "reconciled" => DecisionsOn(id, l) # {}
      BY <3>1, BackedBefore
    <3>. QED BY <1>2, <2>8, <2>9, <3>1, <3>2
  <2>. QED BY <2>10, <2>11, <2>12 DEF StatementsInv
<1>. QED BY <1>3, <1>4

(* BeginConfirm notes a line of a statement there is.                         *)
LEMMA ConfirmBegins ==
    ASSUME BankInv, StatementsInv, NEW u \in Cashiers, NEW f \in DOMAIN Files, NEW l \in StatementLines(f),
           BeginConfirm(u, f, l)
    PROVE  StatementsInv'
<1>. DEFINE id == statement[f].id
            work == [op |-> "confirm", file |-> f, id |-> id, line |-> l]
<1>1. HasStatement(f) /\ cashier' = [cashier EXCEPT ![u] = work] /\ UNCHANGED <<statement, decided, settled>>
  BY DEF BeginConfirm, Take, bookOfStatements
<1>2. id \in 1..MaxRows /\ l \in AllLines
  BY <1>1 DEF StatementsInv, StatementsKept, StatementKept, StatementLines
<1>. HIDE DEF id
<1>3. PaperKept(work) /\ work.op = "confirm"
  BY <1>2 DEF PaperKept
<1>. HIDE DEF work
<1>. QED BY <1>1, <1>3, PaperWork

(* PayMatch adds a payment, and takes nothing back.                           *)
LEMMA MatchPaid ==
    ASSUME BankInv, StatementsInv, NEW u \in Cashiers, PayMatch(u) PROVE StatementsInv'
<1>1. PICK c : c = cashier[u]
  OBVIOUS
<1>. DEFINE payment == [file |-> c.file, of |-> c.id, line |-> c.line]
            paid == [c EXCEPT !.op = "paid"]
<1>2. /\ c.op = "confirm" /\ PaperKept(c) /\ UNCHANGED <<statement, decided>>
      /\ settled' = Append(settled, payment) /\ cashier' = [cashier EXCEPT ![u].op = "paid"]
  BY <1>1 DEF PayMatch, StatementsInv, PapersStand
<1>3. payment \in PaymentRow
  BY <1>2 DEF PaperKept, PaymentRow
<1>4. settled \in Seq(PaymentRow)
  BY DEF StatementsInv, StatementsKept
<1>. HIDE DEF payment
<1>5. /\ settled' \in Seq(PaymentRow) /\ settled'[Len(settled) + 1] = payment /\ Len(settled) + 1 \in DOMAIN settled'
      /\ \A i \in DOMAIN settled : i \in DOMAIN settled' /\ settled'[i] = settled[i]
  BY <1>2, <1>3, <1>4 DEF PaymentRow
<1>6. \A v \in Cashiers : cashier'[v] = IF v = u THEN paid ELSE cashier[v]
  BY <1>1, <1>2 DEF BankInv, LocksHold
<1>7. StatementsKept'
  BY <1>2, <1>5 DEF StatementsInv, StatementsKept, HasStatement, PaymentRow
<1>8. \A id, l : PaidFor(id, l) => PaidFor(id, l)'
  BY <1>5 DEF PaidFor
<1>9. PaidFor(c.id, c.line)'
  <2>1. payment.of = c.id /\ payment.line = c.line
    BY DEF payment
  <2>. QED BY <1>5, <2>1 DEF PaidFor
<1>10. PapersStand'
  <2>1. \A x : BatchStands(x)' = BatchStands(x)
    BY <1>2 DEF BatchStands, HasStatement, StatementLines, DecisionsOn
  <2>2. PaperKept(paid) /\ paid.op # "decided" /\ paid.id = c.id /\ paid.line = c.line
    BY <1>1, <1>2 DEF PaperKept, BankInv, LocksHold
  <2>. HIDE DEF paid
  <2>. QED BY <1>6, <1>8, <1>9, <2>1, <2>2, PapersLater DEF StatementsInv, PapersStand
<1>11. ReconciledHasReason' /\ ReconciledIsDecided'
  <2>1. \A id, l : DecisionsOn(id, l)' = DecisionsOn(id, l)
    BY <1>2 DEF DecisionsOn
  <2>. SUFFICES ASSUME NEW g \in DOMAIN Files, NEW id, HasStatement(g)', id = statement'[g].id,
                       NEW l \in StatementLines(g)'
                PROVE  /\ statement'[g].line[l].reconciled =>
                              (\E d \in DecisionsOn(id, l)' : d.status = "matched") \/ PaidFor(id, l)'
                       /\ statement'[g].status = "reconciled" => DecisionsOn(id, l)' # {}
    BY BackedLater
  <2>2. HasStatement(g) /\ id = statement[g].id /\ l \in StatementLines(g)
    BY <1>2 DEF HasStatement, StatementLines
  <2>3. /\ statement[g].line[l].reconciled =>
                (\E d \in DecisionsOn(id, l) : d.status = "matched") \/ PaidFor(id, l)
        /\ statement[g].status = "reconciled" => DecisionsOn(id, l) # {}
    BY <2>2, BackedBefore
  <2>. QED BY <1>2, <1>8, <2>1, <2>3
<1>. QED BY <1>7, <1>10, <1>11 DEF StatementsInv

(* A step that touches none of this keeps it.                                 *)
LEMMA StatementsUntouched ==
    ASSUME StatementsInv, UNCHANGED <<statement, decided, settled, cashier>> PROVE StatementsInv'
<1>1. StatementsKept'
  BY DEF StatementsInv, StatementsKept, HasStatement
<1>2. PapersStand'
  BY DEF StatementsInv, PapersStand, BatchStands, PaidFor, HasStatement, StatementLines, DecisionsOn
<1>3. ReconciledHasReason' /\ ReconciledIsDecided'
  BY DEF StatementsInv, ReconciledHasReason, ReconciledIsDecided, HasStatement, StatementLines, DecisionsOn
<1>. QED BY <1>1, <1>2, <1>3 DEF StatementsInv

(* A request on accounts takes statements away only with what rests on them.  *)
LEMMA AccountsKeepStatements ==
    ASSUME BankInv, StatementsInv, NEW u \in Cashiers, AccountStep(u) PROVE StatementsInv'
<1>1. ASSUME NEW a \in BankIds, BeginRemoval(u, a) PROVE StatementsInv'
  <2>. DEFINE work == [op |-> "remove", account |-> a, used |-> HasHistory(a)]
  <2>1. cashier' = [cashier EXCEPT ![u] = work] /\ UNCHANGED <<statement, decided, settled>> /\ work.op \notin {"reconcile", "decided", "confirm", "paid"}
    BY <1>1 DEF BeginRemoval, Take, bookOfStatements
  <2>. HIDE DEF work
  <2>. QED BY <2>1, NoPaperWork
<1>2. ASSUME NEW a \in BankIds, NEW amount, BeginMovement(u, a, amount) PROVE StatementsInv'
  <2>. DEFINE work == [op |-> "move", amount |-> amount, read |-> [x \in {a} |-> bank[x]]]
  <2>1. cashier' = [cashier EXCEPT ![u] = work] /\ UNCHANGED <<statement, decided, settled>> /\ work.op \notin {"reconcile", "decided", "confirm", "paid"}
    BY <1>2 DEF BeginMovement, Take, bookOfStatements
  <2>. HIDE DEF work
  <2>. QED BY <2>1, NoPaperWork
<1>3. ASSUME NEW a \in BankIds, NEW b \in BankIds, NEW amount, BeginTransfer(u, a, b, amount) PROVE StatementsInv'
  <2>1. PICK x \in {a, b} : cashier' = [cashier EXCEPT ![u] =
            [op |-> "transfer", from |-> a, to |-> b, amount |-> amount, read |-> [y \in {x} |-> bank[y]]]]
    BY <1>3 DEF BeginTransfer, Take
  <2>. QED BY <1>3, <2>1, NoPaperWork DEF BeginTransfer, bookOfStatements
<1>4. CASE RecordMovement(u) \/ RecordTransfer(u)
  BY <1>4, NoPaperWork DEF RecordMovement, RecordTransfer, Leave, Waiting, bookOfStatements
<1>5. CASE LockOther(u)
  <2>1. UNCHANGED <<statement, decided, settled>>
    BY <1>5 DEF LockOther, bookOfStatements
  <2>2. \E read : cashier' = [cashier EXCEPT ![u].read = read]
    <3>1. ASSUME NEW a, NEW read, cashier' = [cashier EXCEPT ![u].read = read]
          PROVE  \E rd : cashier' = [cashier EXCEPT ![u].read = rd]
      BY <3>1
    <3>. QED BY <1>5, <3>1, Zenon DEF LockOther
  <2>3. PICK read : cashier' = [cashier EXCEPT ![u].read = read]
    BY <2>2
  <2>4. cashier[u] \in Transfer /\ cashier[u].op = "transfer" /\ cashier = [v \in Cashiers |-> cashier[v]]
    BY <1>5 DEF LockOther, BankInv, LocksHold, CashierOK
  <2>. DEFINE work == [cashier[u] EXCEPT !.read = read]
  <2>5. work.op \notin {"reconcile", "decided", "confirm", "paid"} /\ cashier' = [cashier EXCEPT ![u] = work]
    BY <2>3, <2>4 DEF Transfer
  <2>. HIDE DEF work
  <2>. QED BY <2>1, <2>5, NoPaperWork
<1>6. CASE FinishRemoval(u)
  <2>. DEFINE a == cashier[u].account
              mine == {f \in DOMAIN Files : Files[f].account = a /\ HasStatement(f)}
  <2>1. CASE UNCHANGED <<statement, decided>>
    BY <1>6, <2>1, NoPaperWork DEF FinishRemoval, Leave, Waiting
  <2>2. CASE ~UNCHANGED <<statement, decided>>
    <3>1. /\ \A f \in mine, v \in Cashiers : cashier[v].op = "decided" => cashier[v].file # f
          /\ statement' = [f \in DOMAIN Files |-> IF f \in mine THEN NoStatement ELSE statement[f]]
          /\ decided' = {d \in decided : \A f \in mine : d.of # statement[f].id}
          /\ settled' = settled /\ cashier' = [cashier EXCEPT ![u] = Waiting]
      BY <1>6, <2>2 DEF FinishRemoval, Leave
    <3>2. \A v \in Cashiers : cashier'[v] \in {cashier[v], Waiting}
      BY <3>1 DEF BankInv, LocksHold
    <3>3. mine \subseteq DOMAIN Files /\ \A f \in mine : HasStatement(f)
      OBVIOUS
    <3>. HIDE DEF mine
    <3>. QED BY <3>1, <3>2, <3>3, StatementsGone
  <2>. QED BY <2>1, <2>2
<1>. QED BY <1>1, <1>2, <1>3, <1>4, <1>5, <1>6 DEF AccountStep

(* deleteStatement takes the decisions on the lines with it.                  *)
LEMMA StatementDeleted ==
    ASSUME BankInv, StatementsInv, NEW f \in DOMAIN Files, DeleteStatement(f) PROVE StatementsInv'
<1>1. /\ HasStatement(f) /\ statement' = [statement EXCEPT ![f] = NoStatement]
      /\ \A u \in Cashiers : cashier[u].op = "decided" => cashier[u].file # f
      /\ decided' = {d \in decided : d.of # statement[f].id} /\ UNCHANGED <<settled, cashier>>
  BY DEF DeleteStatement
<1>2. /\ statement' = [g \in DOMAIN Files |-> IF g \in {f} THEN NoStatement ELSE statement[g]]
      /\ decided' = {d \in decided : \A g \in {f} : d.of # statement[g].id}
  BY <1>1 DEF StatementsInv, StatementsKept
<1>3. \A u \in Cashiers : cashier'[u] \in {cashier[u], Waiting}
  BY <1>1
<1>. DEFINE mine == {f}
<1>4. /\ mine \subseteq DOMAIN Files /\ \A g \in mine : HasStatement(g)
      /\ \A g \in mine, u \in Cashiers : cashier[u].op = "decided" => cashier[u].file # g
      /\ statement' = [g \in DOMAIN Files |-> IF g \in mine THEN NoStatement ELSE statement[g]]
      /\ decided' = {d \in decided : \A g \in mine : d.of # statement[g].id} /\ settled' = settled
  BY <1>1, <1>2
<1>. HIDE DEF mine
<1>. QED BY <1>3, <1>4, StatementsGone

(* No statement is there at the start.                                        *)
LEMMA StatementsInit == TreasuryInit => StatementsInv
<1>. SUFFICES ASSUME TreasuryInit PROVE StatementsInv
  OBVIOUS
<1>1. StatementsKept /\ ReconciledHasReason /\ ReconciledIsDecided
  BY DEF TreasuryInit, StatementsKept, ReconciledHasReason, ReconciledIsDecided, HasStatement
<1>2. PapersStand
  BY DEF TreasuryInit, PapersStand, PaperKept, Waiting
<1>. QED BY <1>1, <1>2 DEF StatementsInv

(* Every step keeps what statements say backed.                               *)
LEMMA StatementsStep == BankInv /\ StatementsInv /\ [TreasuryNext]_treasuryVars => StatementsInv'
<1>. SUFFICES ASSUME BankInv, StatementsInv, [TreasuryNext]_treasuryVars PROVE StatementsInv'
  OBVIOUS
<1>1. CASE UNCHANGED treasuryVars \/ ManageAccounts \/ ManageRates
  BY <1>1, StatementsUntouched DEF treasuryVars, ManageAccounts, ManageRates, EditAccount, CreateAccount, SaveRate, RemoveRate,
     bookOfStatements
<1>2. CASE ManageStatements
  BY <1>2, StatementImported, StatementDeleted DEF ManageStatements
<1>3. ASSUME NEW u \in Cashiers, StatementStep(u) PROVE StatementsInv'
  <2>1. ASSUME NEW f \in DOMAIN Files, HasStatement(f), NEW lines \in SUBSET StatementLines(f) \ {{}},
               NEW status \in MatchStatuses, BeginReconcile(u, f, [l \in lines |-> status])
        PROVE  StatementsInv'
    BY <2>1, ReconcileBegins
  <2>. QED BY <1>3, <2>1, ConfirmBegins, LinesDecided, BatchReconciled, MatchPaid, LineMatched DEF StatementStep
<1>4. ASSUME NEW u \in Cashiers, LetGo(u) PROVE StatementsInv'
  BY <1>4, NoPaperWork DEF LetGo, Leave, Waiting, bookOfStatements
<1>. QED BY <1>1, <1>2, <1>3, <1>4, AccountsKeepStatements DEF TreasuryNext

\* The lines of a statement are those of its file, with the amounts read of it.
DecidedOfRow == \A d \in decided : \E f \in DOMAIN Files : statement[f].id = d.of
RowsStand ==
    /\ \A f \in DOMAIN Files : HasStatement(f) => IsStatementRow(f, statement[f])
    /\ DecidedOfRow /\ AmountsAsWritten

SameLines(row, new) ==
    /\ new.id = row.id /\ DOMAIN new.line = DOMAIN row.line
    /\ \A l \in DOMAIN row.line : new.line[l].amount = row.line[l].amount

(* A statement that has a row is not the row of none.                         *)
LEMMA RowHasId ==
    ASSUME StatementsInv, NEW f \in DOMAIN Files, NEW row, row.id = statement[f].id, HasStatement(f)
    PROVE  row # NoStatement
<1>1. statement[f].id \in 1..MaxRows
  BY DEF StatementsInv, StatementsKept, StatementKept
<1>. QED BY <1>1 DEF NoStatement

(* A row is written over, lines and amounts as they were.                     *)
LEMMA RowWritten ==
    ASSUME StatementsInv, RowsStand, NEW f \in DOMAIN Files, HasStatement(f), NEW row,
           statement' = [statement EXCEPT ![f] = row], IsStatementRow(f, row), SameLines(statement[f], row),
           \A d \in decided' : d \in decided \/ d.of = row.id
    PROVE  RowsStand'
<1>1. /\ statement'[f] = row
      /\ \A g \in DOMAIN Files : g # f => statement'[g] = statement[g]
  BY DEF StatementsInv, StatementsKept
<1>2. \A g \in DOMAIN Files : statement'[g].id = statement[g].id
  BY <1>1 DEF SameLines
<1>3. \A g \in DOMAIN Files : HasStatement(g)' => HasStatement(g)
  BY <1>1 DEF HasStatement
<1>4. (\A g \in DOMAIN Files : HasStatement(g) => IsStatementRow(g, statement[g]))'
  <2>. SUFFICES ASSUME NEW g \in DOMAIN Files, HasStatement(g)' PROVE IsStatementRow(g, statement[g])'
    OBVIOUS
  <2>1. CASE g = f
    BY <1>1, <2>1 DEF IsStatementRow
  <2>2. CASE g # f
    BY <1>1, <1>3, <2>2 DEF RowsStand, IsStatementRow
  <2>. QED BY <2>1, <2>2
<1>5. DecidedOfRow'
  BY <1>1, <1>2 DEF RowsStand, DecidedOfRow
<1>6. AmountsAsWritten'
  <2>. SUFFICES ASSUME NEW g \in DOMAIN Files, HasStatement(g)', NEW l \in DOMAIN Files[g].lines,
                       WrittenToTheCent(Files[g].lines[l])
                PROVE  l \in DOMAIN statement'[g].line /\ statement'[g].line[l].amount = Files[g].lines[l].worth
    BY DEF AmountsAsWritten, StatementLines
  <2>1. l \in DOMAIN statement[g].line /\ statement[g].line[l].amount = Files[g].lines[l].worth
    BY <1>3 DEF RowsStand, AmountsAsWritten, StatementLines
  <2>. QED BY <1>1, <2>1 DEF SameLines
<1>. QED BY <1>4, <1>5, <1>6 DEF RowsStand

(* Statements go, with the decisions on them.                                 *)
LEMMA RowsGone ==
    ASSUME StatementsInv, RowsStand, NEW mine, mine \subseteq DOMAIN Files,
           statement' = [f \in DOMAIN Files |-> IF f \in mine THEN NoStatement ELSE statement[f]],
           decided' = {d \in decided : \A f \in mine : d.of # statement[f].id}
    PROVE  RowsStand'
<1>1. \A g \in DOMAIN Files : HasStatement(g)' => g \notin mine /\ HasStatement(g) /\ statement'[g] = statement[g]
  BY DEF HasStatement
<1>2. (\A g \in DOMAIN Files : HasStatement(g) => IsStatementRow(g, statement[g]))'
  <2>. SUFFICES ASSUME NEW g \in DOMAIN Files, HasStatement(g)' PROVE IsStatementRow(g, statement[g])'
    OBVIOUS
  <2>. QED BY <1>1 DEF RowsStand, IsStatementRow
<1>3. DecidedOfRow'
  <2>. SUFFICES ASSUME NEW d \in decided' PROVE \E f \in DOMAIN Files : statement'[f].id = d.of
    BY DEF DecidedOfRow
  <2>1. PICK f \in DOMAIN Files : statement[f].id = d.of
    BY DEF RowsStand, DecidedOfRow
  <2>. QED BY <2>1
<1>4. AmountsAsWritten'
  <2>. SUFFICES ASSUME NEW g \in DOMAIN Files, HasStatement(g)', NEW l \in DOMAIN Files[g].lines,
                       WrittenToTheCent(Files[g].lines[l])
                PROVE  l \in DOMAIN statement'[g].line /\ statement'[g].line[l].amount = Files[g].lines[l].worth
    BY DEF AmountsAsWritten, StatementLines
  <2>. QED BY <1>1 DEF RowsStand, AmountsAsWritten, StatementLines
<1>. QED BY <1>2, <1>3, <1>4 DEF RowsStand

(* Nothing said of statements or of decisions changes.                        *)
LEMMA RowsRest ==
    ASSUME RowsStand, UNCHANGED <<statement, decided>>
    PROVE  RowsStand'
BY DEF RowsStand, IsStatementRow, DecidedOfRow, AmountsAsWritten, StatementLines, HasStatement

(* What is imported has the amounts as they are written.                      *)
LEMMA RowImported ==
    ASSUME BankInv, StatementsInv, RowsStand, NEW f \in DOMAIN Files, NEW tracked \in BOOLEAN, ImportStatement(f, tracked)
    PROVE  RowsStand'
<1>. DEFINE amount == AmountsOf(f, tracked)
            new(l) == [amount |-> amount[l], reconciled |-> FALSE, matched |-> "none"]
            row == [id |-> LastImport + 1, status |-> "uploaded", matched |-> 0,
                    line |-> [l \in DOMAIN amount |-> new(l)],
                    import |-> IF tracked THEN "imported" ELSE "none"]
<1>1. /\ ~HasStatement(f) /\ statement' = [statement EXCEPT ![f] = row]
      /\ LastImport < MaxRows /\ decided' = decided
  BY DEF ImportStatement
<1>2. LastImport + 1 \in 1..MaxRows
  <2>1. MaxRows \in Nat /\ LastImport \in Nat
    BY TreasuryAssumption, NewId
  <2>. QED BY <1>1, <2>1
<1>3. DOMAIN amount \subseteq DOMAIN Files[f].lines /\ \A l \in DOMAIN amount : amount[l] \in Int
  BY LinesAssumption DEF AmountsOf
<1>4. ASSUME NEW l \in DOMAIN Files[f].lines, WrittenToTheCent(Files[f].lines[l])
      PROVE  l \in DOMAIN amount /\ amount[l] = Files[f].lines[l].worth
  <2>. DEFINE line == Files[f].lines[l]
  <2>1. ReadAmount(line.text) = line.worth /\ line.worth # 0
    <3>. PICK text : text = line.text
      OBVIOUS
    <3>. DEFINE digits == IF text.negative THEN -text.digits ELSE text.digits
                decimals == IF text.last = "comma" THEN text.commas ELSE text.dots
    <3>1. text.tail <= 2 /\ line.worth = digits * 10^(2 - text.tail) /\ line.worth # 0 /\ decimals \in {0, 1}
      BY <1>4 DEF WrittenToTheCent
    <3>2. Hundredths(text) = digits * 10^(2 - text.tail)
      BY <3>1, Zenon DEF Hundredths
    <3>3. ReadAmount(text) = IF decimals > 1 THEN 0 ELSE Hundredths(text)
      BY DEF ReadAmount
    <3>4. ~(decimals > 1)
      BY <3>1
    <3>. QED BY <3>1, <3>2, <3>3, <3>4
  <2>. QED BY <1>4, <2>1 DEF AmountsOf
<1>. HIDE DEF amount
<1>5. \A l \in DOMAIN amount : new(l) \in LineRow /\ new(l).amount = amount[l]
  BY <1>3 DEF LineRow
<1>. HIDE DEF new
<1>6. IsStatementRow(f, row)
  <2>1. row.line = [l \in DOMAIN amount |-> new(l)] /\ row.matched = 0 /\ row.status = "uploaded"
        /\ row.id = LastImport + 1 /\ row.import \in {"none", "imported", "reconciled"}
    OBVIOUS
  <2>. HIDE DEF row
  <2>. QED BY <1>2, <1>3, <1>5, <2>1 DEF IsStatementRow
<1>7. DOMAIN row.line = DOMAIN amount /\ \A l \in DOMAIN amount : row.line[l].amount = amount[l]
  BY <1>5
<1>. HIDE DEF row
<1>8. statement'[f] = row /\ \A g \in DOMAIN Files : g # f => statement'[g] = statement[g]
  BY <1>1 DEF StatementsInv, StatementsKept
<1>9. \A g \in DOMAIN Files : g # f /\ HasStatement(g)' => HasStatement(g)
  BY <1>8 DEF HasStatement
<1>10. (\A g \in DOMAIN Files : HasStatement(g) => IsStatementRow(g, statement[g]))'
  <2>. SUFFICES ASSUME NEW g \in DOMAIN Files, HasStatement(g)' PROVE IsStatementRow(g, statement[g])'
    OBVIOUS
  <2>1. CASE g = f
    BY <1>6, <1>8, <2>1 DEF IsStatementRow
  <2>2. CASE g # f
    BY <1>8, <1>9, <2>2 DEF RowsStand, IsStatementRow
  <2>. QED BY <2>1, <2>2
<1>11. DecidedOfRow'
  <2>. SUFFICES ASSUME NEW d \in decided PROVE \E g \in DOMAIN Files : statement'[g].id = d.of
    BY <1>1 DEF DecidedOfRow
  <2>1. PICK g \in DOMAIN Files : statement[g].id = d.of
    BY DEF RowsStand, DecidedOfRow
  <2>2. d.of \in 1..MaxRows
    BY DEF StatementsInv, StatementsKept, Decision
  <2>3. NoStatement.id = 0
    BY DEF NoStatement
  <2>4. g # f
    BY <1>1, <2>1, <2>2, <2>3 DEF HasStatement
  <2>. QED BY <1>8, <2>1, <2>4
<1>12. AmountsAsWritten'
  <2>. SUFFICES ASSUME NEW g \in DOMAIN Files, HasStatement(g)', NEW l \in DOMAIN Files[g].lines,
                       WrittenToTheCent(Files[g].lines[l])
                PROVE  l \in DOMAIN statement'[g].line /\ statement'[g].line[l].amount = Files[g].lines[l].worth
    BY DEF AmountsAsWritten, StatementLines
  <2>1. CASE g = f
    BY <1>4, <1>7, <1>8, <2>1
  <2>2. CASE g # f
    BY <1>8, <1>9, <2>2 DEF RowsStand, AmountsAsWritten, StatementLines
  <2>. QED BY <2>1, <2>2
<1>. QED BY <1>10, <1>11, <1>12 DEF RowsStand

(* A mark changes nothing of a line but the mark.                             *)
LEMMA MarkIs ==
    ASSUME NEW line \in LineRow, NEW reconciled \in BOOLEAN, NEW by \in {"none", "transaction", "entry"}
    PROVE  Marked(line, reconciled, by) \in LineRow /\ Marked(line, reconciled, by).amount = line.amount
BY DEF Marked, LineRow

(* What a batch writes is a row, with the lines and amounts that were there.  *)
LEMMA BatchKeepsLines ==
    ASSUME NEW f \in DOMAIN Files, NEW row, StatementKept(row), IsStatementRow(f, row), NEW r, DOMAIN r.decisions \subseteq AllLines
    PROVE  IsStatementRow(f, Reconciled(row, r)) /\ SameLines(row, Reconciled(row, r))
<1>. DEFINE matched(l) == r.decisions[l] = "matched"
            lines == DOMAIN r.decisions
            status == IF r.allDone THEN "reconciled" ELSE row.status
            imported == IF row.import = "none" THEN "none" ELSE IF r.allDone THEN "reconciled" ELSE "imported"
            count == IF row.import = "none" THEN row.matched ELSE Cardinality({l \in lines : matched(l)})
            line == [l \in DOMAIN row.line |->
                        IF l \in lines
                        THEN Marked(row.line[l], IsMatched(r.decisions[l]), IF matched(l) THEN "transaction" ELSE "none")
                        ELSE row.line[l]]
            new == [row EXCEPT !.status = status, !.import = imported, !.matched = count, !.line = line]
<1>1. Reconciled(row, r) = new
  BY DEF Reconciled
<1>2. ASSUME NEW l \in DOMAIN row.line
      PROVE  line[l] \in LineRow /\ line[l].amount = row.line[l].amount
  <2>1. row.line[l] \in LineRow
    BY DEF IsStatementRow
  <2>. QED BY <2>1, MarkIs DEF IsMatched
<1>3. DOMAIN line = DOMAIN row.line
  OBVIOUS
<1>4. status \in {"uploaded", "reconciled"} /\ imported \in {"none", "imported", "reconciled"}
  BY DEF IsStatementRow
<1>8. count \in Nat
  <2>1. IsFiniteSet({l \in lines : matched(l)})
    BY LinesAssumption, FS_Subset
  <2>2. Cardinality({l \in lines : matched(l)}) \in Nat
    BY <2>1, FS_CardinalityType
  <2>. QED BY <2>2 DEF IsStatementRow
<1>. HIDE DEF line, status, imported, count
<1>5. /\ new.id = row.id /\ new.line = line /\ new.status = status /\ new.import = imported
      /\ new.matched = count
  BY DEF StatementKept, IsRecord
<1>6. SameLines(row, new)
  BY <1>2, <1>3, <1>5 DEF SameLines
<1>. HIDE DEF new
<1>7. IsStatementRow(f, new)
  BY <1>2, <1>3, <1>4, <1>5, <1>8, IsStatementRow(f, row) DEF IsStatementRow
<1>. QED BY <1>1, <1>6, <1>7

(* A batch writes its decisions and its rows.                                 *)
LEMMA RowReconciled ==
    ASSUME BankInv, StatementsInv, RowsStand, NEW u \in Cashiers, Reconcile(u)
    PROVE  RowsStand'
<1>1. PICK r : r = cashier[u]
  OBVIOUS
<1>2. /\ PaperKept(r) /\ BatchStands(r) /\ r.op = "decided"
      /\ statement' = [statement EXCEPT ![r.file] = Reconciled(statement[r.file], r)]
  BY <1>1, ReconcileWrites
<1>3. PICK f \in DOMAIN Files : f = r.file /\ HasStatement(f) /\ statement[f].id = r.id /\ DOMAIN r.decisions \subseteq AllLines
  BY <1>2 DEF PaperKept, BatchStands
<1>4. PICK new : new = Reconciled(statement[f], r)
  OBVIOUS
<1>5. StatementKept(statement[f]) /\ IsStatementRow(f, statement[f])
  BY <1>3 DEF StatementsInv, StatementsKept, RowsStand
<1>6. IsStatementRow(f, new) /\ SameLines(statement[f], new)
  BY <1>3, <1>4, <1>5, BatchKeepsLines
<1>7. \A d \in decided' : d \in decided \/ d.of = r.id
  BY <1>1 DEF Reconcile
<1>8. new.id = r.id
  BY <1>3, <1>6 DEF SameLines
<1>. QED BY <1>2, <1>3, <1>4, <1>6, <1>7, <1>8, RowWritten

(* A payment marks its line.                                                  *)
LEMMA RowMarked ==
    ASSUME BankInv, StatementsInv, RowsStand, NEW u \in Cashiers, MarkMatched(u)
    PROVE  RowsStand'
<1>1. PICK c : c = cashier[u]
  OBVIOUS
<1>2. c.op = "paid" /\ PaperKept(c)
  BY <1>1 DEF MarkMatched, StatementsInv, PapersStand
<1>3. PICK f \in DOMAIN Files : f = c.file /\ c.id \in 1..MaxRows
  BY <1>2 DEF PaperKept
<1>4. PICK row : row = statement[f]
  OBVIOUS
<1>5. decided' = decided
  BY DEF MarkMatched
<1>6. CASE row.id # c.id
  <2>1. statement' = statement
    BY <1>1, <1>3, <1>4, <1>6 DEF MarkMatched
  <2>. QED BY <1>5, <2>1, RowsRest
<1>7. CASE row.id = c.id
  <2>. DEFINE mark == Marked(row.line[c.line], TRUE, "entry")
              new == [row EXCEPT !.line = [row.line EXCEPT ![c.line] = mark]]
  <2>1. HasStatement(f)
    BY <1>3, <1>4, <1>7 DEF HasStatement, NoStatement
  <2>2. StatementKept(row) /\ IsStatementRow(f, row)
    BY <1>4, <2>1 DEF StatementsInv, StatementsKept, RowsStand
  <2>3. statement' = [statement EXCEPT ![f] = new]
    <3>1. statement' = [statement EXCEPT ![f].line = [row.line EXCEPT ![c.line] = mark]]
      BY <1>1, <1>3, <1>4, <1>7 DEF MarkMatched
    <3>. HIDE DEF mark
    <3>. QED BY <1>4, <3>1 DEF StatementsInv, StatementsKept
  <2>4. \A l \in DOMAIN row.line : l = c.line => mark \in LineRow /\ mark.amount = row.line[l].amount
    <3>. SUFFICES ASSUME NEW l \in DOMAIN row.line, l = c.line
                  PROVE  mark \in LineRow /\ mark.amount = row.line[l].amount
      OBVIOUS
    <3>1. row.line[l] \in LineRow
      BY <2>2 DEF IsStatementRow
    <3>. QED BY <3>1, MarkIs
  <2>. HIDE DEF mark
  <2>5. PICK line : line = [row.line EXCEPT ![c.line] = mark]
    OBVIOUS
  <2>6. DOMAIN line = DOMAIN row.line /\ \A l \in DOMAIN row.line : line[l] \in LineRow /\ line[l].amount = row.line[l].amount
    BY <2>2, <2>4, <2>5 DEF StatementKept, IsStatementRow
  <2>7. /\ new.id = row.id /\ new.line = line /\ new.status = row.status /\ new.import = row.import
        /\ new.matched = row.matched
    BY <2>2, <2>5 DEF StatementKept, IsRecord
  <2>. HIDE DEF new
  <2>8. IsStatementRow(f, new) /\ SameLines(row, new)
    BY <2>2, <2>6, <2>7 DEF IsStatementRow, SameLines
  <2>. QED BY <1>4, <1>5, <2>1, <2>3, <2>8, RowWritten
<1>. QED BY <1>6, <1>7

(* A bank account that is removed takes its statements along, and these the   *)
(* decisions on them.                                                         *)
LEMMA AccountGone ==
    ASSUME BankInv, StatementsInv, RowsStand, NEW u \in Cashiers, FinishRemoval(u)
    PROVE  RowsStand'
<1>. DEFINE a == cashier[u].account
            mine == {g \in DOMAIN Files : Files[g].account = a /\ HasStatement(g)}
<1>1. CASE UNCHANGED <<statement, decided>>
  BY <1>1, RowsRest
<1>2. CASE ~UNCHANGED <<statement, decided>>
  <2>1. /\ statement' = [g \in DOMAIN Files |-> IF g \in mine THEN NoStatement ELSE statement[g]]
        /\ decided' = {d \in decided : \A g \in mine : d.of # statement[g].id}
    BY <1>2 DEF FinishRemoval
  <2>2. mine \subseteq DOMAIN Files
    OBVIOUS
  <2>. HIDE DEF mine
  <2>. QED BY <2>1, <2>2, RowsGone
<1>. QED BY <1>1, <1>2

RatesTyped == rates \in [(Currencies \X Currencies) \X Days -> Nat]

(* Every step keeps the rows of statements.                                   *)
LEMMA RowsStep == BankInv /\ StatementsInv /\ RowsStand /\ [TreasuryNext]_treasuryVars => RowsStand'
<1>. SUFFICES ASSUME BankInv, StatementsInv, RowsStand, [TreasuryNext]_treasuryVars PROVE RowsStand'
  OBVIOUS
<1>1. CASE UNCHANGED <<statement, decided>>
  BY <1>1, RowsRest
<1>2. CASE ManageStatements
  <2>1. PICK f \in DOMAIN Files, tracked \in BOOLEAN : ImportStatement(f, tracked) \/ DeleteStatement(f)
    BY <1>2 DEF ManageStatements
  <2>2. CASE DeleteStatement(f)
    <3>. DEFINE mine == {f}
    <3>1. /\ statement' = [g \in DOMAIN Files |-> IF g \in mine THEN NoStatement ELSE statement[g]]
          /\ decided' = {d \in decided : \A g \in mine : d.of # statement[g].id}
      BY <2>2 DEF DeleteStatement, StatementsInv, StatementsKept
    <3>2. mine \subseteq DOMAIN Files
      OBVIOUS
    <3>. HIDE DEF mine
    <3>. QED BY <3>1, <3>2, RowsGone
  <2>. QED BY <2>1, <2>2, RowImported
<1>3. ASSUME NEW u \in Cashiers, StatementStep(u) PROVE RowsStand'
  BY <1>1, <1>3, RowReconciled, RowMarked
     DEF StatementStep, BeginReconcile, BeginConfirm, DecideLines, PayMatch, bookOfStatements
<1>4. ASSUME NEW u \in Cashiers, AccountStep(u) PROVE RowsStand'
  <2>1. CASE FinishRemoval(u)
    BY <2>1, AccountGone
  <2>. QED BY <1>1, <1>4, <2>1
     DEF AccountStep, BeginRemoval, BeginMovement, BeginTransfer, RecordMovement, LockOther, RecordTransfer, bookOfStatements
<1>5. CASE UNCHANGED treasuryVars \/ ManageAccounts \/ ManageRates
  BY <1>1, <1>5 DEF treasuryVars, ManageAccounts, ManageRates, EditAccount, CreateAccount, SaveRate, RemoveRate, bookOfStatements
<1>6. ASSUME NEW u \in Cashiers, LetGo(u) PROVE RowsStand'
  BY <1>1, <1>6 DEF LetGo, bookOfStatements
<1>. QED BY <1>2, <1>3, <1>4, <1>5, <1>6 DEF TreasuryNext

(* Rates are numbers.                                                         *)
LEMMA RatesStep == RatesTyped /\ [TreasuryNext]_treasuryVars => RatesTyped'
<1>. SUFFICES ASSUME RatesTyped, [TreasuryNext]_treasuryVars PROVE RatesTyped'
  OBVIOUS
<1>1. CASE rates' = rates
  BY <1>1 DEF RatesTyped
<1>2. CASE ManageRates
  <2>1. PICK from \in Currencies, to \in Currencies, day \in Days, rate \in Nat :
            rates' = [rates EXCEPT ![<<<<from, to>>, day>>] = rate]
    BY <1>2 DEF ManageRates, RemoveRate, SaveRate, NoRate
  <2>. QED BY <2>1 DEF RatesTyped
<1>. QED BY <1>1, <1>2 DEF TreasuryNext, treasuryVars, ManageAccounts, ManageStatements, EditAccount, CreateAccount,
     ImportStatement, DeleteStatement, AccountStep, StatementStep, LetGo, BeginRemoval, BeginMovement, BeginTransfer,
     FinishRemoval, RecordMovement, LockOther, RecordTransfer, BeginReconcile, BeginConfirm, DecideLines, Reconcile, PayMatch, MarkMatched

(* A line is reconciled because it was matched or paid, and a statement       *)
(* because each of its lines has a decision, for any statements, batches and  *)
(* requests at once: two batches on the same lines, a statement deleted under *)
(* a batch and a payment whose line is marked later included. No line written *)
(* to the cent is lost or changed (bank-reconciliation.service.ts:299,        *)
(* statement-parser.ts:30).                                                   *)
THEOREM StatementsStayBacked == TreasurySpec => []StatementsAreBacked
<1>1. TreasuryInit => RowsStand /\ RatesTyped
  <2>. SUFFICES ASSUME TreasuryInit PROVE RowsStand /\ RatesTyped
    OBVIOUS
  <2>1. \A f \in DOMAIN Files : ~HasStatement(f)
    BY DEF TreasuryInit, HasStatement
  <2>. QED BY <2>1 DEF TreasuryInit, RowsStand, DecidedOfRow, AmountsAsWritten, RatesTyped, NoRate
<1>2. BankInv /\ StatementsInv /\ RowsStand /\ RatesTyped => StatementsAreBacked
  BY DEF BankInv, BankTypeOK, StatementsInv, StatementsKept, RowsStand, DecidedOfRow, RatesTyped, TreasuryTypeOK, StatementsAreBacked
<1>. QED BY <1>1, <1>2, BankInit, BankStep, StatementsInit, StatementsStep, RowsStep, RatesStep, PTL DEF TreasurySpec

--------------------------------------------------------------------------------
\* Part 5. The general ledger.

\* Chains of reversals. The entry one starts from is found by a recursive function.
IsRoots(g, es, n) == g = [k \in 1..n |-> IF es[k].of = 0 THEN k ELSE g[es[k].of]]
Roots(es, n) == CHOOSE g : IsRoots(g, es, n)
Backward(es, n) == \A k \in 1..n : es[k].of \in Nat /\ es[k].of < k

(* There is such a function, as an entry reverses an earlier one.             *)
LEMMA RootsExist == ASSUME NEW n \in Nat, NEW es, Backward(es, n) PROVE \E g : IsRoots(g, es, n)
<1>. DEFINE Bad == {m \in 1..n : ~\E g : IsRoots(g, es, m)}
<1>. SUFFICES ASSUME ~\E g : IsRoots(g, es, n) PROVE FALSE
  OBVIOUS
<1>0. \E g : IsRoots(g, es, 0)
  <2>1. IsRoots([k \in {} |-> k], es, 0)
    BY DEF IsRoots
  <2>. QED BY <2>1
<1>1. n # 0
  BY <1>0
<1>2. n \in Bad /\ Bad \in SUBSET (1..n)
  BY <1>1
<1>. HIDE DEF Bad
<1>3. PICK m \in Bad : \A k \in Bad : m <= k
  BY <1>2, LeastOf
<1>4. m \in 1..n /\ (~\E g : IsRoots(g, es, m)) /\ m - 1 \in 0..n /\ m - 1 \notin Bad
  BY <1>3 DEF Bad
<1>5. PICK g : IsRoots(g, es, m - 1)
  <2>1. CASE m - 1 = 0
    BY <2>1, <1>0
  <2>2. CASE m - 1 # 0
    BY <2>2, <1>4 DEF Bad
  <2>. QED BY <2>1, <2>2
<1>. DEFINE h == [k \in 1..m |-> IF k # m THEN g[k] ELSE IF es[m].of = 0 THEN m ELSE g[es[m].of]]
<1>6. h = [k \in 1..m |-> IF es[k].of = 0 THEN k ELSE h[es[k].of]]
  <2>. SUFFICES ASSUME NEW k \in 1..m PROVE h[k] = IF es[k].of = 0 THEN k ELSE h[es[k].of]
    OBVIOUS
  <2>1. es[k].of \in Nat /\ es[k].of < k
    BY <1>4 DEF Backward
  <2>2. es[k].of # 0 => h[es[k].of] = g[es[k].of]
    BY <2>1, <1>4
  <2>3. CASE k = m
    BY <2>2, <2>3
  <2>4. CASE k # m
    <3>1. k \in 1..(m - 1) /\ h[k] = g[k]
      BY <2>4, <1>4
    <3>2. g[k] = IF es[k].of = 0 THEN k ELSE g[es[k].of]
      BY <3>1, <1>5 DEF IsRoots
    <3>. QED BY <3>1, <3>2, <2>2
  <2>. QED BY <2>3, <2>4
<1>. QED BY <1>4, <1>6 DEF IsRoots

(* The equation of the function.                                              *)
LEMMA RootOf ==
    ASSUME NEW n \in Nat, NEW es, Backward(es, n), NEW k \in 1..n
    PROVE  Roots(es, n)[k] = IF es[k].of = 0 THEN k ELSE Roots(es, n)[es[k].of]
<1>1. IsRoots(Roots(es, n), es, n)
  BY RootsExist DEF Roots
<1>. DEFINE g == Roots(es, n)
<1>2. g = [i \in 1..n |-> IF es[i].of = 0 THEN i ELSE g[es[i].of]]
  BY <1>1 DEF IsRoots
<1>. HIDE DEF g
<1>3. g[k] = IF es[k].of = 0 THEN k ELSE g[es[k].of]
  BY <1>2
<1>. QED BY <1>3 DEF g

(* A chain starts from an entry that reverses none.                           *)
LEMMA RootIsFirst ==
    ASSUME NEW n \in Nat, NEW es, Backward(es, n)
    PROVE  \A k \in 1..n : Roots(es, n)[k] \in 1..k /\ es[Roots(es, n)[k]].of = 0
<1>. DEFINE g == Roots(es, n)
            Bad == {k \in 1..n : ~(g[k] \in 1..k /\ es[g[k]].of = 0)}
<1>. SUFFICES ASSUME Bad # {} PROVE FALSE
  OBVIOUS
<1>1. Bad \in SUBSET (1..n)
  OBVIOUS
<1>. HIDE DEF Bad
<1>2. PICK k \in Bad : \A i \in Bad : k <= i
  BY <1>1, LeastOf
<1>3. k \in 1..n /\ g[k] = (IF es[k].of = 0 THEN k ELSE g[es[k].of]) /\ es[k].of \in Nat /\ es[k].of < k
  BY <1>1, <1>2, RootOf DEF Backward
<1>4. ~(g[k] \in 1..k /\ es[g[k]].of = 0)
  BY <1>2 DEF Bad
<1>. HIDE DEF g
<1>5. es[k].of # 0
  BY <1>3, <1>4
<1>6. es[k].of \in 1..n /\ es[k].of \notin Bad
  BY <1>2, <1>3, <1>5
<1>7. g[es[k].of] \in 1..es[k].of /\ es[g[es[k].of]].of = 0
  BY <1>6 DEF Bad
<1>. QED BY <1>3, <1>4, <1>5, <1>7

(* Entries added later change no chain.                                       *)
LEMMA RootsAgree ==
    ASSUME NEW n \in Nat, NEW m \in Nat, n <= m, NEW es, NEW ds, Backward(es, n), Backward(ds, m),
           \A k \in 1..n : ds[k].of = es[k].of
    PROVE  \A k \in 1..n : Roots(ds, m)[k] = Roots(es, n)[k]
<1>. DEFINE g == Roots(es, n)
            h == Roots(ds, m)
            Bad == {k \in 1..n : h[k] # g[k]}
<1>. SUFFICES ASSUME Bad # {} PROVE FALSE
  OBVIOUS
<1>1. Bad \in SUBSET (1..n)
  OBVIOUS
<1>. HIDE DEF Bad
<1>2. PICK k \in Bad : \A i \in Bad : k <= i
  BY <1>1, LeastOf
<1>3. k \in 1..n /\ k \in 1..m
  BY <1>1
<1>4. g[k] = (IF es[k].of = 0 THEN k ELSE g[es[k].of]) /\ es[k].of \in Nat /\ es[k].of < k
  BY <1>3, RootOf DEF Backward
<1>5. h[k] = (IF ds[k].of = 0 THEN k ELSE h[ds[k].of]) /\ ds[k].of = es[k].of
  BY <1>3, RootOf
<1>6. h[k] # g[k]
  BY <1>2 DEF Bad
<1>. HIDE DEF g, h
<1>7. es[k].of # 0
  BY <1>4, <1>5, <1>6
<1>8. es[k].of \in 1..n /\ es[k].of \notin Bad
  BY <1>2, <1>4, <1>3, <1>7
<1>9. h[es[k].of] = g[es[k].of]
  BY <1>8 DEF Bad
<1>. QED BY <1>4, <1>5, <1>6, <1>9

(* The function in the model.                                                 *)
LEMMA OriginIsRoot == \A i : Origin(i) = Roots(entries, Len(entries))[i]
  BY DEF Origin, Roots, IsRoots, Ids

\* What the reports add up.
LinesRow == [Accounts -> Int]

(* A row of the entries has the type of rows.                                 *)
LEMMA LinesOfEntry == ASSUME NEW es \in Seq(EntryRow), NEW i \in 1..Len(es) PROVE es[i] \in EntryRow /\ es[i].lines \in LinesRow
<1>1. es[i] \in EntryRow
  OBVIOUS
<1>. QED BY <1>1 DEF EntryRow, LinesRow

(* What an entry is off by is an integer.                                     *)
LEMMA NetType == ASSUME NEW x \in LinesRow PROVE Net(x) \in Int
<1>1. \A a \in Accounts : x[a] \in Int
  BY DEF LinesRow
<1>. QED BY <1>1, ChartAssumption, SumType DEF Net

(* A set of entries is finite: there are as many as rows were written.        *)
LEMMA FiniteIds == ASSUME entries \in Seq(EntryRow), NEW ids \in SUBSET Ids PROVE IsFiniteSet(ids)
<1>1. Len(entries) \in Int /\ 1 \in Int
  OBVIOUS
<1>2. IsFiniteSet(1..Len(entries))
  BY <1>1, FS_Interval
<1>. QED BY <1>2, FS_Subset DEF Ids

(* What entries put on an account is an integer.                              *)
LEMMA SumOfType ==
    ASSUME entries \in Seq(EntryRow), NEW ids \in SUBSET Ids, NEW a \in Accounts
    PROVE  SumOf(ids, a) \in Int
<1>1. IsFiniteSet(ids)
  BY FiniteIds
<1>. DEFINE g == [k \in ids |-> entries[k].lines[a]]
<1>2. \A i \in ids : entries[i].lines \in LinesRow
  BY LinesOfEntry DEF Ids
<1>3. \A i \in ids : g[i] \in Int
  BY <1>2 DEF LinesRow
<1>. HIDE DEF g
<1>4. SumOver(g, ids) \in Int
  BY <1>1, <1>3, SumType
<1>. QED BY <1>4 DEF SumOf, g

(* All accounts of some entries, added up account by account or entry by entry. *)
LEMMA ByEntry ==
    ASSUME entries \in Seq(EntryRow), NEW ids \in SUBSET Ids
    PROVE  /\ SumOver([a \in Accounts |-> SumOf(ids, a)], Accounts) = SumOver([i \in ids |-> Net(entries[i].lines)], ids)
           /\ \A i \in ids : Net(entries[i].lines) \in Int
<1>. DEFINE f == [i \in ids |-> entries[i].lines]
            r == [i \in ids |-> Net(entries[i].lines)]
            col == [a \in Accounts |-> [i \in ids |-> entries[i].lines[a]]]
            c == [a \in Accounts |-> SumOf(ids, a)]
<1>1. IsFiniteSet(ids) /\ IsFiniteSet(Accounts)
  BY FiniteIds, ChartAssumption
<1>2. \A i \in ids : f[i] \in LinesRow
  BY LinesOfEntry DEF Ids
<1>3. \A i \in ids : \A a \in Accounts : f[i][a] \in Int
  BY <1>2 DEF LinesRow
<1>4. \A i \in ids : r[i] = SumOver(f[i], Accounts)
  BY DEF Net
<1>5. \A a \in Accounts : c[a] = SumOver(col[a], ids)
  BY DEF SumOf
<1>8. \A a \in Accounts : \A i \in ids : col[a][i] = f[i][a]
  OBVIOUS
<1>6. \A i \in ids : Net(entries[i].lines) \in Int
  BY <1>2, NetType
<1>. HIDE DEF f, r, c, col
<1>7. SumOver(r, ids) = SumOver(c, Accounts)
  BY <1>1, <1>3, <1>4, <1>5, <1>8, SumSwap
<1>. QED BY <1>6, <1>7 DEF r, c

(* The sum of all accounts over a set of entries is the sum of what each      *)
(* entry is off by.                                                           *)
LEMMA AllBalance ==
    ASSUME entries \in Seq(EntryRow), NEW ids \in SUBSET Ids, \A i \in ids : Balanced(i)
    PROVE  SumOver([a \in Accounts |-> SumOf(ids, a)], Accounts) = 0
<1>. DEFINE r == [i \in ids |-> Net(entries[i].lines)]
<1>1. \A i \in ids : r[i] = 0
  BY DEF Balanced
<1>2. IsFiniteSet(ids)
  BY FiniteIds
<1>3. SumOver(r, ids) = 0
  <2>. HIDE DEF r
  <2>. QED BY <1>1, <1>2, SumZero
<1>. QED BY <1>3, ByEntry

(* The cash flow statement reconciles whatever the entries are.               *)
LEMMA CashFlowAddsUp == ASSUME entries \in Seq(EntryRow) PROVE CashFlowReconciles
<1>. SUFFICES ASSUME NEW y \in Booked, \A i \in Touching(y) : Balanced(i) PROVE ComputedClosing(y) = ClosingCash(y)
  BY DEF CashFlowReconciles
<1>. DEFINE ids == Touching(y)
            rest == {i \in Posted : InYear(i, y)} \ ids
            early == {i \in Posted : entries[i].year < y}
            of(s) == [a \in Accounts |-> SumOf(s, a)]
            in(k) == {a \in Accounts \ Cash : Chart[a].flow = k}
<1>0. ids \in SUBSET Ids /\ rest \in SUBSET Ids /\ early \in SUBSET Ids
  BY DEF Touching, Posted
<1>1. Cash \subseteq Accounts /\ IsFiniteSet(Cash) /\ IsFiniteSet(Accounts) /\ \A k : in(k) \subseteq Accounts /\ IsFiniteSet(in(k))
  BY ChartAssumption, FS_Subset DEF Cash, Active
<1>2. \A s \in SUBSET Ids : \A a \in Accounts : of(s)[a] \in Int
  BY SumOfType
<1>3. SumOver(of(ids), Accounts) = 0
  BY <1>0, AllBalance
<1>4. SumOver(of(ids), Accounts) = SumOver(of(ids), Cash)
         + (SumOver(of(ids), in("operating")) + (SumOver(of(ids), in("investing")) + SumOver(of(ids), in("financing"))))
  <2>1. Accounts = Cash \cup (in("operating") \cup (in("investing") \cup in("financing")))
    BY <1>1, ChartAssumption DEF AccountRow
  <2>2. /\ in("investing") \cap in("financing") = {}
        /\ in("operating") \cap (in("investing") \cup in("financing")) = {}
        /\ Cash \cap (in("operating") \cup (in("investing") \cup in("financing"))) = {}
    OBVIOUS
  <2>. DEFINE g == of(ids)
             o == in("operating")
             v == in("investing")
             n == in("financing")
  <2>3. \A a \in Accounts : g[a] \in Int
    BY <1>0, <1>2
  <2>4. IsFiniteSet(o) /\ IsFiniteSet(v) /\ IsFiniteSet(n) /\ o \subseteq Accounts /\ v \subseteq Accounts /\ n \subseteq Accounts
    BY <1>1
  <2>5. Accounts = Cash \cup (o \cup (v \cup n)) /\ v \cap n = {} /\ o \cap (v \cup n) = {} /\ Cash \cap (o \cup (v \cup n)) = {}
    BY <2>1, <2>2
  <2>. HIDE DEF g, o, v, n
  <2>6. SumOver(g, v \cup n) = SumOver(g, v) + SumOver(g, n)
    BY <2>3, <2>4, <2>5, SumUnion
  <2>7. IsFiniteSet(v \cup n) /\ IsFiniteSet(o \cup (v \cup n))
    BY <2>4, FS_Union
  <2>8. SumOver(g, o \cup (v \cup n)) = SumOver(g, o) + SumOver(g, v \cup n)
    BY <2>3, <2>4, <2>5, <2>7, SumUnion
  <2>9. SumOver(g, Cash \cup (o \cup (v \cup n))) = SumOver(g, Cash) + SumOver(g, o \cup (v \cup n))
    BY <2>3, <2>4, <2>5, <2>7, <1>1, SumUnion
  <2>. QED BY <2>5, <2>6, <2>8, <2>9 DEF g, o, v, n
<1>5. \A i \in rest : \A a \in Cash : entries[i].lines[a] = 0
  BY DEF Touching
<1>6. \A a \in Cash : SumOf(rest, a) = 0
  <2>. SUFFICES ASSUME NEW a \in Cash PROVE SumOf(rest, a) = 0
    OBVIOUS
  <2>. DEFINE g == [i \in rest |-> entries[i].lines[a]]
  <2>1. \A i \in rest : g[i] = 0
    BY <1>5
  <2>2. IsFiniteSet(rest)
    BY <1>0, FiniteIds
  <2>. HIDE DEF rest
  <2>3. SumOver(g, rest) = 0
    <3>. HIDE DEF g
    <3>. QED BY <2>1, <2>2, SumZero
  <2>. QED BY <2>3 DEF SumOf
<1>7. {i \in Posted : ThroughYear(i, y)} = early \cup (ids \cup rest)
  BY DEF ThroughYear, Touching
<1>8. early \cap (ids \cup rest) = {} /\ ids \cap rest = {}
  <2>1. y \in Nat /\ \A i \in Posted : entries[i].year \in Nat
    BY BookkeepingAssumption, LinesOfEntry DEF Booked, Posted, Ids, EntryRow
  <2>. QED BY <2>1 DEF InYear, Touching
<1>9. \A a \in Cash : SumOf(early \cup (ids \cup rest), a) = SumOf(early, a) + SumOf(ids, a)
  <2>. SUFFICES ASSUME NEW a \in Cash PROVE SumOf(early \cup (ids \cup rest), a) = SumOf(early, a) + SumOf(ids, a)
    OBVIOUS
  <2>. DEFINE g == [i \in Ids |-> entries[i].lines[a]]
  <2>1. \A s \in SUBSET Ids : SumOver(g, s) = SumOf(s, a) /\ IsFiniteSet(s) /\ SumOf(s, a) \in Int
    <3>. SUFFICES ASSUME NEW s \in SUBSET Ids PROVE SumOver(g, s) = SumOf(s, a) /\ IsFiniteSet(s) /\ SumOf(s, a) \in Int
      OBVIOUS
    <3>1. IsFiniteSet(s) /\ SumOf(s, a) \in Int
      BY <1>1, FiniteIds, SumOfType
    <3>. DEFINE h == [i \in s |-> entries[i].lines[a]]
    <3>2. \A i \in s : g[i] = h[i]
      OBVIOUS
    <3>. HIDE DEF g, h
    <3>3. SumOver(g, s) = SumOver(h, s)
      BY <3>1, <3>2, SumCongruent
    <3>. QED BY <3>1, <3>3 DEF SumOf, h
  <2>2. \A i \in Ids : g[i] \in Int
    BY <1>1, LinesOfEntry DEF Ids, LinesRow
  <2>. HIDE DEF g, ids, rest, early
  <2>3. SumOver(g, ids \cup rest) = SumOver(g, ids) + SumOver(g, rest)
    BY <1>0, <1>8, <2>1, <2>2, SumUnion
  <2>4. SumOver(g, early \cup (ids \cup rest)) = SumOver(g, early) + SumOver(g, ids \cup rest)
    <3>1. IsFiniteSet(ids \cup rest) /\ ids \cup rest \in SUBSET Ids
      BY <1>0, <2>1
    <3>. QED BY <3>1, <1>0, <1>8, <2>1, <2>2, SumUnion
  <2>5. SumOver(g, early \cup (ids \cup rest)) = SumOf(early \cup (ids \cup rest), a)
    BY <1>0, <2>1
  <2>. QED BY <1>0, <2>1, <2>3, <2>4, <2>5, <1>6
<1>10. SumOver(of(early \cup (ids \cup rest)), Cash) = SumOver(of(early), Cash) + SumOver(of(ids), Cash)
  <2>. DEFINE g == of(early)
             k == of(ids)
             h == of(early \cup (ids \cup rest))
  <2>1. \A a \in Cash : g[a] \in Int /\ k[a] \in Int /\ h[a] = g[a] + k[a]
    BY <1>0, <1>1, <1>2, <1>9
  <2>. HIDE DEF g, k, h
  <2>2. SumOver(h, Cash) = SumOver(g, Cash) + SumOver(k, Cash)
    BY <1>1, <2>1, SumPlus
  <2>. QED BY <2>2 DEF g, k, h
<1>11. /\ SumOver(of(ids), Cash) \in Int /\ SumOver(of(early), Cash) \in Int
       /\ SumOver(of(ids), in("operating")) \in Int /\ SumOver(of(ids), in("investing")) \in Int
       /\ SumOver(of(ids), in("financing")) \in Int
  <2>1. \A T \in SUBSET Accounts : \A s \in SUBSET Ids : IsFiniteSet(T) => SumOver(of(s), T) \in Int
    <3>. SUFFICES ASSUME NEW T \in SUBSET Accounts, NEW s \in SUBSET Ids, IsFiniteSet(T) PROVE SumOver(of(s), T) \in Int
      OBVIOUS
    <3>. DEFINE g == of(s)
    <3>1. \A a \in T : g[a] \in Int
      BY <1>2
    <3>. HIDE DEF g
    <3>2. SumOver(g, T) \in Int
      BY <3>1, SumType
    <3>. QED BY <3>2 DEF g
  <2>. HIDE DEF of, in, ids, early, rest
  <2>. QED BY <2>1, <1>0, <1>1
<1>12. ClosingCash(y) = SumOver(of(early \cup (ids \cup rest)), Cash)
  BY <1>7 DEF ClosingCash, CashOf
<1>13. OpeningCash(y) = SumOver(of(early), Cash)
  BY DEF OpeningCash, CashOf
<1>14. /\ Flow("operating", ids) = -SumOver(of(ids), in("operating"))
       /\ Flow("investing", ids) = -SumOver(of(ids), in("investing"))
       /\ Flow("financing", ids) = -SumOver(of(ids), in("financing"))
  BY DEF Flow
<1>. HIDE DEF of, in, ids, early, rest
<1>15. ComputedClosing(y) = OpeningCash(y) + Flow("operating", ids) + Flow("investing", ids) + Flow("financing", ids)
  BY DEF ComputedClosing, ids
<1>. QED BY <1>3, <1>4, <1>10, <1>11, <1>12, <1>13, <1>14, <1>15

\* The accounts of a kind among those shown.
OfKind(kind, shown) == {a \in shown : Chart[a].kind = kind}

(* Accounts by kind.                                                          *)
LEMMA ByKind ==
    ASSUME NEW shown \in SUBSET Accounts, NEW f, \A a \in Accounts : f[a] \in Int
    PROVE  /\ SumOver(f, shown) = SumOver(f, OfKind("asset", shown)) + SumOver(f, OfKind("liability", shown))
                 + SumOver(f, OfKind("equity", shown)) + SumOver(f, OfKind("revenue", shown)) + SumOver(f, OfKind("expense", shown))
           /\ \A k : SumOver(f, OfKind(k, shown)) \in Int
<1>. DEFINE A == OfKind("asset", shown)
            L == OfKind("liability", shown)
            E == OfKind("equity", shown)
            R == OfKind("revenue", shown)
            X == OfKind("expense", shown)
            B == shown \ A
            C == B \ L
            D == C \ E
<1>1. IsFiniteSet(shown) /\ \A T \in SUBSET Accounts : IsFiniteSet(T)
  BY ChartAssumption, FS_Subset
<1>2. A \in SUBSET shown /\ L \in SUBSET B /\ E \in SUBSET C /\ R \in SUBSET D /\ D \ R = X
  <2>1. \A a \in shown : Chart[a].kind \in {"asset", "liability", "equity", "revenue", "expense"}
    BY ChartAssumption DEF AccountRow
  <2>. QED BY <2>1 DEF OfKind
<1>3. B \in SUBSET Accounts /\ C \in SUBSET Accounts /\ D \in SUBSET Accounts
  OBVIOUS
<1>4. \A k : SumOver(f, OfKind(k, shown)) \in Int
  <2>. SUFFICES ASSUME NEW k PROVE SumOver(f, OfKind(k, shown)) \in Int
    OBVIOUS
  <2>1. OfKind(k, shown) \in SUBSET Accounts
    BY DEF OfKind
  <2>2. \A a \in OfKind(k, shown) : f[a] \in Int
    BY <2>1
  <2>. QED BY <1>1, <2>1, <2>2, SumType
<1>5. SumOver(f, shown) = SumOver(f, A) + SumOver(f, B) /\ SumOver(f, B) \in Int
  <2>. HIDE DEF A
  <2>. QED BY <1>1, <1>2, SumSplit
<1>6. SumOver(f, B) = SumOver(f, L) + SumOver(f, C) /\ SumOver(f, C) \in Int
  <2>1. \A a \in B : f[a] \in Int
    OBVIOUS
  <2>2. IsFiniteSet(B)
    BY <1>1, <1>3
  <2>. HIDE DEF B, L
  <2>. QED BY <1>2, <2>1, <2>2, SumSplit
<1>7. SumOver(f, C) = SumOver(f, E) + SumOver(f, D) /\ SumOver(f, D) \in Int
  <2>1. \A a \in C : f[a] \in Int
    OBVIOUS
  <2>2. IsFiniteSet(C)
    BY <1>1, <1>3
  <2>. HIDE DEF C, E
  <2>. QED BY <1>2, <2>1, <2>2, SumSplit
<1>8. SumOver(f, D) = SumOver(f, R) + SumOver(f, D \ R)
  <2>1. \A a \in D : f[a] \in Int
    OBVIOUS
  <2>2. IsFiniteSet(D)
    BY <1>1, <1>3
  <2>. HIDE DEF D, R
  <2>. QED BY <1>2, <2>1, <2>2, SumSplit
<1>9. SumOver(f, D \ R) = SumOver(f, X)
  BY <1>2
<1>10. SumOver(f, A) \in Int /\ SumOver(f, L) \in Int /\ SumOver(f, E) \in Int /\ SumOver(f, R) \in Int /\ SumOver(f, X) \in Int
  BY <1>4
<1>. HIDE DEF A, L, E, R, X, B, C, D
<1>11. SumOver(f, shown) = SumOver(f, A) + SumOver(f, L) + SumOver(f, E) + SumOver(f, R) + SumOver(f, X)
  BY <1>5, <1>6, <1>7, <1>8, <1>9, <1>10
<1>. QED BY <1>4, <1>11 DEF A, L, E, R, X

\* What is on the sheet, with the sign it has there.
SheetOf(b, shown) ==
    SumOver(b, OfKind("asset", shown))
        - (SumOver(b, OfKind("liability", shown)) + SumOver(b, OfKind("equity", shown))
           + (SumOver(b, OfKind("revenue", shown)) - SumOver(b, OfKind("expense", shown))))

(* With each balance on its normal side, assets less the rest is the sum of   *)
(* the signed balances: nothing hidden has a balance, and nothing shown is on *)
(* the other side.                                                            *)
LEMMA SheetIsSum ==
    ASSUME NEW shown \in SUBSET Accounts, NEW s, NEW b, \A a \in Accounts : s[a] \in Int,
           \A a \in Accounts : Chart[a].normal = "debit" => b[a] = s[a],
           \A a \in Accounts : Chart[a].normal # "debit" => b[a] = -s[a],
           SumOver(s, Accounts) = 0, \A a \in Accounts : a \notin shown => s[a] = 0,
           \A a \in shown : s[a] # 0 => ((Chart[a].normal = "debit") <=> (Chart[a].kind \in {"asset", "expense"}))
    PROVE  SheetOf(b, shown) = 0
<1>2. IsFiniteSet(shown) /\ IsFiniteSet(Accounts)
  BY ChartAssumption, FS_Subset
<1>9. SumOver(s, shown) = 0
  <2>1. SumOver(s, Accounts) = SumOver(s, shown) + SumOver(s, Accounts \ shown) /\ SumOver(s, shown) \in Int /\ IsFiniteSet(Accounts \ shown)
    BY <1>2, SumSplit
  <2>2. \A a \in Accounts \ shown : s[a] = 0
    OBVIOUS
  <2>3. SumOver(s, Accounts \ shown) = 0
    BY <2>1, <2>2, SumZero
  <2>. QED BY <2>1, <2>3
<1>10. \A k : IsFiniteSet(OfKind(k, shown)) /\ OfKind(k, shown) \subseteq shown
  BY <1>2, FS_Subset DEF OfKind
<1>11. ASSUME NEW k \in {"asset", "expense"} PROVE SumOver(b, OfKind(k, shown)) = SumOver(s, OfKind(k, shown))
  <2>1. \A a \in OfKind(k, shown) : b[a] = s[a]
    BY DEF OfKind
  <2>. QED BY <2>1, <1>10, SumCongruent
<1>12. ASSUME NEW k \in {"liability", "equity", "revenue"} PROVE SumOver(b, OfKind(k, shown)) = -SumOver(s, OfKind(k, shown))
  <2>1. \A a \in OfKind(k, shown) : s[a] \in Int /\ b[a] = -s[a]
    BY DEF OfKind
  <2>. QED BY <2>1, <1>10, SumNegate
<1>13. /\ SumOver(s, shown) = SumOver(s, OfKind("asset", shown)) + SumOver(s, OfKind("liability", shown))
            + SumOver(s, OfKind("equity", shown)) + SumOver(s, OfKind("revenue", shown)) + SumOver(s, OfKind("expense", shown))
       /\ SumOver(s, OfKind("asset", shown)) \in Int /\ SumOver(s, OfKind("liability", shown)) \in Int
       /\ SumOver(s, OfKind("equity", shown)) \in Int /\ SumOver(s, OfKind("revenue", shown)) \in Int
       /\ SumOver(s, OfKind("expense", shown)) \in Int
  BY ByKind
<1>14. /\ SumOver(b, OfKind("asset", shown)) = SumOver(s, OfKind("asset", shown))
       /\ SumOver(b, OfKind("expense", shown)) = SumOver(s, OfKind("expense", shown))
       /\ SumOver(b, OfKind("liability", shown)) = -SumOver(s, OfKind("liability", shown))
       /\ SumOver(b, OfKind("equity", shown)) = -SumOver(s, OfKind("equity", shown))
       /\ SumOver(b, OfKind("revenue", shown)) = -SumOver(s, OfKind("revenue", shown))
  BY <1>11, <1>12
<1>. QED BY <1>9, <1>13, <1>14 DEF SheetOf

(* The balance sheet balances whatever the entries are, if they balance.      *)
LEMMA SheetAddsUp == ASSUME entries \in Seq(EntryRow) PROVE SheetBalances
<1>. DEFINE through(y) == {i \in Posted : ThroughYear(i, y)}
<1>. SUFFICES ASSUME NEW y \in Booked,
                     \A a \in Accounts \ (OnSheet \cap Active) : SumOf(through(y), a) = 0,
                     \A i \in through(y) : Balanced(i)
              PROVE  SheetDifference(y) = 0
  BY DEF SheetBalances
<1>. DEFINE ids == through(y)
            shown == {a \in Active : Chart[a].level >= 2}
            s == [a \in Accounts |-> SumOf(ids, a)]
            b == [a \in Accounts |-> Balance(a, ids)]
<1>1. ids \in SUBSET Ids
  BY DEF Posted
<1>2. shown \in SUBSET Accounts /\ IsFiniteSet(shown) /\ IsFiniteSet(Accounts)
  BY ChartAssumption, FS_Subset DEF Active
<1>3. \A a \in Accounts : s[a] \in Int /\ SumOf(ids, a) = s[a]
  BY <1>1, SumOfType
<1>4. /\ \A a \in Accounts : Chart[a].normal = "debit" => b[a] = s[a]
      /\ \A a \in Accounts : Chart[a].normal # "debit" => b[a] = -s[a]
  BY DEF Balance
<1>5. SumOver(s, Accounts) = 0
  BY <1>1, AllBalance
<1>6. \A a \in Accounts : a \notin shown => s[a] = 0
  BY <1>3 DEF OnSheet
<1>7. \A a \in shown : s[a] # 0 => ((Chart[a].normal = "debit") <=> (Chart[a].kind \in {"asset", "expense"}))
  BY <1>3, <1>2 DEF OnSheet
<1>8. SheetDifference(y) = SheetOf(b, shown)
  BY DEF SheetDifference, GroupTotal, NetIncome, OfKind, SheetOf
<1>. HIDE DEF s, b, shown, ids
<1>. QED BY <1>2, <1>3, <1>4, <1>5, <1>6, <1>7, <1>8, SheetIsSum

\* What an entry may be off by: as much as the one its chain of reversals starts from.
Even(es, i) ==
    LET o == Roots(es, Len(es))[i] IN
    /\ es[o].kind # "auto" => Net(es[i].lines) = 0
    /\ es[o].kind = "auto" /\ ~es[o].warned => -1 <= Net(es[i].lines) /\ Net(es[i].lines) <= 1

(* The trial balance is off by cents if entries are.                          *)
LEMMA TrialAddsUp ==
    ASSUME entries \in Seq(EntryRow), \A i \in Ids : Even(entries, i) PROVE TrialBalanceIsOffByCents
<1>. DEFINE in(y) == {i \in Posted : InYear(i, y)}
            autos(y) == {i \in Posted : InYear(i, y) /\ entries[Origin(i)].kind = "auto"}
<1>. SUFFICES ASSUME NEW y \in Years, Active = Accounts, ~\E i \in Posted : InYear(i, y) /\ entries[Origin(i)].warned
              PROVE  TrialDifference(y) <= Cardinality(autos(y)) /\ -TrialDifference(y) <= Cardinality(autos(y))
  BY DEF TrialBalanceIsOffByCents
<1>. DEFINE ids == in(y)
            r == [i \in ids |-> Net(entries[i].lines)]
            T == autos(y)
<1>1. ids \in SUBSET Ids /\ IsFiniteSet(ids) /\ T \in SUBSET ids
  BY FiniteIds DEF Posted
<1>2. TrialDifference(y) = SumOver(r, ids)
  <2>1. TrialDifference(y) = SumOver([a \in Accounts |-> SumOf(ids, a)], Accounts)
    BY DEF TrialDifference
  <2>. HIDE DEF ids
  <2>. QED BY <2>1, <1>1, ByEntry
<1>3. \A i \in ids : r[i] \in Int /\ (i \notin T => r[i] = 0) /\ -1 <= r[i] /\ r[i] <= 1
  <2>. SUFFICES ASSUME NEW i \in ids PROVE r[i] \in Int /\ (i \notin T => r[i] = 0) /\ -1 <= r[i] /\ r[i] <= 1
    OBVIOUS
  <2>1. r[i] = Net(entries[i].lines) /\ r[i] \in Int
    BY <1>1, ByEntry
  <2>2. Origin(i) = Roots(entries, Len(entries))[i]
    BY OriginIsRoot
  <2>3. Even(entries, i)
    BY <1>1
  <2>4. i \in T \/ entries[Origin(i)].kind # "auto"
    OBVIOUS
  <2>5. ~entries[Origin(i)].warned
    OBVIOUS
  <2>. HIDE DEF ids, T, r
  <2>. QED BY <2>1, <2>2, <2>3, <2>4, <2>5 DEF Even
<1>. HIDE DEF ids, r
<1>4. SumOver(r, ids) <= Cardinality(T) /\ -SumOver(r, ids) <= Cardinality(T)
  <2>. HIDE DEF T
  <2>. QED BY <1>1, <1>3, SumBounded
<1>. QED BY <1>2, <1>4

\* What is generated.

(* An entry with every side swapped is off by as much the other way.          *)
LEMMA NetNegates ==
    ASSUME NEW x \in LinesRow, NEW z, z = [a \in Accounts |-> -x[a]]
    PROVE  z \in LinesRow /\ Net(z) = -Net(x)
<1>1. z \in LinesRow
  BY DEF LinesRow
<1>2. \A a \in Accounts : x[a] \in Int /\ z[a] = -x[a]
  BY DEF LinesRow
<1>. QED BY <1>1, <1>2, ChartAssumption, SumNegate DEF Net

(* A line of a rule takes an amount of the bill, on the side it names.        *)
LEMMA SignedLines ==
    ASSUME NEW ls, ls \subseteq RuleLines, NEW bill \in Bills
    PROVE  \A l \in ls : /\ bill[l.source] \in Int /\ Signed(l, bill) \in Int
                         /\ l.type \in {"debit", "credit"} /\ l.account \in Accounts \cup {Unmapped}
<1>1. bill \in [Sources -> Int]
  BY RulesAssumption
<1>2. \A l \in ls : l.source \in Sources /\ l.type \in {"debit", "credit"} /\ l.account \in Accounts \cup {Unmapped}
  BY DEF RuleLines
<1>. QED BY <1>1, <1>2 DEF Signed

(* An entry of a rule, every line of which has an account, is off by what the *)
(* sides of the rule differ.                                                  *)
LEMMA GeneratedNet ==
    ASSUME NEW ls, ls \subseteq RuleLines, IsFiniteSet(ls), NEW bill \in Bills
    PROVE  /\ LinesOf(ls, bill) \in LinesRow
           /\ (\A l \in ls : l.account # Unmapped) =>
                 Net(LinesOf(ls, bill)) = OnSide(ls, bill, "debit") - OnSide(ls, bill, "credit")
           /\ OnSide(ls, bill, "debit") \in Int /\ OnSide(ls, bill, "credit") \in Int
<1>. DEFINE w == [l \in ls |-> Signed(l, bill)]
            own(a) == {l \in ls : l.account = a}
            lines == LinesOf(ls, bill)
            debit == [l \in ls |-> IF l.type = "debit" THEN bill[l.source] ELSE 0]
            credit == [l \in ls |-> IF l.type = "credit" THEN bill[l.source] ELSE 0]
<1>1. \A l \in ls : w[l] \in Int /\ debit[l] \in Int /\ credit[l] \in Int /\ debit[l] = w[l] + credit[l]
  BY SignedLines DEF Signed
<1>2. \A a : IsFiniteSet(own(a)) /\ own(a) \in SUBSET ls
  BY FS_Subset
<1>3. lines = [a \in Accounts |-> SumOver(w, own(a))]
  BY DEF LinesOf
<1>. HIDE DEF w, debit, credit
<1>4. lines \in LinesRow
  <2>1. \A a \in Accounts : SumOver(w, own(a)) \in Int
    BY <1>1, <1>2, SumType
  <2>. HIDE DEF own, lines
  <2>. QED BY <2>1, <1>3 DEF LinesRow
<1>5. SumOver(debit, ls) = SumOver(w, ls) + SumOver(credit, ls)
  BY <1>1, SumPlus
<1>6. SumOver(debit, ls) \in Int /\ SumOver(w, ls) \in Int /\ SumOver(credit, ls) \in Int
  BY <1>1, SumType
<1>7. OnSide(ls, bill, "debit") = SumOver(debit, ls) /\ OnSide(ls, bill, "credit") = SumOver(credit, ls)
  BY DEF OnSide, debit, credit
<1>8. ASSUME \A l \in ls : l.account # Unmapped PROVE Net(lines) = SumOver(w, ls)
  <2>. DEFINE f == [a \in Accounts |-> [l \in ls |-> IF l \in own(a) THEN w[l] ELSE 0]]
             col == [l \in ls |-> [a \in Accounts |-> IF l \in own(a) THEN w[l] ELSE 0]]
  <2>1. \A a \in Accounts : \A l \in ls : f[a][l] \in Int
    BY <1>1
  <2>2. \A l \in ls : \A a \in Accounts : col[l][a] = f[a][l]
    OBVIOUS
  <2>3. \A a \in Accounts : lines[a] = SumOver(f[a], ls)
    <3>. SUFFICES ASSUME NEW a \in Accounts PROVE lines[a] = SumOver(f[a], ls)
      OBVIOUS
    <3>. DEFINE g == f[a]
                o == own(a)
    <3>1. \A l \in ls : g[l] = IF l \in o THEN w[l] ELSE 0
      OBVIOUS
    <3>2. \A l \in o : w[l] \in Int
      BY <1>1
    <3>3. lines[a] = SumOver(w, o)
      BY <1>3
    <3>4. o \in SUBSET ls
      OBVIOUS
    <3>. HIDE DEF g, o, lines
    <3>5. SumOver(g, ls) = SumOver(w, o)
      BY <3>1, <3>2, <3>4, SumFilter
    <3>. QED BY <3>3, <3>5 DEF g
  <2>4. \A l \in ls : w[l] = SumOver(col[l], Accounts)
    <3>. SUFFICES ASSUME NEW l \in ls PROVE w[l] = SumOver(col[l], Accounts)
      OBVIOUS
    <3>. DEFINE g == col[l]
                b == l.account
    <3>1. b \in Accounts
      BY <1>8, SignedLines
    <3>2. g[b] = w[l] /\ g[b] \in Int /\ \A a \in Accounts \ {b} : g[a] = 0
      BY <3>1, <1>1
    <3>. HIDE DEF g, b
    <3>3. SumOver(g, Accounts) = g[b]
      BY <3>1, <3>2, ChartAssumption, SumOne
    <3>. QED BY <3>2, <3>3 DEF g
  <2>5. IsFiniteSet(Accounts)
    BY ChartAssumption
  <2>. HIDE DEF f, col, lines
  <2>6. SumOver(lines, Accounts) = SumOver(w, ls)
    BY <2>1, <2>2, <2>3, <2>4, <2>5, SumSwap
  <2>. QED BY <2>6 DEF Net
<1>. HIDE DEF lines, own
<1>9. (\A l \in ls : l.account # Unmapped) => Net(lines) = SumOver(debit, ls) - SumOver(credit, ls)
  BY <1>5, <1>6, <1>8
<1>. QED BY <1>4, <1>6, <1>7, <1>9 DEF lines

(* The balance of an account over the entries of a year is an integer.        *)
LEMMA ResultType ==
    ASSUME entries \in Seq(EntryRow), NEW y, NEW a \in Accounts
    PROVE  ResultBalance(a, y) \in Int
<1>. DEFINE ids == {i \in Posted : InYear(i, y)}
<1>1. ids \in SUBSET Ids
  BY DEF Posted
<1>2. SumOf(ids, a) \in Int
  <2>. HIDE DEF ids
  <2>. QED BY <1>1, SumOfType
<1>. QED BY <1>2 DEF ResultBalance

(* A closing and its transfer balance, and leave nothing on the summary.      *)
LEMMA ClosingNet ==
    ASSUME entries \in Seq(EntryRow), NEW y
    PROVE  /\ ClosingLines(y) \in LinesRow /\ TransferLines(y) \in LinesRow
           /\ Net(ClosingLines(y)) = 0 /\ Net(TransferLines(y)) = 0
           /\ ClosingLines(y)[Summary] + TransferLines(y)[Summary] = 0
<1>. DEFINE R == ToClose(y, "revenue")
            X == ToClose(y, "expense")
            b == [a \in Accounts |-> ResultBalance(a, y)]
            tr == SumOver(b, R)
            tx == SumOver(b, X)
            c == ClosingLines(y)
            t == TransferLines(y)
<1>1. R \in SUBSET Accounts /\ X \in SUBSET Accounts /\ IsFiniteSet(R) /\ IsFiniteSet(X) /\ IsFiniteSet(Accounts)
  BY ChartAssumption, FS_Subset DEF ToClose
<1>2. R \cap X = {} /\ Summary \notin R /\ Summary \notin X /\ Summary \in Accounts /\ Retained \in Accounts /\ Summary # Retained
  BY ChartAssumption, BookkeepingAssumption DEF ToClose
<1>3. \A a \in Accounts : b[a] \in Int
  BY ResultType
<1>4. Total(y, "revenue") = tr /\ Total(y, "expense") = tx
  BY DEF Total
<1>5. \A a \in Accounts : c[a] = IF a \in R THEN b[a] ELSE IF a \in X THEN -b[a] ELSE IF a = Summary THEN tx - tr ELSE 0
  BY <1>4 DEF ClosingLines
<1>6. \A a \in Accounts : t[a] = IF a = Summary THEN tr - tx ELSE IF a = Retained THEN -(tr - tx) ELSE 0
  BY <1>4 DEF TransferLines
<1>7. DOMAIN c = Accounts /\ DOMAIN t = Accounts /\ c = [a \in Accounts |-> c[a]] /\ t = [a \in Accounts |-> t[a]]
  BY DEF ClosingLines, TransferLines
<1>. HIDE DEF R, X, b, c, t
<1>8. tr \in Int /\ tx \in Int
  BY <1>1, <1>3, SumType
<1>. HIDE DEF tr, tx
<1>9. \A a \in Accounts : c[a] \in Int /\ t[a] \in Int
  BY <1>3, <1>5, <1>6, <1>8
<1>10. c \in LinesRow /\ t \in LinesRow
  BY <1>7, <1>9 DEF LinesRow
<1>11. c[Summary] + t[Summary] = 0
  BY <1>2, <1>5, <1>6, <1>8
<1>12. Net(t) = 0
  <2>. DEFINE s == Accounts \ {Summary}
  <2>1. IsFiniteSet(s) /\ Retained \in s /\ \A a \in s \ {Retained} : t[a] = 0
    BY <1>1, <1>2, <1>6, FS_Subset
  <2>2. t[Summary] = tr - tx /\ t[Retained] = -(tr - tx)
    BY <1>2, <1>6
  <2>3. SumOver(t, Accounts) = t[Summary] + SumOver(t, s)
    BY <1>1, <1>2, <1>9, SumRemove
  <2>. HIDE DEF s
  <2>4. SumOver(t, s) = t[Retained]
    BY <2>1, <2>2, <1>8, SumOne
  <2>. QED BY <2>2, <2>3, <2>4, <1>8 DEF Net
<1>13. Net(c) = 0
  <2>. DEFINE pos == [a \in Accounts |-> IF a \in R THEN b[a] ELSE 0]
              mag == [a \in Accounts |-> IF a \in X THEN b[a] ELSE 0]
              neg == [a \in Accounts |-> -mag[a]]
              at == [a \in Accounts |-> IF a = Summary THEN tx - tr ELSE 0]
              two == [a \in Accounts |-> pos[a] + neg[a]]
  <2>1. \A a \in Accounts : pos[a] = IF a \in R THEN b[a] ELSE 0
    OBVIOUS
  <2>2. \A a \in Accounts : mag[a] = IF a \in X THEN b[a] ELSE 0
    OBVIOUS
  <2>3. \A a \in Accounts : /\ pos[a] \in Int /\ mag[a] \in Int /\ neg[a] \in Int /\ at[a] \in Int /\ two[a] \in Int
                            /\ neg[a] = -mag[a] /\ two[a] = pos[a] + neg[a]
    BY <1>3, <1>8
  <2>4. \A a \in Accounts : c[a] = two[a] + at[a]
    BY <1>2, <1>3, <1>5, <1>8
  <2>5. at[Summary] = tx - tr /\ \A a \in Accounts \ {Summary} : at[a] = 0
    BY <1>2
  <2>. HIDE DEF pos, mag, neg, at, two
  <2>6. SumOver(pos, Accounts) = tr
    <3>1. SumOver(pos, Accounts) = SumOver(b, R)
      BY <2>1, <1>1, <1>3, SumFilter
    <3>. QED BY <3>1 DEF tr
  <2>7. SumOver(mag, Accounts) = tx
    <3>1. SumOver(mag, Accounts) = SumOver(b, X)
      BY <2>2, <1>1, <1>3, SumFilter
    <3>. QED BY <3>1 DEF tx
  <2>8. SumOver(neg, Accounts) = -SumOver(mag, Accounts)
    BY <2>3, <1>1, SumNegate
  <2>9. SumOver(two, Accounts) = SumOver(pos, Accounts) + SumOver(neg, Accounts)
    BY <2>3, <1>1, SumPlus
  <2>10. SumOver(at, Accounts) = at[Summary]
    BY <2>5, <2>3, <1>1, <1>2, SumOne
  <2>11. SumOver(c, Accounts) = SumOver(two, Accounts) + SumOver(at, Accounts)
    BY <2>3, <2>4, <1>1, SumPlus
  <2>. QED BY <2>5, <2>6, <2>7, <2>8, <2>9, <2>10, <2>11, <1>8 DEF Net
<1>. QED BY <1>10, <1>11, <1>12, <1>13 DEF c, t

\* What the state is made of.
RuleRow == [exists: BOOLEAN, isActive: BOOLEAN, autoPost: BOOLEAN, lines: SUBSET RuleLines]
ClerkWork ==
    {Rest} \cup [op: {"insert"}, row: EntryRow] \cup [op: {"reverse"}, entry: Nat]
    \cup [op: {"close"}, year: Years, fresh: BOOLEAN, closing: LinesRow, transfer: LinesRow]
    \cup [op: {"journal"}, journal: Journals, row: JournalRow]
    \cup [op: {"document"}, journal: Journals, state: {"none", "inactive"}]

BooksTyped ==
    /\ thisYear \in Years /\ accounts \in [Accounts -> {"active", "inactive", "deleted"}]
    /\ entries \in Seq(EntryRow) /\ journals \in [Journals -> JournalRow]
    /\ closings \in [Years -> ClosingRow]
    /\ rule \in RuleRow /\ IsFiniteSet(rule.lines)
    /\ clerk \in [Clerks -> ClerkWork]

\* Entries by what they do: those that reverse none, and those that close or reopen a year.
Count(es) == 1..Len(es)
Primary == {"manual", "auto", "closing", "transfer"}      \* kinds of entries that reverse none
OfAYear == {"closing", "transfer", "reopening"}
Against(lines) == [a \in Accounts |-> -lines[a]]
Reopened(es, i) == \E k \in Count(es) : es[k].kind = "reopening" /\ es[k].of = i
HasTransfer(es, c) == c + 1 \in Count(es) /\ es[c + 1].kind = "transfer"

\* What a closing and its transfer put on the summary.
Cleared(es, c) ==
    IF HasTransfer(es, c) THEN es[c].lines[Summary] + es[c + 1].lines[Summary] = 0
    ELSE es[c].lines[Summary] = 0

\* What an entry says of the one it reverses, and of those that reverse it.
Linked(es, i) ==
    /\ es[i].of < i
    /\ (es[i].of = 0) <=> (es[i].kind \in Primary)
    /\ es[i].of # 0 => es[i].lines = Against(es[es[i].of].lines)
    /\ es[i].kind \in OfAYear /\ es[i].status # "posted" => \E k \in Count(es) : es[k].of = i
    /\ es[i].kind = "reopening" =>
          /\ es[es[i].of].kind \in {"closing", "transfer"} /\ es[es[i].of].status # "posted"
          /\ \A k \in Count(es) : es[k].kind = "reopening" /\ es[k].of = es[i].of => k = i
    /\ es[i].kind = "closing" =>
          /\ Cleared(es, i)
          /\ HasTransfer(es, i) => (Reopened(es, i) <=> Reopened(es, i + 1))
History(es) == \A i \in Count(es) : Linked(es, i)

\* The closings of a year, and its row.
ClosingOf(es, i, y) == i \in Count(es) /\ es[i].kind = "closing" /\ es[i].year = y
YearReopened(es, y) == \E i \in Count(es) : ClosingOf(es, i, y) /\ Reopened(es, i)
YearStands(es, row, y) ==
    /\ row.status = "none" => row.closing = 0 /\ row.transfer = 0 /\ \A i \in Count(es) : ~ClosingOf(es, i, y)
    /\ row.status # "none" =>
          /\ ClosingOf(es, row.closing, y)
          /\ row.transfer = IF HasTransfer(es, row.closing) THEN row.closing + 1 ELSE 0
    /\ row.status = "closed" => ~Reopened(es, row.closing)
    /\ row.status = "reopened" => YearReopened(es, y)
    /\ \A i \in Count(es) : ClosingOf(es, i, y) => i = row.closing \/ YearReopened(es, y)

\* What an entry that reverses none may be off by.
EvenRow(row) ==
    /\ row.kind # "auto" => Net(row.lines) = 0
    /\ row.kind = "auto" /\ ~row.warned => -1 <= Net(row.lines) /\ Net(row.lines) <= 1

\* The numbers of a journal, below that of an entry.
Numbered(es, j, period, y, n) ==
    \E k \in Count(es) : es[k].journal = j /\ es[k].number = n /\ es[k].period = period /\ es[k].year = y
Follows(es, row) == \A n \in 1..(row.number - 1) : Numbered(es, row.journal, row.period, row.year, n)
NoGaps(es) == \A i \in Count(es) : es[i].journal # NoJournal => Follows(es, es[i])

\* What a transaction under way relies on.
WorkStands(c, es, js) ==
    /\ c.op = "insert" =>
          /\ c.row.of = 0 /\ c.row.kind \in {"manual", "auto"} /\ EvenRow(c.row)
          /\ c.row.journal # NoJournal /\ js[c.row.journal].exists => Follows(es, c.row)
    /\ c.op = "reverse" => c.entry \in Count(es)
    /\ c.op = "close" =>
          /\ Net(c.closing) = 0 /\ Net(c.transfer) = 0 /\ c.closing[Summary] + c.transfer[Summary] = 0
          /\ ~c.fresh => YearReopened(es, c.year)
ClerksStand == \A u \in Clerks : WorkStands(clerk[u], entries, journals)

\* The inductive invariant.
BooksInv ==
    /\ BooksTyped /\ History(entries)
    /\ \A i \in Ids : Even(entries, i)
    /\ \A y \in Years : YearStands(entries, closings[y], y)
    /\ NoGaps(entries) /\ ClerksStand

\* How the entries grow: rows keep what they say, their status aside, and new ones come after them.
Kept(x, z) == z.kind = x.kind /\ z.year = x.year /\ z.of = x.of /\ z.lines = x.lines /\ z.warned = x.warned
New(es, ds) == Count(ds) \ Count(es)
Joins(es, ds, k) ==
    /\ ds[k].of \in 0..Len(es)
    /\ (ds[k].of = 0) <=> (ds[k].kind \in Primary)
    /\ ds[k].of = 0 => EvenRow(ds[k])
    /\ ds[k].of # 0 => ds[k].lines = Against(es[ds[k].of].lines)
    /\ ds[k].kind \in OfAYear => ds[k].status = "posted"
    /\ ds[k].kind = "transfer" => k - 1 \notin Count(es)
    /\ ds[k].kind = "closing" => Cleared(ds, k)
    /\ ds[k].kind = "reopening" =>
          /\ es[ds[k].of].kind \in {"closing", "transfer"} /\ ds[ds[k].of].status # "posted" /\ ~Reopened(es, ds[k].of)
          /\ \A j \in New(es, ds) : ds[j].kind = "reopening" /\ ds[j].of = ds[k].of => j = k
NewlyReopened(es, ds, i) == \E k \in New(es, ds) : ds[k].kind = "reopening" /\ ds[k].of = i
Grows(es, ds) ==
    /\ es \in Seq(EntryRow) /\ ds \in Seq(EntryRow) /\ Len(es) <= Len(ds)
    /\ \A i \in Count(es) : Kept(es[i], ds[i])
    /\ \A i \in Count(es) : ds[i].status # es[i].status =>
          ds[i].status = "reversed" /\ \E k \in Count(ds) : ds[k].of = i
    /\ \A k \in New(es, ds) : Joins(es, ds, k)
    /\ \A c \in Count(es) : es[c].kind = "closing" /\ HasTransfer(es, c) =>
          (NewlyReopened(es, ds, c) <=> NewlyReopened(es, ds, c + 1))

(* Entries that grow keep the rows there were.                                *)
LEMMA GrowsBasics ==
    ASSUME NEW es, NEW ds, Grows(es, ds)
    PROVE  /\ Count(es) \subseteq Count(ds) /\ Len(es) \in Nat /\ Len(ds) \in Nat
           /\ \A k \in Count(ds) : k \in Nat /\ (k \in Count(es) \/ (k \in New(es, ds) /\ k > Len(es)))
           /\ \A i \in Count(es) : i > 0 /\ i <= Len(es)
           /\ \A i \in Count(es) : es[i] \in EntryRow
           /\ \A i \in Count(ds) : ds[i] \in EntryRow
<1>1. es \in Seq(EntryRow) /\ ds \in Seq(EntryRow) /\ Len(es) <= Len(ds)
  BY DEF Grows
<1>2. Len(es) \in Nat /\ Len(ds) \in Nat
  BY <1>1
<1>3. (\A i \in Count(es) : es[i] \in EntryRow) /\ (\A i \in Count(ds) : ds[i] \in EntryRow)
  BY <1>1 DEF Count
<1>. QED BY <1>1, <1>2, <1>3 DEF Count, New

(* An entry is reopened after a step if it was, or if the step reopens it.    *)
LEMMA ReopenedGrows ==
    ASSUME NEW es, NEW ds, Grows(es, ds)
    PROVE  \A i \in Nat : Reopened(ds, i) <=> (Reopened(es, i) \/ NewlyReopened(es, ds, i))
<1>1. \A k \in Count(es) : ds[k].kind = es[k].kind /\ ds[k].of = es[k].of
  BY DEF Grows, Kept
<1>. SUFFICES ASSUME NEW i \in Nat PROVE Reopened(ds, i) <=> (Reopened(es, i) \/ NewlyReopened(es, ds, i))
  OBVIOUS
<1>2. ASSUME Reopened(ds, i) PROVE Reopened(es, i) \/ NewlyReopened(es, ds, i)
  <2>1. PICK k \in Count(ds) : ds[k].kind = "reopening" /\ ds[k].of = i
    BY <1>2 DEF Reopened
  <2>2. k \in Count(es) \/ k \in New(es, ds)
    BY DEF New
  <2>. QED BY <2>1, <2>2, <1>1 DEF Reopened, NewlyReopened
<1>3. ASSUME Reopened(es, i) PROVE Reopened(ds, i)
  <2>1. PICK k \in Count(es) : es[k].kind = "reopening" /\ es[k].of = i
    BY <1>3 DEF Reopened
  <2>2. k \in Count(ds)
    BY GrowsBasics
  <2>. QED BY <2>1, <2>2, <1>1 DEF Reopened
<1>4. ASSUME NewlyReopened(es, ds, i) PROVE Reopened(ds, i)
  <2>1. PICK k \in New(es, ds) : ds[k].kind = "reopening" /\ ds[k].of = i
    BY <1>4 DEF NewlyReopened
  <2>. QED BY <2>1 DEF Reopened, New
<1>. QED BY <1>2, <1>3, <1>4

(* A closing there was has a transfer behind it after a step if it had one    *)
(* before.                                                                    *)
LEMMA TransferGrows ==
    ASSUME NEW es, NEW ds, Grows(es, ds)
    PROVE  \A c \in Count(es) : HasTransfer(ds, c) <=> HasTransfer(es, c)
<1>. SUFFICES ASSUME NEW c \in Count(es) PROVE HasTransfer(ds, c) <=> HasTransfer(es, c)
  OBVIOUS
<1>1. c \in Nat /\ (c + 1) - 1 = c
  BY GrowsBasics
<1>2. CASE c + 1 \in Count(es)
  BY <1>2, GrowsBasics DEF HasTransfer, Grows, Kept
<1>3. CASE c + 1 \notin Count(es)
  <2>1. c + 1 \in Count(ds) => c + 1 \in New(es, ds)
    BY <1>3 DEF New
  <2>2. c + 1 \in New(es, ds) => ds[c + 1].kind # "transfer"
    BY <1>1 DEF Grows, Joins
  <2>. QED BY <1>3, <2>1, <2>2 DEF HasTransfer
<1>. QED BY <1>2, <1>3

(* What holds of the history goes on holding.                                 *)
LEMMA HistoryGrows ==
    ASSUME NEW es, NEW ds, Grows(es, ds), History(es)
    PROVE  History(ds)
<1>. SUFFICES ASSUME NEW i \in Count(ds) PROVE Linked(ds, i)
  BY DEF History
<1>1. \A k \in Count(es) : Kept(es[k], ds[k]) /\ k \in Count(ds) /\ k \in Nat /\ Linked(es, k)
  BY GrowsBasics DEF Grows, History
<1>2. CASE i \in Count(es)
  <2>. DEFINE o == es[i].of
  <2>1. Kept(es[i], ds[i]) /\ Linked(es, i) /\ i \in Nat
    BY <1>1, <1>2
  <2>2. o \in Nat /\ (o # 0 => o \in Count(es))
    <3>1. es[i] \in EntryRow
      BY <1>2, GrowsBasics
    <3>2. o \in Nat /\ o < i /\ i <= Len(es)
      BY <3>1, <2>1, <1>2, GrowsBasics DEF EntryRow, Linked
    <3>. QED BY <3>2, GrowsBasics DEF Count
  <2>. HIDE DEF o
  <2>3. o # 0 => Kept(es[o], ds[o])
    BY <2>2, <1>1
  <2>4. ds[i].of < i /\ ((ds[i].of = 0) <=> (ds[i].kind \in Primary))
    BY <2>1 DEF Kept, Linked
  <2>5. ds[i].of # 0 => ds[i].lines = Against(ds[ds[i].of].lines)
    BY <2>1, <2>3 DEF Kept, Linked, o
  <2>6. ds[i].kind \in OfAYear /\ ds[i].status # "posted" => \E k \in Count(ds) : ds[k].of = i
    <3>1. CASE ds[i].status = es[i].status
      <4>1. es[i].kind \in OfAYear /\ es[i].status # "posted" => \E k \in Count(es) : es[k].of = i
        BY <2>1 DEF Linked
      <4>. QED BY <3>1, <4>1, <2>1, <1>1 DEF Kept
    <3>2. CASE ds[i].status # es[i].status
      BY <3>2, <1>2 DEF Grows
    <3>. QED BY <3>1, <3>2
  <2>7. ASSUME ds[i].kind = "reopening"
        PROVE  /\ ds[ds[i].of].kind \in {"closing", "transfer"} /\ ds[ds[i].of].status # "posted"
               /\ \A k \in Count(ds) : ds[k].kind = "reopening" /\ ds[k].of = ds[i].of => k = i
    <3>1. es[i].kind = "reopening" /\ ds[i].of = o /\ es[i].of = o
      BY <2>7, <2>1 DEF Kept, o
    <3>2. o # 0
      BY <3>1, <2>1 DEF Linked, Primary
    <3>3. es[o].kind \in {"closing", "transfer"} /\ es[o].status # "posted"
      BY <3>1, <2>1 DEF Linked, o
    <3>4. ds[o].kind = es[o].kind /\ ds[o].status # "posted"
      BY <3>2, <3>3, <2>2, <2>3 DEF Kept, Grows
    <3>5. Reopened(es, o)
      BY <3>1, <1>2 DEF Reopened
    <3>6. \A k \in New(es, ds) : ~(ds[k].kind = "reopening" /\ ds[k].of = o)
      BY <3>5 DEF Grows, Joins
    <3>7. \A k \in Count(es) : es[k].kind = "reopening" /\ es[k].of = o => k = i
      BY <3>1, <2>1 DEF Linked
    <3>8. \A k \in Count(es) : ds[k].kind = es[k].kind /\ ds[k].of = es[k].of
      BY <1>1 DEF Kept
    <3>. QED BY <3>1, <3>3, <3>4, <3>6, <3>7, <3>8, GrowsBasics
  <2>8. ASSUME ds[i].kind = "closing"
        PROVE  Cleared(ds, i) /\ (HasTransfer(ds, i) => (Reopened(ds, i) <=> Reopened(ds, i + 1)))
    <3>1. /\ es[i].kind = "closing" /\ Cleared(es, i)
          /\ HasTransfer(es, i) => (Reopened(es, i) <=> Reopened(es, i + 1))
      BY <2>8, <2>1 DEF Kept, Linked
    <3>2. HasTransfer(ds, i) <=> HasTransfer(es, i)
      BY <1>2, TransferGrows
    <3>3. ds[i].lines = es[i].lines /\ (HasTransfer(es, i) => ds[i + 1].lines = es[i + 1].lines)
      BY <1>1, <1>2 DEF HasTransfer, Kept
    <3>4. Cleared(ds, i)
      BY <3>1, <3>2, <3>3 DEF Cleared
    <3>5. HasTransfer(es, i) => (NewlyReopened(es, ds, i) <=> NewlyReopened(es, ds, i + 1))
      BY <3>1, <1>2 DEF Grows
    <3>6. /\ Reopened(ds, i) <=> (Reopened(es, i) \/ NewlyReopened(es, ds, i))
          /\ Reopened(ds, i + 1) <=> (Reopened(es, i + 1) \/ NewlyReopened(es, ds, i + 1))
      BY <2>1, ReopenedGrows
    <3>. QED BY <3>1, <3>2, <3>4, <3>5, <3>6
  <2>. QED BY <2>4, <2>5, <2>6, <2>7, <2>8 DEF Linked
<1>3. CASE i \notin Count(es)
  <2>1. i \in New(es, ds) /\ i \in Nat /\ i > Len(es) /\ Joins(es, ds, i) /\ Len(es) \in Nat
    BY <1>3, GrowsBasics DEF New, Grows
  <2>. DEFINE o == ds[i].of
  <2>2. o \in 0..Len(es) /\ o < i /\ (o # 0 => o \in Count(es))
    BY <2>1 DEF Joins, Count
  <2>3. ((o = 0) <=> (ds[i].kind \in Primary))
    BY <2>1 DEF Joins
  <2>4. o # 0 => ds[i].lines = Against(ds[o].lines)
    BY <2>1, <2>2, <1>1 DEF Joins, Kept
  <2>5. ds[i].kind \in OfAYear => ds[i].status = "posted"
    BY <2>1 DEF Joins
  <2>6. ASSUME ds[i].kind = "reopening"
        PROVE  /\ ds[o].kind \in {"closing", "transfer"} /\ ds[o].status # "posted"
               /\ \A k \in Count(ds) : ds[k].kind = "reopening" /\ ds[k].of = o => k = i
    <3>1. o # 0
      BY <2>3, <2>6 DEF Primary
    <3>2. /\ es[o].kind \in {"closing", "transfer"} /\ ds[o].status # "posted" /\ ~Reopened(es, o)
          /\ \A j \in New(es, ds) : ds[j].kind = "reopening" /\ ds[j].of = o => j = i
      BY <2>1, <2>6 DEF Joins
    <3>3. ds[o].kind = es[o].kind
      BY <3>1, <2>2, <1>1 DEF Kept
    <3>4. \A k \in Count(es) : ~(ds[k].kind = "reopening" /\ ds[k].of = o)
      BY <3>2, <1>1 DEF Reopened, Kept
    <3>. QED BY <3>2, <3>3, <3>4, GrowsBasics
  <2>7. ASSUME ds[i].kind = "closing"
        PROVE  Cleared(ds, i) /\ (HasTransfer(ds, i) => (Reopened(ds, i) <=> Reopened(ds, i + 1)))
    <3>1. Cleared(ds, i)
      BY <2>1, <2>7 DEF Joins
    <3>2. \A n \in Nat : n > Len(es) => ~Reopened(ds, n)
      <4>. SUFFICES ASSUME NEW n \in Nat, n > Len(es), NEW k \in Count(ds), ds[k].of = n PROVE FALSE
        BY DEF Reopened
      <4>1. CASE k \in Count(es)
        <5>1. es[k].of = n /\ es[k].of < k /\ k <= Len(es) /\ k \in Nat
          BY <4>1, <1>1, GrowsBasics DEF Kept, Linked
        <5>. QED BY <5>1, <2>1
      <4>2. CASE k \notin Count(es)
        <5>1. ds[k].of \in 0..Len(es)
          BY <4>2, GrowsBasics DEF Grows, Joins
        <5>. QED BY <5>1, <2>1
      <4>. QED BY <4>1, <4>2
    <3>3. ~Reopened(ds, i) /\ ~Reopened(ds, i + 1)
      BY <2>1, <3>2
    <3>. QED BY <3>1, <3>3
  <2>. QED BY <2>2, <2>3, <2>4, <2>5, <2>6, <2>7 DEF Linked
<1>. QED BY <1>2, <1>3

(* Entries are as even as those they start from.                              *)
LEMMA EvenGrows ==
    ASSUME NEW es, NEW ds, Grows(es, ds), History(es), \A i \in Count(es) : Even(es, i)
    PROVE  \A i \in Count(ds) : Even(ds, i)
<1>. DEFINE n == Len(es)
            m == Len(ds)
<1>0. n \in Nat /\ m \in Nat /\ n <= m /\ Count(es) = 1..n /\ Count(ds) = 1..m
  BY GrowsBasics DEF Grows, Count
<1>1. Backward(es, n)
  <2>1. \A k \in Count(es) : es[k] \in EntryRow /\ es[k].of < k
    BY GrowsBasics DEF History, Linked
  <2>2. \A k \in Count(es) : es[k].of \in Nat
    BY <2>1 DEF EntryRow
  <2>. QED BY <2>1, <2>2, <1>0 DEF Backward
<1>2. History(ds)
  BY HistoryGrows
<1>3. Backward(ds, m)
  <2>1. \A k \in Count(ds) : ds[k] \in EntryRow /\ ds[k].of < k
    BY <1>2, GrowsBasics DEF History, Linked
  <2>2. \A k \in Count(ds) : ds[k].of \in Nat
    BY <2>1 DEF EntryRow
  <2>. QED BY <2>1, <2>2, <1>0 DEF Backward
<1>4. \A k \in 1..n : ds[k].of = es[k].of
  BY <1>0 DEF Grows, Kept
<1>5. \A k \in 1..n : Roots(ds, m)[k] = Roots(es, n)[k]
  BY <1>0, <1>1, <1>3, <1>4, RootsAgree
<1>6. \A k \in 1..n : Roots(es, n)[k] \in 1..n
  <2>1. \A k \in 1..n : Roots(es, n)[k] \in 1..k
    BY <1>0, <1>1, RootIsFirst
  <2>. QED BY <2>1, <1>0
<1>7. \A k \in 1..n : Kept(es[k], ds[k])
  BY <1>0 DEF Grows
<1>8. \A k \in 1..n : Even(ds, k)
  <2>. SUFFICES ASSUME NEW k \in 1..n PROVE Even(ds, k)
    OBVIOUS
  <2>1. Even(es, k) /\ Roots(ds, m)[k] = Roots(es, n)[k] /\ Roots(es, n)[k] \in 1..n
    BY <1>0, <1>5, <1>6
  <2>. QED BY <2>1, <1>7 DEF Even, Kept
<1>9. ASSUME NEW k \in Count(ds), k \notin Count(es) PROVE Even(ds, k)
  <2>1. Joins(es, ds, k) /\ k \in 1..m
    BY <1>0, <1>9, GrowsBasics DEF Grows
  <2>2. Roots(ds, m)[k] = IF ds[k].of = 0 THEN k ELSE Roots(ds, m)[ds[k].of]
    BY <1>0, <1>3, <2>1, RootOf
  <2>3. CASE ds[k].of = 0
    <3>1. EvenRow(ds[k]) /\ Roots(ds, m)[k] = k
      BY <2>1, <2>2, <2>3 DEF Joins
    <3>. QED BY <3>1 DEF Even, EvenRow
  <2>4. CASE ds[k].of # 0
    <3>. DEFINE o == ds[k].of
    <3>1. o \in 1..n /\ ds[k].lines = Against(es[o].lines)
      BY <2>1, <2>4, <1>0 DEF Joins
    <3>2. Even(ds, o) /\ Roots(ds, m)[k] = Roots(ds, m)[o] /\ ds[o].lines = es[o].lines
      BY <3>1, <1>7, <1>8, <2>2, <2>4 DEF Kept
    <3>3. es[o].lines \in LinesRow
      BY <3>1, LinesOfEntry DEF Grows
    <3>4. Net(ds[k].lines) = -Net(ds[o].lines) /\ Net(ds[o].lines) \in Int
      BY <3>1, <3>2, <3>3, NetNegates, NetType DEF Against
    <3>. HIDE DEF o
    <3>5. Even(ds, k)
      BY <3>2, <3>4 DEF Even
    <3>. QED BY <3>5
  <2>. QED BY <2>3, <2>4
<1>. QED BY <1>0, <1>8, <1>9

(* A year whose row is not written: no closing of it, nor a reopening, is among the new entries. *)
LEMMA YearGrows ==
    ASSUME NEW es, NEW ds, Grows(es, ds), History(es), NEW row \in ClosingRow, NEW y, YearStands(es, row, y),
           \A k \in New(es, ds) : ds[k].kind = "closing" => ds[k].year # y,
           row.status = "closed" => ~NewlyReopened(es, ds, row.closing)
    PROVE  YearStands(ds, row, y) /\ (YearReopened(es, y) => YearReopened(ds, y))
<1>1. \A i : ClosingOf(ds, i, y) <=> ClosingOf(es, i, y)
  <2>1. \A i \in Count(es) : ds[i].kind = es[i].kind /\ ds[i].year = es[i].year
    BY DEF Grows, Kept
  <2>. QED BY <2>1, GrowsBasics DEF ClosingOf
<1>2. \A i \in Count(es) : i \in Nat /\ i \in Count(ds) /\ (Reopened(es, i) => Reopened(ds, i))
  BY GrowsBasics, ReopenedGrows
<1>3. YearReopened(es, y) => YearReopened(ds, y)
  BY <1>1, <1>2 DEF YearReopened
<1>4. row.status = "none" => row.closing = 0 /\ row.transfer = 0 /\ \A i \in Count(ds) : ~ClosingOf(ds, i, y)
  BY <1>1 DEF YearStands, ClosingOf
<1>5. ASSUME row.status # "none"
      PROVE  /\ ClosingOf(ds, row.closing, y)
             /\ row.transfer = IF HasTransfer(ds, row.closing) THEN row.closing + 1 ELSE 0
  <2>1. ClosingOf(es, row.closing, y) /\ row.transfer = IF HasTransfer(es, row.closing) THEN row.closing + 1 ELSE 0
    BY <1>5 DEF YearStands
  <2>2. HasTransfer(ds, row.closing) <=> HasTransfer(es, row.closing)
    BY <2>1, TransferGrows DEF ClosingOf
  <2>. QED BY <2>1, <2>2, <1>1
<1>6. row.status = "closed" => ~Reopened(ds, row.closing)
  <2>1. row.closing \in Nat
    BY DEF ClosingRow
  <2>. QED BY <2>1, ReopenedGrows DEF YearStands
<1>7. \A i \in Count(ds) : ClosingOf(ds, i, y) => i = row.closing \/ YearReopened(ds, y)
  BY <1>1, <1>3 DEF YearStands, ClosingOf
<1>. QED BY <1>3, <1>4, <1>5, <1>6, <1>7 DEF YearStands

\* What a step writes: marks on rows, and rows after them.
Flagged(x, z) == z = x \/ z = [x EXCEPT !.status = "reversed"]

(* A mark on a row changes its status and nothing else.                       *)
LEMMA FlaggedRow ==
    ASSUME NEW x \in EntryRow, NEW z, Flagged(x, z)
    PROVE  /\ z \in EntryRow /\ Kept(x, z) /\ z.evening = x.evening /\ z.ref = x.ref /\ z.paper = x.paper
           /\ z.journal = x.journal /\ z.number = x.number /\ z.period = x.period
           /\ z.status # x.status => z.status = "reversed"
<1>1. CASE z = x
  BY <1>1 DEF Kept
<1>2. CASE z = [x EXCEPT !.status = "reversed"]
  <2>1. z \in EntryRow
    BY <1>2 DEF EntryRow
  <2>. QED BY <1>2, <2>1 DEF Kept, EntryRow
<1>. QED BY <1>1, <1>2 DEF Flagged

(* Marking entries as reversed flags those, and leaves the others.            *)
LEMMA MarksType ==
    ASSUME NEW es \in Seq(EntryRow), NEW ids
    PROVE  /\ MarkReversed(es, ids) \in Seq(EntryRow) /\ Len(MarkReversed(es, ids)) = Len(es)
           /\ \A i \in Count(es) : /\ Flagged(es[i], MarkReversed(es, ids)[i])
                                   /\ i \in ids => MarkReversed(es, ids)[i].status = "reversed"
                                   /\ i \notin ids => MarkReversed(es, ids)[i] = es[i]
<1>. DEFINE f == MarkReversed(es, ids)
            n == Len(es)
            g(i) == IF i \in ids THEN [es[i] EXCEPT !.status = "reversed"] ELSE es[i]
<1>1. n \in Nat /\ f = [i \in 1..n |-> g(i)]
  BY DEF MarkReversed
<1>2. \A i \in 1..n : es[i] \in EntryRow
  OBVIOUS
<1>3. \A i \in 1..n : Flagged(es[i], g(i))
  BY DEF Flagged
<1>4. \A i \in 1..n : g(i) \in EntryRow
  BY <1>2, <1>3, FlaggedRow
<1>5. \A i \in 1..n : (i \in ids => g(i).status = "reversed") /\ (i \notin ids => g(i) = es[i])
  BY <1>2 DEF EntryRow
<1>. HIDE DEF g, f
<1>6. f \in Seq(EntryRow) /\ Len(f) = n
  BY <1>1, <1>4
<1>7. \A i \in 1..n : f[i] = g(i)
  BY <1>1
<1>. QED BY <1>3, <1>5, <1>6, <1>7 DEF f, Count

\* Two sequences put together, by position.
Adjoined(es, mid, tail, ds) ==
    /\ ds \in Seq(EntryRow) /\ Len(ds) = Len(es) + Len(tail) /\ Len(es) \in Nat /\ Len(tail) \in Nat
    /\ Len(es) <= Len(ds)
    /\ \A i \in Count(es) : ds[i] = mid[i]
    /\ \A k \in New(es, ds) : k \in Int /\ k - Len(es) \in 1..Len(tail) /\ ds[k] = tail[k - Len(es)]
    /\ \A n \in 1..Len(tail) : n + Len(es) \in New(es, ds) /\ ds[n + Len(es)] = tail[n]

(* Where the rows of two sequences are in the one that joins them.            *)
LEMMA Appended ==
    ASSUME NEW es \in Seq(EntryRow), NEW mid \in Seq(EntryRow), Len(mid) = Len(es), NEW tail \in Seq(EntryRow),
           NEW ds, ds = mid \o tail
    PROVE  Adjoined(es, mid, tail, ds)
<1>1. ds \in Seq(EntryRow) /\ Len(ds) = Len(es) + Len(tail) /\ Len(es) \in Nat /\ Len(tail) \in Nat
  <2>1. ds \in Seq(EntryRow)
    BY ConcatProperties
  <2>2. Len(ds) = Len(mid) + Len(tail)
    BY ConcatProperties
  <2>. QED BY <2>1, <2>2
<1>2. \A i \in Count(es) : ds[i] = mid[i]
  BY DEF Count
<1>3. \A k \in New(es, ds) : k \in Int /\ k - Len(es) \in 1..Len(tail) /\ ds[k] = tail[k - Len(es)]
  BY <1>1 DEF Count, New
<1>4. \A n \in 1..Len(tail) : n + Len(es) \in New(es, ds) /\ ds[n + Len(es)] = tail[n]
  BY <1>1 DEF Count, New
<1>5. Len(es) <= Len(ds)
  BY <1>1
<1>. QED BY <1>1, <1>2, <1>3, <1>4, <1>5 DEF Adjoined

(* The rows that closing a year writes.                                       *)
LEMMA PlainRow ==
    ASSUME NEW kind \in Kinds, NEW y \in Years, NEW lines \in LinesRow
    PROVE  /\ Plain(kind, y, lines) \in EntryRow
           /\ Plain(kind, y, lines).kind = kind /\ Plain(kind, y, lines).year = y
           /\ Plain(kind, y, lines).lines = lines /\ Plain(kind, y, lines).status = "posted"
           /\ Plain(kind, y, lines).of = 0 /\ Plain(kind, y, lines).journal = NoJournal
           /\ Plain(kind, y, lines).warned = FALSE
  BY DEF Plain, EntryRow, LinesRow, NoJournal, NoRef

(* The rows that a reversal or a reopening writes: the sides of the entry     *)
(* swapped.                                                                   *)
LEMMA MirrorRow ==
    ASSUME thisYear \in Years, entries \in Seq(EntryRow), NEW i \in Ids, NEW kind \in {"reversal", "reopening"}
    PROVE  /\ Mirror(i, kind) \in EntryRow
           /\ Mirror(i, kind).kind = kind /\ Mirror(i, kind).of = i
           /\ Mirror(i, kind).lines = Against(entries[i].lines)
           /\ Mirror(i, kind).status = "posted" /\ Mirror(i, kind).journal = NoJournal
<1>. DEFINE ls == Against(entries[i].lines)
            p == Plain(kind, thisYear, ls)
<1>1. entries[i] \in EntryRow /\ i \in Nat
  BY DEF Ids
<1>2. Against(entries[i].lines) \in LinesRow
  BY <1>1 DEF EntryRow, LinesRow, Against
<1>3. p \in EntryRow /\ p.kind = kind /\ p.lines = Against(entries[i].lines) /\ p.status = "posted" /\ p.journal = NoJournal
  <2>1. kind \in Kinds
    BY DEF Kinds
  <2>2. ls \in LinesRow
    BY <1>2
  <2>. HIDE DEF ls
  <2>a. thisYear \in Years
    OBVIOUS
  <2>3. Plain(kind, thisYear, ls) \in EntryRow
    BY <2>a, <2>1, <2>2, PlainRow
  <2>4. p.kind = kind /\ p.lines = ls
    BY <2>a, <2>1, <2>2, PlainRow
  <2>5. p.status = "posted" /\ p.journal = NoJournal
    BY DEF Plain
  <2>. QED BY <2>3, <2>4, <2>5 DEF ls
<1>4. Mirror(i, kind) = [p EXCEPT !.of = i, !.ref = entries[i].ref]
  BY DEF Mirror, Against
<1>5. entries[i].ref \in Refs \cup {NoRef}
  BY <1>1 DEF EntryRow
<1>. HIDE DEF p
<1>. QED BY <1>1, <1>3, <1>4, <1>5 DEF EntryRow

(* Numbers that follow go on following while the entries of their journal stay in it. *)
LEMMA FollowsGrows ==
    ASSUME NEW es, NEW ds, NEW row, Follows(es, row), Count(es) \subseteq Count(ds),
           \A i \in Count(es) : es[i].journal = row.journal =>
               /\ ds[i].journal = es[i].journal /\ ds[i].number = es[i].number
               /\ ds[i].period = es[i].period /\ ds[i].year = es[i].year
    PROVE  Follows(ds, row)
  BY DEF Follows, Numbered

(* A year one of whose closings was reopened stays one.                       *)
LEMMA YearReopenedStays ==
    ASSUME NEW es, NEW ds, Grows(es, ds), NEW y, YearReopened(es, y)
    PROVE  YearReopened(ds, y)
<1>1. PICK i \in Count(es) : ClosingOf(es, i, y) /\ Reopened(es, i)
  BY DEF YearReopened
<1>2. ClosingOf(ds, i, y)
  BY <1>1, GrowsBasics DEF Grows, Kept, ClosingOf
<1>3. Reopened(ds, i)
  BY <1>1, ReopenedGrows, GrowsBasics
<1>. QED BY <1>2, <1>3 DEF YearReopened, ClosingOf

(* What a transaction relies on stands while entries join, and journals only go. *)
LEMMA WorkGrows ==
    ASSUME NEW es, NEW ds, Grows(es, ds), NEW js, NEW ks, NEW c \in ClerkWork, WorkStands(c, es, js),
           c.op = "insert" /\ c.row.journal # NoJournal /\ ks[c.row.journal].exists =>
                   /\ js[c.row.journal].exists
                   /\ \A i \in Count(es) : es[i].journal = c.row.journal =>
                         /\ ds[i].journal = es[i].journal /\ ds[i].number = es[i].number
                         /\ ds[i].period = es[i].period /\ ds[i].year = es[i].year
    PROVE  WorkStands(c, ds, ks)
<1>1. Count(es) \subseteq Count(ds)
  BY GrowsBasics
<1>2. c.op = "insert" /\ c.row.journal # NoJournal /\ ks[c.row.journal].exists => Follows(ds, c.row)
  BY <1>1, FollowsGrows DEF WorkStands
<1>3. c.op = "close" /\ ~c.fresh => YearReopened(ds, c.year)
  BY YearReopenedStays DEF WorkStands
<1>. QED BY <1>1, <1>2, <1>3 DEF WorkStands

\* Steps that write entries: some are marked reversed, and others come after them.
Writes(es, mid, tail, ds) ==
    /\ es \in Seq(EntryRow) /\ mid \in Seq(EntryRow) /\ tail \in Seq(EntryRow)
    /\ Len(mid) = Len(es) /\ ds = mid \o tail
    /\ \A i \in Count(es) : Flagged(es[i], mid[i])
    /\ \A i \in Count(es) : mid[i].status # es[i].status => \E n \in 1..Len(tail) : tail[n].of = i
    /\ \A k \in New(es, ds) : Joins(es, ds, k)
    /\ \A c \in Count(es) : es[c].kind = "closing" /\ HasTransfer(es, c) =>
          (NewlyReopened(es, ds, c) <=> NewlyReopened(es, ds, c + 1))

(* Marks, and rows behind them, make the entries grow, and leave their        *)
(* numbers as they are.                                                       *)
LEMMA WritesBasics ==
    ASSUME NEW es, NEW mid, NEW tail, NEW ds, Writes(es, mid, tail, ds)
    PROVE  /\ Grows(es, ds)
           /\ \A i \in Count(es) : ds[i].journal = es[i].journal /\ ds[i].number = es[i].number /\ ds[i].period = es[i].period
                                   /\ ds[i].year = es[i].year
           /\ \A k \in New(es, ds) : \E n \in 1..Len(tail) : ds[k] = tail[n]
<1>1. /\ es \in Seq(EntryRow) /\ mid \in Seq(EntryRow) /\ tail \in Seq(EntryRow)
      /\ Len(mid) = Len(es) /\ ds = mid \o tail
  BY DEF Writes
<1>2. /\ ds \in Seq(EntryRow) /\ Len(es) <= Len(ds)
      /\ \A i \in Count(es) : ds[i] = mid[i]
      /\ \A k \in New(es, ds) : k - Len(es) \in 1..Len(tail) /\ ds[k] = tail[k - Len(es)]
      /\ \A n \in 1..Len(tail) : n + Len(es) \in New(es, ds) /\ ds[n + Len(es)] = tail[n]
  <2>1. Adjoined(es, mid, tail, ds)
    BY <1>1, Appended
  <2>. QED BY <2>1 DEF Adjoined
<1>3. \A i \in Count(es) : es[i] \in EntryRow
  BY <1>1 DEF Count
<1>4. \A i \in Count(es) : /\ Kept(es[i], ds[i])
                           /\ ds[i].journal = es[i].journal /\ ds[i].number = es[i].number /\ ds[i].period = es[i].period
                           /\ ds[i].status # es[i].status => ds[i].status = "reversed"
  BY <1>2, <1>3, FlaggedRow DEF Writes
<1>5. \A i \in Count(es) : ds[i].status # es[i].status => \E k \in Count(ds) : ds[k].of = i
  <2>. SUFFICES ASSUME NEW i \in Count(es), ds[i].status # es[i].status PROVE \E k \in Count(ds) : ds[k].of = i
    OBVIOUS
  <2>1. PICK n \in 1..Len(tail) : tail[n].of = i
    BY <1>2 DEF Writes
  <2>2. n + Len(es) \in Count(ds) /\ ds[n + Len(es)] = tail[n]
    BY <1>2 DEF New
  <2>. QED BY <2>1, <2>2
<1>6. Grows(es, ds)
  <2>1. \A i \in Count(es) : Kept(es[i], ds[i])
    BY <1>4
  <2>2. \A i \in Count(es) : ds[i].status # es[i].status =>
          ds[i].status = "reversed" /\ \E k \in Count(ds) : ds[k].of = i
    BY <1>4, <1>5
  <2>. QED BY <1>1, <1>2, <2>1, <2>2 DEF Grows, Writes
<1>7. \A i \in Count(es) : ds[i].year = es[i].year
  BY <1>4 DEF Kept
<1>. QED BY <1>2, <1>4, <1>6, <1>7

(* What a step that marks and appends rows needs to be shown to keep the      *)
(* history, the numbers, the sums of the entries and what other transactions  *)
(* rely on.                                                                   *)
LEMMA WritesKeep ==
    ASSUME NEW es, NEW mid, NEW tail, NEW ds, Writes(es, mid, tail, ds),
           History(es), NoGaps(es), \A i \in Count(es) : Even(es, i),
           \A n \in 1..Len(tail) : tail[n].journal # NoJournal => Follows(es, tail[n])
    PROVE  /\ History(ds) /\ NoGaps(ds) /\ \A i \in Count(ds) : Even(ds, i)
           /\ \A c \in ClerkWork : \A js : WorkStands(c, es, js) => WorkStands(c, ds, js)
<1>1. Grows(es, ds)
  BY WritesBasics
<1>2. \A i \in Count(es) : ds[i].journal = es[i].journal /\ ds[i].number = es[i].number /\ ds[i].period = es[i].period
                           /\ ds[i].year = es[i].year
  BY WritesBasics
<1>3. Count(es) \subseteq Count(ds)
  BY <1>1, GrowsBasics
<1>4. \A row : Follows(es, row) => Follows(ds, row)
  BY <1>2, <1>3, FollowsGrows
<1>5. NoGaps(ds)
  <2>. SUFFICES ASSUME NEW k \in Count(ds), ds[k].journal # NoJournal PROVE Follows(ds, ds[k])
    BY DEF NoGaps
  <2>1. CASE k \in Count(es)
    <3>1. Follows(es, es[k])
      BY <1>2, <2>1 DEF NoGaps
    <3>2. Follows(es, ds[k])
      BY <3>1, <1>2, <2>1 DEF Follows
    <3>. QED BY <3>2, <1>4
  <2>2. CASE k \notin Count(es)
    <3>1. PICK n \in 1..Len(tail) : ds[k] = tail[n]
      BY <2>2, WritesBasics DEF New
    <3>. QED BY <3>1, <1>4
  <2>. QED BY <2>1, <2>2
<1>6. \A c \in ClerkWork : \A js : WorkStands(c, es, js) => WorkStands(c, ds, js)
  <2>. SUFFICES ASSUME NEW c \in ClerkWork, NEW js, WorkStands(c, es, js) PROVE WorkStands(c, ds, js)
    OBVIOUS
  <2>. QED BY <1>1, <1>2, WorkGrows
<1>. QED BY <1>1, <1>5, <1>6, HistoryGrows, EvenGrows

(* Entries of no year and no reopening leave the years as they are.           *)
LEMMA YearsKept ==
    ASSUME NEW es, NEW mid, NEW tail, NEW ds, Writes(es, mid, tail, ds), History(es),
           NEW rows \in [Years -> ClosingRow], \A y \in Years : YearStands(es, rows[y], y),
           \A n \in 1..Len(tail) : tail[n].kind \notin {"closing", "reopening"}
    PROVE  \A y \in Years : YearStands(ds, rows[y], y)
<1>. SUFFICES ASSUME NEW y \in Years PROVE YearStands(ds, rows[y], y)
  OBVIOUS
<1>1. Grows(es, ds)
  BY WritesBasics
<1>2. \A k \in New(es, ds) : ds[k].kind \notin {"closing", "reopening"}
  BY WritesBasics
<1>3. rows[y] \in ClosingRow
  OBVIOUS
<1>4. ~NewlyReopened(es, ds, rows[y].closing)
  BY <1>2 DEF NewlyReopened
<1>. QED BY <1>1, <1>2, <1>3, <1>4, YearGrows

(* The books after such a step, the years aside.                              *)
LEMMA BooksWritten ==
    ASSUME BooksInv, NEW mid, NEW tail, Writes(entries, mid, tail, entries'),
           \A n \in 1..Len(tail) : tail[n].journal # NoJournal => Follows(entries, tail[n]),
           clerk' = clerk \/ \E u \in Clerks : clerk' = [clerk EXCEPT ![u] = Rest],
           closings' \in [Years -> ClosingRow], \A y \in Years : YearStands(entries', closings'[y], y),
           UNCHANGED <<thisYear, accounts, journals, rule>>
    PROVE  BooksInv'
<1>1. /\ History(entries') /\ NoGaps(entries') /\ \A i \in Count(entries') : Even(entries', i)
      /\ \A c \in ClerkWork : \A js : WorkStands(c, entries, js) => WorkStands(c, entries', js)
  <2>1. History(entries) /\ NoGaps(entries) /\ \A i \in Count(entries) : Even(entries, i)
    BY DEF BooksInv, Ids, Count
  <2>. QED BY <2>1, WritesKeep
<1>2. entries' \in Seq(EntryRow)
  BY WritesBasics DEF Grows
<1>3. clerk' \in [Clerks -> ClerkWork] /\ \A v \in Clerks : clerk'[v] = clerk[v] \/ clerk'[v] = Rest
  BY DEF BooksInv, BooksTyped, ClerkWork
<1>4. ClerksStand'
  <2>. SUFFICES ASSUME NEW v \in Clerks PROVE WorkStands(clerk'[v], entries', journals')
    BY DEF ClerksStand
  <2>1. CASE clerk'[v] = clerk[v]
    <3>1. clerk[v] \in ClerkWork /\ WorkStands(clerk[v], entries, journals)
      BY DEF BooksInv, BooksTyped, ClerksStand
    <3>2. WorkStands(clerk[v], entries', journals)
      BY <1>1, <3>1
    <3>3. journals' = journals
      OBVIOUS
    <3>. QED BY <2>1, <3>2, <3>3
  <2>2. CASE clerk'[v] = Rest
    BY <2>2 DEF WorkStands, Rest
  <2>. QED BY <1>3, <2>1, <2>2
<1>5. BooksTyped'
  BY <1>2, <1>3 DEF BooksInv, BooksTyped
<1>6. \A i \in Ids' : Even(entries', i)
  BY <1>1 DEF Ids, Count
<1>. QED BY <1>1, <1>4, <1>5, <1>6 DEF BooksInv

(* The elements of a finite set, put in a sequence.                           *)
LEMMA Sequenced ==
    ASSUME NEW S, IsFiniteSet(S)
    PROVE  /\ SetToSeq(S) \in Seq(S)
           /\ \A x \in S : \E n \in 1..Len(SetToSeq(S)) : SetToSeq(S)[n] = x
<1>. DEFINE n == Cardinality(S)
            f == SetToSeq(S)
<1>1. n \in Nat /\ ExistsBijection(1..n, S)
  BY FS_CardinalityType
<1>2. \E g \in [1..n -> S] : IsInjective(g)
  BY <1>1 DEF ExistsBijection, Bijection, Injection
<1>3. f \in [1..n -> S] /\ IsInjective(f)
  BY <1>2 DEF SetToSeq
<1>. HIDE DEF f
<1>4. f \in Injection(1..n, S)
  BY <1>3 DEF Injection
<1>5. Cardinality(1..n) = n
  BY <1>1, FS_Interval
<1>6. f \in Surjection(1..n, S)
  BY <1>4, <1>5, FS_Injection
<1>7. \A x \in S : \E k \in 1..n : f[k] = x
  BY <1>6 DEF Surjection
<1>8. f \in Seq(S) /\ Len(f) = n
  BY <1>1, <1>3
<1>. QED BY <1>7, <1>8 DEF f

(* The types of what a transaction under way carries.                         *)
LEMMA WorkType ==
    ASSUME NEW c \in ClerkWork
    PROVE  /\ c.op = "insert" => c.row \in EntryRow
           /\ c.op = "reverse" => c.entry \in Nat
           /\ c.op = "close" => c.year \in Years /\ c.closing \in LinesRow /\ c.transfer \in LinesRow
           /\ c.op = "journal" => c.journal \in Journals /\ c.row \in JournalRow
           /\ c.op = "document" => c.journal \in Journals /\ c.state \in {"none", "inactive"}
  BY DEF ClerkWork, Rest

(* Of what a step that reverses nothing of a year needs to be shown.          *)
LEMMA MarkedAre ==
    ASSUME NEW es \in Seq(EntryRow), NEW ids
    PROVE  \A i \in Count(es) : /\ Flagged(es[i], MarkReversed(es, ids)[i])
                                /\ MarkReversed(es, ids)[i].status # es[i].status => i \in ids
  BY MarksType

(* A sequence of one row.                                                     *)
LEMMA OneRow ==
    ASSUME NEW row \in EntryRow
    PROVE  <<row>> \in Seq(EntryRow) /\ Len(<<row>>) = 1 /\ <<row>>[1] = row
  OBVIOUS

(* A step that writes no entry of a reopening reopens nothing.                *)
LEMMA NoReopening ==
    ASSUME NEW es, NEW ds, \A k \in New(es, ds) : ds[k].kind # "reopening"
    PROVE  \A i : ~NewlyReopened(es, ds, i)
  BY DEF NewlyReopened

(* The save of an entry, of createEntry or of the automatic journal.          *)
LEMMA InsertKeeps ==
    ASSUME BooksInv, NEW u \in Clerks, Insert(u)
    PROVE  BooksInv'
<1>. DEFINE row == clerk[u].row
            tail == <<row>>
<1>1. entries \in Seq(EntryRow) /\ clerk[u] \in ClerkWork /\ WorkStands(clerk[u], entries, journals) /\ clerk[u].op = "insert"
  BY DEF BooksInv, BooksTyped, ClerksStand, Insert
<1>2. /\ row \in EntryRow /\ row.of = 0 /\ row.kind \in {"manual", "auto"} /\ EvenRow(row)
      /\ row.journal # NoJournal => Follows(entries, row)
  BY <1>1, WorkType DEF WorkStands, Insert, KeysHold
<1>3. entries' = entries \o tail
  BY <1>1, <1>2 DEF Insert
<1>4. tail \in Seq(EntryRow) /\ Len(tail) = 1 /\ tail[1] = row
  BY <1>2, OneRow
<1>5. UNCHANGED <<thisYear, accounts, journals, rule, closings>> /\ clerk' = [clerk EXCEPT ![u] = Rest]
  BY DEF Insert, Finish
<1>. HIDE DEF row, tail
<1>6. Adjoined(entries, entries, tail, entries')
  BY <1>1, <1>3, <1>4, Appended
<1>7. \A k \in New(entries, entries') : entries'[k] = row
  <2>1. \A k \in New(entries, entries') : k - Len(entries) \in 1..1 /\ entries'[k] = tail[k - Len(entries)]
    BY <1>4, <1>6 DEF Adjoined
  <2>2. \A k \in New(entries, entries') : k - Len(entries) = 1
    BY <2>1
  <2>. QED BY <2>1, <2>2, <1>4
<1>8. Len(entries) \in Nat
  BY <1>1
<1>9. \A k \in New(entries, entries') : Joins(entries, entries', k)
  BY <1>2, <1>7, <1>8 DEF Joins, Primary, OfAYear
<1>10. \A k \in New(entries, entries') : entries'[k].kind # "reopening"
  BY <1>2, <1>7
<1>11. Writes(entries, entries, tail, entries')
  <2>1. \A i \in Count(entries) : Flagged(entries[i], entries[i])
    BY DEF Flagged
  <2>. QED BY <1>1, <1>3, <1>4, <1>9, <1>10, <2>1, NoReopening DEF Writes
<1>12. \A n \in 1..Len(tail) : tail[n] = row
  BY <1>4
<1>13. closings \in [Years -> ClosingRow] /\ \A y \in Years : YearStands(entries, closings[y], y)
  BY DEF BooksInv, BooksTyped
<1>14. \A y \in Years : YearStands(entries', closings[y], y)
  <2>1. \A n \in 1..Len(tail) : tail[n].kind \notin {"closing", "reopening"}
    BY <1>2, <1>12
  <2>2. History(entries)
    BY DEF BooksInv
  <2>. QED BY <1>11, <1>13, <2>1, <2>2, YearsKept
<1>. QED BY <1>2, <1>5, <1>11, <1>12, <1>13, <1>14, BooksWritten

\* Reversals by hand and of a cancelled document.
Reverses(row) ==
    /\ row.kind = "reversal" /\ row.of \in Ids /\ row.journal = NoJournal
    /\ row.lines = Against(entries[row.of].lines)

(* A step that writes reversals, and marks only entries it reverses, keeps    *)
(* the invariant.                                                             *)
LEMMA ReversalsKeep ==
    ASSUME BooksInv, NEW ids, NEW tail \in Seq(EntryRow),
           entries' = MarkReversed(entries, ids) \o tail,
           \A i \in ids : \E n \in 1..Len(tail) : tail[n].of = i,
           \A n \in 1..Len(tail) : Reverses(tail[n]),
           UNCHANGED <<thisYear, accounts, journals, rule, closings>>,
           clerk' = clerk \/ \E u \in Clerks : clerk' = [clerk EXCEPT ![u] = Rest]
    PROVE  BooksInv'
<1>. DEFINE mid == MarkReversed(entries, ids)
<1>1. entries \in Seq(EntryRow) /\ Len(entries) \in Nat
  BY DEF BooksInv, BooksTyped
<1>2. /\ mid \in Seq(EntryRow) /\ Len(mid) = Len(entries)
      /\ \A i \in Count(entries) : Flagged(entries[i], mid[i]) /\ (mid[i].status # entries[i].status => i \in ids)
  BY <1>1, MarksType, MarkedAre
<1>. HIDE DEF mid
<1>3. entries' = mid \o tail
  BY DEF mid
<1>4. Adjoined(entries, mid, tail, entries')
  BY <1>1, <1>2, <1>3, Appended
<1>5. \A k \in New(entries, entries') : Reverses(entries'[k])
  BY <1>4 DEF Adjoined
<1>6. \A k \in New(entries, entries') : Joins(entries, entries', k)
  <2>. SUFFICES ASSUME NEW k \in New(entries, entries') PROVE Joins(entries, entries', k)
    OBVIOUS
  <2>. DEFINE row == entries'[k]
  <2>1. row.kind = "reversal" /\ row.of \in 1..Len(entries) /\ row.lines = Against(entries[row.of].lines)
    BY <1>5 DEF Reverses, Ids
  <2>. HIDE DEF row
  <2>2. row.of \in 0..Len(entries) /\ row.of # 0
    BY <2>1, <1>1
  <2>. QED BY <2>1, <2>2 DEF Joins, Primary, OfAYear, row
<1>7. \A k \in New(entries, entries') : entries'[k].kind # "reopening"
  BY <1>5 DEF Reverses
<1>8. Writes(entries, mid, tail, entries')
  BY <1>1, <1>2, <1>3, <1>6, <1>7, NoReopening DEF Writes
<1>9. \A n \in 1..Len(tail) : tail[n].kind \notin {"closing", "reopening"} /\ tail[n].journal = NoJournal
  BY DEF Reverses
<1>10. closings \in [Years -> ClosingRow] /\ (\A y \in Years : YearStands(entries, closings[y], y)) /\ History(entries)
  BY DEF BooksInv, BooksTyped
<1>11. \A y \in Years : YearStands(entries', closings[y], y)
  BY <1>8, <1>9, <1>10, YearsKept
<1>. QED BY <1>8, <1>9, <1>10, <1>11, BooksWritten

(* The save of reverseEntry: it reads the entry again, and reverses it only   *)
(* if it is posted.                                                           *)
LEMMA ReverseEntryKeeps ==
    ASSUME BooksInv, NEW u \in Clerks, ReverseEntry(u)
    PROVE  BooksInv'
<1>. DEFINE i == clerk[u].entry
            row == [Mirror(i, "reversal") EXCEPT !.ref = NoRef]
            tail == <<row>>
<1>1. /\ entries \in Seq(EntryRow) /\ thisYear \in Years /\ clerk[u] \in ClerkWork
      /\ WorkStands(clerk[u], entries, journals) /\ clerk[u].op = "reverse"
  BY DEF BooksInv, BooksTyped, ClerksStand, ReverseEntry
<1>2. i \in Ids
  BY <1>1 DEF WorkStands, Ids, Count
<1>3. /\ Mirror(i, "reversal") \in EntryRow /\ Mirror(i, "reversal").kind = "reversal" /\ Mirror(i, "reversal").of = i
      /\ Mirror(i, "reversal").lines = Against(entries[i].lines) /\ Mirror(i, "reversal").journal = NoJournal
  BY <1>1, <1>2, MirrorRow
<1>4. row \in EntryRow
  BY <1>3 DEF EntryRow
<1>5. Reverses(row) /\ row.of = i
  BY <1>2, <1>3 DEF Reverses, EntryRow
<1>6. MarkReversed(entries, {i}) \in Seq(EntryRow)
  BY <1>1, MarksType
<1>7. entries' = Append(MarkReversed(entries, {i}), row)
  BY DEF ReverseEntry
<1>8. UNCHANGED <<thisYear, accounts, journals, rule, closings>> /\ clerk' = [clerk EXCEPT ![u] = Rest]
  BY DEF ReverseEntry, Finish
<1>. HIDE DEF i, row
<1>9. entries' = MarkReversed(entries, {i}) \o tail
  BY <1>4, <1>6, <1>7
<1>10. tail \in Seq(EntryRow) /\ Len(tail) = 1 /\ tail[1] = row
  BY <1>4, OneRow
<1>. DEFINE S == {i}
<1>. HIDE DEF tail
<1>11. entries' = MarkReversed(entries, S) \o tail /\ \A j \in S : \E n \in 1..Len(tail) : tail[n].of = j
  BY <1>5, <1>9, <1>10
<1>. HIDE DEF S
<1>12. \A n \in 1..Len(tail) : Reverses(tail[n])
  BY <1>5, <1>10
<1>. QED BY <1>8, <1>10, <1>11, <1>12, ReversalsKeep

(* The automatic journal reverses the entries of a document.                  *)
LEMMA ReverseForReferenceKeeps ==
    ASSUME BooksInv, NEW ref \in Refs, ReverseForReference(ref)
    PROVE  BooksInv'
<1>. DEFINE S == Reversible(ref)
            ids == SetToSeq(S)
            tail == [n \in DOMAIN ids |-> Mirror(ids[n], "reversal")]
<1>1. entries \in Seq(EntryRow) /\ thisYear \in Years
  BY DEF BooksInv, BooksTyped
<1>2. S \in SUBSET Ids
  BY DEF Reversible
<1>3. IsFiniteSet(S)
  BY <1>1, <1>2, FiniteIds, FS_Subset
<1>4. entries' = MarkReversed(entries, S) \o tail
  BY DEF ReverseForReference
<1>. HIDE DEF S
<1>5. ids \in Seq(S) /\ \A x \in S : \E n \in 1..Len(ids) : ids[n] = x
  BY <1>3, Sequenced
<1>. HIDE DEF ids
<1>6. DOMAIN ids = 1..Len(ids) /\ Len(ids) \in Nat /\ \A n \in 1..Len(ids) : ids[n] \in Ids
  BY <1>2, <1>5
<1>7. \A n \in 1..Len(ids) : /\ Mirror(ids[n], "reversal") \in EntryRow /\ Reverses(Mirror(ids[n], "reversal"))
                             /\ Mirror(ids[n], "reversal").of = ids[n]
  <2>. SUFFICES ASSUME NEW n \in 1..Len(ids)
                PROVE  /\ Mirror(ids[n], "reversal") \in EntryRow /\ Reverses(Mirror(ids[n], "reversal"))
                       /\ Mirror(ids[n], "reversal").of = ids[n]
    OBVIOUS
  <2>. DEFINE i == ids[n]
              row == Mirror(i, "reversal")
  <2>1. i \in Ids
    BY <1>6
  <2>. HIDE DEF i
  <2>2. row \in EntryRow /\ row.kind = "reversal" /\ row.of = i
        /\ row.lines = Against(entries[i].lines) /\ row.journal = NoJournal
    BY <1>1, <2>1, MirrorRow
  <2>. HIDE DEF row
  <2>3. Reverses(row)
    BY <2>1, <2>2 DEF Reverses
  <2>. QED BY <2>2, <2>3 DEF row, i
<1>8. tail \in Seq(EntryRow) /\ Len(tail) = Len(ids) /\ \A n \in 1..Len(ids) : tail[n] = Mirror(ids[n], "reversal")
  BY <1>6, <1>7
<1>. HIDE DEF tail
<1>9. \A i \in S : \E n \in 1..Len(tail) : tail[n].of = i
  <2>. SUFFICES ASSUME NEW i \in S PROVE \E n \in 1..Len(tail) : tail[n].of = i
    OBVIOUS
  <2>1. PICK n \in 1..Len(ids) : ids[n] = i
    BY <1>5
  <2>. QED BY <2>1, <1>7, <1>8
<1>10. \A n \in 1..Len(tail) : Reverses(tail[n])
  BY <1>7, <1>8
<1>11. UNCHANGED <<thisYear, accounts, journals, rule, closings>> /\ clerk' = clerk
  BY DEF ReverseForReference
<1>. QED BY <1>4, <1>8, <1>9, <1>10, <1>11, ReversalsKeep

(* Closing a year.                                                            *)
LEMMA CloseKeeps ==
    ASSUME BooksInv, NEW u \in Clerks, Close(u)
    PROVE  BooksInv'
<1>. DEFINE w == clerk[u]
            y == w.year
            n == Len(entries)
            p == Plain("closing", y, w.closing)
            t == Plain("transfer", y, w.transfer)
            T == w.transfer = Zero
            tail == <<p>> \o (IF T THEN <<>> ELSE <<t>>)
            row == Named(n, tail)
<1>1. /\ entries \in Seq(EntryRow) /\ n \in Nat /\ w \in ClerkWork /\ WorkStands(w, entries, journals) /\ w.op = "close"
      /\ closings \in [Years -> ClosingRow] /\ History(entries)
      /\ \A z \in Years : YearStands(entries, closings[z], z)
  BY DEF BooksInv, BooksTyped, ClerksStand, Close
<1>2. /\ y \in Years /\ w.closing \in LinesRow /\ w.transfer \in LinesRow
      /\ Net(w.closing) = 0 /\ Net(w.transfer) = 0 /\ w.closing[Summary] + w.transfer[Summary] = 0
      /\ ~w.fresh => YearReopened(entries, y)
  BY <1>1, WorkType DEF WorkStands
<1>3. w.fresh => closings[y].status = "none"
  BY DEF Close, RowMayBeWritten
<1>4. entries' = entries \o tail
  BY DEF Close
<1>5. closings' = [closings EXCEPT ![y] = row]
  BY DEF Close
<1>6. UNCHANGED <<thisYear, accounts, journals, rule>> /\ clerk' = [clerk EXCEPT ![u] = Rest]
  BY DEF Close, Finish
<1>7. Summary \in Accounts
  BY BookkeepingAssumption
<1>8. T => w.closing[Summary] = 0
  <2>1. T => w.transfer[Summary] = 0
    BY <1>7 DEF Zero
  <2>2. w.closing[Summary] \in Int
    BY <1>2, <1>7 DEF LinesRow
  <2>. QED BY <2>1, <2>2, <1>2
<1>. HIDE DEF w, T
<1>9. p \in EntryRow /\ p.kind = "closing" /\ p.year = y /\ p.lines = w.closing /\ p.status = "posted" /\ p.of = 0
  <2>1. "closing" \in Kinds
    BY DEF Kinds
  <2>2. p \in EntryRow
    BY <1>2, <2>1, PlainRow
  <2>. QED BY <2>2 DEF Plain
<1>10. p.journal = NoJournal /\ t.journal = NoJournal
  BY DEF Plain
<1>11. t \in EntryRow /\ t.kind = "transfer" /\ t.year = y /\ t.lines = w.transfer /\ t.status = "posted" /\ t.of = 0
  <2>1. "transfer" \in Kinds
    BY DEF Kinds
  <2>2. t \in EntryRow
    BY <1>2, <2>1, PlainRow
  <2>. QED BY <2>2 DEF Plain
<1>. HIDE DEF p, t
<1>12. /\ tail \in Seq(EntryRow) /\ Len(tail) = (IF T THEN 1 ELSE 2) /\ tail[1] = p
       /\ ~T => tail[2] = t
  <2>1. CASE T
    <3>1. tail = <<p>>
      BY <2>1
    <3>. HIDE DEF tail
    <3>. QED BY <2>1, <3>1, <1>9
  <2>2. CASE ~T
    <3>. DEFINE a == <<p>>
                b == <<t>>
    <3>1. tail = a \o b
      BY <2>2
    <3>2. a \in Seq(EntryRow) /\ Len(a) = 1 /\ a[1] = p /\ b \in Seq(EntryRow) /\ Len(b) = 1 /\ b[1] = t
      BY <1>9, <1>11, OneRow
    <3>. HIDE DEF tail, a, b
    <3>3. tail \in Seq(EntryRow) /\ Len(tail) = 2 /\ tail[1] = a[1] /\ tail[2] = b[1]
      BY <3>1, <3>2, ConcatProperties
    <3>. QED BY <2>2, <3>2, <3>3
  <2>. QED BY <2>1, <2>2
<1>13. row.status = "closed" /\ row.closing = n + 1 /\ row.transfer = (IF T THEN 0 ELSE n + 2) /\ row \in ClosingRow
  <2>1. Len(tail) = 2 <=> ~T
    BY <1>12
  <2>. HIDE DEF tail
  <2>. QED BY <2>1, <1>1 DEF Named, ClosingRow
<1>. HIDE DEF tail, row
<1>14. Adjoined(entries, entries, tail, entries')
  BY <1>1, <1>4, <1>12, Appended
<1>15. Len(entries') = n + (IF T THEN 1 ELSE 2) /\ \A i \in Count(entries) : entries'[i] = entries[i]
  BY <1>12, <1>14 DEF Adjoined
<1>16. /\ n + 1 \in New(entries, entries') /\ entries'[n + 1] = p
       /\ ~T => n + 2 \in New(entries, entries') /\ entries'[n + 2] = t
  <2>1. 1 \in 1..Len(tail) /\ (~T => 2 \in 1..Len(tail))
    BY <1>12
  <2>2. 1 + n \in New(entries, entries') /\ entries'[1 + n] = tail[1]
    BY <2>1, <1>14 DEF Adjoined
  <2>3. ~T => 2 + n \in New(entries, entries') /\ entries'[2 + n] = tail[2]
    BY <2>1, <1>14 DEF Adjoined
  <2>. QED BY <2>2, <2>3, <1>12, <1>1
<1>17. \A k \in New(entries, entries') : k = n + 1 \/ (~T /\ k = n + 2)
  BY <1>1, <1>15 DEF New, Count
<1>18. HasTransfer(entries', n + 1) <=> ~T
  <2>1. CASE T
    <3>1. n + 1 + 1 \notin Count(entries')
      BY <2>1, <1>1, <1>15 DEF Count
    <3>. QED BY <2>1, <3>1 DEF HasTransfer
  <2>2. CASE ~T
    <3>1. n + 1 + 1 = n + 2 /\ n + 2 \in Count(entries')
      BY <2>2, <1>1, <1>16 DEF New
    <3>. QED BY <2>2, <3>1, <1>11, <1>16 DEF HasTransfer
  <2>. QED BY <2>1, <2>2
<1>19. Cleared(entries', n + 1)
  <2>1. CASE T
    BY <2>1, <1>8, <1>9, <1>16, <1>18 DEF Cleared
  <2>2. CASE ~T
    <3>1. n + 1 + 1 = n + 2
      BY <1>1
    <3>. QED BY <2>2, <3>1, <1>2, <1>9, <1>11, <1>16, <1>18 DEF Cleared
  <2>. QED BY <2>1, <2>2
<1>20. \A k \in New(entries, entries') : Joins(entries, entries', k)
  <2>1. Joins(entries, entries', n + 1)
    <3>1. EvenRow(p)
      BY <1>2, <1>9 DEF EvenRow
    <3>. QED BY <3>1, <1>1, <1>9, <1>16, <1>19 DEF Joins, Primary, OfAYear
  <2>2. ~T => Joins(entries, entries', n + 2)
    <3>1. EvenRow(t)
      BY <1>2, <1>11 DEF EvenRow
    <3>2. n + 2 - 1 \notin Count(entries) /\ 0 \in 0..n
      BY <1>1 DEF Count
    <3>. QED BY <3>1, <3>2, <1>1, <1>11, <1>16 DEF Joins, Primary, OfAYear
  <2>. QED BY <2>1, <2>2, <1>17
<1>21. \A k \in New(entries, entries') : entries'[k].kind # "reopening" /\ entries'[k].year = y
  BY <1>9, <1>11, <1>16, <1>17
<1>22. \A i : ~NewlyReopened(entries, entries', i)
  BY <1>21, NoReopening
<1>23. Writes(entries, entries, tail, entries')
  <2>1. \A i \in Count(entries) : Flagged(entries[i], entries[i])
    BY DEF Flagged
  <2>. QED BY <1>1, <1>4, <1>12, <1>20, <1>22, <2>1 DEF Writes
<1>24. \A k \in 1..Len(tail) : tail[k].journal = NoJournal
  BY <1>10, <1>12
<1>25. Grows(entries, entries')
  BY <1>23, WritesBasics
<1>26. YearStands(entries', row, y)
  <2>1. ClosingOf(entries', n + 1, y)
    BY <1>9, <1>16 DEF ClosingOf, New
  <2>2. row.transfer = IF HasTransfer(entries', row.closing) THEN row.closing + 1 ELSE 0
    <3>1. n + 1 + 1 = n + 2
      BY <1>1
    <3>. QED BY <3>1, <1>13, <1>18
  <2>3. ~Reopened(entries', n + 1)
    <3>1. ~Reopened(entries, n + 1)
      <4>. SUFFICES ASSUME NEW k \in Count(entries), entries[k].of = n + 1 PROVE FALSE
        BY DEF Reopened
      <4>1. entries[k].of < k /\ k <= n /\ k \in Nat
        BY <1>1 DEF History, Linked, Count
      <4>. QED BY <4>1, <1>1
    <3>2. n + 1 \in Nat
      BY <1>1
    <3>. QED BY <3>1, <3>2, <1>22, <1>25, ReopenedGrows
  <2>4. ASSUME NEW i \in Count(entries'), ClosingOf(entries', i, y), i # n + 1
        PROVE  YearReopened(entries', y)
    <3>1. i \in Count(entries)
      <4>1. i \in New(entries, entries') => i = n + 2 /\ ~T
        BY <2>4, <1>17
      <4>2. i \notin New(entries, entries')
        BY <4>1, <2>4, <1>11, <1>16 DEF ClosingOf
      <4>. QED BY <4>2 DEF New
    <3>2. ClosingOf(entries, i, y)
      BY <2>4, <3>1, <1>15 DEF ClosingOf
    <3>3. closings[y].status # "none"
      BY <3>1, <3>2, <1>1, <1>2 DEF YearStands
    <3>4. YearReopened(entries, y)
      BY <3>3, <1>2, <1>3
    <3>. QED BY <3>4, <1>25, YearReopenedStays
  <2>. QED BY <2>1, <2>2, <2>3, <2>4, <1>13 DEF YearStands
<1>27. ASSUME NEW z \in Years, z # y PROVE YearStands(entries', closings[z], z)
  <2>1. closings[z] \in ClosingRow /\ YearStands(entries, closings[z], z)
    BY <1>1
  <2>2. \A k \in New(entries, entries') : entries'[k].kind = "closing" => entries'[k].year # z
    BY <1>21, <1>27
  <2>. QED BY <2>1, <2>2, <1>1, <1>22, <1>25, YearGrows
<1>28. closings' \in [Years -> ClosingRow] /\ \A z \in Years : YearStands(entries', closings'[z], z)
  <2>1. closings'[y] = row /\ \A z \in Years : z # y => closings'[z] = closings[z]
    BY <1>1, <1>2, <1>5
  <2>2. closings' \in [Years -> ClosingRow]
    BY <1>1, <1>5, <1>13
  <2>. QED BY <2>1, <2>2, <1>26, <1>27
<1>. QED BY <1>6, <1>23, <1>24, <1>28, BooksWritten

(* Reopening a year.                                                          *)
LEMMA ReopenKeeps ==
    ASSUME BooksInv, NEW y \in Years, Reopen(y)
    PROVE  BooksInv'
<1>. DEFINE c == closings[y]
            n == Len(entries)
            a == c.closing
            b == c.transfer
            H == HasTransfer(entries, a)
            ids == {a, b} \ {0}
            p == Mirror(a, "reopening")
            t == Mirror(b, "reopening")
            tail == (IF b = 0 THEN <<>> ELSE <<t>>) \o <<p>>
            mid == MarkReversed(entries, ids)
            row == [c EXCEPT !.status = "reopened"]
<1>1. /\ entries \in Seq(EntryRow) /\ n \in Nat /\ thisYear \in Years
      /\ closings \in [Years -> ClosingRow] /\ History(entries)
      /\ \A z \in Years : YearStands(entries, closings[z], z)
  BY DEF BooksInv, BooksTyped
<1>2. c \in ClosingRow /\ c.status = "closed" /\ a \in Nat /\ b \in Nat
  BY <1>1 DEF Reopen, ClosingRow
<1>3. ClosingOf(entries, a, y) /\ b = (IF H THEN a + 1 ELSE 0) /\ ~Reopened(entries, a)
  BY <1>1, <1>2 DEF YearStands
<1>4. entries' = mid \o tail
  <2>1. entries' = MarkReversed(entries, ids) \o (IF b = 0 THEN <<>> ELSE <<t>>) \o <<p>>
    BY DEF Reopen
  <2>2. MarkReversed(entries, ids) \in Seq(EntryRow)
    BY <1>1, MarksType
  <2>. HIDE DEF p, t, ids
  <2>3. CASE b = 0
    BY <2>1, <2>2, <2>3
  <2>4. CASE b # 0
    <3>1. entries' = (mid \o <<t>>) \o <<p>> /\ tail = <<t>> \o <<p>>
      BY <2>1, <2>4
    <3>. HIDE DEF mid
    <3>. DEFINE S == {t, p} \cup EntryRow
    <3>2. mid \in Seq(S) /\ <<t>> \in Seq(S) /\ <<p>> \in Seq(S)
      BY <2>2 DEF mid
    <3>3. (mid \o <<t>>) \o <<p>> = mid \o (<<t>> \o <<p>>)
      BY <3>2, ConcatAssociative
    <3>. QED BY <3>1, <3>3
  <2>. QED BY <2>3, <2>4
<1>5. closings' = [closings EXCEPT ![y] = row]
  BY DEF Reopen
<1>6. UNCHANGED <<thisYear, accounts, journals, rule>> /\ clerk' = clerk
  BY DEF Reopen
<1>7. a \in Ids /\ entries[a].kind = "closing" /\ entries[a].year = y /\ a # 0
  BY <1>3, <1>1 DEF ClosingOf, Count, Ids
<1>8. H => b = a + 1 /\ b \in Ids /\ entries[b].kind = "transfer" /\ b # 0 /\ ~Reopened(entries, b)
  <2>1. H => b = a + 1 /\ b \in Ids /\ entries[b].kind = "transfer" /\ b # 0
    BY <1>2, <1>3 DEF HasTransfer, Ids, Count
  <2>2. Linked(entries, a)
    BY <1>1, <1>7 DEF History, Ids, Count
  <2>3. H => (Reopened(entries, a) <=> Reopened(entries, a + 1))
    BY <2>2, <1>7 DEF Linked
  <2>. QED BY <2>1, <2>3, <1>3
<1>9. ~H => b = 0
  BY <1>3
<1>10. row.status = "reopened" /\ row.closing = a /\ row.transfer = b /\ row \in ClosingRow
  BY <1>2 DEF ClosingRow
<1>11. /\ p \in EntryRow /\ p.kind = "reopening" /\ p.of = a /\ p.lines = Against(entries[a].lines)
       /\ p.status = "posted" /\ p.journal = NoJournal
  BY <1>1, <1>7, MirrorRow
<1>12. H => /\ t \in EntryRow /\ t.kind = "reopening" /\ t.of = b /\ t.lines = Against(entries[b].lines)
            /\ t.status = "posted" /\ t.journal = NoJournal
  BY <1>1, <1>8, MirrorRow
<1>. HIDE DEF p, t
<1>13. /\ tail \in Seq(EntryRow) /\ Len(tail) = (IF H THEN 2 ELSE 1)
       /\ H => tail[1] = t /\ tail[2] = p
       /\ ~H => tail[1] = p
  <2>1. CASE ~H
    <3>0. tail = <<>> \o <<p>> /\ <<p>> \in Seq(EntryRow)
      BY <2>1, <1>9, <1>11, OneRow
    <3>1. tail = <<p>>
      BY <3>0, ConcatEmptySeq
    <3>. HIDE DEF tail, H
    <3>. QED BY <2>1, <3>1, <1>11
  <2>2. CASE H
    <3>. DEFINE f == <<t>>
                g == <<p>>
    <3>1. tail = f \o g
      BY <2>2, <1>8
    <3>2. f \in Seq(EntryRow) /\ Len(f) = 1 /\ f[1] = t /\ g \in Seq(EntryRow) /\ Len(g) = 1 /\ g[1] = p
      BY <2>2, <1>11, <1>12, OneRow
    <3>. HIDE DEF tail, f, g, H
    <3>3. tail \in Seq(EntryRow) /\ Len(tail) = 2 /\ tail[1] = f[1] /\ tail[2] = g[1]
      BY <3>1, <3>2, ConcatProperties
    <3>. QED BY <2>2, <3>2, <3>3
  <2>. QED BY <2>1, <2>2
<1>14. ids = IF H THEN {a, b} ELSE {a}
  BY <1>7, <1>8, <1>9
<1>15. /\ mid \in Seq(EntryRow) /\ Len(mid) = Len(entries)
       /\ \A i \in Count(entries) : /\ Flagged(entries[i], mid[i])
                                    /\ i \in ids => mid[i].status = "reversed"
                                    /\ mid[i].status # entries[i].status => i \in ids
  BY <1>1, MarksType, MarkedAre
<1>. HIDE DEF H, ids, tail, mid, row
<1>16. Adjoined(entries, mid, tail, entries')
  BY <1>1, <1>4, <1>13, <1>15, Appended
<1>17. Len(entries') = n + (IF H THEN 2 ELSE 1) /\ \A i \in Count(entries) : entries'[i] = mid[i]
  BY <1>13, <1>16 DEF Adjoined
<1>18. /\ n + 1 \in New(entries, entries') /\ entries'[n + 1] = (IF H THEN t ELSE p)
       /\ H => n + 2 \in New(entries, entries') /\ entries'[n + 2] = p
  <2>1. 1 \in 1..Len(tail) /\ (H => 2 \in 1..Len(tail))
    BY <1>13
  <2>2. 1 + n \in New(entries, entries') /\ entries'[1 + n] = tail[1]
    BY <2>1, <1>16 DEF Adjoined
  <2>3. H => 2 + n \in New(entries, entries') /\ entries'[2 + n] = tail[2]
    BY <2>1, <1>16 DEF Adjoined
  <2>. QED BY <2>2, <2>3, <1>13, <1>1
<1>19. \A k \in New(entries, entries') : k = n + 1 \/ (H /\ k = n + 2)
  BY <1>1, <1>17 DEF New, Count
<1>20. \A k \in New(entries, entries') : (k = n + 1 /\ H /\ entries'[k] = t) \/ (k = (IF H THEN n + 2 ELSE n + 1) /\ entries'[k] = p)
  BY <1>18, <1>19
<1>21. a \in Int /\ (H => b = a + 1)
  BY <1>2, <1>8
<1>22. \A i : NewlyReopened(entries, entries', i) <=> i \in ids
  <2>1. ASSUME NEW i, NewlyReopened(entries, entries', i) PROVE i \in ids
    BY <2>1, <1>11, <1>12, <1>14, <1>20 DEF NewlyReopened
  <2>2. NewlyReopened(entries, entries', a)
    <3>1. PICK k \in New(entries, entries') : entries'[k] = p
      BY <1>18
    <3>. QED BY <3>1, <1>11 DEF NewlyReopened
  <2>3. H => NewlyReopened(entries, entries', b)
    BY <1>12, <1>18 DEF NewlyReopened
  <2>. QED BY <2>1, <2>2, <2>3, <1>14
<1>23. \A i \in ids : /\ i \in Ids /\ i # 0 /\ entries[i].kind \in {"closing", "transfer"} /\ ~Reopened(entries, i)
                      /\ entries'[i].status # "posted"
  <2>1. \A i \in ids : i \in Ids /\ i # 0 /\ entries[i].kind \in {"closing", "transfer"} /\ ~Reopened(entries, i)
    BY <1>3, <1>7, <1>8, <1>14
  <2>2. \A i \in ids : entries'[i].status = "reversed"
    BY <2>1, <1>15, <1>17 DEF Ids, Count
  <2>. QED BY <2>1, <2>2
<1>24. \A k \in New(entries, entries') : Joins(entries, entries', k)
  <2>. SUFFICES ASSUME NEW k \in New(entries, entries') PROVE Joins(entries, entries', k)
    OBVIOUS
  <2>. DEFINE r == entries'[k]
              o == r.of
  <2>1. r.kind = "reopening" /\ o \in ids /\ r.lines = Against(entries[o].lines) /\ r.status = "posted"
    BY <1>11, <1>12, <1>14, <1>20
  <2>2. o \in Ids /\ o # 0 /\ entries[o].kind \in {"closing", "transfer"} /\ ~Reopened(entries, o)
        /\ entries'[o].status # "posted"
    BY <2>1, <1>23
  <2>3. \A j \in New(entries, entries') : entries'[j].of = o => j = k
    <3>1. H => t.of # p.of
      BY <1>11, <1>12, <1>21
    <3>. QED BY <3>1, <1>20
  <2>. HIDE DEF o
  <2>4. o \in 0..Len(entries)
    BY <2>2, <1>1 DEF Ids
  <2>. QED BY <2>1, <2>2, <2>3, <2>4 DEF Joins, Primary, OfAYear, o
<1>25. \A k \in Count(entries) : entries[k].kind = "closing" /\ HasTransfer(entries, k) =>
          (NewlyReopened(entries, entries', k) <=> NewlyReopened(entries, entries', k + 1))
  <2>. SUFFICES ASSUME NEW k \in Count(entries), entries[k].kind = "closing", HasTransfer(entries, k)
                PROVE  k \in ids <=> k + 1 \in ids
    BY <1>22
  <2>1. entries[k + 1].kind = "transfer" /\ k \in Nat
    BY <1>1 DEF HasTransfer, Count
  <2>2. k \in ids <=> k = a
    BY <1>8, <1>14
  <2>3. k + 1 \in ids <=> (H /\ k + 1 = b)
    BY <2>1, <1>7, <1>14
  <2>4. k = a => H
    BY DEF H
  <2>5. H => (k + 1 = b <=> k = a)
    BY <2>1, <1>21
  <2>. QED BY <2>2, <2>3, <2>4, <2>5
<1>26. Writes(entries, mid, tail, entries')
  <2>1. \A i \in ids : \E k \in 1..Len(tail) : tail[k].of = i
    <3>1. \E k \in 1..Len(tail) : tail[k].of = a
      BY <1>11, <1>13
    <3>2. H => \E k \in 1..Len(tail) : tail[k].of = b
      BY <1>12, <1>13
    <3>. QED BY <3>1, <3>2, <1>14
  <2>. QED BY <1>1, <1>4, <1>13, <1>15, <1>24, <1>25, <2>1 DEF Writes
<1>27. \A k \in 1..Len(tail) : tail[k].journal = NoJournal
  BY <1>11, <1>12, <1>13
<1>28. Grows(entries, entries')
  BY <1>26, WritesBasics
<1>29. \A i \in Count(entries) : entries'[i].kind = entries[i].kind /\ entries'[i].year = entries[i].year
  BY <1>28 DEF Grows, Kept
<1>30. YearStands(entries', row, y)
  <2>1. a \in Count(entries) /\ a \in Count(entries')
    BY <1>7, <1>28, GrowsBasics DEF Ids, Count
  <2>2. ClosingOf(entries', a, y)
    BY <2>1, <1>7, <1>29 DEF ClosingOf
  <2>3. HasTransfer(entries', a) <=> H
    BY <2>1, <1>28, TransferGrows DEF H
  <2>4. Reopened(entries', a)
    BY <1>2, <1>14, <1>22, <1>28, ReopenedGrows
  <2>5. YearReopened(entries', y)
    BY <2>1, <2>2, <2>4 DEF YearReopened
  <2>. QED BY <2>2, <2>3, <2>5, <1>8, <1>9, <1>10 DEF YearStands
<1>31. ASSUME NEW z \in Years, z # y PROVE YearStands(entries', closings[z], z)
  <2>1. closings[z] \in ClosingRow /\ YearStands(entries, closings[z], z)
    BY <1>1
  <2>2. \A k \in New(entries, entries') : entries'[k].kind # "closing"
    BY <1>11, <1>12, <1>20
  <2>3. closings[z].status = "closed" => ~NewlyReopened(entries, entries', closings[z].closing)
    <3>. SUFFICES ASSUME closings[z].status = "closed" PROVE closings[z].closing \notin ids
      BY <1>22
    <3>1. entries[closings[z].closing].kind = "closing" /\ entries[closings[z].closing].year = z
      BY <2>1 DEF YearStands, ClosingOf
    <3>. QED BY <3>1, <1>7, <1>8, <1>14, <1>31
  <2>. QED BY <2>1, <2>2, <2>3, <1>1, <1>28, YearGrows
<1>32. closings' \in [Years -> ClosingRow] /\ \A z \in Years : YearStands(entries', closings'[z], z)
  <2>1. closings'[y] = row /\ \A z \in Years : z # y => closings'[z] = closings[z]
    BY <1>1, <1>5
  <2>2. closings' \in [Years -> ClosingRow]
    BY <1>1, <1>5, <1>10
  <2>. QED BY <2>1, <2>2, <1>30, <1>31
<1>. QED BY <1>6, <1>26, <1>27, <1>32, BooksWritten

(* Journals are written.                                                      *)
LEMMA WriteJournalKeeps ==
    ASSUME BooksInv, NEW u \in Clerks, WriteJournal(u)
    PROVE  BooksInv'
<1>1. /\ entries \in Seq(EntryRow) /\ journals \in [Journals -> JournalRow] /\ clerk \in [Clerks -> ClerkWork]
      /\ History(entries) /\ NoGaps(entries) /\ (\A i \in Count(entries) : Even(entries, i))
      /\ closings \in [Years -> ClosingRow] /\ \A y \in Years : YearStands(entries, closings[y], y)
  BY DEF BooksInv, BooksTyped, Ids, Count
<1>2. PICK w : w = clerk[u]
  OBVIOUS
<1>3. PICK j : j = w.journal
  OBVIOUS
<1>4. w \in ClerkWork /\ w.op \in {"journal", "document"} /\ journals[j].exists
  BY <1>1, <1>2, <1>3 DEF WriteJournal
<1>5. j \in Journals
  BY <1>3, <1>4, WorkType
<1>6. PICK row : row = (IF w.op = "document" THEN [journals[j] EXCEPT !.paper = w.state]
                        ELSE [w.row EXCEPT !.paper = IF w.row.exists THEN journals[j].paper ELSE "none"])
  OBVIOUS
<1>7. row \in JournalRow
  <2>1. journals[j] \in JournalRow
    BY <1>1, <1>5
  <2>2. CASE w.op = "document"
    <3>1. w.state \in {"none", "inactive"}
      BY <1>4, <2>2, WorkType
    <3>. QED BY <1>6, <2>1, <2>2, <3>1 DEF JournalRow
  <2>3. CASE w.op # "document"
    <3>1. w.row \in JournalRow
      BY <1>4, <2>3, WorkType
    <3>2. row = [w.row EXCEPT !.paper = IF w.row.exists THEN journals[j].paper ELSE "none"]
      BY <1>6, <2>3
    <3>. QED BY <2>1, <3>1, <3>2 DEF JournalRow
  <2>. QED BY <2>2, <2>3
<1>8. journals' = [journals EXCEPT ![j] = row]
  BY <1>2, <1>3, <1>6 DEF WriteJournal
<1>9. journals' \in [Journals -> JournalRow] /\ \A k \in Journals : journals'[k].exists => journals[k].exists
  BY <1>1, <1>4, <1>5, <1>7, <1>8
<1>10. journals'[j].exists \in BOOLEAN /\ (journals'[j].paper # "none") \in BOOLEAN
  BY <1>5, <1>9 DEF JournalRow
<1>11. entries' = [i \in Ids |-> Unlinked(entries[i], j)]
  BY <1>2, <1>3 DEF WriteJournal
<1>12. \A i \in Count(entries) :
          /\ Unlinked(entries[i], j) \in EntryRow
          /\ Kept(entries[i], Unlinked(entries[i], j)) /\ Unlinked(entries[i], j).status = entries[i].status
          /\ Unlinked(entries[i], j).number = entries[i].number /\ Unlinked(entries[i], j).period = entries[i].period
          /\ entries[i].journal # j \/ journals'[j].exists => Unlinked(entries[i], j).journal = entries[i].journal
          /\ entries[i].journal = j /\ ~journals'[j].exists => Unlinked(entries[i], j).journal = NoJournal
  <2>. SUFFICES ASSUME NEW i \in Count(entries)
        PROVE  /\ Unlinked(entries[i], j) \in EntryRow
               /\ Kept(entries[i], Unlinked(entries[i], j)) /\ Unlinked(entries[i], j).status = entries[i].status
               /\ Unlinked(entries[i], j).number = entries[i].number /\ Unlinked(entries[i], j).period = entries[i].period
               /\ entries[i].journal # j \/ journals'[j].exists => Unlinked(entries[i], j).journal = entries[i].journal
               /\ entries[i].journal = j /\ ~journals'[j].exists => Unlinked(entries[i], j).journal = NoJournal
    OBVIOUS
  <2>1. PICK x : x = entries[i]
    OBVIOUS
  <2>2. x \in EntryRow
    BY <1>1, <2>1 DEF Count
  <2>3. PICK z : z = Unlinked(x, j)
    OBVIOUS
  <2>4. CASE x.journal # j
    BY <2>1, <2>2, <2>3, <2>4 DEF Unlinked, Kept
  <2>5. CASE x.journal = j
    <3>1. PICK k : k = IF journals'[j].exists THEN j ELSE NoJournal
      OBVIOUS
    <3>2. PICK e \in BOOLEAN : e = (x.paper /\ journals'[j].paper # "none")
      BY <2>2 DEF EntryRow
    <3>3. z = [x EXCEPT !.journal = k, !.paper = e]
      BY <2>3, <2>5, <3>1, <3>2 DEF Unlinked
    <3>4. k \in Journals \cup {NoJournal}
      BY <1>5, <3>1
    <3>5. z \in EntryRow
      BY <2>2, <3>2, <3>3, <3>4 DEF EntryRow
    <3>6. Kept(x, z) /\ z.status = x.status /\ z.number = x.number /\ z.period = x.period /\ z.journal = k
      BY <2>2, <3>3 DEF EntryRow, Kept
    <3>. QED BY <2>1, <2>3, <2>5, <3>1, <3>5, <3>6
  <2>. QED BY <2>4, <2>5
<1>13. /\ entries' \in Seq(EntryRow) /\ Len(entries') = Len(entries)
       /\ \A i \in Count(entries) : entries'[i] = Unlinked(entries[i], j)
  <2>. DEFINE n == Len(entries)
              f == [i \in 1..n |-> Unlinked(entries[i], j)]
  <2>1. n \in Nat /\ entries' = f
    BY <1>1, <1>11 DEF Ids
  <2>2. \A i \in 1..n : f[i] \in EntryRow
    BY <1>12 DEF Count
  <2>3. f \in Seq(EntryRow) /\ Len(f) = n
    BY <2>1, <2>2
  <2>. QED BY <2>1, <2>3 DEF Count
<1>14. New(entries, entries') = {}
  BY <1>13 DEF New, Count
<1>15. \A i \in Count(entries) : /\ Kept(entries[i], entries'[i]) /\ entries'[i].status = entries[i].status
                                 /\ entries'[i].number = entries[i].number /\ entries'[i].period = entries[i].period
                                 /\ entries[i].journal # j \/ journals'[j].exists => entries'[i].journal = entries[i].journal
                                 /\ entries[i].journal = j /\ ~journals'[j].exists => entries'[i].journal = NoJournal
  BY <1>12, <1>13
<1>16. \A i : ~NewlyReopened(entries, entries', i)
  BY <1>14 DEF NewlyReopened
<1>17. Grows(entries, entries')
  BY <1>1, <1>13, <1>14, <1>15, <1>16 DEF Grows
<1>18. Count(entries') = Count(entries)
  BY <1>13 DEF Count
<1>19. \A k : k # j \/ journals'[j].exists => \A i \in Count(entries) : entries[i].journal = k =>
          /\ entries'[i].journal = entries[i].journal /\ entries'[i].number = entries[i].number
          /\ entries'[i].period = entries[i].period /\ entries'[i].year = entries[i].year
  BY <1>15 DEF Kept
<1>20. NoGaps(entries')
  <2>. SUFFICES ASSUME NEW i \in Count(entries'), entries'[i].journal # NoJournal PROVE Follows(entries', entries'[i])
    BY DEF NoGaps
  <2>1. i \in Count(entries)
    BY <1>18
  <2>2. entries[i].journal # j \/ journals'[j].exists
    BY <1>15, <2>1
  <2>3. /\ entries'[i].journal = entries[i].journal /\ entries'[i].number = entries[i].number
        /\ entries'[i].period = entries[i].period /\ entries'[i].year = entries[i].year
    BY <1>15, <2>1, <2>2 DEF Kept
  <2>4. Follows(entries, entries'[i])
    BY <2>1, <2>3, <1>1 DEF NoGaps, Follows
  <2>. QED BY <1>18, <1>19, <2>2, <2>3, <2>4, FollowsGrows
<1>21. History(entries') /\ \A i \in Count(entries') : Even(entries', i)
  BY <1>1, <1>17, HistoryGrows, EvenGrows
<1>22. \A y \in Years : YearStands(entries', closings[y], y)
  <2>. SUFFICES ASSUME NEW y \in Years PROVE YearStands(entries', closings[y], y)
    OBVIOUS
  <2>1. closings[y] \in ClosingRow /\ YearStands(entries, closings[y], y)
    BY <1>1
  <2>. QED BY <2>1, <1>1, <1>14, <1>16, <1>17, YearGrows
<1>23. UNCHANGED <<thisYear, accounts, rule, closings>> /\ clerk' = [clerk EXCEPT ![u] = Rest]
  BY DEF WriteJournal, Finish
<1>24. clerk' \in [Clerks -> ClerkWork] /\ \A v \in Clerks : clerk'[v] = clerk[v] \/ clerk'[v] = Rest
  BY <1>1, <1>23 DEF ClerkWork
<1>25. ClerksStand'
  <2>. SUFFICES ASSUME NEW v \in Clerks PROVE WorkStands(clerk'[v], entries', journals')
    BY DEF ClerksStand
  <2>1. CASE clerk'[v] = clerk[v]
    <3>1. PICK c : c = clerk[v]
      OBVIOUS
    <3>2. c \in ClerkWork /\ WorkStands(c, entries, journals)
      BY <1>1, <3>1 DEF BooksInv, ClerksStand
    <3>3. c.op = "insert" /\ c.row.journal # NoJournal /\ journals'[c.row.journal].exists =>
             /\ journals[c.row.journal].exists
             /\ \A i \in Count(entries) : entries[i].journal = c.row.journal =>
                   /\ entries'[i].journal = entries[i].journal /\ entries'[i].number = entries[i].number
                   /\ entries'[i].period = entries[i].period /\ entries'[i].year = entries[i].year
      <4>. SUFFICES ASSUME c.op = "insert", c.row.journal # NoJournal, journals'[c.row.journal].exists
            PROVE  /\ journals[c.row.journal].exists
                   /\ \A i \in Count(entries) : entries[i].journal = c.row.journal =>
                         /\ entries'[i].journal = entries[i].journal /\ entries'[i].number = entries[i].number
                         /\ entries'[i].period = entries[i].period /\ entries'[i].year = entries[i].year
        OBVIOUS
      <4>1. c.row \in EntryRow
        BY <3>2, WorkType
      <4>2. c.row.journal \in Journals
        BY <4>1 DEF EntryRow
      <4>3. journals[c.row.journal].exists
        BY <4>2, <1>9
      <4>. QED BY <4>3, <1>19
    <3>4. WorkStands(c, entries', journals')
      BY <1>17, <3>2, <3>3, WorkGrows
    <3>. QED BY <2>1, <3>1, <3>4
  <2>2. CASE clerk'[v] = Rest
    BY <2>2 DEF WorkStands, Rest
  <2>. QED BY <1>24, <2>1, <2>2
<1>26. BooksTyped'
  BY <1>9, <1>13, <1>23, <1>24 DEF BooksInv, BooksTyped
<1>27. \A i \in Ids' : Even(entries', i)
  BY <1>21 DEF Ids, Count
<1>28. \A y \in Years : YearStands(entries', closings'[y], y)
  BY <1>22, <1>23
<1>. QED BY <1>20, <1>21, <1>25, <1>26, <1>27, <1>28 DEF BooksInv

(* Steps that write no entry.                                                 *)
LEMMA BooksUnwritten ==
    ASSUME BooksInv, UNCHANGED <<entries, closings>>, BooksTyped',
           \A v \in Clerks : WorkStands(clerk'[v], entries, journals')
    PROVE  BooksInv'
  BY DEF BooksInv, ClerksStand, Ids

(* A transaction that starts, and relies on what it read, keeps the           *)
(* invariant.                                                                 *)
LEMMA BeginKeeps ==
    ASSUME BooksInv, NEW u \in Clerks, NEW work \in ClerkWork, WorkStands(work, entries, journals), Begin(u, work)
    PROVE  BooksInv'
<1>1. clerk' = [clerk EXCEPT ![u] = work] /\ UNCHANGED <<thisYear, entries, accounts, journals, rule, closings>>
  BY DEF Begin
<1>2. clerk \in [Clerks -> ClerkWork] /\ \A v \in Clerks : WorkStands(clerk[v], entries, journals)
  BY DEF BooksInv, BooksTyped, ClerksStand
<1>3. BooksTyped'
  BY <1>1, <1>2 DEF BooksInv, BooksTyped
<1>4. \A v \in Clerks : clerk'[v] = work \/ clerk'[v] = clerk[v]
  BY <1>1, <1>2
<1>5. \A v \in Clerks : WorkStands(clerk'[v], entries, journals)
  BY <1>2, <1>4
<1>. QED BY <1>1, <1>3, <1>5, BooksUnwritten

(* A transaction that fails leaves the books as they are.                     *)
LEMMA AbandonKeeps ==
    ASSUME BooksInv, NEW u \in Clerks, Abandon(u)
    PROVE  BooksInv'
<1>1. clerk' = [clerk EXCEPT ![u] = Rest] /\ UNCHANGED <<thisYear, entries, accounts, journals, rule, closings>>
  BY DEF Abandon, Finish
<1>2. clerk \in [Clerks -> ClerkWork] /\ \A v \in Clerks : WorkStands(clerk[v], entries, journals)
  BY DEF BooksInv, BooksTyped, ClerksStand
<1>3. Rest \in ClerkWork /\ WorkStands(Rest, entries, journals)
  BY DEF ClerkWork, WorkStands, Rest
<1>4. BooksTyped'
  BY <1>1, <1>2, <1>3 DEF BooksInv, BooksTyped
<1>5. \A v \in Clerks : clerk'[v] = Rest \/ clerk'[v] = clerk[v]
  BY <1>1, <1>2
<1>6. \A v \in Clerks : WorkStands(clerk'[v], entries, journals)
  BY <1>2, <1>3, <1>5
<1>. QED BY <1>1, <1>4, <1>6, BooksUnwritten

(* The last number of a journal and period is that of an entry, or none.      *)
LEMMA LastThere ==
    ASSUME entries \in Seq(EntryRow), NEW j, NEW period, NEW y
    PROVE  /\ LastNumber(j, period, y) \in Nat
           /\ LastNumber(j, period, y) # 0 => Numbered(entries, j, period, y, LastNumber(j, period, y))
<1>. DEFINE K == {k \in Ids : entries[k].journal = j /\ entries[k].period = period /\ entries[k].year = y}
            N == {entries[i].number : i \in K}
            S == N \cup {0}
            last == LastNumber(j, period, y)
<1>1. \A k \in Ids : entries[k] \in EntryRow
  BY DEF Ids
<1>2. \A x \in S : x \in Nat
  BY <1>1 DEF EntryRow
<1>3. IsFiniteSet(S)
  <2>1. IsFiniteSet(K)
    <3>1. K \in SUBSET Ids
      OBVIOUS
    <3>. HIDE DEF K
    <3>. QED BY <3>1, FiniteIds
  <2>2. IsFiniteSet(N)
    <3>. DEFINE f == [i \in K |-> entries[i].number]
    <3>1. f \in Surjection(K, N)
      BY DEF Surjection
    <3>. HIDE DEF f, N, K
    <3>. QED BY <2>1, <3>1, FS_Surjection
  <2>3. IsFiniteSet({0})
    BY FS_Singleton
  <2>. HIDE DEF N
  <2>. QED BY <2>2, <2>3, FS_Union
<1>4. last = Max(S)
  BY DEF LastNumber
<1>5. Max(S) \in S
  <2>1. 0 \in S
    OBVIOUS
  <2>. HIDE DEF S
  <2>2. \A x \in S : x \in Int
    BY <1>2
  <2>. QED BY <1>3, <2>1, <2>2, MaxOf
<1>. HIDE DEF last
<1>6. last \in Nat /\ (last # 0 => \E i \in K : entries[i].number = last)
  BY <1>2, <1>4, <1>5
<1>7. \A i \in K : i \in Count(entries) /\ entries[i].journal = j /\ entries[i].period = period /\ entries[i].year = y
  BY DEF Ids, Count
<1>8. last # 0 => Numbered(entries, j, period, y, last)
  BY <1>6, <1>7 DEF Numbered
<1>. QED BY <1>6, <1>8 DEF last

(* It and all below it are in use.                                            *)
LEMMA LastFollows ==
    ASSUME entries \in Seq(EntryRow), NoGaps(entries), NEW j, j # NoJournal, NEW period, NEW y,
           NEW n \in 1..LastNumber(j, period, y)
    PROVE  Numbered(entries, j, period, y, n)
<1>1. PICK last : last = LastNumber(j, period, y)
  OBVIOUS
<1>2. last \in Nat /\ n \in 1..last
  BY <1>1, LastThere
<1>3. last # 0 => Numbered(entries, j, period, y, last)
  BY <1>1, LastThere
<1>4. CASE n = last
  BY <1>2, <1>3, <1>4
<1>5. CASE n # last
  <2>1. PICK k \in Count(entries) : /\ entries[k].journal = j /\ entries[k].number = last
                                    /\ entries[k].period = period /\ entries[k].year = y
    BY <1>2, <1>3 DEF Numbered
  <2>2. Follows(entries, entries[k])
    BY <2>1 DEF NoGaps
  <2>3. n \in 1..(last - 1)
    BY <1>2, <1>5
  <2>. QED BY <2>1, <2>2, <2>3 DEF Follows
<1>. QED BY <1>4, <1>5

(* The first steps of transactions.                                           *)
LEMMA BeginEntryKeeps ==
    ASSUME BooksInv, NEW u \in Clerks, NEW lines \in Postings, NEW y \in Years, NEW evening \in BOOLEAN,
           NEW j \in Journals \cup {NoJournal}, NEW paper \in BOOLEAN, BeginEntry(u, lines, y, evening, j, paper)
    PROVE  BooksInv'
<1>. DEFINE plain == Plain("manual", y, lines)
            row0 == [plain EXCEPT !.evening = evening, !.paper = paper]
            row == InJournal(row0, j)
            work == [op |-> "insert", row |-> row]
<1>1. entries \in Seq(EntryRow) /\ NoGaps(entries) /\ journals \in [Journals -> JournalRow]
  BY DEF BooksInv, BooksTyped
<1>2. lines \in LinesRow /\ Net(lines) = 0
  BY BookkeepingAssumption DEF LinesRow
<1>3. plain \in EntryRow
  <2>1. "manual" \in Kinds
    BY DEF Kinds
  <2>. QED BY <1>2, <2>1, PlainRow
<1>4. plain.kind = "manual" /\ plain.year = y /\ plain.lines = lines /\ plain.of = 0 /\ plain.journal = NoJournal
  BY DEF Plain
<1>. HIDE DEF plain
<1>5. row0 \in EntryRow /\ row0.kind = "manual" /\ row0.year = y /\ row0.lines = lines /\ row0.of = 0 /\ row0.journal = NoJournal
  <2>1. row0 \in EntryRow
    BY <1>3 DEF EntryRow
  <2>. QED BY <1>3, <1>4, <2>1 DEF EntryRow
<1>. HIDE DEF row0
<1>6. /\ row \in EntryRow /\ row.kind = "manual" /\ row.lines = lines /\ row.of = 0
      /\ row.journal # NoJournal => Follows(entries, row)
  <2>1. CASE j = NoJournal
    BY <1>5, <2>1 DEF InJournal
  <2>2. CASE j # NoJournal
    <3>1. PICK mode : mode = journals[j].mode
      OBVIOUS
    <3>2. mode \in {"continuous", "monthly"} /\ j \in Journals
      BY <1>1, <2>2, <3>1 DEF JournalRow
    <3>3. PICK last : last = LastNumber(j, mode, y)
      OBVIOUS
    <3>4. last \in Nat
      BY <1>1, <3>3, LastThere
    <3>5. row = [row0 EXCEPT !.journal = j, !.period = mode, !.number = last + 1]
      BY <1>5, <2>2, <3>1, <3>3 DEF InJournal
    <3>. HIDE DEF row
    <3>6. row \in EntryRow
      <4>1. PICK next \in Nat : next = last + 1
        BY <3>4
      <4>2. row = [row0 EXCEPT !.journal = j, !.period = mode, !.number = next]
        BY <3>5, <4>1
      <4>. QED BY <1>5, <3>2, <4>2 DEF EntryRow
    <3>7. /\ row.kind = "manual" /\ row.lines = lines /\ row.of = 0
          /\ row.journal = j /\ row.period = mode /\ row.number = last + 1 /\ row.year = y
      BY <1>5, <3>5 DEF EntryRow
    <3>8. Follows(entries, row)
      <4>. SUFFICES ASSUME NEW n \in 1..(row.number - 1) PROVE Numbered(entries, row.journal, row.period, row.year, n)
        BY DEF Follows
      <4>1. n \in 1..last
        BY <3>4, <3>7
      <4>2. n \in 1..LastNumber(j, mode, y)
        BY <3>3, <4>1
      <4>3. Numbered(entries, j, mode, y, n)
        BY <1>1, <2>2, <4>2, LastFollows
      <4>. QED BY <3>7, <4>3
    <3>. QED BY <3>6, <3>7, <3>8
  <2>. QED BY <2>1, <2>2
<1>7. Begin(u, work)
  BY DEF BeginEntry, row0, plain
<1>. HIDE DEF row
<1>8. work \in ClerkWork
  BY <1>6 DEF ClerkWork
<1>9. work.op = "insert" /\ work.row = row
  OBVIOUS
<1>. HIDE DEF work
<1>10. EvenRow(row)
  BY <1>2, <1>6 DEF EvenRow
<1>11. WorkStands(work, entries, journals)
  BY <1>6, <1>9, <1>10 DEF WorkStands
<1>. QED BY <1>7, <1>8, <1>11, BeginKeeps

(* The automatic journal prepares an entry by its rule.                       *)
LEMMA BeginGenerateKeeps ==
    ASSUME BooksInv, NEW u \in Clerks, NEW ref \in Refs, NEW bill \in Bills, BeginGenerate(u, ref, bill)
    PROVE  BooksInv'
<1>1. PICK ls : ls = Built(bill)
  OBVIOUS
<1>2. ls \in SUBSET RuleLines /\ IsFiniteSet(ls)
  <2>1. rule.lines \in SUBSET RuleLines /\ IsFiniteSet(rule.lines) /\ ls \in SUBSET rule.lines
    BY <1>1 DEF BooksInv, BooksTyped, RuleRow, Built
  <2>. QED BY <2>1, FS_Subset
<1>3. PICK lines : lines = LinesOf(ls, bill)
  OBVIOUS
<1>4. PICK warned \in BOOLEAN : warned <=> Warning(ls, bill)
  OBVIOUS
<1>5. PICK status \in {"draft", "posted"} : status = IF rule.autoPost /\ ~Warning(ls, bill) THEN "posted" ELSE "draft"
  OBVIOUS
<1>6. lines \in LinesRow /\ (~warned => -1 <= Net(lines) /\ Net(lines) <= 1)
  <2>1. lines \in LinesRow
    BY <1>2, <1>3, GeneratedNet
  <2>2. ASSUME ~warned PROVE -1 <= Net(lines) /\ Net(lines) <= 1
    <3>1. \A l \in ls : l.account # Unmapped
      BY <1>4, <2>2 DEF Warning
    <3>2. /\ Net(lines) = OnSide(ls, bill, "debit") - OnSide(ls, bill, "credit")
          /\ OnSide(ls, bill, "debit") \in Int /\ OnSide(ls, bill, "credit") \in Int
      BY <1>2, <1>3, <3>1, GeneratedNet
    <3>3. ~(OnSide(ls, bill, "debit") - OnSide(ls, bill, "credit") > 1)
          /\ ~(OnSide(ls, bill, "debit") - OnSide(ls, bill, "credit") < -1)
      BY <1>4, <2>2 DEF Warning
    <3>. QED BY <3>2, <3>3
  <2>. QED BY <2>1, <2>2
<1>. DEFINE plain == Plain("auto", thisYear, lines)
            row == [plain EXCEPT !.ref = ref, !.warned = warned, !.status = status]
            work == [op |-> "insert", row |-> row]
<1>7. plain \in EntryRow
  <2>1. "auto" \in Kinds /\ thisYear \in Years
    BY DEF Kinds, BooksInv, BooksTyped
  <2>. QED BY <1>6, <2>1, PlainRow
<1>8. plain.kind = "auto" /\ plain.lines = lines /\ plain.of = 0 /\ plain.journal = NoJournal
  BY DEF Plain
<1>9. Begin(u, work)
  <2>1. (warned) = (Warning(ls, bill))
    BY <1>4 DEF Warning
  <2>. QED BY <1>1, <1>3, <1>5, <2>1 DEF BeginGenerate
<1>. HIDE DEF plain
<1>10. row \in EntryRow
  BY <1>7 DEF EntryRow
<1>11. row.kind = "auto" /\ row.lines = lines /\ row.of = 0 /\ row.journal = NoJournal /\ row.warned = warned
  BY <1>7, <1>8 DEF EntryRow
<1>. HIDE DEF row
<1>12. work \in ClerkWork
  BY <1>10 DEF ClerkWork
<1>13. work.op = "insert" /\ work.row = row
  OBVIOUS
<1>. HIDE DEF work
<1>14. EvenRow(row)
  BY <1>6, <1>11 DEF EvenRow
<1>15. WorkStands(work, entries, journals)
  BY <1>11, <1>13, <1>14 DEF WorkStands
<1>. QED BY <1>9, <1>12, <1>15, BeginKeeps

(* A reversal reads the entry it is asked for.                                *)
LEMMA BeginReversalKeeps ==
    ASSUME BooksInv, NEW u \in Clerks, NEW i \in Ids, BeginReversal(u, i)
    PROVE  BooksInv'
<1>. DEFINE work == [op |-> "reverse", entry |-> i]
<1>1. i \in Nat /\ i \in Count(entries)
  BY DEF Ids, Count
<1>2. work \in ClerkWork
  BY <1>1 DEF ClerkWork
<1>3. WorkStands(work, entries, journals)
  BY <1>1 DEF WorkStands
<1>4. Begin(u, work)
  BY DEF BeginReversal
<1>. QED BY <1>2, <1>3, <1>4, BeginKeeps

(* closeFiscalYear reads the balances of the year before it writes.           *)
LEMMA BeginCloseKeeps ==
    ASSUME BooksInv, NEW u \in Clerks, NEW y \in Years, BeginClose(u, y)
    PROVE  BooksInv'
<1>1. PICK closing, transfer : closing = ClosingLines(y) /\ transfer = TransferLines(y)
  OBVIOUS
<1>2. PICK fresh \in BOOLEAN : fresh = (closings[y].status = "none")
  OBVIOUS
<1>. DEFINE work == [op |-> "close", year |-> y, fresh |-> fresh, closing |-> closing, transfer |-> transfer]
<1>3. entries \in Seq(EntryRow) /\ closings[y] \in ClosingRow /\ YearStands(entries, closings[y], y)
  BY DEF BooksInv, BooksTyped
<1>4. /\ closing \in LinesRow /\ transfer \in LinesRow /\ Net(closing) = 0 /\ Net(transfer) = 0
      /\ closing[Summary] + transfer[Summary] = 0
  BY <1>1, <1>3, ClosingNet
<1>5. ~fresh => YearReopened(entries, y)
  <2>1. closings[y].status # "closed"
    BY DEF BeginClose
  <2>2. ~fresh => closings[y].status = "reopened"
    BY <1>2, <1>3, <2>1 DEF ClosingRow
  <2>. QED BY <1>3, <2>2 DEF YearStands
<1>6. Begin(u, work)
  BY <1>1, <1>2 DEF BeginClose
<1>7. work \in ClerkWork
  BY <1>4 DEF ClerkWork
<1>8. WorkStands(work, entries, journals)
  BY <1>4, <1>5 DEF WorkStands
<1>. QED BY <1>6, <1>7, <1>8, BeginKeeps

(* A change of a journal, its removal or that of its document: what is to be  *)
(* written was read before.                                                   *)
LEMMA BeginJournalKeeps ==
    ASSUME BooksInv, NEW u \in Clerks, NEW j \in Journals,
           \/ \E on \in BOOLEAN, mode \in {"continuous", "monthly"} : BeginEditJournal(u, j, on, mode)
           \/ BeginRemoveJournal(u, j) \/ BeginRemoveDocument(u, j)
    PROVE  BooksInv'
<1>1. journals[j] \in JournalRow
  BY DEF BooksInv, BooksTyped
<1>2. ASSUME NEW row \in JournalRow, Begin(u, [op |-> "journal", journal |-> j, row |-> row])
      PROVE  BooksInv'
  <2>. DEFINE work == [op |-> "journal", journal |-> j, row |-> row]
  <2>1. work \in ClerkWork
    BY DEF ClerkWork
  <2>2. WorkStands(work, entries, journals)
    BY DEF WorkStands
  <2>. HIDE DEF work
  <2>3. Begin(u, work)
    BY <1>2 DEF work
  <2>. QED BY <2>1, <2>2, <2>3, BeginKeeps
<1>3. CASE \E on \in BOOLEAN, mode \in {"continuous", "monthly"} : BeginEditJournal(u, j, on, mode)
  <2>1. PICK on \in BOOLEAN, mode \in {"continuous", "monthly"} : BeginEditJournal(u, j, on, mode)
    BY <1>3
  <2>2. PICK row : row = [journals[j] EXCEPT !.isActive = on, !.mode = mode]
    OBVIOUS
  <2>3. row \in JournalRow
    BY <1>1, <2>2 DEF JournalRow
  <2>4. Begin(u, [op |-> "journal", journal |-> j, row |-> row])
    BY <2>1, <2>2 DEF BeginEditJournal
  <2>. QED BY <1>2, <2>3, <2>4
<1>4. CASE BeginRemoveJournal(u, j)
  <2>1. PICK row : row = IF InUse(j) THEN [journals[j] EXCEPT !.isActive = FALSE]
                         ELSE [journals[j] EXCEPT !.exists = FALSE, !.paper = "none"]
    OBVIOUS
  <2>2. row \in JournalRow
    BY <1>1, <2>1 DEF JournalRow
  <2>3. Begin(u, [op |-> "journal", journal |-> j, row |-> row])
    BY <1>4, <2>1 DEF BeginRemoveJournal
  <2>. QED BY <1>2, <2>2, <2>3
<1>5. CASE BeginRemoveDocument(u, j)
  <2>1. PICK state \in {"none", "inactive"} :
            state = IF \E i \in Ids : entries[i].journal = j /\ entries[i].paper THEN "inactive" ELSE "none"
    OBVIOUS
  <2>. DEFINE work == [op |-> "document", journal |-> j, state |-> state]
  <2>2. Begin(u, work)
    BY <1>5, <2>1 DEF BeginRemoveDocument
  <2>3. work \in ClerkWork
    BY DEF ClerkWork
  <2>4. WorkStands(work, entries, journals)
    BY DEF WorkStands
  <2>. QED BY <2>2, <2>3, <2>4, BeginKeeps
<1>. QED BY <1>3, <1>4, <1>5

(* The other steps, and the start.                                            *)
LEMMA SaveRuleKeeps ==
    ASSUME BooksInv, NEW lines \in Templates, NEW on \in BOOLEAN, NEW autoPost \in BOOLEAN, SaveRule(lines, on, autoPost)
    PROVE  BooksInv'
<1>1. lines \in SUBSET RuleLines /\ IsFiniteSet(lines)
  BY RulesAssumption
<1>2. /\ rule' = [exists |-> TRUE, isActive |-> on, autoPost |-> autoPost, lines |-> lines]
      /\ UNCHANGED <<thisYear, entries, accounts, journals, closings, clerk>>
  BY DEF SaveRule
<1>3. rule' \in RuleRow /\ rule'.lines = lines
  BY <1>1, <1>2 DEF RuleRow
<1>4. BooksTyped'
  BY <1>1, <1>2, <1>3 DEF BooksInv, BooksTyped
<1>5. \A v \in Clerks : WorkStands(clerk'[v], entries, journals')
  BY <1>2 DEF BooksInv, ClerksStand
<1>. QED BY <1>2, <1>4, <1>5, BooksUnwritten

(* The numbering document of a journal is saved: only its state changes.      *)
LEMMA SaveDocumentKeeps ==
    ASSUME BooksInv, NEW j \in Journals, NEW state \in {"active", "inactive"}, SaveDocument(j, state)
    PROVE  BooksInv'
<1>1. journals' = [journals EXCEPT ![j].paper = state] /\ UNCHANGED <<thisYear, entries, accounts, rule, closings, clerk>>
  BY DEF SaveDocument
<1>2. journals \in [Journals -> JournalRow] /\ journals[j] \in JournalRow
  BY DEF BooksInv, BooksTyped
<1>3. PICK row : row = [journals[j] EXCEPT !.paper = state]
  OBVIOUS
<1>4. row \in JournalRow /\ row.exists = journals[j].exists
  BY <1>2, <1>3 DEF JournalRow
<1>5. journals' = [journals EXCEPT ![j] = row]
  BY <1>1, <1>3
<1>6. journals' \in [Journals -> JournalRow] /\ \A k \in Journals : journals'[k].exists = journals[k].exists
  BY <1>2, <1>4, <1>5
<1>7. BooksTyped'
  BY <1>1, <1>6 DEF BooksInv, BooksTyped
<1>8. \A v \in Clerks : WorkStands(clerk'[v], entries, journals')
  <2>. SUFFICES ASSUME NEW v \in Clerks PROVE WorkStands(clerk[v], entries, journals')
    BY <1>1
  <2>1. PICK c : c = clerk[v]
    OBVIOUS
  <2>2. c \in ClerkWork /\ WorkStands(c, entries, journals)
    BY <2>1 DEF BooksInv, BooksTyped, ClerksStand
  <2>3. c.op = "insert" /\ c.row.journal # NoJournal => c.row.journal \in Journals
    <3>1. c.op = "insert" => c.row \in EntryRow
      BY <2>2, WorkType
    <3>. QED BY <3>1 DEF EntryRow
  <2>. QED BY <2>1, <2>2, <2>3, <1>6 DEF WorkStands
<1>. QED BY <1>1, <1>7, <1>8, BooksUnwritten

(* An account is switched off or on, or deleted and its lines of the rule     *)
(* unmapped: entries stay as they are.                                        *)
LEMMA AccountKeeps ==
    ASSUME BooksInv, NEW a \in Accounts, SwitchAccount(a) \/ RemoveAccount(a)
    PROVE  BooksInv'
<1>1. UNCHANGED <<thisYear, entries, journals, closings, clerk>>
  BY DEF SwitchAccount, RemoveAccount
<1>2. accounts \in [Accounts -> {"active", "inactive", "deleted"}] /\ rule \in RuleRow /\ IsFiniteSet(rule.lines)
  BY DEF BooksInv, BooksTyped
<1>3. accounts' \in [Accounts -> {"active", "inactive", "deleted"}]
  BY <1>2 DEF SwitchAccount, RemoveAccount
<1>4. rule' \in RuleRow /\ IsFiniteSet(rule'.lines)
  <2>. DEFINE ls == rule.lines
              f == [l \in ls |-> [l EXCEPT !.account = IF @ = a THEN Unmapped ELSE @]]
              image == {[l EXCEPT !.account = IF @ = a THEN Unmapped ELSE @] : l \in ls}
  <2>1. ls \in SUBSET RuleLines
    BY <1>2 DEF RuleRow
  <2>2. image \in SUBSET RuleLines
    <3>. SUFFICES ASSUME NEW l \in ls PROVE [l EXCEPT !.account = IF @ = a THEN Unmapped ELSE @] \in RuleLines
      OBVIOUS
    <3>1. l \in RuleLines
      BY <2>1
    <3>2. PICK b \in Accounts \cup {Unmapped} : b = IF l.account = a THEN Unmapped ELSE l.account
      BY <3>1 DEF RuleLines
    <3>3. [l EXCEPT !.account = b] \in RuleLines
      BY <3>1 DEF RuleLines
    <3>. QED BY <3>2, <3>3
  <2>3. IsFiniteSet(image)
    <3>1. f \in Surjection(ls, image)
      BY DEF Surjection
    <3>. HIDE DEF f, image, ls
    <3>2. IsFiniteSet(ls)
      BY <1>2 DEF ls
    <3>. QED BY <3>1, <3>2, FS_Surjection
  <2>4. rule' = rule \/ rule' = [rule EXCEPT !.lines = image]
    BY DEF SwitchAccount, RemoveAccount
  <2>. HIDE DEF image
  <2>5. [rule EXCEPT !.lines = image] \in RuleRow /\ [rule EXCEPT !.lines = image].lines = image
    BY <1>2, <2>2 DEF RuleRow
  <2>. QED BY <1>2, <2>3, <2>4, <2>5
<1>5. BooksTyped'
  BY <1>1, <1>3, <1>4 DEF BooksInv, BooksTyped
<1>6. \A v \in Clerks : WorkStands(clerk'[v], entries, journals')
  BY <1>1 DEF BooksInv, ClerksStand
<1>. QED BY <1>1, <1>5, <1>6, BooksUnwritten

(* Another year begins.                                                       *)
LEMMA NewYearKeeps ==
    ASSUME BooksInv, NewYear
    PROVE  BooksInv'
<1>1. thisYear' \in Years /\ UNCHANGED <<entries, accounts, journals, rule, closings, clerk>>
  BY DEF NewYear
<1>2. BooksTyped'
  BY <1>1 DEF BooksInv, BooksTyped
<1>3. \A v \in Clerks : WorkStands(clerk'[v], entries, journals')
  BY <1>1 DEF BooksInv, ClerksStand
<1>. QED BY <1>1, <1>2, <1>3, BooksUnwritten

(* The books start with no entries, and no year closed.                       *)
LEMMA BooksStart == ASSUME BookInit PROVE BooksInv
<1>1. entries = <<>> /\ Count(entries) = {} /\ Ids = {}
  BY DEF BookInit, Count, Ids
<1>2. thisYear \in Years
  <2>1. \E y \in Years : \A z \in Years : y <= z
    <3>1. PICK x \in Years : x \in Nat
      BY BookkeepingAssumption
    <3>2. CASE 0 \in Years
      BY <3>2, BookkeepingAssumption
    <3>3. CASE 0 \notin Years
      <4>. DEFINE S == Years \cap 1..x
      <4>1. x \in S /\ S \in SUBSET (1..x)
        BY <3>1, <3>3
      <4>. HIDE DEF S
      <4>2. PICK y \in S : \A z \in S : y <= z
        BY <3>1, <4>1, LeastOf
      <4>. QED BY <3>1, <4>2, BookkeepingAssumption DEF S
    <3>. QED BY <3>2, <3>3
  <2>. QED BY <2>1 DEF BookInit
<1>3. /\ closings \in [Years -> ClosingRow]
      /\ \A y \in Years : closings[y].status = "none" /\ closings[y].closing = 0 /\ closings[y].transfer = 0
  BY DEF BookInit, ClosingRow
<1>4. journals \in [Journals -> JournalRow]
  BY DEF BookInit, JournalRow
<1>5. rule \in RuleRow /\ IsFiniteSet(rule.lines)
  <2>1. rule \in RuleRow /\ rule.lines = {}
    BY DEF BookInit, NoRule, RuleRow
  <2>. QED BY <2>1, FS_EmptySet
<1>6. clerk = [u \in Clerks |-> Rest] /\ accounts = [a \in Accounts |-> "active"]
  BY DEF BookInit
<1>7. clerk \in [Clerks -> ClerkWork]
  BY <1>6 DEF ClerkWork
<1>8. BooksTyped
  BY <1>1, <1>2, <1>3, <1>4, <1>5, <1>6, <1>7 DEF BooksTyped
<1>9. ClerksStand
  BY <1>6 DEF ClerksStand, WorkStands, Rest
<1>10. History(entries) /\ NoGaps(entries) /\ \A i \in Ids : Even(entries, i)
  BY <1>1 DEF History, NoGaps
<1>11. \A y \in Years : YearStands(entries, closings[y], y)
  BY <1>1, <1>3 DEF YearStands
<1>. QED BY <1>8, <1>9, <1>10, <1>11 DEF BooksInv

(* Every step keeps the invariant.                                            *)
LEMMA BooksStep == ASSUME BooksInv, [BookNext]_bookVars PROVE BooksInv'
<1>1. CASE UNCHANGED bookVars
  <2>1. UNCHANGED <<thisYear, entries, accounts, journals, rule, closings, clerk>>
    BY <1>1 DEF bookVars
  <2>2. BooksTyped'
    BY <2>1 DEF BooksInv, BooksTyped
  <2>3. \A v \in Clerks : WorkStands(clerk'[v], entries, journals')
    BY <2>1 DEF BooksInv, ClerksStand
  <2>. QED BY <2>1, <2>2, <2>3, BooksUnwritten
<1>2. ASSUME NEW u \in Clerks, ClerkNext(u) PROVE BooksInv'
  <2>1. CASE \E lines \in Postings, y \in Years, evening \in BOOLEAN, j \in Journals \cup {NoJournal}, paper \in BOOLEAN :
                 BeginEntry(u, lines, y, evening, j, paper)
    BY <2>1, BeginEntryKeeps
  <2>2. CASE \E ref \in Refs, bill \in Bills : BeginGenerate(u, ref, bill)
    BY <2>2, BeginGenerateKeeps
  <2>3. CASE \E i \in Ids : BeginReversal(u, i)
    BY <2>3, BeginReversalKeeps
  <2>4. CASE \E y \in Years : BeginClose(u, y)
    BY <2>4, BeginCloseKeeps
  <2>5. CASE \E j \in Journals, on \in BOOLEAN, mode \in {"continuous", "monthly"} : BeginEditJournal(u, j, on, mode)
    BY <2>5, BeginJournalKeeps
  <2>6. CASE \E j \in Journals : BeginRemoveJournal(u, j) \/ BeginRemoveDocument(u, j)
    BY <2>6, BeginJournalKeeps
  <2>. QED BY <1>2, <2>1, <2>2, <2>3, <2>4, <2>5, <2>6, InsertKeeps, ReverseEntryKeeps, CloseKeeps, WriteJournalKeeps,
              AbandonKeeps DEF ClerkNext
<1>3. ASSUME NEW ref \in Refs, ReverseForReference(ref) PROVE BooksInv'
  BY <1>3, ReverseForReferenceKeeps
<1>4. CASE \E lines \in Templates : SeedRule(lines) \/ \E on, autoPost \in BOOLEAN : SaveRule(lines, on, autoPost)
  <2>1. PICK lines \in Templates : SeedRule(lines) \/ \E on, autoPost \in BOOLEAN : SaveRule(lines, on, autoPost)
    BY <1>4
  <2>2. \E on, autoPost \in BOOLEAN : SaveRule(lines, on, autoPost)
    BY <2>1 DEF SeedRule
  <2>. QED BY <2>2, SaveRuleKeeps
<1>5. CASE \E y \in Years : Reopen(y)
  BY <1>5, ReopenKeeps
<1>6. CASE \E j \in Journals, state \in {"active", "inactive"} : SaveDocument(j, state)
  BY <1>6, SaveDocumentKeeps
<1>7. CASE \E a \in Accounts : SwitchAccount(a) \/ RemoveAccount(a)
  BY <1>7, AccountKeeps
<1>8. CASE NewYear
  BY <1>8, NewYearKeeps
<1>. QED BY <1>1, <1>2, <1>3, <1>4, <1>5, <1>6, <1>7, <1>8 DEF BookNext

(* The properties.                                                            *)
LEMMA SumOfOne ==
    ASSUME entries \in Seq(EntryRow), NEW x \in Ids, NEW a \in Accounts
    PROVE  entries[x].lines[a] \in Int /\ SumOf({x}, a) = entries[x].lines[a]
<1>. DEFINE f == [i \in {x} |-> entries[i].lines[a]]
<1>1. entries[x].lines \in LinesRow
  BY LinesOfEntry DEF Ids
<1>2. f[x] = entries[x].lines[a] /\ f[x] \in Int
  BY <1>1 DEF LinesRow
<1>3. IsFiniteSet({x})
  BY FS_Singleton
<1>4. SumOf({x}, a) = SumOver(f, {x})
  BY DEF SumOf
<1>. HIDE DEF f
<1>. DEFINE S == {x}
<1>5. x \in S /\ \A y \in S \ {x} : f[y] = 0
  OBVIOUS
<1>6. IsFiniteSet(S) /\ SumOf({x}, a) = SumOver(f, S)
  BY <1>3, <1>4
<1>. HIDE DEF S
<1>7. SumOver(f, S) = f[x]
  BY <1>2, <1>5, <1>6, SumOne
<1>. QED BY <1>2, <1>6, <1>7

(* What two entries put on an account.                                        *)
LEMMA SumOfTwo ==
    ASSUME entries \in Seq(EntryRow), NEW x \in Ids, NEW z \in Ids, x # z, NEW a \in Accounts
    PROVE  SumOf({x, z}, a) = entries[x].lines[a] + entries[z].lines[a]
<1>. DEFINE S == {x, z}
            f == [i \in S |-> entries[i].lines[a]]
            R == {z}
<1>1. entries[x].lines \in LinesRow /\ entries[z].lines \in LinesRow
  BY LinesOfEntry DEF Ids
<1>2. f[x] = entries[x].lines[a] /\ f[z] = entries[z].lines[a] /\ f[x] \in Int /\ f[z] \in Int /\ \A i \in S : f[i] \in Int
  BY <1>1 DEF LinesRow
<1>3. IsFiniteSet(S) /\ IsFiniteSet(R)
  <2>1. IsFiniteSet({x}) /\ IsFiniteSet({z})
    BY FS_Singleton
  <2>2. S = {x} \cup {z}
    OBVIOUS
  <2>. QED BY <2>1, <2>2, FS_Union
<1>4. SumOf({x, z}, a) = SumOver(f, S) /\ S \ {x} = R /\ x \in S /\ z \in R /\ \A y \in R \ {z} : f[y] = 0
  BY DEF SumOf
<1>. HIDE DEF f, S, R
<1>5. SumOver(f, S) = f[x] + SumOver(f, R)
  BY <1>2, <1>3, <1>4, SumRemove
<1>6. SumOver(f, R) = f[z]
  BY <1>2, <1>3, <1>4, SumOne
<1>. QED BY <1>2, <1>4, <1>5, <1>6

(* The entries of a closing that nobody reversed by hand: its pair, or its reopening's. *)
LEMMA ClearedSummary == ASSUME BooksInv PROVE SummaryIsCleared
<1>. DEFINE n == Len(entries)
<1>1. entries \in Seq(EntryRow) /\ History(entries) /\ n \in Nat /\ Ids = 1..n /\ Count(entries) = Ids
  BY DEF BooksInv, BooksTyped, Ids, Count
<1>2. \A i \in Ids : Linked(entries, i) /\ entries[i] \in EntryRow
  BY <1>1 DEF History
<1>3. \A i \in Ids : entries[i].of \in Nat /\ entries[i].of < i
  BY <1>2 DEF EntryRow, Linked
<1>4. \A i \in Ids : Origin(i) = IF entries[i].of = 0 THEN i ELSE Origin(entries[i].of)
  <2>1. Backward(entries, n)
    BY <1>1, <1>3 DEF Backward
  <2>. QED BY <1>1, <2>1, OriginIsRoot, RootOf
<1>. SUFFICES ASSUME NEW c \in Ids, entries[c].kind = "closing",
                     NEW pair, pair = {c} \cup {i \in Ids : i = c + 1 /\ entries[i].kind = "transfer"},
                     NEW family, family = {i \in Ids : Origin(i) \in pair},
                     ~\E i \in family : entries[i].kind = "reversal"
              PROVE  SumOf(family \cap Posted, Summary) = 0
  BY DEF SummaryIsCleared
<1>. DEFINE H == HasTransfer(entries, c)
            d == c + 1
<1>5. c \in Nat /\ c # d /\ (H <=> d \in Ids /\ entries[d].kind = "transfer")
  BY <1>1 DEF HasTransfer
<1>6. pair = (IF H THEN {c, d} ELSE {c}) /\ \A i \in pair : i \in Ids /\ entries[i].kind \in {"closing", "transfer"}
  BY <1>5
<1>. HIDE DEF H
<1>7. \A i \in Ids : (entries[i].of = 0) <=> (entries[i].kind \in Primary)
  BY <1>2 DEF Linked
<1>8. \A i \in Ids : entries[i].kind \in Kinds
  BY <1>2 DEF EntryRow
<1>9. \A i \in Ids : entries[i].of # 0 => entries[i].of \in Ids
  BY <1>1, <1>3
<1>10. \A i \in pair : entries[i].of = 0 /\ Origin(i) = i /\ i \in family
  <2>. SUFFICES ASSUME NEW i \in pair PROVE entries[i].of = 0 /\ Origin(i) = i /\ i \in family
    OBVIOUS
  <2>1. entries[i].of = 0
    BY <1>6, <1>7 DEF Primary
  <2>. QED BY <2>1, <1>4, <1>6
<1>11. \A i \in Ids : entries[i].kind = "reopening" =>
          /\ entries[i].of \in Ids /\ entries[entries[i].of].kind \in {"closing", "transfer"}
          /\ entries[entries[i].of].status # "posted" /\ Origin(i) = entries[i].of
  <2>. SUFFICES ASSUME NEW i \in Ids, entries[i].kind = "reopening"
        PROVE  /\ entries[i].of \in Ids /\ entries[entries[i].of].kind \in {"closing", "transfer"}
               /\ entries[entries[i].of].status # "posted" /\ Origin(i) = entries[i].of
    OBVIOUS
  <2>1. PICK o : o = entries[i].of
    OBVIOUS
  <2>2. o # 0 /\ o \in Ids
    BY <2>1, <1>7, <1>9 DEF Primary
  <2>3. entries[o].kind \in {"closing", "transfer"} /\ entries[o].status # "posted"
    BY <2>1, <1>2 DEF Linked
  <2>4. entries[o].of = 0
    BY <2>2, <2>3, <1>7 DEF Primary
  <2>5. Origin(i) = o
    BY <2>1, <2>2, <2>4, <1>4
  <2>. QED BY <2>1, <2>2, <2>3, <2>5
<1>12. \A i \in family : entries[i].of # 0 => entries[i].kind = "reopening" /\ entries[i].of \in pair
  <2>. SUFFICES ASSUME NEW i \in family, entries[i].of # 0 PROVE entries[i].kind = "reopening" /\ entries[i].of \in pair
    OBVIOUS
  <2>1. i \in Ids /\ entries[i].kind \notin Primary /\ entries[i].kind # "reversal" /\ Origin(i) \in pair
    BY <1>7
  <2>2. entries[i].kind = "reopening"
    BY <2>1, <1>8 DEF Kinds, Primary
  <2>. QED BY <2>1, <2>2, <1>11
<1>13. \A i \in family : entries[i].of = 0 => i \in pair
  BY <1>4
<1>14. \A i \in Ids : entries[i].of \in pair => i \in family
  <2>. SUFFICES ASSUME NEW i \in Ids, entries[i].of \in pair PROVE i \in family
    OBVIOUS
  <2>1. entries[i].of \in Ids /\ entries[i].of # 0 /\ Origin(entries[i].of) \in pair
    BY <1>1, <1>6, <1>10
  <2>. QED BY <2>1, <1>4
<1>15. \A i \in family : entries[i].kind \in OfAYear /\ entries[i].status # "posted" =>
          \E k \in Ids : entries[k].of = i
  BY <1>1, <1>2 DEF Linked
<1>16. Summary \in Accounts
  BY BookkeepingAssumption
<1>17. Cleared(entries, c) /\ (H => (Reopened(entries, c) <=> Reopened(entries, d)))
  BY <1>2 DEF Linked, H
<1>18. CASE ~Reopened(entries, c)
  <2>1. \A i \in pair : ~Reopened(entries, i)
    BY <1>6, <1>17, <1>18
  <2>2. \A i \in Ids : entries[i].of \notin pair
    <3>. SUFFICES ASSUME NEW i \in Ids, entries[i].of \in pair PROVE FALSE
      OBVIOUS
    <3>1. entries[i].of # 0 /\ i \in family
      BY <1>1, <1>6, <1>14
    <3>2. entries[i].kind = "reopening"
      BY <3>1, <1>12
    <3>3. Reopened(entries, entries[i].of)
      BY <3>2, <1>1 DEF Reopened
    <3>. QED BY <3>3, <2>1
  <2>3. family = pair
    BY <2>2, <1>10, <1>12, <1>13
  <2>4. \A i \in pair : entries[i].status = "posted"
    BY <2>2, <2>3, <1>6, <1>15 DEF OfAYear
  <2>5. family \cap Posted = pair
    BY <2>3, <2>4, <1>6 DEF Posted
  <2>6. CASE H
    <3>1. SumOf(pair, Summary) = entries[c].lines[Summary] + entries[d].lines[Summary]
      BY <2>6, <1>1, <1>5, <1>6, <1>16, SumOfTwo
    <3>2. entries[c].lines[Summary] + entries[d].lines[Summary] = 0
      BY <2>6, <1>17 DEF Cleared, H
    <3>. QED BY <3>1, <3>2, <2>5
  <2>7. CASE ~H
    <3>1. SumOf(pair, Summary) = entries[c].lines[Summary]
      BY <2>7, <1>1, <1>6, <1>16, SumOfOne
    <3>2. entries[c].lines[Summary] = 0
      BY <2>7, <1>17 DEF Cleared, H
    <3>. QED BY <3>1, <3>2, <2>5
  <2>. QED BY <2>6, <2>7
<1>19. CASE Reopened(entries, c)
  <2>1. PICK p \in Ids : entries[p].kind = "reopening" /\ entries[p].of = c
    BY <1>1, <1>19 DEF Reopened
  <2>2. \A k \in Ids : entries[k].kind = "reopening" /\ entries[k].of = c => k = p
    BY <2>1, <1>1, <1>2 DEF Linked
  <2>3. H => \E q \in Ids : entries[q].kind = "reopening" /\ entries[q].of = d
    BY <1>1, <1>17, <1>19 DEF Reopened
  <2>4. PICK q : H => q \in Ids /\ entries[q].kind = "reopening" /\ entries[q].of = d
    BY <2>3
  <2>5. H => \A k \in Ids : entries[k].kind = "reopening" /\ entries[k].of = d => k = q
    BY <2>4, <1>1, <1>2 DEF Linked
  <2>6. family = pair \cup (IF H THEN {p, q} ELSE {p})
    <3>1. p \in family /\ (H => q \in family)
      BY <2>1, <2>4, <1>6, <1>14
    <3>2. ASSUME NEW i \in family, i \notin pair PROVE i = p \/ (H /\ i = q)
      <4>1. i \in Ids /\ entries[i].kind = "reopening" /\ entries[i].of \in pair
        BY <3>2, <1>12, <1>13
      <4>. QED BY <4>1, <2>2, <2>5, <1>6
    <3>. QED BY <3>1, <3>2, <1>10
  <2>7. \A i \in pair : entries[i].status # "posted"
    BY <2>1, <2>4, <1>6, <1>11
  <2>8. \A i \in family : entries[i].kind = "reopening" => entries[i].status = "posted"
    <3>. SUFFICES ASSUME NEW i \in family, entries[i].kind = "reopening", entries[i].status # "posted" PROVE FALSE
      OBVIOUS
    <3>1. PICK k \in Ids : entries[k].of = i
      BY <1>15 DEF OfAYear
    <3>2. entries[k].of # 0 /\ entries[i].of # 0 /\ Origin(k) = Origin(i)
      <4>1. i \in Ids
        OBVIOUS
      <4>2. i # 0 /\ entries[i].of # 0
        BY <4>1, <1>1, <1>7 DEF Primary
      <4>. QED BY <3>1, <4>2, <1>4
    <3>3. k \in family
      BY <3>2
    <3>4. entries[k].kind = "reopening"
      BY <3>2, <3>3, <1>12
    <3>5. entries[i].kind \in {"closing", "transfer"}
      BY <3>1, <3>4, <1>11
    <3>. QED BY <3>5
  <2>9. family \cap Posted = IF H THEN {p, q} ELSE {p}
    <3>1. p \in Posted /\ (H => q \in Posted)
      BY <2>1, <2>4, <2>6, <2>8 DEF Posted
    <3>. QED BY <3>1, <2>6, <2>7 DEF Posted
  <2>10. entries[p].lines[Summary] = -entries[c].lines[Summary]
    <3>1. entries[p].lines = Against(entries[c].lines)
      BY <2>1, <1>2, <1>1 DEF Linked
    <3>. QED BY <3>1, <1>16 DEF Against
  <2>11. entries[c].lines[Summary] \in Int /\ (H => entries[d].lines[Summary] \in Int)
    BY <1>1, <1>5, <1>16, SumOfOne
  <2>12. CASE H
    <3>1. entries[q].lines = Against(entries[d].lines)
      <4>1. q \in Ids /\ entries[q].of = d /\ d # 0
        BY <2>4, <2>12, <1>5
      <4>. QED BY <4>1, <1>2 DEF Linked
    <3>2. entries[q].lines[Summary] = -entries[d].lines[Summary]
      BY <3>1, <1>16 DEF Against
    <3>3. p # q
      BY <2>1, <2>4, <2>12, <1>5
    <3>4. SumOf({p, q}, Summary) = entries[p].lines[Summary] + entries[q].lines[Summary]
      BY <2>4, <2>12, <3>3, <1>1, <1>16, SumOfTwo
    <3>5. entries[c].lines[Summary] + entries[d].lines[Summary] = 0
      BY <2>12, <1>17 DEF Cleared, H
    <3>6. SumOf({p, q}, Summary) = 0
      BY <2>10, <2>11, <2>12, <3>2, <3>4, <3>5
    <3>7. family \cap Posted = {p, q}
      BY <2>9, <2>12, Zenon
    <3>. QED BY <3>6, <3>7, Zenon
  <2>13. CASE ~H
    <3>1. SumOf({p}, Summary) = entries[p].lines[Summary]
      BY <1>1, <1>16, SumOfOne
    <3>2. entries[c].lines[Summary] = 0
      BY <2>13, <1>17 DEF Cleared, H
    <3>3. SumOf({p}, Summary) = 0
      <4>1. entries[p].lines[Summary] = 0
        <5>1. entries[p].lines[Summary] \in Int /\ entries[p].lines[Summary] + entries[c].lines[Summary] = 0
          BY <2>10, <2>11
        <5>. QED BY <3>2, <5>1
      <4>. QED BY <3>1, <4>1, Zenon
    <3>4. family \cap Posted = {p}
      BY <2>9, <2>13, Zenon
    <3>. QED BY <3>3, <3>4, Zenon
  <2>. QED BY <2>12, <2>13
<1>. QED BY <1>18, <1>19

(* A year never reopened was closed once, by the entry its row names:         *)
(* YearStands tells the closings from the row.                                *)
LEMMA YearClosedOnce == ASSUME BooksInv PROVE ClosedOnce
<1>. SUFFICES ASSUME NEW y \in Years,
                     NEW closed, closed = {i \in Ids : entries[i].kind = "closing" /\ entries[i].year = y},
                     ~\E i \in Ids : entries[i].kind = "reopening" /\ entries[i].of \in closed
              PROVE  closed = (IF closings[y].status = "none" THEN {} ELSE {closings[y].closing})
  BY DEF ClosedOnce
<1>1. YearStands(entries, closings[y], y) /\ Count(entries) = Ids
  BY DEF BooksInv, Ids, Count
<1>2. \A i : i \in closed <=> ClosingOf(entries, i, y)
  BY <1>1 DEF ClosingOf
<1>3. ~YearReopened(entries, y)
  BY <1>1, <1>2 DEF YearReopened, Reopened
<1>4. CASE closings[y].status = "none"
  BY <1>1, <1>2, <1>4 DEF YearStands, ClosingOf
<1>5. CASE closings[y].status # "none"
  <2>1. closings[y].closing \in closed
    BY <1>1, <1>2, <1>5 DEF YearStands
  <2>2. \A i \in closed : i = closings[y].closing
    BY <1>1, <1>2, <1>3 DEF YearStands, ClosingOf
  <2>. QED BY <1>5, <2>1, <2>2
<1>. QED BY <1>4, <1>5

(* The invariant has the types the runs check, and no number of a journal is  *)
(* skipped.                                                                   *)
LEMMA BooksWellFormed == ASSUME BooksInv PROVE BookTypeOK /\ NumbersHaveNoGaps
<1>1. \A i \in Ids : entries[i] \in EntryRow /\ entries[i].of < i
  BY DEF BooksInv, BooksTyped, History, Linked, Ids, Count
<1>2. ASSUME NEW y \in Years PROVE {closings[y].closing, closings[y].transfer} \subseteq 0..Len(entries)
  <2>. DEFINE row == closings[y]
  <2>1. YearStands(entries, row, y) /\ Len(entries) \in Nat
    BY DEF BooksInv, BooksTyped
  <2>2. CASE row.status = "none"
    <3>1. row.closing = 0 /\ row.transfer = 0
      BY <2>1, <2>2 DEF YearStands
    <3>. QED BY <2>1, <3>1
  <2>3. CASE row.status # "none"
    <3>1. row.closing \in 1..Len(entries) /\ row.transfer = IF HasTransfer(entries, row.closing) THEN row.closing + 1 ELSE 0
      BY <2>1, <2>3 DEF YearStands, ClosingOf, Count
    <3>2. HasTransfer(entries, row.closing) => row.closing + 1 \in 1..Len(entries)
      BY DEF HasTransfer, Count
    <3>. QED BY <2>1, <3>1, <3>2
  <2>. QED BY <2>2, <2>3
<1>3. BookTypeOK
  BY <1>1, <1>2 DEF BooksInv, BooksTyped, BookTypeOK
<1>4. NumbersHaveNoGaps
  BY DEF BooksInv, NoGaps, Follows, Numbered, NumbersHaveNoGaps, Ids, Count
<1>. QED BY <1>3, <1>4

(* The invariant holds in every state the accounting services reach.          *)
LEMMA BooksAlways == BookSpec => []BooksInv
  BY BooksStart, BooksStep, PTL DEF BookSpec

(* Entries, journals and years keep their types, and no number of a journal   *)
(* is skipped, whatever entries, removals and changes of numbering overlap:   *)
(* what was read under the key of the journal still stands when the entry is  *)
(* saved.                                                                     *)
THEOREM BooksStayNumbered == BookSpec => []BooksAreNumbered
<1>1. BooksInv => BooksAreNumbered
  BY BooksWellFormed DEF BooksAreNumbered
<1>. QED BY <1>1, BooksAlways, PTL

(* The trial balance of a year is off by no more than a cent for each entry   *)
(* of the automatic journal: createEntry refuses lines that do not balance,   *)
(* generate writes an entry off by its tolerance and one off by more with a   *)
(* warning, and reversals and closings mirror what was written. Any chart and *)
(* rules.                                                                     *)
THEOREM TrialIsOffByCents == BookSpec => []TrialBalanceIsOffByCents
<1>1. BooksInv => TrialBalanceIsOffByCents
  BY TrialAddsUp DEF BooksInv, BooksTyped
<1>. QED BY <1>1, BooksAlways, PTL

(* closeYear and reopenYear, interleaved at each of their reads and writes by *)
(* any users, and entries reversed in between: a year never reopened was      *)
(* closed once, by the entries its row names, and closings and reopenings     *)
(* leave nothing on the income summary unless one of their entries was        *)
(* reversed alone.                                                            *)
THEOREM YearsAreClosedOnce == BookSpec => []YearsCloseOnce
<1>1. BooksInv => YearsCloseOnce
  BY ClearedSummary, YearClosedOnce DEF YearsCloseOnce
<1>. QED BY <1>1, BooksAlways, PTL

(* The cash flow statement and the balance sheet of any chart come out even   *)
(* whenever the entries they read do, and what they leave out is nothing:     *)
(* each regroups the same lines.                                              *)
THEOREM StatementsAddUp == BookSpec => []StatementsReconcile
<1>1. BooksInv => StatementsReconcile
  BY CashFlowAddsUp, SheetAddsUp DEF BooksInv, BooksTyped, StatementsReconcile
<1>. QED BY <1>1, BooksAlways, PTL

================================================================================
