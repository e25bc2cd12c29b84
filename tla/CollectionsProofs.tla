--------------------------- MODULE CollectionsProofs ---------------------------
(* What is proved of the desks of MCCollections, for any customers, documents, *)
(* accounts, rules, lists and clerks.                                          *)
(*                                                                             *)
(* Part 1, the registry: the mark of a customer is about the number and the    *)
(* type it has now, and an account loses its partner to a race alone. The      *)
(* strengthening is that every account of a partner whose removal is under way *)
(* was raised meanwhile.                                                       *)
(*                                                                             *)
(* Part 2, credit and commissions: what a customer owes and may come to owe    *)
(* stays within the limit unless a waiver was noted, and the commission on a   *)
(* paid document does not wait. The strengthening is about the requests under  *)
(* way: what a check has read of what is owed is no less than what is, what it *)
(* let through still fits by its estimate, and a request that writes a         *)
(* document read one of the same type, so that only a credit note can have an  *)
(* account below zero.                                                         *)
(*                                                                             *)
(* Part 3, approvals: a document that waits for approval can be answered. The  *)
(* property is inductive once the rows have their types: each action changes   *)
(* the requests of one document at most, and what it makes of the document it  *)
(* makes of the requests in the same transaction.                              *)
(*                                                                             *)
(* Part 4, price lists: two defaults come from overlapping transactions only.  *)
(* Three facts carry it: transactions under way at once are noted together; a  *)
(* list marked since a transaction took the mark from the others was marked by *)
(* one it overlapped with; and the rows it unmarked stay, for it holds them.   *)
(*                                                                             *)
(* Part 5, dunning: what is in the log was sent, one e-mail of an account at   *)
(* most is missing from it for every run that noted none beside it, and        *)
(* e-mails only grow more pressing under one reading of rules and due date.    *)
(* What carries it is about the steps in hand: an unlogged e-mail is one a     *)
(* run still has in hand, or one of a run that broke off.                      *)
(*                                                                             *)
(* Part 6, check digits: every slip in every identifier is refused, except     *)
(* where the scheme is blind. A slip shifts the weighted sum by a product of   *)
(* two small factors, a weight or the difference of neighbouring weights and a *)
(* difference of digits; 11 and 23 are prime and divide no such product, and   *)
(* what doubling makes of the digits of a cif moves its sum by less than 10.   *)
(*                                                                             *)
(* Part 7, the registry among the other desks of MCCollections, whose actions  *)
(* leave it alone: with parts 1, 2, 5 and 6.                                   *)
EXTENDS MCCollections, SumsProofs, SequenceTheorems

--------------------------------------------------------------------------------
\* Part 1. The registry.

RemovalsCross == \A i \in Accounts : partner[i] \in removing => i \in crossed

RegistryInv == PartnersTypeOK /\ MarkedMeansValid /\ LinkKept /\ RemovalsCross

\* A row that is kept has every field.
LEMMA KeptRow ==
    ASSUME PartnersTypeOK, NEW p \in Partners, Known(p)
    PROVE  row[p] \in PartnerRow
  BY DEF PartnersTypeOK, Known

(* The check of a number has three answers.                                   *)
LEMMA CheckAnswers ==
    ASSUME NEW number, NEW type
    PROVE  Check(number, type) \in {"valid", "invalid", "unknown"}
  BY DEF Check, Validate

\* The mark of an update is about the number and the type it leaves in the row.
LEMMA MarkFollows ==
    ASSUME NEW old \in PartnerRow, NEW number, NEW type,
           old.mark = "valid" => Check(old.number, old.type) = "valid",
           Mark(old.mark, number, type) = "valid"
    PROVE  Check(Field(number, old.number), Field(type, old.type)) = "valid"
  <1>1. CASE number = Keep /\ type = Keep
    BY <1>1 DEF Mark, Field
  <1>2. CASE ~(number = Keep /\ type = Keep)
    <2>1. Check(Given(number, None), Given(type, "none")) = "valid"
      BY <1>2 DEF Mark
    <2>2. Given(number, None) # None /\ Given(type, "none") # "none"
      BY <2>1 DEF Check
    <2> QED
      BY <2>1, <2>2 DEF Given, Field
  <1> QED
    BY <1>1, <1>2

\* One row is written, and nothing else.
LEMMA RowWritten ==
    ASSUME RegistryInv, NEW p \in Partners, NEW r \in PartnerRow, row' = [row EXCEPT ![p] = r],
           UNCHANGED <<partner, documents, removing, crossed>>,
           p \in Customers /\ r.mark = "valid" => Check(r.number, r.type) = "valid"
    PROVE  RegistryInv'
  <1>1. row'[p] = r /\ \A q \in Partners \ {p} : row'[q] = row[q]
    BY DEF RegistryInv, PartnersTypeOK
  <1>2. PartnersTypeOK'
    BY DEF RegistryInv, PartnersTypeOK
  <1>3. MarkedMeansValid'
    <2> SUFFICES ASSUME NEW q \in Customers, row'[q] # NoRow, row'[q].mark = "valid"
                 PROVE  Check(row'[q].number, row'[q].type) = "valid"
      BY DEF MarkedMeansValid, Known, Check, Validate, ValidTaxId
    <2>1. CASE q = p
      BY <1>1, <2>1
    <2>2. CASE q # p
      <3>1. row'[q] = row[q]
        BY <1>1, <2>2 DEF Partners
      <3> QED
        BY <3>1 DEF RegistryInv, MarkedMeansValid, Known
    <2> QED
      BY <2>1, <2>2
  <1>4. LinkKept' /\ RemovalsCross'
    BY DEF RegistryInv, LinkKept, RemovalsCross
  <1> QED
    BY <1>2, <1>3, <1>4 DEF RegistryInv

(* A new row is marked by the number and the type it is written with.         *)
LEMMA CreateKeeps ==
    ASSUME RegistryInv, NEW p \in Partners, NEW code \in Codes \cup {None},
           NEW number \in Numbers \cup {None}, NEW type \in Types \cup {"none"},
           Create(p, code, number, type)
    PROVE  RegistryInv'
  <1> DEFINE mark == IF p \in Customers THEN Check(number, type) ELSE "unknown"
             r == [state |-> "kept", code |-> code, number |-> number, type |-> type,
                   mark |-> mark, active |-> TRUE]
  <1>1. mark \in {"valid", "unknown"}
    BY CheckAnswers DEF Create
  <1>2. p \in Customers => mark = Check(number, type)
    OBVIOUS
  <1>3. row' = [row EXCEPT ![p] = r] /\ UNCHANGED <<partner, documents, removing, crossed>>
    BY DEF Create
  <1> HIDE DEF mark
  <1>4. r \in PartnerRow /\ r.mark = mark /\ r.number = number /\ r.type = type
    BY <1>1 DEF PartnerRow
  <1> HIDE DEF r
  <1> QED
    BY <1>2, <1>3, <1>4, RowWritten

(* An edit marks the row by what it leaves in it.                             *)
LEMMA UpdateKeeps ==
    ASSUME RegistryInv, NEW p \in Partners, NEW code \in Codes \cup {None, Keep},
           NEW number \in Numbers \cup {None, Keep}, NEW type \in Types \cup {"none", Keep},
           NEW active \in BOOLEAN, Update(p, code, number, type, active)
    PROVE  RegistryInv'
  <1> DEFINE mark == IF p \in Customers THEN Mark(row[p].mark, number, type) ELSE "unknown"
             newCode == Field(code, row[p].code)
             newNumber == Field(number, row[p].number)
             newType == Field(type, row[p].type)
             r == [row[p] EXCEPT !.code = newCode, !.number = newNumber, !.type = newType,
                              !.mark = mark, !.active = active]
  <1>1. row[p] \in PartnerRow
    BY KeptRow DEF RegistryInv, Update
  <1>2. /\ row[p].code \in Codes \cup {None} /\ row[p].number \in Numbers \cup {None}
        /\ row[p].type \in Types \cup {"none"} /\ row[p].mark \in {"valid", "unknown"}
    BY <1>1 DEF PartnerRow
  <1>3. /\ newCode \in Codes \cup {None} /\ newNumber \in Numbers \cup {None}
        /\ newType \in Types \cup {"none"}
    BY <1>2 DEF Field
  <1>4. mark \in {"valid", "unknown"}
    BY <1>2, CheckAnswers DEF Update, Mark
  <1>5. p \in Customers /\ mark = "valid" => Check(newNumber, newType) = "valid"
    <2>1. p \in Customers /\ row[p].mark = "valid" => Check(row[p].number, row[p].type) = "valid"
      BY DEF RegistryInv, MarkedMeansValid, Update
    <2> QED
      BY <1>1, <2>1, MarkFollows
  <1>6. row' = [row EXCEPT ![p] = r] /\ UNCHANGED <<partner, documents, removing, crossed>>
    <2>1. p \in DOMAIN row
      BY DEF RegistryInv, PartnersTypeOK
    <2>2. row' = [row EXCEPT ![p] = [row[p] EXCEPT !.code = Field(code, @), !.number = Field(number, @),
                                                !.type = Field(type, @), !.mark = mark, !.active = active]]
      BY <2>1 DEF Update
    <2>3. [row[p] EXCEPT !.code = Field(code, @), !.number = Field(number, @), !.type = Field(type, @),
                      !.mark = mark, !.active = active] = r
      <3> HIDE DEF mark
      <3> QED
        BY <1>1 DEF PartnerRow
    <2>4. UNCHANGED <<partner, documents, removing, crossed>>
      BY DEF Update
    <2> QED
      BY <2>2, <2>3, <2>4
  <1> HIDE DEF mark, newCode, newNumber, newType
  <1>7. r \in PartnerRow /\ r.mark = mark /\ r.number = newNumber /\ r.type = newType
    BY <1>1, <1>3, <1>4 DEF PartnerRow
  <1> HIDE DEF r
  <1> QED
    BY <1>5, <1>6, <1>7, RowWritten

(* A removal that finds accounts only makes the row inactive; one that finds  *)
(* none begins with no account of it.                                         *)
LEMMA RemovalKeeps ==
    ASSUME RegistryInv, NEW p \in Partners, BeginRemoval(p)
    PROVE  RegistryInv'
  <1>1. CASE FindAccounts(p) # {}
    <2> DEFINE r == [row[p] EXCEPT !.active = FALSE]
    <2>1. row[p] \in PartnerRow
      BY KeptRow DEF RegistryInv, BeginRemoval
    <2>2. /\ r \in PartnerRow /\ r.mark = row[p].mark /\ r.number = row[p].number
          /\ r.type = row[p].type
      BY <2>1 DEF PartnerRow
    <2>3. row' = [row EXCEPT ![p] = r] /\ UNCHANGED <<partner, documents, removing, crossed>>
      BY <1>1 DEF BeginRemoval
    <2>4. p \in Customers /\ r.mark = "valid" => Check(r.number, r.type) = "valid"
      BY <2>2 DEF RegistryInv, MarkedMeansValid, BeginRemoval
    <2> HIDE DEF r
    <2> QED
      BY <2>2, <2>3, <2>4, RowWritten
  <1>2. CASE FindAccounts(p) = {}
    <2>1. removing' = removing \cup {p} /\ UNCHANGED <<row, partner, documents, crossed>>
      BY <1>2 DEF BeginRemoval
    <2>2. \A i \in Accounts : partner[i] # p
      BY <1>2 DEF FindAccounts, AccountsOf
    <2>3. RemovalsCross'
      BY <2>1, <2>2 DEF RegistryInv, RemovalsCross
    <2>4. PartnersTypeOK' /\ LinkKept'
      BY <2>1 DEF RegistryInv, PartnersTypeOK, LinkKept
    <2>5. MarkedMeansValid'
      BY <2>1 DEF RegistryInv, MarkedMeansValid, Known, Check, Validate, ValidTaxId
    <2> QED
      BY <2>3, <2>4, <2>5 DEF RegistryInv
  <1> QED
    BY <1>1, <1>2

(* When the row goes, the accounts that name it were raised meanwhile, and    *)
(* are crossed.                                                               *)
LEMMA DeleteKeeps ==
    ASSUME RegistryInv, NEW p \in Partners, Delete(p)
    PROVE  RegistryInv'
  <1>1. removing' = removing \ {p} /\ p \in removing /\ UNCHANGED <<documents, crossed>>
    BY DEF Delete
  <1>2. \/ UNCHANGED <<row, partner>>
        \/ /\ row' = [row EXCEPT ![p] = NoRow]
           /\ partner' = [i \in Accounts |-> IF partner[i] = p THEN Nobody ELSE partner[i]]
    BY DEF Delete
  <1>3. PartnersTypeOK'
    BY <1>1, <1>2 DEF RegistryInv, PartnersTypeOK
  <1>4. \A q \in Partners : row'[q] = row[q] \/ row'[q] = NoRow
    BY <1>2 DEF RegistryInv, PartnersTypeOK
  <1>5. MarkedMeansValid'
    <2> SUFFICES ASSUME NEW q \in Customers, row'[q] # NoRow, row'[q].mark = "valid"
                 PROVE  Check(row'[q].number, row'[q].type) = "valid"
      BY DEF MarkedMeansValid, Known, Check, Validate, ValidTaxId
    <2>1. row'[q] = row[q]
      BY <1>4 DEF Partners
    <2> QED
      BY <2>1 DEF RegistryInv, MarkedMeansValid, Known
  <1>6. \A i \in Accounts : partner'[i] = partner[i] \/ partner[i] = p
    BY <1>2
  <1>7. LinkKept' /\ RemovalsCross'
    BY <1>1, <1>6 DEF RegistryInv, LinkKept, RemovalsCross
  <1> QED
    BY <1>3, <1>5, <1>7 DEF RegistryInv

(* An account is raised for a partner whose row is there.                     *)
LEMMA RaiseKeeps ==
    ASSUME RegistryInv, NEW i \in Accounts, NEW p \in Partners, Raise(i, p)
    PROVE  RegistryInv'
  <1>1. /\ partner' = [partner EXCEPT ![i] = p] /\ UNCHANGED <<row, documents, removing>>
        /\ crossed' = crossed \cup {j \in {i} : p \in removing}
    BY DEF Raise
  <1>2. PartnersTypeOK'
    BY <1>1 DEF RegistryInv, PartnersTypeOK
  <1>3. partner'[i] = p /\ \A j \in Accounts \ {i} : partner'[j] = partner[j]
    BY <1>1 DEF RegistryInv, PartnersTypeOK
  <1>4. p \in removing => i \in crossed'
    BY <1>1
  <1>5. LinkKept' /\ RemovalsCross'
    BY <1>1, <1>3, <1>4, NobodyAssumption DEF RegistryInv, LinkKept, RemovalsCross
  <1>6. MarkedMeansValid'
    BY <1>1 DEF RegistryInv, MarkedMeansValid, Known, Check, Validate, ValidTaxId
  <1> QED
    BY <1>2, <1>5, <1>6 DEF RegistryInv

(* The empty registry satisfies the invariant.                                *)
LEMMA RegistryBegins == PartnersInit => RegistryInv
  <1> SUFFICES ASSUME PartnersInit PROVE RegistryInv
    OBVIOUS
  <1>1. PartnersTypeOK
    BY DEF PartnersInit, PartnersTypeOK
  <1>2. MarkedMeansValid
    BY DEF PartnersInit, MarkedMeansValid, Known, Partners
  <1>3. LinkKept /\ RemovalsCross
    BY NobodyAssumption DEF PartnersInit, LinkKept, RemovalsCross
  <1> QED
    BY <1>1, <1>2, <1>3 DEF RegistryInv

(* Every action on the registry keeps its invariant                           *)
(* (customers.service.ts:226-289).                                            *)
LEMMA RegistryMoves == RegistryInv /\ [Register]_partnerVars => RegistryInv'
  <1> SUFFICES ASSUME RegistryInv, [Register]_partnerVars PROVE RegistryInv'
    OBVIOUS
  <1>1. CASE UNCHANGED partnerVars
    BY <1>1 DEF partnerVars, RegistryInv, PartnersTypeOK, MarkedMeansValid, Known, LinkKept, RemovalsCross,
                Check, Validate, ValidTaxId
  <1>2. ASSUME NEW p \in Partners, WriteDocument(p) PROVE RegistryInv'
    BY <1>2 DEF WriteDocument, RegistryInv, PartnersTypeOK, MarkedMeansValid, Known, LinkKept, RemovalsCross,
                Check, Validate, ValidTaxId
  <1> QED
    BY <1>1, <1>2, CreateKeeps, UpdateKeeps, RemovalKeeps, DeleteKeeps, RaiseKeeps DEF Register

(***************************************************************************)
(* A customer marked valid has a number and a type that validate together  *)
(* (customers.service.ts:226-262), and an account loses its partner only   *)
(* when it was raised while that partner was being removed (:279-289),     *)
(* whatever the identifiers and however they are validated.                *)
(***************************************************************************)
THEOREM RegistryIsTrue == PartnersSpec => [](PartnersTypeOK /\ MarkedMeansValid /\ LinkKept)
  <1>1. RegistryInv => PartnersTypeOK /\ MarkedMeansValid /\ LinkKept
    BY DEF RegistryInv
  <1> QED
    BY <1>1, RegistryBegins, RegistryMoves, PTL DEF PartnersSpec

--------------------------------------------------------------------------------
\* Part 2. The credit of one customer, and the commissions on its documents.

Statuses == Early \cup {"rejected", "invoiced", "partially_paid", "paid", "cancelled"}
There(r) == r \notin {NotYet, Gone}

\* A document that is to be created is not there; one that is to be written was, and has the type it had.
RequestsStand ==
    /\ \A s \in Sessions : Creating(s) => doc[request[s].id] = NotYet
    /\ \A s, u \in Sessions : Creating(s) /\ Creating(u) /\ s # u => request[s].id # request[u].id
    /\ \A s \in Sessions : Doing(s, {"write"}) =>
          \/ doc[request[s].id] = Gone
          \/ There(doc[request[s].id]) /\ doc[request[s].id].type = request[s].was.type

\* Only a credit note has a negative account.
Credits(r) == r = Gone \/ (There(r) /\ r.type = "credit_note")
CreditsStand == \A d \in Docs : owed[d] # Nothing /\ owed[d].open < 0 => Credits(doc[d])

CreditShape == CreditTypeOK /\ RequestsStand /\ CreditsStand

\* A document that was let through fits, by its estimate, under the limit that was read; what is owed
\* is no more than a check that is under way has read.
StillFits ==
    /\ limit # Unlimited => Risk <= limit
    /\ \A s \in Sessions : Doing(s, {"insert"}) /\ request[s].type \in NeedsCredit /\ request[s].under # Unlimited
          => Risk + request[s].preview <= request[s].under
    /\ \A s \in Sessions : Doing(s, {"check"}) /\ request[s].type \in NeedsCredit => Outstanding <= request[s].seen

CreditInv == CreditShape /\ PaidMakesEligible /\ (waived = {} => StillFits)

\* What a document may come to make of what is owed, and what is open of an account.
EarlyTotal(r) == IF There(r) /\ r.type \in {"quote", "order", "invoice"} /\ r.status \in Early THEN r.total ELSE 0
OpenIn(o) == IF o # Nothing /\ o.live THEN o.open ELSE 0
EarlyTotals(D) == [d \in Docs |-> EarlyTotal(D[d])]
Opens(O) == [d \in Docs |-> OpenIn(O[d])]
RiskOf(D, O) == SumOver(Opens(O), Docs) + SumOver(EarlyTotals(D), Docs)
Rows == [Docs -> Doc \cup {NotYet, Gone}]
AccountRows == [Docs -> Account \cup {Nothing}]

(* A document has the fields of one, and keeps them when one or two are       *)
(* written.                                                                   *)
LEMMA DocRow ==
    ASSUME NEW r \in Doc
    PROVE  /\ There(r) /\ r.type \in DocTypes /\ r.total \in Totals /\ r.total \in Nat /\ r.got \in Nat
           /\ r.status \in Statuses /\ r.status \notin {"not yet", "gone"}
  <1>1. r.type \in DocTypes /\ r.total \in Totals /\ r.got \in Nat /\ r.status \in Statuses
    BY DEF Doc, Statuses
  <1>2. r.status \notin {"not yet", "gone"}
    BY <1>1 DEF Statuses, Early
  <1>3. NotYet.status = "not yet" /\ Gone.status = "gone"
    BY DEF NotYet, Gone
  <1>. QED BY <1>1, <1>2, <1>3, AmountsAssumption DEF There

\* The same of rows that may be missing.
LEMMA KeptIsDoc == ASSUME NEW D \in Rows, NEW d \in Docs, There(D[d]) PROVE D[d] \in Doc
  BY DEF Rows, There

\* A status is written, ...
LEMMA SetStatus ==
    ASSUME NEW r \in Doc, NEW status \in Statuses
    PROVE  /\ [r EXCEPT !.status = status] \in Doc /\ [r EXCEPT !.status = status].status = status
           /\ [r EXCEPT !.status = status].type = r.type /\ [r EXCEPT !.status = status].total = r.total
           /\ [r EXCEPT !.status = status].got = r.got
  BY DEF Doc, Statuses

\* ... or what was got, ...
LEMMA SetGot ==
    ASSUME NEW r \in Doc, NEW got \in Nat
    PROVE  /\ [r EXCEPT !.got = got] \in Doc /\ [r EXCEPT !.got = got].got = got
           /\ [r EXCEPT !.got = got].type = r.type /\ [r EXCEPT !.got = got].total = r.total
           /\ [r EXCEPT !.got = got].status = r.status
  BY DEF Doc, Statuses

\* ... or the total.
LEMMA SetTotal ==
    ASSUME NEW r \in Doc, NEW total \in Totals
    PROVE  /\ [r EXCEPT !.total = total] \in Doc /\ [r EXCEPT !.total = total].total = total
           /\ [r EXCEPT !.total = total].type = r.type /\ [r EXCEPT !.total = total].status = r.status
  BY DEF Doc, Statuses

(* What a request has read, by what it does.                                  *)
LEMMA RequestFields ==
    ASSUME NEW q \in Request
    PROVE  /\ q.id \in Docs /\ q.does \in {"check", "insert", "write", "settle", "note"}
           /\ q.does \in {"check", "insert"} =>
                 /\ q.type \in DocTypes /\ q.preview \in Nat /\ q.total \in Totals /\ q.seen \in Int
                 /\ q.under \in Ceilings \cup {Unlimited}
                 /\ [q EXCEPT !.does = "insert"] \in Request
                 /\ [q EXCEPT !.does = "insert"].does = "insert" /\ [q EXCEPT !.does = "insert"].id = q.id
                 /\ [q EXCEPT !.does = "insert"].type = q.type /\ [q EXCEPT !.does = "insert"].preview = q.preview
                 /\ [q EXCEPT !.does = "insert"].under = q.under
           /\ q.does = "write" => q.was \in Doc
           /\ q.does = "settle" => q.was \in Account
           /\ q.does = "note" => q.paid \in BOOLEAN
  <1>1. CASE q \in [does : {"check", "insert"}, id : Docs, type : DocTypes, preview : Totals, total : Totals,
                    under : Ceilings \cup {Unlimited}, seen : Int]
    <2>1. [q EXCEPT !.does = "insert"] \in [does : {"check", "insert"}, id : Docs, type : DocTypes, preview : Totals,
                                           total : Totals, under : Ceilings \cup {Unlimited}, seen : Int]
      BY <1>1
    <2>2. [q EXCEPT !.does = "insert"] \in Request
      BY <2>1 DEF Request
    <2>3. q.preview \in Nat
      BY <1>1, AmountsAssumption
    <2>. QED BY <1>1, <2>2, <2>3
  <1>2. CASE q \in [does : {"write"}, id : Docs, was : Doc]
    BY <1>2
  <1>3. CASE q \in [does : {"settle"}, id : Docs, was : Account]
    BY <1>3
  <1>4. CASE q \in [does : {"note"}, id : Docs, paid : BOOLEAN]
    BY <1>4
  <1>. QED BY <1>1, <1>2, <1>3, <1>4 DEF Request

(* What is at risk is the sum of what is open and of what may come to be.     *)
LEMMA RiskIs ==
    /\ Risk = RiskOf(doc, owed) /\ Outstanding = SumOver(Opens(owed), Docs)
    /\ Risk' = RiskOf(doc', owed') /\ Outstanding' = SumOver(Opens(owed'), Docs)
  <1>1. \A d \in Docs : d \in EarlyOf({"quote", "order", "invoice"}) <=>
                          There(doc[d]) /\ doc[d].type \in {"quote", "order", "invoice"} /\ doc[d].status \in Early
    BY DEF EarlyOf, Written, There
  <1>2. TotalOf(EarlyOf({"quote", "order", "invoice"})) = EarlyTotals(doc)
    BY <1>1 DEF TotalOf, EarlyTotals, EarlyTotal
  <1>3. OpenOf = Opens(owed)
    BY DEF OpenOf, Opens, OpenIn
  <1>4. \A d \in Docs : (d \in EarlyOf({"quote", "order", "invoice"}))' <=>
                          There(doc'[d]) /\ doc'[d].type \in {"quote", "order", "invoice"} /\ doc'[d].status \in Early
    BY DEF EarlyOf, Written, There
  <1>5. TotalOf(EarlyOf({"quote", "order", "invoice"}))' = EarlyTotals(doc')
    BY <1>4 DEF TotalOf, EarlyTotals, EarlyTotal
  <1>6. OpenOf' = Opens(owed')
    BY DEF OpenOf, Opens, OpenIn
  <1>. QED BY <1>2, <1>3, <1>5, <1>6 DEF Risk, Outstanding, RiskOf

(* The amounts of rows are integers.                                          *)
LEMMA WeightsType ==
    ASSUME NEW D \in Rows, NEW O \in AccountRows, NEW d \in Docs
    PROVE  EarlyTotal(D[d]) \in Nat /\ OpenIn(O[d]) \in Int
  <1>1. EarlyTotal(D[d]) \in Nat
    <2>1. CASE There(D[d])
      <3>1. D[d].total \in Nat
        BY <2>1, KeptIsDoc, DocRow
      <3>. QED BY <3>1 DEF EarlyTotal
    <2>. QED BY <2>1 DEF EarlyTotal
  <1>2. OpenIn(O[d]) \in Int
    BY DEF OpenIn, AccountRows, Account
  <1>. QED BY <1>1, <1>2

\* So are their sums.
LEMMA SumsType ==
    ASSUME NEW D \in Rows, NEW O \in AccountRows
    PROVE  SumOver(Opens(O), Docs) \in Int /\ SumOver(EarlyTotals(D), Docs) \in Int /\ RiskOf(D, O) \in Int
  <1>1. PICK f, g : f = Opens(O) /\ g = EarlyTotals(D)
    OBVIOUS
  <1>2. \A d \in Docs : f[d] \in Int /\ g[d] \in Int
    BY <1>1, WeightsType DEF Opens, EarlyTotals
  <1>3. SumOver(f, Docs) \in Int
    BY <1>2, AmountsAssumption, SumType
  <1>4. SumOver(g, Docs) \in Int
    BY <1>2, AmountsAssumption, SumType
  <1>. QED BY <1>1, <1>3, <1>4 DEF RiskOf

(* Where no document and its account make more of what is at risk, they all   *)
(* make no more of it.                                                        *)
LEMMA RiskFalls ==
    ASSUME NEW D \in Rows, NEW D2 \in Rows, NEW O \in AccountRows, NEW O2 \in AccountRows,
           \A d \in Docs : OpenIn(O2[d]) + EarlyTotal(D2[d]) <= OpenIn(O[d]) + EarlyTotal(D[d])
    PROVE  RiskOf(D2, O2) <= RiskOf(D, O)
  <1>1. PICK f, g, f2, g2 : f = Opens(O) /\ g = EarlyTotals(D) /\ f2 = Opens(O2) /\ g2 = EarlyTotals(D2)
    OBVIOUS
  <1>2. PICK h, h2 : h = [d \in Docs |-> f[d] + g[d]] /\ h2 = [d \in Docs |-> f2[d] + g2[d]]
    OBVIOUS
  <1>3. \A d \in Docs : f[d] \in Int /\ g[d] \in Int /\ h[d] = f[d] + g[d]
    BY <1>1, <1>2, WeightsType DEF Opens, EarlyTotals
  <1>4. \A d \in Docs : f2[d] \in Int /\ g2[d] \in Int /\ h2[d] = f2[d] + g2[d]
    BY <1>1, <1>2, WeightsType DEF Opens, EarlyTotals
  <1>5. \A d \in Docs : f2[d] + g2[d] <= f[d] + g[d]
    BY <1>1 DEF Opens, EarlyTotals
  <1>6. \A d \in Docs : h2[d] \in Int /\ h[d] \in Int /\ h2[d] <= h[d]
    BY <1>3, <1>4, <1>5
  <1>7. SumOver(h2, Docs) <= SumOver(h, Docs)
    BY <1>6, AmountsAssumption, SumMonotone
  <1>8. SumOver(h, Docs) = SumOver(f, Docs) + SumOver(g, Docs)
    BY <1>3, AmountsAssumption, SumPlus
  <1>9. SumOver(h2, Docs) = SumOver(f2, Docs) + SumOver(g2, Docs)
    BY <1>4, AmountsAssumption, SumPlus
  <1>. QED BY <1>1, <1>7, <1>8, <1>9 DEF RiskOf

(* One document and its account change.                                       *)
LEMMA RiskFallsAt ==
    ASSUME NEW D \in Rows, NEW D2 \in Rows, NEW O \in AccountRows, NEW O2 \in AccountRows, NEW d \in Docs,
           \A e \in Docs \ {d} : D2[e] = D[e] /\ O2[e] = O[e],
           OpenIn(O2[d]) + EarlyTotal(D2[d]) <= OpenIn(O[d]) + EarlyTotal(D[d])
    PROVE  RiskOf(D2, O2) <= RiskOf(D, O)
  <1>1. \A e \in Docs : OpenIn(O2[e]) + EarlyTotal(D2[e]) <= OpenIn(O[e]) + EarlyTotal(D[e])
    <2>. SUFFICES ASSUME NEW e \in Docs PROVE OpenIn(O2[e]) + EarlyTotal(D2[e]) <= OpenIn(O[e]) + EarlyTotal(D[e])
      OBVIOUS
    <2>1. CASE e = d
      BY <2>1
    <2>2. CASE e # d
      <3>1. D2[e] = D[e] /\ O2[e] = O[e] /\ EarlyTotal(D[e]) \in Int /\ OpenIn(O[e]) \in Int
        BY <2>2, WeightsType
      <3>. QED BY <3>1
    <2>. QED BY <2>1, <2>2
  <1>. QED BY <1>1, RiskFalls

\* The rows and the amounts of a state that has its types.
LEMMA ShapeTypes ==
    ASSUME CreditTypeOK
    PROVE  doc \in Rows /\ owed \in AccountRows /\ Risk \in Int /\ Outstanding \in Int
  <1>1. doc \in Rows /\ owed \in AccountRows
    BY DEF CreditTypeOK, Rows, AccountRows
  <1>. QED BY <1>1, RiskIs, SumsType

\* The same of the state after a step.
LEMMA ShapeTypesNext ==
    ASSUME CreditTypeOK'
    PROVE  doc' \in Rows /\ owed' \in AccountRows /\ Risk' \in Int /\ Outstanding' \in Int
  <1>1. doc' \in Rows /\ owed' \in AccountRows
    BY DEF CreditTypeOK, Rows, AccountRows
  <1>2. PICK D \in Rows, O \in AccountRows : D = doc' /\ O = owed'
    BY <1>1
  <1>3. SumOver(Opens(O), Docs) \in Int /\ RiskOf(D, O) \in Int
    BY SumsType
  <1>. QED BY <1>1, <1>2, <1>3, RiskIs

\* What the check counts is all that is at risk, where no invoice waits.
LEMMA ExposureIsRisk ==
    ASSUME CreditTypeOK, Unseen = {}
    PROVE  /\ SumOver(TotalOf(UnderWay), Docs) \in Int
           /\ Risk = Outstanding + SumOver(TotalOf(UnderWay), Docs)
  <1>1. EarlyOf({"quote", "order", "invoice"}) = UnderWay
    BY DEF EarlyOf, UnderWay, Unseen
  <1>2. Risk = Outstanding + SumOver(TotalOf(UnderWay), Docs)
    BY <1>1 DEF Risk
  <1>3. \A d \in Docs : TotalOf(UnderWay)[d] \in Int
    <2>1. \A d \in UnderWay : d \in Docs /\ doc[d] \in Doc
      BY DEF UnderWay, EarlyOf, Written, CreditTypeOK
    <2>2. \A r \in Doc : r.total \in Nat
      BY DocRow
    <2>3. \A d \in UnderWay : doc[d].total \in Int
      BY <2>1, <2>2
    <2>. QED BY <2>3 DEF TotalOf
  <1>. QED BY <1>2, <1>3, AmountsAssumption, SumType

\* How a step may change documents, accounts and requests: rows are written or removed, or new where no
\* request is creating them; a request that creates stays as it is or ends.
RowsMove ==
    \A d \in Docs :
        \/ doc'[d] = doc[d]
        \/ There(doc[d]) /\ (doc'[d] = Gone \/ (There(doc'[d]) /\ doc'[d].type = doc[d].type))
        \/ /\ doc[d] = NotYet /\ There(doc'[d])
           /\ \A u \in Sessions : request'[u] # Nothing /\ request'[u].does \in {"check", "insert"} => request'[u].id # d
OpenMoves ==
    \A d \in Docs : owed'[d] # Nothing => \/ owed'[d].open >= 0
                                          \/ owed[d] # Nothing /\ owed'[d].open = owed[d].open
                                          \/ Credits(doc'[d])
CreationsEnd ==
    \A u \in Sessions : request'[u] # Nothing /\ request'[u].does \in {"check", "insert"} => request'[u] = request[u]
WritesRead ==
    \A u \in Sessions : request'[u] # Nothing /\ request'[u].does = "write" =>
        \/ request'[u] = request[u]
        \/ There(doc'[request'[u].id]) /\ doc'[request'[u].id].type = request'[u].was.type
PaidMoves ==
    \A d \in Docs : There(doc'[d]) /\ doc'[d].status = "paid" /\ commission'[d] = "pending" =>
        \/ d \in byHand'
        \/ There(doc[d]) /\ doc[d].status = "paid" /\ commission[d] = "pending" /\ d \notin byHand \ byHand'
NoMoreAtRisk ==
    waived' = {} => waived = {} /\ ~(Risk' > Risk) /\ ~(Outstanding' > Outstanding /\ Checking # {})

(* A document that is not there yet is not one that is gone.                  *)
LEMMA KeptApart == There(NotYet) = FALSE /\ There(Gone) = FALSE /\ NotYet # Gone
  <1>1. NotYet.status = "not yet" /\ Gone.status = "gone"
    BY DEF NotYet, Gone
  <1>. QED BY <1>1 DEF There

(* Such a step leaves every request about the document it was about.          *)
LEMMA ShapeKept ==
    ASSUME CreditShape, CreditTypeOK', RowsMove, OpenMoves, CreationsEnd, WritesRead
    PROVE  CreditShape'
  <1>1. \A u \in Sessions : request'[u] # Nothing => request'[u].id \in Docs
    <2>1. \A u \in Sessions : request'[u] # Nothing => request'[u] \in Request
      BY DEF CreditTypeOK
    <2>. QED BY <2>1, RequestFields
  <1>2. ASSUME NEW u \in Sessions, request'[u] # Nothing, request'[u].does \in {"check", "insert"}
        PROVE  Creating(u) /\ request'[u] = request[u] /\ doc'[request'[u].id] = NotYet
    <2>1. Creating(u) /\ request'[u] = request[u]
      BY <1>2 DEF CreationsEnd, Creating, Doing
    <2>2. doc[request[u].id] = NotYet /\ request[u].id \in Docs
      BY <1>1, <1>2, <2>1 DEF CreditShape, RequestsStand
    <2>. QED BY <1>2, <2>1, <2>2, KeptApart DEF RowsMove
  <1>3. ASSUME NEW u \in Sessions, request'[u] # Nothing, request'[u].does = "write"
        PROVE  \/ doc'[request'[u].id] = Gone
               \/ There(doc'[request'[u].id]) /\ doc'[request'[u].id].type = request'[u].was.type
    <2>1. CASE request'[u] = request[u]
      <3>1. PICK d \in Docs : d = request[u].id
        BY <1>1, <1>3, <2>1
      <3>2. doc[d] = Gone \/ (There(doc[d]) /\ doc[d].type = request[u].was.type)
        BY <1>3, <2>1, <3>1 DEF CreditShape, RequestsStand, Doing
      <3>3. doc'[d] = Gone \/ (There(doc'[d]) /\ doc'[d].type = request[u].was.type)
        BY <3>2, KeptApart DEF RowsMove
      <3>. QED BY <2>1, <3>1, <3>3
    <2>2. CASE request'[u] # request[u]
      BY <1>3, <2>2 DEF WritesRead
    <2>. QED BY <2>1, <2>2
  <1>4. RequestsStand'
    <2>1. \A u \in Sessions : Creating(u)' => Creating(u) /\ request'[u] = request[u] /\ doc'[request'[u].id] = NotYet
      BY <1>2 DEF Creating, Doing
    <2>2. \A u \in Sessions : Doing(u, {"write"})' =>
               \/ doc'[request'[u].id] = Gone
               \/ There(doc'[request'[u].id]) /\ doc'[request'[u].id].type = request'[u].was.type
      BY <1>3 DEF Doing
    <2>. QED BY <2>1, <2>2 DEF CreditShape, RequestsStand, There
  <1>5. CreditsStand'
    <2>. SUFFICES ASSUME NEW d \in Docs, owed'[d] # Nothing, owed'[d].open < 0 PROVE Credits(doc'[d])
      BY DEF CreditsStand, Credits, There
    <2>1. CASE owed[d] # Nothing /\ owed'[d].open = owed[d].open
      <3>1. Credits(doc[d])
        BY <2>1 DEF CreditShape, CreditsStand
      <3>. QED BY <3>1, KeptApart DEF RowsMove, Credits
    <2>2. owed'[d].open \in Int
      BY DEF CreditTypeOK, Account
    <2>. QED BY <2>1, <2>2 DEF OpenMoves
  <1>. QED BY <1>4, <1>5 DEF CreditShape

(* A paid document whose commission waits is one of those set by hand.        *)
LEMMA PaidKept == ASSUME PaidMakesEligible, PaidMoves PROVE PaidMakesEligible'
  BY DEF PaidMakesEligible, PaidMoves, Written, There

(* What fits still fits where nothing comes to be at risk.                    *)
LEMMA FitsKept ==
    ASSUME CreditInv, CreditTypeOK', limit' = limit, CreationsEnd, NoMoreAtRisk
    PROVE  waived' = {} => StillFits'
  <1>. SUFFICES ASSUME waived' = {} PROVE StillFits'
    OBVIOUS
  <1>1. CreditTypeOK /\ StillFits
    BY DEF CreditInv, CreditShape, NoMoreAtRisk
  <1>2. Risk \in Int /\ Outstanding \in Int /\ Risk' \in Int /\ Outstanding' \in Int
    BY <1>1, ShapeTypes, ShapeTypesNext
  <1>3. Risk' <= Risk /\ (Checking # {} => Outstanding' <= Outstanding)
    BY <1>2 DEF NoMoreAtRisk
  <1>4. limit # Unlimited => limit \in Int
    BY <1>1, AmountsAssumption DEF CreditTypeOK
  <1>5. limit' # Unlimited => Risk' <= limit'
    BY <1>1, <1>2, <1>3, <1>4 DEF StillFits
  <1>6. \A u \in Sessions : Creating(u)' => request'[u] = request[u] /\ Creating(u)
    BY DEF CreationsEnd, Creating, Doing
  <1>7. ASSUME NEW u \in Sessions, Creating(u)
        PROVE  request[u].preview \in Int /\ request[u].seen \in Int /\ request[u].under \in Ceilings \cup {Unlimited}
    <2>1. PICK q \in Request : q = request[u] /\ q.does \in {"check", "insert"}
      BY <1>1, <1>7 DEF CreditTypeOK, Creating, Doing
    <2>2. q.preview \in Nat /\ q.seen \in Int /\ q.under \in Ceilings \cup {Unlimited}
      BY <2>1, RequestFields
    <2>. QED BY <2>1, <2>2
  <1>8. ASSUME NEW u \in Sessions, Doing(u, {"insert"})', request'[u].type \in NeedsCredit, request'[u].under # Unlimited
        PROVE  Risk' + request'[u].preview <= request'[u].under
    <2>1. request'[u] = request[u] /\ Creating(u) /\ Doing(u, {"insert"})
      BY <1>6, <1>8 DEF Creating, Doing
    <2>2. Risk + request[u].preview <= request[u].under
      BY <1>1, <1>8, <2>1 DEF StillFits
    <2>3. request[u].preview \in Int /\ request[u].under \in Int
      <3>1. request[u].preview \in Int /\ request[u].under \in Ceilings \cup {Unlimited} /\ request[u].under # Unlimited
        BY <1>7, <1>8, <2>1
      <3>2. Ceilings \subseteq Int
        BY AmountsAssumption
      <3>. QED BY <3>1, <3>2
    <2>. QED BY <1>2, <1>3, <2>1, <2>2, <2>3
  <1>9. ASSUME NEW u \in Sessions, Doing(u, {"check"})', request'[u].type \in NeedsCredit
        PROVE  Outstanding' <= request'[u].seen
    <2>1. request'[u] = request[u] /\ Creating(u) /\ Doing(u, {"check"})
      BY <1>6, <1>9 DEF Creating, Doing
    <2>2. u \in Checking
      BY <1>9, <2>1 DEF Checking
    <2>3. Outstanding <= request[u].seen /\ request[u].seen \in Int
      BY <1>1, <1>7, <1>9, <2>1 DEF StillFits
    <2>. QED BY <1>2, <1>3, <2>1, <2>2, <2>3
  <1>. QED BY <1>5, <1>8, <1>9 DEF StillFits, NeedsCredit

(* So a step of this kind keeps the invariant.                                *)
LEMMA StepKeeps ==
    ASSUME CreditInv, CreditTypeOK', limit' = limit, RowsMove, OpenMoves, CreationsEnd, WritesRead, PaidMoves, NoMoreAtRisk
    PROVE  CreditInv'
  <1>1. CreditShape'
    BY ShapeKept DEF CreditInv
  <1>2. PaidMakesEligible'
    BY PaidKept DEF CreditInv
  <1>3. waived' = {} => StillFits'
    BY FitsKept
  <1>. QED BY <1>1, <1>2, <1>3 DEF CreditInv

(* A request ends, and the others stay as they are.                           *)
LEMMA Ends ==
    ASSUME CreditTypeOK, \/ request' = request
                         \/ \E s \in Sessions : Finish(s)
    PROVE  request' \in [Sessions -> Request \cup {Nothing}] /\ CreationsEnd /\ WritesRead
  <1>1. request' \in [Sessions -> Request \cup {Nothing}] /\ \A u \in Sessions : request'[u] \in {request[u], Nothing}
    BY DEF CreditTypeOK, Finish
  <1>. QED BY <1>1 DEF CreationsEnd, WritesRead

(* A write by what a request has read, on one document, its account and its   *)
(* commission.                                                                *)
LEMMA RowKeeps ==
    ASSUME CreditInv, NEW s \in Sessions, Finish(s), NEW d \in Docs,
           NEW r \in Doc \cup {Gone}, NEW c \in CommissionStatuses \cup {Nothing}, NEW o \in Account \cup {Nothing},
           doc' = [doc EXCEPT ![d] = r], commission' = [commission EXCEPT ![d] = c], owed' = [owed EXCEPT ![d] = o],
           UNCHANGED <<limit, blocked>>, byHand \subseteq byHand',
           doc[d] # NotYet, doc[d] = Gone => r = Gone, r # Gone => r.type = doc[d].type,
           o # Nothing => o.open >= 0 \/ (owed[d] # Nothing /\ o.open = owed[d].open) \/ Credits(r),
           r # Gone /\ r.status = "paid" /\ c = "pending" =>
               d \in byHand' \/ (There(doc[d]) /\ doc[d].status = "paid" /\ commission[d] = "pending"),
           waived' = {} => /\ waived = {}
                           /\ \/ ~(Risk' > Risk)
                              \/ OpenIn(o) + EarlyTotal(r) <= OpenIn(owed[d]) + EarlyTotal(doc[d])
                           /\ o = owed[d] \/ ~(Outstanding' > Outstanding /\ Checking # {})
    PROVE  CreditInv'
  <1>1. CreditTypeOK /\ doc \in Rows /\ owed \in AccountRows /\ Risk \in Int /\ Outstanding \in Int
    BY ShapeTypes DEF CreditInv, CreditShape
  <1>2. /\ doc'[d] = r /\ owed'[d] = o /\ commission'[d] = c
        /\ \A e \in Docs \ {d} : doc'[e] = doc[e] /\ owed'[e] = owed[e] /\ commission'[e] = commission[e]
    BY <1>1 DEF CreditTypeOK
  <1>3. CreditTypeOK'
    <2>1. doc' \in [Docs -> Doc \cup {NotYet, Gone}] /\ owed' \in [Docs -> Account \cup {Nothing}]
          /\ commission' \in [Docs -> CommissionStatuses \cup {Nothing}]
      BY <1>1 DEF CreditTypeOK
    <2>. QED BY <1>1, <2>1, Ends DEF CreditTypeOK
  <1>4. doc' \in Rows /\ owed' \in AccountRows /\ Risk' \in Int /\ Outstanding' \in Int
    BY <1>3, ShapeTypesNext
  <1>5. r # Gone => There(r) /\ There(doc[d])
    BY DocRow DEF There
  <1>6. RowsMove
    <2>. SUFFICES ASSUME NEW e \in Docs, doc'[e] # doc[e]
                  PROVE  There(doc[e]) /\ (doc'[e] = Gone \/ (There(doc'[e]) /\ doc'[e].type = doc[e].type))
      BY DEF RowsMove
    <2>1. e = d /\ doc[d] # Gone /\ doc[d] # NotYet
      BY <1>2
    <2>. QED BY <1>2, <1>5, <2>1 DEF There
  <1>7. OpenMoves
    <2>. SUFFICES ASSUME NEW e \in Docs, owed'[e] # Nothing
                  PROVE  owed'[e].open >= 0 \/ (owed[e] # Nothing /\ owed'[e].open = owed[e].open) \/ Credits(doc'[e])
      BY DEF OpenMoves
    <2>1. CASE e = d
      BY <1>2, <2>1
    <2>2. CASE e # d
      BY <1>2, <2>2
    <2>. QED BY <2>1, <2>2
  <1>8. PaidMoves
    <2>. SUFFICES ASSUME NEW e \in Docs, There(doc'[e]), doc'[e].status = "paid", commission'[e] = "pending"
                  PROVE  \/ e \in byHand'
                         \/ There(doc[e]) /\ doc[e].status = "paid" /\ commission[e] = "pending" /\ e \notin byHand \ byHand'
      BY DEF PaidMoves
    <2>1. CASE e = d
      BY <1>2, <2>1 DEF There
    <2>2. CASE e # d
      BY <1>2, <2>2
    <2>. QED BY <2>1, <2>2
  <1>9. NoMoreAtRisk
    <2>. SUFFICES ASSUME waived' = {} PROVE ~(Risk' > Risk) /\ ~(Outstanding' > Outstanding /\ Checking # {})
      BY DEF NoMoreAtRisk
    <2>1. ~(Risk' > Risk)
      <3>1. CASE OpenIn(o) + EarlyTotal(r) <= OpenIn(owed[d]) + EarlyTotal(doc[d])
        <4>1. PICK D2 \in Rows, O2 \in AccountRows : D2 = doc' /\ O2 = owed'
          BY <1>4
        <4>2. PICK D \in Rows, O \in AccountRows : D = doc /\ O = owed
          BY <1>1
        <4>3. \A e \in Docs \ {d} : D2[e] = D[e] /\ O2[e] = O[e]
          BY <1>2, <4>1, <4>2
        <4>4. OpenIn(O2[d]) + EarlyTotal(D2[d]) <= OpenIn(O[d]) + EarlyTotal(D[d])
          BY <1>2, <3>1, <4>1, <4>2
        <4>5. RiskOf(D2, O2) <= RiskOf(D, O)
          BY <4>3, <4>4, RiskFallsAt
        <4>. QED BY <1>1, <1>4, <4>1, <4>2, <4>5, RiskIs
      <3>. QED BY <3>1
    <2>2. ~(Outstanding' > Outstanding /\ Checking # {})
      <3>1. CASE o = owed[d]
        <4>1. owed' = owed
          BY <1>1, <3>1 DEF CreditTypeOK
        <4>2. Outstanding' = Outstanding
          BY <4>1, RiskIs
        <4>. QED BY <1>1, <4>2
      <3>. QED BY <3>1
    <2>. QED BY <2>1, <2>2
  <1>. QED BY <1>1, <1>3, <1>6, <1>7, <1>8, <1>9, Ends, StepKeeps

(* What a request that writes a document has read of it.                      *)
LEMMA HasRead ==
    ASSUME CreditInv, NEW s \in Sessions, Doing(s, {"write"}), NEW d, NEW was, d = request[s].id, was = request[s].was
    PROVE  /\ d \in Docs /\ was \in Doc
           /\ doc[d] = Gone \/ (doc[d] \in Doc /\ doc[d].type = was.type)
           /\ doc[d] # NotYet /\ commission[d] \in CommissionStatuses \cup {Nothing} /\ owed[d] \in Account \cup {Nothing}
  <1>1. PICK q \in Request : q = request[s] /\ q.does = "write"
    BY DEF CreditInv, CreditShape, CreditTypeOK, Doing
  <1>2. d \in Docs /\ was \in Doc
    BY <1>1, RequestFields
  <1>3. doc[d] = Gone \/ (There(doc[d]) /\ doc[d].type = was.type)
    BY DEF CreditInv, CreditShape, RequestsStand
  <1>4. doc[d] \in Doc \cup {NotYet, Gone}
    BY <1>2 DEF CreditInv, CreditShape, CreditTypeOK
  <1>. QED BY <1>2, <1>3, <1>4, KeptApart DEF CreditInv, CreditShape, CreditTypeOK, There

\* What Overwrite leaves, as a row.
LEMMA Overwritten ==
    ASSUME CreditTypeOK, NEW d \in Docs, NEW new, Overwrite(d, new)
    PROVE  doc' = [doc EXCEPT ![d] = IF doc[d] = Gone THEN Gone ELSE new]
  BY DEF Overwrite, CreditTypeOK

\* Columns that stay.
LEMMA Stays ==
    ASSUME CreditTypeOK, NEW d \in Docs
    PROVE  /\ owed = [owed EXCEPT ![d] = owed[d]] /\ commission = [commission EXCEPT ![d] = commission[d]]
           /\ owed[d] \in Account \cup {Nothing} /\ commission[d] \in CommissionStatuses \cup {Nothing}
  BY DEF CreditTypeOK

\* What a commission becomes when its document is paid.
LEMMA EarnedIs ==
    ASSUME CreditTypeOK, NEW d \in Docs
    PROVE  Earned(d) \in CommissionStatuses \cup {Nothing} /\ Earned(d) # "pending"
  BY DEF CreditTypeOK, Earned, CommissionStatuses

(* The removal of a draft.                                                    *)
LEMMA RemoveDocumentKeeps == ASSUME CreditInv, NEW s \in Sessions, RemoveDocument(s) PROVE CreditInv'
  <1>1. PICK d, was : d = request[s].id /\ was = request[s].was
    OBVIOUS
  <1>2. Doing(s, {"write"})
    BY DEF RemoveDocument
  <1>3. d \in Docs /\ was \in Doc /\ doc[d] # NotYet
    BY <1>1, <1>2, HasRead
  <1>4. PICK o \in Account \cup {Nothing} : o = owed[d] /\ owed' = [owed EXCEPT ![d] = o]
    BY <1>3, Stays DEF CreditInv, CreditShape, RemoveDocument
  <1>5. /\ doc' = [doc EXCEPT ![d] = Gone] /\ commission' = [commission EXCEPT ![d] = Nothing]
        /\ Finish(s) /\ UNCHANGED <<limit, blocked>> /\ byHand' = byHand /\ waived' = waived
    BY <1>1 DEF RemoveDocument
  <1>6. OpenIn(o) + EarlyTotal(Gone) <= OpenIn(owed[d]) + EarlyTotal(doc[d])
    <2>1. EarlyTotal(doc[d]) \in Nat /\ OpenIn(owed[d]) \in Int
      BY <1>3, ShapeTypes, WeightsType DEF CreditInv, CreditShape
    <2>2. EarlyTotal(Gone) = 0
      BY KeptApart DEF EarlyTotal
    <2>. QED BY <1>4, <2>1, <2>2
  <1>. QED BY <1>3, <1>4, <1>5, <1>6, RowKeeps

(* An edit of the total.                                                      *)
LEMMA EditKeeps == ASSUME CreditInv, NEW s \in Sessions, NEW total \in Totals, Edit(s, total) PROVE CreditInv'
  <1>1. PICK d, was : d = request[s].id /\ was = request[s].was
    OBVIOUS
  <1>2. Doing(s, {"write"})
    BY DEF Edit
  <1>3. d \in Docs /\ was \in Doc /\ doc[d] # NotYet /\ (doc[d] = Gone \/ doc[d] \in Doc)
    BY <1>1, <1>2, HasRead
  <1>4. PICK o \in Account \cup {Nothing} : o = owed[d] /\ owed' = [owed EXCEPT ![d] = o]
    BY <1>3, Stays DEF CreditInv, CreditShape, Edit
  <1>5. PICK c \in CommissionStatuses \cup {Nothing} : c = commission[d] /\ commission' = [commission EXCEPT ![d] = c]
    BY <1>3, Stays DEF CreditInv, CreditShape, Edit
  <1>6. PICK r : r = IF doc[d] = Gone THEN Gone ELSE [doc[d] EXCEPT !.total = total]
    OBVIOUS
  <1>7. Overwrite(d, [doc[d] EXCEPT !.total = total])
    BY <1>1 DEF Edit
  <1>8. doc' = [doc EXCEPT ![d] = r]
    BY <1>3, <1>6, <1>7, Overwritten DEF CreditInv, CreditShape
  <1>9. /\ r \in Doc \cup {Gone} /\ (doc[d] = Gone => r = Gone)
        /\ r # Gone => doc[d] \in Doc /\ r.type = doc[d].type /\ r.status = doc[d].status
    BY <1>3, <1>6, SetTotal
  <1>10. /\ Finish(s) /\ UNCHANGED <<limit, blocked>> /\ byHand' = byHand
         /\ waived' = {} => waived = {} /\ ~(Risk' > Risk)
    BY DEF Edit, Waive
  <1>11. r # Gone => There(doc[d])
    BY <1>9, DocRow
  <1>. QED BY <1>3, <1>4, <1>5, <1>8, <1>9, <1>10, <1>11, RowKeeps

(* The status a payment gives is one, and is early where it was.              *)
LEMMA PaymentStatus ==
    ASSUME NEW r \in Doc, NEW paid
    PROVE  /\ StatusFromPayment(r, paid) \in Statuses
           /\ StatusFromPayment(r, paid) \in Early => StatusFromPayment(r, paid) = r.status
  <1>1. r.status \in Statuses
    BY DocRow
  <1>2. {"paid", "partially_paid", "invoiced"} \subseteq Statuses \ Early
    BY DEF Statuses, Early
  <1>3. StatusFromPayment(r, paid) \in {r.status, "paid", "partially_paid", "invoiced"}
    BY DEF StatusFromPayment
  <1>. QED BY <1>1, <1>2, <1>3

(* The synchronisation of payments, by the status and the sum that were read. *)
LEMMA SyncKeeps == ASSUME CreditInv, NEW s \in Sessions, SyncDocumentPayments(s) PROVE CreditInv'
  <1>1. PICK d, was : d = request[s].id /\ was = request[s].was
    OBVIOUS
  <1>2. Doing(s, {"write"})
    BY DEF SyncDocumentPayments
  <1>3. d \in Docs /\ was \in Doc /\ doc[d] # NotYet /\ (doc[d] = Gone \/ doc[d] \in Doc) /\ CreditTypeOK
        /\ owed[d] \in Account \cup {Nothing}
    BY <1>1, <1>2, HasRead DEF CreditInv, CreditShape
  <1>4. PICK paid : paid = IF owed[d] = Nothing THEN 0 ELSE owed[d].paid
    OBVIOUS
  <1>5. paid \in Nat
    BY <1>3, <1>4 DEF Account
  <1>6. PICK status : status = StatusFromPayment(was, paid)
    OBVIOUS
  <1>7. status \in Statuses /\ (status \in Early => status = was.status)
    BY <1>3, <1>6, PaymentStatus
  <1>8. /\ Overwrite(d, [doc[d] EXCEPT !.status = status, !.got = paid])
        /\ commission' = IF status # "paid" THEN commission ELSE [commission EXCEPT ![d] = Earned(d)]
        /\ Finish(s) /\ UNCHANGED <<limit, blocked, owed, byHand>>
        /\ waived' = {} => waived = {} /\ (~(Risk' > Risk) \/ doc[d].status = was.status)
    BY <1>1, <1>4, <1>6 DEF SyncDocumentPayments, Waive
  <1>9. PICK r : r = IF doc[d] = Gone THEN Gone ELSE [doc[d] EXCEPT !.status = status, !.got = paid]
    OBVIOUS
  <1>10. doc' = [doc EXCEPT ![d] = r]
    BY <1>3, <1>8, <1>9, Overwritten
  <1>11. /\ r \in Doc \cup {Gone} /\ (doc[d] = Gone => r = Gone)
         /\ r # Gone => /\ doc[d] \in Doc /\ r \in Doc /\ r.type = doc[d].type /\ r.status = status
                        /\ r.total = doc[d].total
    <2>1. CASE doc[d] = Gone
      BY <1>9, <2>1
    <2>2. CASE doc[d] # Gone
      <3>1. PICK old \in Doc : old = doc[d]
        BY <1>3, <2>2
      <3>2. r = [old EXCEPT !.status = status, !.got = paid]
        BY <1>9, <2>2, <3>1
      <3>3. r \in Doc /\ r.type = old.type /\ r.status = status /\ r.total = old.total
        BY <1>5, <1>7, <3>2 DEF Doc, Statuses
      <3>. QED BY <2>2, <3>1, <3>3
    <2>. QED BY <2>1, <2>2
  <1>12. PICK o \in Account \cup {Nothing} : o = owed[d] /\ owed' = [owed EXCEPT ![d] = o]
    BY <1>3, <1>8, Stays
  <1>13. PICK c \in CommissionStatuses \cup {Nothing} :
            /\ commission' = [commission EXCEPT ![d] = c]
            /\ status = "paid" => c # "pending"
    <2>1. CASE status = "paid"
      BY <1>3, <1>8, <2>1, EarnedIs
    <2>2. CASE status # "paid"
      BY <1>3, <1>8, <2>2, Stays
    <2>. QED BY <2>1, <2>2
  <1>14. doc[d].status = was.status => OpenIn(o) + EarlyTotal(r) <= OpenIn(owed[d]) + EarlyTotal(doc[d])
    <2>. SUFFICES ASSUME doc[d].status = was.status PROVE OpenIn(o) + EarlyTotal(r) <= OpenIn(owed[d]) + EarlyTotal(doc[d])
      OBVIOUS
    <2>1. EarlyTotal(doc[d]) \in Nat /\ OpenIn(owed[d]) \in Int
      BY <1>3, ShapeTypes, WeightsType
    <2>2. EarlyTotal(r) \in {0, EarlyTotal(doc[d])}
      <3>1. CASE r # Gone
        <4>1. There(doc[d])
          BY <1>11, <3>1, DocRow
        <4>. QED BY <1>7, <1>11, <3>1, <4>1 DEF EarlyTotal
      <3>2. CASE r = Gone
        BY <3>2, KeptApart DEF EarlyTotal
      <3>. QED BY <3>1, <3>2
    <2>. QED BY <1>12, <2>1, <2>2
  <1>. QED BY <1>3, <1>8, <1>10, <1>11, <1>12, <1>13, <1>14, RowKeeps

(* What a status may become.                                                  *)
LEMMA AllowedIs ==
    ASSUME NEW from \in Statuses, NEW to \in Allowed[from] \cup {from}
    PROVE  /\ to \in Statuses
           /\ to = "invoiced" /\ to # from => from \in Early
           /\ to \in Early => from \in Early
  <1>1. /\ Allowed["draft"] = {"sent", "cancelled", "invoiced"}
        /\ Allowed["sent"] = {"accepted", "rejected", "invoiced", "cancelled"}
        /\ Allowed["accepted"] = {"invoiced", "cancelled"}
        /\ Allowed["rejected"] = {"cancelled"}
        /\ Allowed["invoiced"] = {"paid", "partially_paid", "cancelled"}
        /\ Allowed["partially_paid"] = {"paid", "cancelled"}
        /\ Allowed["paid"] = {"cancelled"}
        /\ Allowed["cancelled"] = {}
    BY DEF Allowed
  <1>. HIDE DEF Allowed
  <1>. QED BY <1>1 DEF Statuses, Early

(* The account and the commission that a change of status leaves.             *)
LEMMA StatusEffects ==
    ASSUME CreditInv, NEW d \in Docs, NEW was \in Doc, NEW to, NEW assigned \in BOOLEAN,
           doc[d] = Gone \/ (doc[d] \in Doc /\ doc[d].type = was.type),
           CASE to # was.status /\ to = "invoiced" -> doc[d] # Gone /\ Invoiced(d, assigned)
             [] to # was.status /\ to = "paid" -> commission' = [commission EXCEPT ![d] = Earned(d)] /\ UNCHANGED owed
             [] to # was.status /\ to = "cancelled" -> Cancelled(d)
             [] OTHER -> UNCHANGED <<owed, commission>>
    PROVE  \E o \in Account \cup {Nothing}, c \in CommissionStatuses \cup {Nothing} :
              /\ owed' = [owed EXCEPT ![d] = o] /\ commission' = [commission EXCEPT ![d] = c]
              /\ to = "paid" => (to # was.status /\ c # "pending") \/ (to = was.status /\ c = commission[d])
              /\ o # Nothing => \/ o.open >= 0
                                \/ owed[d] # Nothing /\ o.open = owed[d].open
                                \/ doc[d] # Gone /\ doc[d].type = "credit_note"
              /\ \/ o = owed[d]
                 \/ doc[d] # Gone /\ was.type # "credit_note" => OpenIn(o) <= OpenIn(owed[d])
                 \/ /\ to = "invoiced" /\ to # was.status /\ doc[d] # Gone /\ owed[d] = Nothing
                    /\ was.type # "credit_note" => doc[d].type = "invoice" /\ OpenIn(o) = doc[d].total
  <1>1. CreditTypeOK /\ CreditsStand
    BY DEF CreditInv, CreditShape
  <1>2. owed = [owed EXCEPT ![d] = owed[d]] /\ commission = [commission EXCEPT ![d] = commission[d]]
        /\ owed[d] \in Account \cup {Nothing} /\ commission[d] \in CommissionStatuses \cup {Nothing}
    BY <1>1, Stays
  <1>3. CASE to # was.status /\ to = "invoiced"
    <2>1. doc[d] \in Doc /\ doc[d].type = was.type /\ doc[d].total \in Nat /\ Invoiced(d, assigned)
      BY <1>3, DocRow
    <2>2. CASE doc[d].type \notin {"invoice", "credit_note"}
      <3>1. UNCHANGED <<owed, commission>>
        BY <2>1, <2>2 DEF Invoiced
      <3>. QED BY <1>2, <1>3, <3>1
    <2>3. CASE doc[d].type \in {"invoice", "credit_note"}
      <3>1. PICK amount \in Int : amount = IF doc[d].type = "invoice" THEN doc[d].total ELSE -doc[d].total
        BY <2>1
      <3>2. PICK new : new = [amount |-> amount, open |-> amount, paid |-> 0, live |-> TRUE]
        OBVIOUS
      <3>3. new \in Account /\ new.open = amount /\ new.live
        BY <3>2 DEF Account
      <3>4. PICK c \in CommissionStatuses \cup {Nothing} : c = IF commission[d] = Nothing /\ assigned THEN "pending" ELSE commission[d]
        BY <1>2 DEF CommissionStatuses
      <3>5. PICK o : o = IF owed[d] = Nothing THEN new ELSE owed[d]
        OBVIOUS
      <3>6. owed' = [owed EXCEPT ![d] = o] /\ commission' = [commission EXCEPT ![d] = c]
        BY <2>1, <2>3, <3>1, <3>2, <3>4, <3>5, <1>1 DEF Invoiced, CreditTypeOK
      <3>7. new # Nothing
        BY <3>3, NothingAssumption
      <3>8. CASE owed[d] # Nothing
        BY <1>2, <1>3, <3>5, <3>6, <3>8
      <3>9. CASE owed[d] = Nothing
        <4>1. o = new /\ OpenIn(o) = amount
          BY <3>3, <3>5, <3>7, <3>9 DEF OpenIn
        <4>2. doc[d] # Gone
          BY <1>3
        <4>3. o.open >= 0 \/ (doc[d] # Gone /\ doc[d].type = "credit_note")
          BY <2>1, <2>3, <3>1, <3>3, <4>1, <4>2
        <4>4. was.type # "credit_note" => doc[d].type = "invoice" /\ OpenIn(o) = doc[d].total
          BY <2>1, <2>3, <3>1, <4>1
        <4>. QED BY <1>3, <3>3, <3>6, <3>9, <4>1, <4>2, <4>3, <4>4
      <3>. QED BY <3>8, <3>9
    <2>. QED BY <2>2, <2>3
  <1>4. CASE to # was.status /\ to = "paid"
    <2>1. commission' = [commission EXCEPT ![d] = Earned(d)] /\ owed' = owed
      BY <1>4
    <2>. QED BY <1>1, <1>2, <1>4, <2>1, EarnedIs
  <1>5. CASE to # was.status /\ to = "cancelled"
    <2>1. PICK c \in CommissionStatuses \cup {Nothing} :
              c = IF commission[d] \in {Nothing, "paid", "cancelled"} THEN commission[d] ELSE "cancelled"
      BY <1>2 DEF CommissionStatuses
    <2>2. PICK o : o = IF owed[d] = Nothing THEN Nothing ELSE [owed[d] EXCEPT !.live = FALSE]
      OBVIOUS
    <2>3. Cancelled(d)
      BY <1>5
    <2>4. owed' = [owed EXCEPT ![d] = o] /\ commission' = [commission EXCEPT ![d] = c]
      BY <1>1, <2>1, <2>2, <2>3 DEF Cancelled, CreditTypeOK
    <2>5. CASE owed[d] = Nothing
      BY <1>2, <1>5, <2>2, <2>4, <2>5
    <2>6. CASE owed[d] # Nothing
      <3>1. PICK old \in Account : old = owed[d]
        BY <1>2, <2>6
      <3>2. o = [old EXCEPT !.live = FALSE]
        BY <2>2, <2>6, <3>1
      <3>3. o \in Account /\ o.open = old.open /\ o.live = FALSE
        BY <3>2 DEF Account
      <3>4. OpenIn(o) = 0
        BY <3>3 DEF OpenIn
      <3>5. doc[d] # Gone /\ was.type # "credit_note" => OpenIn(o) <= OpenIn(owed[d])
        <4>. SUFFICES ASSUME doc[d] # Gone, was.type # "credit_note" PROVE 0 <= OpenIn(owed[d])
          BY <3>4
        <4>1. ~Credits(doc[d])
          BY DEF Credits
        <4>2. old.open \in Int /\ ~(old.open < 0)
          BY <1>1, <2>6, <3>1, <4>1 DEF CreditsStand, Account
        <4>. QED BY <3>1, <4>2 DEF OpenIn
      <3>. QED BY <1>5, <2>4, <2>6, <3>1, <3>3, <3>5
    <2>. QED BY <2>5, <2>6
  <1>6. CASE ~(to # was.status /\ to \in {"invoiced", "paid", "cancelled"})
    <2>1. UNCHANGED <<owed, commission>>
      BY <1>6
    <2>. QED BY <1>2, <1>6, <2>1
  <1>. QED BY <1>3, <1>4, <1>5, <1>6

(* A change of status, by the row that was read.                              *)
LEMMA ChangeStatusKeeps ==
    ASSUME CreditInv, NEW s \in Sessions, NEW to, NEW assigned \in BOOLEAN, ChangeStatus(s, to, assigned)
    PROVE  CreditInv'
  <1>1. PICK d, was : d = request[s].id /\ was = request[s].was
    OBVIOUS
  <1>2. Doing(s, {"write"})
    BY DEF ChangeStatus
  <1>3. d \in Docs /\ was \in Doc /\ doc[d] # NotYet /\ (doc[d] = Gone \/ (doc[d] \in Doc /\ doc[d].type = was.type))
        /\ CreditTypeOK
    BY <1>1, <1>2, HasRead DEF CreditInv, CreditShape
  <1>4. PICK anew \in BOOLEAN : anew = (to # was.status)
    OBVIOUS
  <1>5. PICK full \in BOOLEAN : full = (anew /\ to = "paid" /\ was.got < was.total)
    OBVIOUS
  <1>6. /\ to \in Allowed[was.status] \cup {was.status}
        /\ Overwrite(d, [doc[d] EXCEPT !.status = to, !.got = IF full THEN was.total ELSE @])
        /\ Finish(s) /\ UNCHANGED <<limit, blocked>>
        /\ byHand' = byHand \cup {e \in {d} : to = "paid" /\ ~anew /\ doc[d].status # "paid"}
    BY <1>1, <1>4, <1>5 DEF ChangeStatus
  <1>7. (CASE to # was.status /\ to = "invoiced" -> doc[d] # Gone /\ Invoiced(d, assigned)
           [] to # was.status /\ to = "paid" -> commission' = [commission EXCEPT ![d] = Earned(d)] /\ UNCHANGED owed
           [] to # was.status /\ to = "cancelled" -> Cancelled(d)
           [] OTHER -> UNCHANGED <<owed, commission>>)
    BY <1>1 DEF ChangeStatus
  <1>8. waived' = {} => /\ waived = {}
                        /\ ~(Risk' > Risk) \/ (doc[d].status = was.status /\ was.type # "credit_note")
                        /\ ~(Outstanding' > Outstanding /\ Checking # {})
    BY <1>1 DEF ChangeStatus
  <1>9. was.status \in Statuses
    BY <1>3, DocRow
  <1>10. /\ to \in Statuses /\ (to = "invoiced" /\ to # was.status => was.status \in Early)
         /\ (to \in Early => was.status \in Early)
    BY <1>6, <1>9, AllowedIs
  <1>11. PICK o \in Account \cup {Nothing}, c \in CommissionStatuses \cup {Nothing} :
              /\ owed' = [owed EXCEPT ![d] = o] /\ commission' = [commission EXCEPT ![d] = c]
              /\ to = "paid" => (to # was.status /\ c # "pending") \/ (to = was.status /\ c = commission[d])
              /\ o # Nothing => \/ o.open >= 0
                                \/ owed[d] # Nothing /\ o.open = owed[d].open
                                \/ doc[d] # Gone /\ doc[d].type = "credit_note"
              /\ \/ o = owed[d]
                 \/ doc[d] # Gone /\ was.type # "credit_note" => OpenIn(o) <= OpenIn(owed[d])
                 \/ /\ to = "invoiced" /\ to # was.status /\ doc[d] # Gone /\ owed[d] = Nothing
                    /\ was.type # "credit_note" => doc[d].type = "invoice" /\ OpenIn(o) = doc[d].total
    BY <1>3, <1>7, StatusEffects
  <1>12. PICK r : r = IF doc[d] = Gone THEN Gone ELSE [doc[d] EXCEPT !.status = to, !.got = IF full THEN was.total ELSE @]
    OBVIOUS
  <1>13. doc' = [doc EXCEPT ![d] = r]
    BY <1>3, <1>6, <1>12, Overwritten
  <1>14. doc[d] # Gone => /\ r \in Doc /\ r.type = doc[d].type /\ r.status = to /\ r.total = doc[d].total
                          /\ There(r) /\ There(doc[d]) /\ r # Gone
    <2>. SUFFICES ASSUME doc[d] # Gone
                  PROVE  /\ r \in Doc /\ r.type = doc[d].type /\ r.status = to /\ r.total = doc[d].total
                         /\ There(r) /\ There(doc[d]) /\ r # Gone
      OBVIOUS
    <2>1. PICK old \in Doc : old = doc[d]
      BY <1>3
    <2>2. PICK got \in Nat : got = IF full THEN was.total ELSE old.got
      BY <1>3, <2>1, DocRow
    <2>3. r = [old EXCEPT !.status = to, !.got = got]
      BY <1>12, <2>1, <2>2 DEF Doc
    <2>4. r \in Doc /\ r.type = old.type /\ r.status = to /\ r.total = old.total
      BY <1>10, <2>3 DEF Doc, Statuses
    <2>. QED BY <2>1, <2>4, DocRow DEF There
  <1>15. doc[d].status = was.status /\ was.type # "credit_note" =>
            OpenIn(o) + EarlyTotal(r) <= OpenIn(owed[d]) + EarlyTotal(doc[d])
    <2>. SUFFICES ASSUME doc[d].status = was.status, was.type # "credit_note"
                  PROVE  OpenIn(o) + EarlyTotal(r) <= OpenIn(owed[d]) + EarlyTotal(doc[d])
      OBVIOUS
    <2>1. doc[d] # Gone
      <3>1. was.status # "gone" /\ Gone.status = "gone"
        BY <1>3, DocRow DEF Gone
      <3>. QED BY <3>1
    <2>2. EarlyTotal(doc[d]) \in Nat /\ OpenIn(owed[d]) \in Int /\ OpenIn(o) \in Int
      <3>1. EarlyTotal(doc[d]) \in Nat /\ OpenIn(owed[d]) \in Int
        BY <1>3, ShapeTypes, WeightsType
      <3>. QED BY <3>1 DEF OpenIn, Account
    <2>3. EarlyTotal(r) \in {0, EarlyTotal(doc[d])}
      BY <1>10, <1>14, <2>1 DEF EarlyTotal
    <2>4. CASE o = owed[d] \/ OpenIn(o) <= OpenIn(owed[d])
      BY <2>2, <2>3, <2>4
    <2>5. CASE to = "invoiced" /\ to # was.status /\ owed[d] = Nothing /\ doc[d].type = "invoice" /\ OpenIn(o) = doc[d].total
      <3>1. EarlyTotal(doc[d]) = doc[d].total
        BY <1>10, <1>14, <2>1, <2>5 DEF EarlyTotal
      <3>2. EarlyTotal(r) = 0
        BY <1>14, <2>1, <2>5 DEF EarlyTotal, Early
      <3>3. OpenIn(owed[d]) = 0
        BY <2>5 DEF OpenIn
      <3>. QED BY <2>2, <2>5, <3>1, <3>2, <3>3
    <2>. QED BY <1>11, <2>1, <2>4, <2>5
  <1>16. r \in Doc \cup {Gone} /\ (doc[d] = Gone => r = Gone) /\ (r # Gone => r.type = doc[d].type /\ r.status = to)
    BY <1>12, <1>14
  <1>17. o # Nothing => o.open >= 0 \/ (owed[d] # Nothing /\ o.open = owed[d].open) \/ Credits(r)
    BY <1>11, <1>14 DEF Credits
  <1>18. r # Gone /\ r.status = "paid" /\ c = "pending" =>
            d \in byHand' \/ (There(doc[d]) /\ doc[d].status = "paid" /\ commission[d] = "pending")
    <2>. SUFFICES ASSUME r # Gone, to = "paid", c = "pending"
                  PROVE  d \in byHand' \/ (There(doc[d]) /\ doc[d].status = "paid" /\ commission[d] = "pending")
      BY <1>16
    <2>1. ~anew /\ commission[d] = "pending" /\ There(doc[d])
      BY <1>4, <1>11, <1>14, <1>16
    <2>. QED BY <1>6, <2>1
  <1>19. byHand \subseteq byHand'
    BY <1>6
  <1>20. waived' = {} => /\ waived = {}
                         /\ \/ ~(Risk' > Risk)
                            \/ OpenIn(o) + EarlyTotal(r) <= OpenIn(owed[d]) + EarlyTotal(doc[d])
                         /\ o = owed[d] \/ ~(Outstanding' > Outstanding /\ Checking # {})
    BY <1>8, <1>15
  <1>. QED BY <1>3, <1>6, <1>11, <1>13, <1>16, <1>17, <1>18, <1>19, <1>20, RowKeeps

(* A step on documents alone, where new ones are drafts or issued.            *)
LEMMA DocumentsKeep ==
    ASSUME CreditInv, doc' \in Rows, UNCHANGED <<limit, blocked, owed, commission, byHand>>,
           request' = request \/ \E s \in Sessions : Finish(s),
           RowsMove, waived' = {} => waived = {} /\ ~(Risk' > Risk),
           \A d \in Docs : There(doc'[d]) /\ doc'[d].status = "paid" => There(doc[d]) /\ doc[d].status = "paid"
    PROVE  CreditInv'
  <1>1. CreditTypeOK /\ Outstanding \in Int
    BY ShapeTypes DEF CreditInv, CreditShape
  <1>2. CreditTypeOK'
    BY <1>1, Ends DEF CreditTypeOK, Rows
  <1>3. OpenMoves /\ PaidMoves
    BY DEF OpenMoves, PaidMoves
  <1>4. Outstanding' = Outstanding
    BY RiskIs
  <1>5. NoMoreAtRisk
    BY <1>1, <1>4 DEF NoMoreAtRisk
  <1>. QED BY <1>1, <1>2, <1>3, <1>5, Ends, StepKeeps

\* An identity that is free is of no document, and of none that a request is creating.
LEMMA FreeIs ==
    ASSUME NEW e \in Docs, Free(e), request' = request \/ \E s \in Sessions : Finish(s), CreditInv
    PROVE  /\ doc[e] = NotYet /\ owed[e] = Nothing
           /\ \A u \in Sessions : request'[u] # Nothing /\ request'[u].does \in {"check", "insert"} => request'[u].id # e
  <1>1. \A u \in Sessions : request'[u] \in {request[u], Nothing}
    BY DEF Finish, CreditInv, CreditShape, CreditTypeOK
  <1>. QED BY <1>1 DEF Free, Creating, Doing

(* A copy is a new draft.                                                     *)
LEMMA DuplicateKeeps ==
    ASSUME CreditInv, NEW s \in Sessions, NEW e \in Docs, Duplicate(s, e) PROVE CreditInv'
  <1>1. PICK d, was : d = request[s].id /\ was = request[s].was
    OBVIOUS
  <1>2. d \in Docs /\ was \in Doc
    BY <1>1, HasRead DEF Duplicate
  <1>3. PICK r : r = [type |-> was.type, total |-> was.total, got |-> 0, status |-> "draft"]
    OBVIOUS
  <1>4. r \in Doc /\ r.status = "draft" /\ There(r)
    <2>1. was.type \in DocTypes /\ was.total \in Totals
      BY <1>2, DocRow
    <2>2. r \in Doc /\ r.status = "draft"
      BY <1>3, <2>1 DEF Doc, Early
    <2>. QED BY <2>2, DocRow
  <1>5. /\ doc' = [doc EXCEPT ![e] = r] /\ Free(e) /\ Finish(s)
        /\ UNCHANGED <<limit, blocked, owed, commission, byHand>>
        /\ waived' = {} => waived = {} /\ ~(Risk' > Risk)
    BY <1>1, <1>3 DEF Duplicate, Draft, Waive
  <1>6. CreditTypeOK
    BY DEF CreditInv, CreditShape
  <1>7. doc' \in Rows /\ doc'[e] = r /\ \A f \in Docs \ {e} : doc'[f] = doc[f]
    BY <1>4, <1>5, <1>6 DEF CreditTypeOK, Rows
  <1>8. RowsMove
    BY <1>4, <1>5, <1>7, FreeIs DEF RowsMove
  <1>9. \A f \in Docs : There(doc'[f]) /\ doc'[f].status = "paid" => There(doc[f]) /\ doc[f].status = "paid"
    BY <1>4, <1>7
  <1>. QED BY <1>5, <1>7, <1>8, <1>9, DocumentsKeep

(* A conversion is a new draft, and issues or accepts its source.             *)
LEMMA ConvertKeeps ==
    ASSUME CreditInv, NEW s \in Sessions, NEW e \in Docs, NEW type \in DocTypes, Convert(s, e, type) PROVE CreditInv'
  <1>1. PICK d, was : d = request[s].id /\ was = request[s].was
    OBVIOUS
  <1>2. d \in Docs /\ was \in Doc /\ doc[d] # NotYet /\ (doc[d] = Gone \/ doc[d] \in Doc)
    BY <1>1, HasRead DEF Convert
  <1>3. PICK r : r = [type |-> type, total |-> was.total, got |-> 0, status |-> "draft"]
    OBVIOUS
  <1>4. r \in Doc /\ r.status = "draft" /\ There(r)
    <2>1. was.type \in DocTypes /\ was.total \in Totals
      BY <1>2, DocRow
    <2>2. r \in Doc /\ r.status = "draft"
      BY <1>3, <2>1 DEF Doc, Early
    <2>. QED BY <2>2, DocRow
  <1>5. PICK source : source = IF type = "credit_note" \/ doc[d] = Gone THEN doc[d]
                               ELSE [doc[d] EXCEPT !.status = IF type = "order" THEN "accepted" ELSE "invoiced"]
    OBVIOUS
  <1>6. \/ source = doc[d]
        \/ /\ There(doc[d]) /\ source \in Doc /\ There(source) /\ source.type = doc[d].type /\ source.status # "paid"
    <2>1. CASE type = "credit_note" \/ doc[d] = Gone
      BY <1>5, <2>1
    <2>2. CASE ~(type = "credit_note" \/ doc[d] = Gone)
      <3>1. PICK old \in Doc, status \in {"accepted", "invoiced"} :
               old = doc[d] /\ source = [old EXCEPT !.status = status]
        BY <1>2, <1>5, <2>2
      <3>2. status \in Statuses /\ status # "paid"
        BY DEF Statuses, Early
      <3>3. source \in Doc /\ source.type = old.type /\ source.status = status
        BY <3>1, <3>2, SetStatus
      <3>. QED BY <3>1, <3>2, <3>3, DocRow
    <2>. QED BY <2>1, <2>2
  <1>7. /\ doc' = [doc EXCEPT ![d] = source, ![e] = r] /\ Free(e) /\ Finish(s)
        /\ UNCHANGED <<limit, blocked, owed, commission, byHand>>
        /\ waived' = {} => waived = {} /\ ~(Risk' > Risk)
    BY <1>1, <1>3, <1>5 DEF Convert, Draft, Waive
  <1>8. CreditTypeOK /\ d # e
    BY <1>2, <1>7 DEF CreditInv, CreditShape, Free
  <1>9. /\ doc' \in [Docs -> Doc \cup {NotYet, Gone}] /\ doc'[e] = r /\ doc'[d] = source
        /\ \A f \in Docs \ {d, e} : doc'[f] = doc[f]
    <2>1. PICK m : m = [doc EXCEPT ![d] = source]
      OBVIOUS
    <2>2. m \in [Docs -> Doc \cup {NotYet, Gone}] /\ m[d] = source /\ \A f \in Docs \ {d} : m[f] = doc[f]
      BY <1>2, <1>6, <1>8, <2>1 DEF CreditTypeOK
    <2>3. doc' = [m EXCEPT ![e] = r]
      BY <1>7, <2>1
    <2>. QED BY <1>4, <1>8, <2>2, <2>3
  <1>10. RowsMove
    <2>. SUFFICES ASSUME NEW f \in Docs, doc'[f] # doc[f], f # e
                  PROVE  There(doc[f]) /\ (doc'[f] = Gone \/ (There(doc'[f]) /\ doc'[f].type = doc[f].type))
      BY <1>4, <1>7, <1>9, FreeIs DEF RowsMove
    <2>1. f = d
      BY <1>9
    <2>. QED BY <1>6, <1>9, <2>1
  <1>11. \A f \in Docs : There(doc'[f]) /\ doc'[f].status = "paid" => There(doc[f]) /\ doc[f].status = "paid"
    BY <1>4, <1>6, <1>9
  <1>12. doc' \in Rows
    BY <1>9 DEF Rows
  <1>. QED BY <1>7, <1>10, <1>11, <1>12, DocumentsKeep

(* A document generated by a subscription or a fulfillment has no account.    *)
LEMMA GenerateKeeps ==
    ASSUME CreditInv, NEW e \in Docs,
           NEW new \in [type : DocTypes, total : Totals, got : {0}, status : {"invoiced", "sent"}], Generate(e, new)
    PROVE  CreditInv'
  <1>1. new \in Doc
    BY DEF Doc, Early
  <1>2. There(new) /\ new.status # "paid" /\ EarlyTotal(new) = 0
    <2>1. <<new.type, new.status>> \in {<<"invoice", "invoiced">>, <<"delivery", "sent">>}
      BY DEF Generate
    <2>2. There(new)
      BY <1>1, DocRow
    <2>. QED BY <2>1, <2>2 DEF EarlyTotal, Early
  <1>3. /\ doc' = [doc EXCEPT ![e] = new] /\ Free(e)
        /\ UNCHANGED <<limit, blocked, owed, commission, request, waived, byHand>>
    BY DEF Generate
  <1>4. CreditTypeOK /\ doc \in Rows /\ owed \in AccountRows /\ Risk \in Int
    BY ShapeTypes DEF CreditInv, CreditShape
  <1>5. doc' \in Rows /\ doc'[e] = new /\ \A f \in Docs \ {e} : doc'[f] = doc[f]
    BY <1>1, <1>3, <1>4 DEF CreditTypeOK, Rows
  <1>6. RowsMove
    BY <1>2, <1>3, <1>5, FreeIs DEF RowsMove
  <1>7. ~(Risk' > Risk)
    <2>1. PICK D \in Rows, D2 \in Rows, O \in AccountRows : D = doc /\ D2 = doc' /\ O = owed
      BY <1>4, <1>5
    <2>2. EarlyTotal(D[e]) \in Nat /\ OpenIn(O[e]) \in Int
      BY WeightsType
    <2>3. OpenIn(O[e]) + EarlyTotal(D2[e]) <= OpenIn(O[e]) + EarlyTotal(D[e])
      BY <1>2, <1>5, <2>1, <2>2
    <2>4. \A f \in Docs \ {e} : D2[f] = D[f] /\ O[f] = O[f]
      BY <1>5, <2>1
    <2>5. RiskOf(D2, O) <= RiskOf(D, O)
      BY <2>3, <2>4, RiskFallsAt
    <2>6. Risk' = RiskOf(D2, O) /\ Risk = RiskOf(D, O)
      BY <1>3, <2>1, RiskIs
    <2>7. RiskOf(D2, O) \in Int /\ RiskOf(D, O) \in Int
      BY SumsType
    <2>. QED BY <2>5, <2>6, <2>7
  <1>8. \A f \in Docs : There(doc'[f]) /\ doc'[f].status = "paid" => There(doc[f]) /\ doc[f].status = "paid"
    BY <1>2, <1>5
  <1>. QED BY <1>3, <1>5, <1>6, <1>7, <1>8, DocumentsKeep

(* An account is raised, paid, cancelled, opened again or deleted.            *)
LEMMA PostKeeps ==
    ASSUME CreditInv, NEW d \in Docs, NEW o \in Account \cup {Nothing}, Post(d, o),
           o # Nothing => o.open >= 0 \/ (owed[d] # Nothing /\ o.open = owed[d].open),
           UNCHANGED <<limit, blocked, doc, commission, byHand>>, request' = request \/ \E s \in Sessions : Finish(s)
    PROVE  CreditInv'
  <1>1. CreditTypeOK /\ doc \in Rows /\ Risk \in Int /\ Outstanding \in Int
    BY ShapeTypes DEF CreditInv, CreditShape
  <1>2. owed' = [owed EXCEPT ![d] = o] /\ (waived' = {} => waived = {} /\ ~(Risk' > Risk))
    BY DEF Post, Waive
  <1>3. /\ owed' \in [Docs -> Account \cup {Nothing}]
        /\ owed'[d] = o /\ \A e \in Docs \ {d} : owed'[e] = owed[e]
    BY <1>1, <1>2 DEF CreditTypeOK
  <1>4. CreditTypeOK'
    BY <1>1, <1>3, Ends DEF CreditTypeOK
  <1>5. OpenMoves
    BY <1>3 DEF OpenMoves
  <1>6. RowsMove /\ PaidMoves
    BY DEF RowsMove, PaidMoves
  <1>7. NoMoreAtRisk
    <2>1. PICK D \in Rows, O2 \in AccountRows : D = doc /\ O2 = owed'
      BY <1>1, <1>3 DEF AccountRows
    <2>2. PICK O \in AccountRows : O = owed
      BY <1>1 DEF CreditTypeOK, AccountRows
    <2>3. PICK early \in Int, x \in Int, y \in Int :
             early = SumOver(EarlyTotals(D), Docs) /\ x = SumOver(Opens(O), Docs) /\ y = SumOver(Opens(O2), Docs)
      BY SumsType
    <2>4. Risk = x + early /\ Risk' = y + early /\ Outstanding = x /\ Outstanding' = y
      BY <2>1, <2>2, <2>3, RiskIs DEF RiskOf
    <2>. QED BY <1>2, <2>4 DEF NoMoreAtRisk
  <1>. QED BY <1>1, <1>4, <1>5, <1>6, <1>7, Ends, StepKeeps

\* What stays open after a payment is no less than zero.
LEMMA OpenAfterPayment ==
    ASSUME NEW left \in Int
    PROVE  Max({0, left}) \in Int /\ Max({0, left}) >= 0
  <1>1. PICK y \in {0, left} : \A z \in {0, left} : y >= z
    <2>1. CASE left >= 0
      BY <2>1
    <2>2. CASE left < 0
      BY <2>2
    <2>. QED BY <2>1, <2>2
  <1>2. Max({0, left}) \in {0, left} /\ \A z \in {0, left} : Max({0, left}) >= z
    BY <1>1 DEF Max
  <1>. QED BY <1>2

(* Every action on an account keeps the invariant.                            *)
LEMMA AccountsKeep ==
    ASSUME CreditInv, \/ \E d \in Docs, amount \in Totals : CreateReceivable(d, amount)
                      \/ \E s \in Sessions : SettleAccount(s)
    PROVE  CreditInv'
  <1>1. CreditTypeOK
    BY DEF CreditInv, CreditShape
  <1>2. ASSUME NEW d \in Docs, NEW amount \in Totals, CreateReceivable(d, amount) PROVE CreditInv'
    <2>1. PICK o : o = [amount |-> amount, open |-> amount, paid |-> 0, live |-> TRUE]
      OBVIOUS
    <2>2. o \in Account /\ o.open >= 0
      BY <2>1, AmountsAssumption DEF Account
    <2>3. Post(d, o) /\ UNCHANGED <<limit, blocked, doc, commission, request, byHand>>
      BY <1>2, <2>1 DEF CreateReceivable
    <2>. QED BY <2>2, <2>3, PostKeeps
  <1>3. ASSUME NEW s \in Sessions, Settling(s)
        PROVE  request[s].id \in Docs /\ request[s].was \in Account /\ owed[request[s].id] \in Account
    <2>1. PICK q \in Request : q = request[s] /\ q.does = "settle"
      BY <1>1, <1>3 DEF Settling, Doing, CreditTypeOK
    <2>2. q.id \in Docs /\ q.was \in Account
      BY <2>1, RequestFields
    <2>. QED BY <1>1, <1>3, <2>1, <2>2 DEF Settling, CreditTypeOK
  <1>4. ASSUME NEW s \in Sessions, NEW amount \in Totals, RecordPayment(s, amount) PROVE CreditInv'
    <2>1. PICK d \in Docs, was \in Account : d = request[s].id /\ was = request[s].was
      BY <1>3, <1>4 DEF RecordPayment
    <2>2. PICK paid \in Nat, left \in Int : paid = was.paid + amount /\ left = was.amount - paid
      BY AmountsAssumption DEF Account
    <2>3. PICK more \in Int : more = Max({0, left}) /\ more >= 0
      BY OpenAfterPayment
    <2>4. PICK o : o = [amount |-> was.amount, open |-> more, paid |-> paid, live |-> TRUE]
      OBVIOUS
    <2>5. o \in Account /\ o.open >= 0
      BY <2>3, <2>4 DEF Account
    <2>6. Post(d, o) /\ Finish(s) /\ UNCHANGED <<limit, blocked, doc, commission, byHand>>
      BY <1>4, <2>1, <2>2, <2>3, <2>4 DEF RecordPayment
    <2>. QED BY <2>5, <2>6, PostKeeps
  <1>5. ASSUME NEW s \in Sessions, NEW live \in BOOLEAN, UpdateReceivable(s, live) PROVE CreditInv'
    <2>1. PICK d \in Docs, old \in Account : d = request[s].id /\ old = owed[d]
      BY <1>3, <1>5 DEF UpdateReceivable
    <2>2. PICK o : o = [old EXCEPT !.live = live]
      OBVIOUS
    <2>3. o \in Account /\ o.open = owed[d].open /\ owed[d] # Nothing
      BY <2>1, <2>2, NothingAssumption DEF Account
    <2>4. Post(d, o) /\ Finish(s) /\ UNCHANGED <<limit, blocked, doc, commission, byHand>>
      BY <1>5, <2>1, <2>2 DEF UpdateReceivable
    <2>. QED BY <2>3, <2>4, PostKeeps
  <1>6. ASSUME NEW s \in Sessions, DeleteReceivable(s) PROVE CreditInv'
    <2>1. PICK d \in Docs, o \in {Nothing} : d = request[s].id
      BY <1>3, <1>6 DEF DeleteReceivable
    <2>2. Post(d, o) /\ Finish(s) /\ UNCHANGED <<limit, blocked, doc, commission, byHand>>
      BY <1>6, <2>1 DEF DeleteReceivable
    <2>. QED BY <2>1, <2>2, PostKeeps
  <1>. QED BY <1>2, <1>4, <1>5, <1>6 DEF SettleAccount

(* A step that writes no document, account or commission.                     *)
LEMMA RowsRest ==
    ASSUME CreditInv, UNCHANGED <<limit, doc, owed, commission, waived, byHand>>, blocked' \in BOOLEAN,
           request' \in [Sessions -> Request \cup {Nothing}], CreationsEnd, WritesRead
    PROVE  CreditInv'
  <1>1. CreditTypeOK /\ Risk \in Int /\ Outstanding \in Int
    BY ShapeTypes DEF CreditInv, CreditShape
  <1>2. CreditTypeOK'
    BY <1>1 DEF CreditTypeOK
  <1>3. RowsMove /\ OpenMoves /\ PaidMoves
    BY DEF RowsMove, OpenMoves, PaidMoves
  <1>4. Risk' = Risk /\ Outstanding' = Outstanding
    BY RiskIs
  <1>5. NoMoreAtRisk
    BY <1>1, <1>4 DEF NoMoreAtRisk
  <1>. QED BY <1>2, <1>3, <1>5, StepKeeps

(* A request reads a document, an account or whether a document is paid.      *)
LEMMA ReadKeeps ==
    ASSUME CreditInv, NEW s \in Sessions, NEW d \in Docs, ReadDocument(s, d) \/ ReadAccount(s, d) \/ BeginNote(s, d)
    PROVE  CreditInv'
  <1>1. CreditTypeOK
    BY DEF CreditInv, CreditShape
  <1>2. PICK q : /\ request' = [request EXCEPT ![s] = q] /\ q \in Request /\ q.does \in {"write", "settle", "note"}
                 /\ q.does = "write" => q.id = d /\ q.was = doc[d] /\ There(doc[d])
    <2>1. CASE ReadDocument(s, d)
      <3>1. doc[d] \in Doc /\ There(doc[d])
        BY <1>1, <2>1 DEF ReadDocument, Written, CreditTypeOK, There
      <3>2. PICK q : q = [does |-> "write", id |-> d, was |-> doc[d]]
        OBVIOUS
      <3>3. q \in [does : {"write"}, id : Docs, was : Doc]
        BY <3>1, <3>2
      <3>4. q \in Request
        BY <3>3 DEF Request
      <3>5. request' = [request EXCEPT ![s] = q] /\ q.does = "write" /\ q.id = d /\ q.was = doc[d]
        BY <2>1, <3>2 DEF ReadDocument
      <3>. QED BY <3>1, <3>4, <3>5
    <2>2. CASE ReadAccount(s, d)
      <3>1. owed[d] \in Account
        BY <1>1, <2>2 DEF ReadAccount, CreditTypeOK
      <3>2. PICK q : q = [does |-> "settle", id |-> d, was |-> owed[d]]
        OBVIOUS
      <3>3. q \in [does : {"settle"}, id : Docs, was : Account]
        BY <3>1, <3>2
      <3>4. q \in Request
        BY <3>3 DEF Request
      <3>5. request' = [request EXCEPT ![s] = q] /\ q.does = "settle"
        BY <2>2, <3>2 DEF ReadAccount
      <3>. QED BY <3>4, <3>5
    <2>3. CASE BeginNote(s, d)
      <3>1. PICK q : q = [does |-> "note", id |-> d, paid |-> doc[d].status = "paid"]
        OBVIOUS
      <3>2. q \in [does : {"note"}, id : Docs, paid : BOOLEAN]
        BY <3>1
      <3>3. q \in Request
        BY <3>2 DEF Request
      <3>4. request' = [request EXCEPT ![s] = q] /\ q.does = "note"
        BY <2>3, <3>1 DEF BeginNote
      <3>. QED BY <3>3, <3>4
    <2>. QED BY <2>1, <2>2, <2>3
  <1>3. /\ request' \in [Sessions -> Request \cup {Nothing}] /\ request'[s] = q
        /\ \A u \in Sessions \ {s} : request'[u] = request[u]
    BY <1>1, <1>2 DEF CreditTypeOK
  <1>4. UNCHANGED <<limit, blocked, doc, owed, commission, waived, byHand>>
    BY DEF ReadDocument, ReadAccount, BeginNote
  <1>5. CreationsEnd
    <2>. SUFFICES ASSUME NEW u \in Sessions, request'[u] # Nothing, request'[u].does \in {"check", "insert"}
                  PROVE  request'[u] = request[u]
      BY DEF CreationsEnd
    <2>. QED BY <1>2, <1>3
  <1>6. WritesRead
    <2>. SUFFICES ASSUME NEW u \in Sessions, request'[u] # Nothing, request'[u].does = "write", request'[u] # request[u]
                  PROVE  There(doc'[request'[u].id]) /\ doc'[request'[u].id].type = request'[u].was.type
      BY DEF WritesRead
    <2>1. u = s
      BY <1>3
    <2>. QED BY <1>2, <1>3, <1>4, <2>1
  <1>. QED BY <1>1, <1>3, <1>4, <1>5, <1>6, RowsRest DEF CreditTypeOK

(* A request that ends, and a customer that is blocked or is not.             *)
LEMMA RestKeeps ==
    ASSUME CreditInv, (\E s \in Sessions : GiveUp(s)) \/ (\E value \in BOOLEAN : SetBlocked(value)) \/ AutoBlockOverdue
    PROVE  CreditInv'
  <1>1. CreditTypeOK
    BY DEF CreditInv, CreditShape
  <1>2. /\ UNCHANGED <<limit, doc, owed, commission, waived, byHand>> /\ blocked' \in BOOLEAN
        /\ request' = request \/ \E s \in Sessions : Finish(s)
    BY <1>1 DEF GiveUp, SetBlocked, AutoBlockOverdue, CreditTypeOK
  <1>. QED BY <1>1, <1>2, Ends, RowsRest

(* A document is checked against what is owed; the check reads the limit.     *)
LEMMA BeginCreateKeeps ==
    ASSUME CreditInv, NEW s \in Sessions, NEW d \in Docs, NEW type \in DocTypes, NEW preview \in Totals, NEW total \in Totals,
           BeginCreate(s, d, type, preview, total)
    PROVE  CreditInv'
  <1>1. CreditTypeOK /\ Risk \in Int /\ Outstanding \in Int
    BY ShapeTypes DEF CreditInv, CreditShape
  <1>2. PICK q : q = [does |-> IF type \in NeedsCredit THEN "check" ELSE "insert", id |-> d, type |-> type,
                      preview |-> preview, total |-> total, under |-> limit, seen |-> Outstanding]
    OBVIOUS
  <1>3. /\ request' = [request EXCEPT ![s] = q] /\ request[s] = Nothing /\ Free(d)
        /\ UNCHANGED <<limit, blocked, doc, owed, commission, waived, byHand>>
    BY <1>2 DEF BeginCreate
  <1>4. q \in Request
    <2>1. q \in [does : {"check", "insert"}, id : Docs, type : DocTypes, preview : Totals, total : Totals,
                 under : Ceilings \cup {Unlimited}, seen : Int]
      BY <1>1, <1>2 DEF CreditTypeOK
    <2>. QED BY <2>1 DEF Request
  <1>5. /\ q.id = d /\ q.does \in {"check", "insert"} /\ q.type = type /\ q.seen = Outstanding
        /\ q.does = "insert" => type \notin NeedsCredit
    BY <1>2
  <1>6. /\ request' \in [Sessions -> Request \cup {Nothing}] /\ request'[s] = q
        /\ \A u \in Sessions \ {s} : request'[u] = request[u]
    BY <1>1, <1>3, <1>4 DEF CreditTypeOK
  <1>7. CreditTypeOK'
    BY <1>1, <1>3, <1>6 DEF CreditTypeOK
  <1>8. RequestsStand'
    <2>1. doc[d] = NotYet /\ \A u \in Sessions : Creating(u) => request[u].id # d
      BY <1>3 DEF Free
    <2>2. \A u \in Sessions \ {s} : (Creating(u)' <=> Creating(u)) /\ (Doing(u, {"write"})' <=> Doing(u, {"write"}))
      BY <1>6 DEF Creating, Doing
    <2>3. ~Doing(s, {"write"})'
      BY <1>5, <1>6 DEF Doing
    <2>4. RequestsStand
      BY DEF CreditInv, CreditShape
    <2>5. \A u \in Sessions : Creating(u)' => doc'[request'[u].id] = NotYet
      BY <1>3, <1>5, <1>6, <2>1, <2>2, <2>4 DEF RequestsStand
    <2>6. \A u, v \in Sessions : Creating(u)' /\ Creating(v)' /\ u # v => request'[u].id # request'[v].id
      BY <1>5, <1>6, <2>1, <2>2, <2>4 DEF RequestsStand
    <2>7. \A u \in Sessions : Doing(u, {"write"})' =>
             \/ doc'[request'[u].id] = Gone
             \/ There(doc'[request'[u].id]) /\ doc'[request'[u].id].type = request'[u].was.type
      BY <1>3, <1>6, <2>2, <2>3, <2>4 DEF RequestsStand
    <2>. QED BY <2>5, <2>6, <2>7 DEF RequestsStand, There
  <1>9. CreditShape'
    BY <1>3, <1>7, <1>8 DEF CreditInv, CreditShape, CreditsStand, Credits, There
  <1>10. PaidMakesEligible'
    BY <1>3, PaidKept DEF CreditInv, PaidMoves
  <1>11. Risk' = Risk /\ Outstanding' = Outstanding
    BY <1>3, RiskIs
  <1>12. ASSUME waived' = {} PROVE StillFits'
    <2>1. StillFits
      BY <1>3, <1>12 DEF CreditInv
    <2>2. limit' # Unlimited => Risk' <= limit'
      BY <1>3, <1>11, <2>1 DEF StillFits
    <2>3. ASSUME NEW u \in Sessions, Doing(u, {"insert"})', request'[u].type \in NeedsCredit, request'[u].under # Unlimited
          PROVE  Risk' + request'[u].preview <= request'[u].under
      <3>1. u # s
        BY <1>5, <1>6, <2>3 DEF Doing
      <3>2. request'[u] = request[u] /\ Doing(u, {"insert"})
        BY <1>6, <2>3, <3>1 DEF Doing
      <3>. QED BY <1>11, <2>1, <2>3, <3>2 DEF StillFits
    <2>4. ASSUME NEW u \in Sessions, Doing(u, {"check"})', request'[u].type \in NeedsCredit
          PROVE  Outstanding' <= request'[u].seen
      <3>1. CASE u = s
        BY <1>1, <1>5, <1>6, <1>11, <3>1
      <3>2. CASE u # s
        <4>1. request'[u] = request[u] /\ Doing(u, {"check"})
          BY <1>6, <2>4, <3>2 DEF Doing
        <4>. QED BY <1>11, <2>1, <2>4, <4>1 DEF StillFits
      <3>. QED BY <3>1, <3>2
    <2>. QED BY <2>2, <2>3, <2>4 DEF StillFits, NeedsCredit
  <1>. QED BY <1>9, <1>10, <1>12 DEF CreditInv

(* A document that is not too much is let through.                            *)
LEMMA AssertKeeps ==
    ASSUME CreditInv, NEW s \in Sessions, AssertCanCreateDocument(s) PROVE CreditInv'
  <1>1. CreditTypeOK /\ Risk \in Int /\ Outstanding \in Int
    BY ShapeTypes DEF CreditInv, CreditShape
  <1>2. PICK q \in Request : q = request[s] /\ q.does = "check" /\ request[s] # Nothing
    BY <1>1 DEF AssertCanCreateDocument, Doing, CreditTypeOK
  <1>3. PICK p : p = [q EXCEPT !.does = "insert"]
    OBVIOUS
  <1>4. /\ p \in Request /\ p.does = "insert" /\ p.id = q.id /\ p.type = q.type /\ p.preview = q.preview /\ p.under = q.under
        /\ q.preview \in Nat /\ q.seen \in Int /\ q.under \in Ceilings \cup {Unlimited}
    BY <1>2, <1>3, RequestFields
  <1>5. /\ request' = [request EXCEPT ![s] = p] /\ UNCHANGED <<limit, blocked, doc, owed, commission, byHand>>
        /\ q.under # Unlimited => q.seen + SumOver(TotalOf(UnderWay), Docs) + q.preview <= q.under
        /\ waived' = {} => waived = {} /\ Unseen = {}
    BY <1>1, <1>2, <1>3 DEF AssertCanCreateDocument, Waive, CreditTypeOK
  <1>6. /\ request' \in [Sessions -> Request \cup {Nothing}] /\ request'[s] = p
        /\ \A u \in Sessions \ {s} : request'[u] = request[u]
    BY <1>1, <1>4, <1>5 DEF CreditTypeOK
  <1>7. CreditTypeOK' /\ p # Nothing
    BY <1>1, <1>4, <1>5, <1>6, NothingAssumption DEF CreditTypeOK
  <1>8. RequestsStand'
    <2>1. /\ \A u \in Sessions : (Creating(u)' <=> Creating(u)) /\ (Doing(u, {"write"})' <=> Doing(u, {"write"}))
          /\ \A u \in Sessions : Creating(u) => request'[u].id = request[u].id
      BY <1>2, <1>4, <1>6, <1>7 DEF Creating, Doing
    <2>2. \A u \in Sessions : Doing(u, {"write"}) => request'[u] = request[u]
      BY <1>2, <1>6 DEF Doing
    <2>3. RequestsStand
      BY DEF CreditInv, CreditShape
    <2>4. \A u \in Sessions : Creating(u)' => doc'[request'[u].id] = NotYet
      BY <1>5, <2>1, <2>3 DEF RequestsStand
    <2>5. \A u, v \in Sessions : Creating(u)' /\ Creating(v)' /\ u # v => request'[u].id # request'[v].id
      BY <2>1, <2>3 DEF RequestsStand
    <2>6. \A u \in Sessions : Doing(u, {"write"})' =>
             \/ doc'[request'[u].id] = Gone
             \/ There(doc'[request'[u].id]) /\ doc'[request'[u].id].type = request'[u].was.type
      BY <1>5, <2>1, <2>2, <2>3 DEF RequestsStand
    <2>. QED BY <2>4, <2>5, <2>6 DEF RequestsStand, There
  <1>9. CreditShape'
    BY <1>5, <1>7, <1>8 DEF CreditInv, CreditShape, CreditsStand, Credits, There
  <1>10. PaidMakesEligible'
    BY <1>5, PaidKept DEF CreditInv, PaidMoves
  <1>11. Risk' = Risk /\ Outstanding' = Outstanding
    BY <1>5, RiskIs
  <1>12. ASSUME waived' = {} PROVE StillFits'
    <2>1. StillFits /\ Unseen = {}
      BY <1>5, <1>12 DEF CreditInv
    <2>2. limit' # Unlimited => Risk' <= limit'
      BY <1>5, <1>11, <2>1 DEF StillFits
    <2>3. ASSUME NEW u \in Sessions, Doing(u, {"insert"})', request'[u].type \in NeedsCredit, request'[u].under # Unlimited
          PROVE  Risk' + request'[u].preview <= request'[u].under
      <3>1. CASE u = s
        <4>1. q.type \in NeedsCredit /\ q.under # Unlimited
          BY <1>4, <1>6, <2>3, <3>1
        <4>2. Outstanding <= q.seen
          BY <1>2, <2>1, <4>1 DEF StillFits, Doing
        <4>3. PICK early \in Int : early = SumOver(TotalOf(UnderWay), Docs) /\ Risk = Outstanding + early
          BY <1>1, <2>1, ExposureIsRisk
        <4>4. q.seen + early + q.preview <= q.under
          BY <1>5, <4>1, <4>3
        <4>5. q.under \in Int
          <5>1. Ceilings \subseteq Int
            BY AmountsAssumption
          <5>. QED BY <1>4, <4>1, <5>1
        <4>6. Risk + q.preview <= q.under
          BY <1>1, <1>4, <4>2, <4>3, <4>4, <4>5
        <4>. QED BY <1>4, <1>6, <1>11, <3>1, <4>6
      <3>2. CASE u # s
        <4>1. request'[u] = request[u] /\ Doing(u, {"insert"})
          BY <1>6, <2>3, <3>2 DEF Doing
        <4>. QED BY <1>11, <2>1, <2>3, <4>1 DEF StillFits
      <3>. QED BY <3>1, <3>2
    <2>4. ASSUME NEW u \in Sessions, Doing(u, {"check"})', request'[u].type \in NeedsCredit
          PROVE  Outstanding' <= request'[u].seen
      <3>1. u # s
        BY <1>4, <1>6, <2>4 DEF Doing
      <3>2. request'[u] = request[u] /\ Doing(u, {"check"})
        BY <1>6, <2>4, <3>1 DEF Doing
      <3>. QED BY <1>11, <2>1, <2>4, <3>2 DEF StillFits
    <2>. QED BY <2>2, <2>3, <2>4 DEF StillFits, NeedsCredit
  <1>. QED BY <1>9, <1>10, <1>12 DEF CreditInv

\* A draft of what needs credit adds its total to what is at risk, and any other adds nothing.
LEMMA DraftAdds ==
    ASSUME NEW D \in Rows, NEW D2 \in Rows, NEW O \in AccountRows, NEW d \in Docs, D[d] = NotYet,
           \A e \in Docs \ {d} : D2[e] = D[e]
    PROVE  RiskOf(D2, O) = RiskOf(D, O) + EarlyTotal(D2[d])
  <1>1. PICK f, g : f = EarlyTotals(D) /\ g = EarlyTotals(D2)
    OBVIOUS
  <1>2. \A e \in Docs : f[e] \in Int /\ g[e] \in Int
    BY <1>1, WeightsType DEF EarlyTotals
  <1>3. f[d] = 0 /\ g[d] = EarlyTotal(D2[d]) /\ \A e \in Docs \ {d} : g[e] = f[e]
    BY <1>1, KeptApart DEF EarlyTotals, EarlyTotal
  <1>4. SumOver(g, Docs) = SumOver(f, Docs) + (g[d] - f[d])
    BY <1>2, <1>3, AmountsAssumption, SumChange
  <1>5. SumOver(Opens(O), Docs) \in Int /\ SumOver(f, Docs) \in Int
    BY <1>1, SumsType
  <1>. QED BY <1>1, <1>2, <1>3, <1>4, <1>5 DEF RiskOf

(* A document that was let through is inserted as a draft.                    *)
LEMMA InsertKeeps == ASSUME CreditInv, NEW s \in Sessions, InsertDocument(s) PROVE CreditInv'
  <1>1. CreditTypeOK /\ doc \in Rows /\ owed \in AccountRows /\ Risk \in Int /\ Outstanding \in Int
    BY ShapeTypes DEF CreditInv, CreditShape
  <1>2. PICK c \in Request : c = request[s] /\ c.does = "insert" /\ request[s] # Nothing
    BY <1>1 DEF InsertDocument, Doing, CreditTypeOK
  <1>3. PICK d \in Docs : d = c.id
    BY <1>2, RequestFields
  <1>4. /\ c.type \in DocTypes /\ c.preview \in Nat /\ c.total \in Totals /\ c.under \in Ceilings \cup {Unlimited}
        /\ c.total \in Nat
    BY <1>2, RequestFields, AmountsAssumption
  <1>5. PICK r : r = [type |-> c.type, total |-> c.total, got |-> 0, status |-> "draft"]
    OBVIOUS
  <1>6. r \in Doc /\ There(r) /\ r.type = c.type /\ r.total = c.total /\ r.status = "draft"
    <2>1. r \in Doc /\ r.type = c.type /\ r.total = c.total /\ r.status = "draft"
      BY <1>4, <1>5 DEF Doc, Early
    <2>. QED BY <2>1, DocRow
  <1>7. /\ doc' = [doc EXCEPT ![d] = r] /\ Finish(s) /\ UNCHANGED <<limit, blocked, owed, commission, byHand>>
        /\ waived' = {} => /\ waived = {} /\ c.type # "quote"
                           /\ c.type \in NeedsCredit => Checking = {s} /\ c.under = limit /\ ~(c.total > c.preview)
    BY <1>2, <1>3, <1>5 DEF InsertDocument
  <1>8. Creating(s) /\ doc[d] = NotYet /\ \A u \in Sessions \ {s} : Creating(u) => request[u].id # d
    <2>1. Creating(s)
      BY <1>2 DEF Creating, Doing
    <2>. QED BY <1>2, <1>3, <2>1 DEF CreditInv, CreditShape, RequestsStand
  <1>9. doc' \in Rows /\ doc'[d] = r /\ \A e \in Docs \ {d} : doc'[e] = doc[e]
    BY <1>1, <1>6, <1>7 DEF CreditTypeOK, Rows
  <1>10. request'[s] = Nothing /\ \A u \in Sessions \ {s} : request'[u] = request[u]
    BY <1>1, <1>7 DEF Finish, CreditTypeOK
  <1>11. CreditTypeOK'
    BY <1>1, <1>7, <1>9, Ends DEF CreditTypeOK, Rows
  <1>12. RowsMove
    <2>. SUFFICES ASSUME NEW u \in Sessions, request'[u] # Nothing, request'[u].does \in {"check", "insert"}
                  PROVE  request'[u].id # d
      BY <1>6, <1>8, <1>9 DEF RowsMove
    <2>1. u # s /\ request'[u] = request[u] /\ Creating(u)
      BY <1>10 DEF Creating, Doing
    <2>. QED BY <1>8, <2>1
  <1>13. CreationsEnd /\ WritesRead
    BY <1>1, <1>7, Ends
  <1>14. OpenMoves /\ PaidMoves
    BY <1>6, <1>7, <1>9 DEF OpenMoves, PaidMoves
  <1>15. CreditShape' /\ PaidMakesEligible'
    BY <1>11, <1>12, <1>13, <1>14, ShapeKept, PaidKept DEF CreditInv
  <1>16. Risk' = Risk + EarlyTotal(r) /\ Outstanding' = Outstanding
    <2>1. PICK D \in Rows, D2 \in Rows, O \in AccountRows : D = doc /\ D2 = doc' /\ O = owed
      BY <1>1, <1>9
    <2>2. RiskOf(D2, O) = RiskOf(D, O) + EarlyTotal(D2[d])
      BY <1>8, <1>9, <2>1, DraftAdds
    <2>. QED BY <1>7, <1>9, <2>1, <2>2, RiskIs
  <1>17. waived' = {} => StillFits'
    <2>. SUFFICES ASSUME waived' = {} PROVE StillFits'
      OBVIOUS
    <2>1. CASE c.type \in NeedsCredit
      <3>1. Checking = {s} /\ c.under = limit /\ ~(c.total > c.preview) /\ StillFits
        BY <1>7, <2>1 DEF CreditInv
      <3>2. EarlyTotal(r) = c.total
        BY <1>6, <2>1 DEF EarlyTotal, NeedsCredit, Early
      <3>3. limit' # Unlimited => Risk' <= limit'
        <4>. SUFFICES ASSUME limit # Unlimited PROVE Risk' <= limit
          BY <1>7
        <4>1. Risk + c.preview <= limit
          BY <1>2, <2>1, <3>1 DEF StillFits, Doing
        <4>2. limit \in Int
          BY <1>1, AmountsAssumption DEF CreditTypeOK
        <4>. QED BY <1>1, <1>4, <1>16, <3>1, <3>2, <4>1, <4>2
      <3>4. ASSUME NEW u \in Sessions, Creating(u)' PROVE request'[u].type \notin NeedsCredit
        <4>1. u # s /\ request'[u] = request[u] /\ Creating(u)
          BY <1>10, <3>4 DEF Creating, Doing
        <4>. QED BY <3>1, <4>1 DEF Checking
      <3>5. \A u \in Sessions : Creating(u)' => request'[u].type \notin NeedsCredit
        BY <3>4
      <3>. QED BY <3>3, <3>5 DEF StillFits, Creating, Doing, NeedsCredit
    <2>2. CASE c.type \notin NeedsCredit
      <3>1. EarlyTotal(r) = 0
        BY <1>6, <1>7, <2>2 DEF EarlyTotal, NeedsCredit
      <3>2. NoMoreAtRisk
        BY <1>1, <1>7, <1>16, <3>1 DEF NoMoreAtRisk
      <3>. QED BY <1>7, <1>11, <1>13, <3>2, FitsKept
    <2>. QED BY <2>1, <2>2
  <1>. QED BY <1>15, <1>17 DEF CreditInv

(* A new limit under which all that is at risk does not fit is a waiver.      *)
LEMMA LimitKeeps == ASSUME CreditInv, NEW new \in Ceilings \cup {Unlimited}, SetCreditLimit(new) PROVE CreditInv'
  <1>1. CreditTypeOK /\ Risk \in Int
    BY ShapeTypes DEF CreditInv, CreditShape
  <1>2. /\ limit' = new /\ UNCHANGED <<blocked, doc, owed, commission, request, byHand>>
        /\ waived' = {} => waived = {} /\ ~(new # Unlimited /\ Risk > new)
    BY DEF SetCreditLimit, Waive
  <1>3. CreditTypeOK'
    BY <1>1, <1>2 DEF CreditTypeOK
  <1>4. RowsMove /\ OpenMoves /\ CreationsEnd /\ WritesRead /\ PaidMoves
    BY <1>2 DEF RowsMove, OpenMoves, CreationsEnd, WritesRead, PaidMoves
  <1>5. CreditShape' /\ PaidMakesEligible'
    BY <1>3, <1>4, ShapeKept, PaidKept DEF CreditInv
  <1>6. Risk' = Risk /\ Outstanding' = Outstanding
    BY <1>2, RiskIs
  <1>7. ASSUME waived' = {} PROVE StillFits'
    <2>1. StillFits
      BY <1>2, <1>7 DEF CreditInv
    <2>2. new # Unlimited => new \in Int /\ Risk <= new
      BY <1>1, <1>2, <1>7, AmountsAssumption
    <2>3. \A u \in Sessions : (Doing(u, {"insert"})' <=> Doing(u, {"insert"})) /\ (Doing(u, {"check"})' <=> Doing(u, {"check"}))
      BY <1>2 DEF Doing
    <2>. QED BY <1>2, <1>6, <2>1, <2>2, <2>3 DEF StillFits, NeedsCredit
  <1>. QED BY <1>5, <1>7 DEF CreditInv

\* A commission is noted, changed by hand or removed.
LEMMA RewardKeeps == ASSUME CreditInv, Reward PROVE CreditInv'
  <1>1. CreditTypeOK /\ Risk \in Int /\ Outstanding \in Int
    BY ShapeTypes DEF CreditInv, CreditShape
  <1>2. ASSUME NEW d \in Docs, NEW c \in CommissionStatuses \cup {Nothing}, commission' = [commission EXCEPT ![d] = c],
               UNCHANGED <<limit, blocked, doc, owed, waived>>, request' = request \/ \E s \in Sessions : Finish(s),
               \A e \in Docs \ {d} : e \in byHand => e \in byHand',
               There(doc[d]) /\ doc[d].status = "paid" /\ c = "pending" => d \in byHand'
        PROVE  CreditInv'
    <2>1. /\ commission' \in [Docs -> CommissionStatuses \cup {Nothing}]
          /\ commission'[d] = c /\ \A e \in Docs \ {d} : commission'[e] = commission[e]
      BY <1>1, <1>2 DEF CreditTypeOK
    <2>2. CreditTypeOK' /\ CreationsEnd /\ WritesRead
      BY <1>1, <1>2, <2>1, Ends DEF CreditTypeOK
    <2>3. PaidMoves
      <3>. SUFFICES ASSUME NEW e \in Docs, There(doc[e]), doc[e].status = "paid", commission'[e] = "pending"
                    PROVE  e \in byHand' \/ (commission[e] = "pending" /\ e \notin byHand \ byHand')
        BY <1>2 DEF PaidMoves
      <3>1. CASE e = d
        BY <1>2, <2>1, <3>1
      <3>2. CASE e # d
        BY <1>2, <2>1, <3>2
      <3>. QED BY <3>1, <3>2
    <2>4. RowsMove /\ OpenMoves
      BY <1>2 DEF RowsMove, OpenMoves
    <2>5. Risk' = Risk /\ Outstanding' = Outstanding
      BY <1>2, RiskIs
    <2>6. NoMoreAtRisk
      BY <1>1, <1>2, <2>5 DEF NoMoreAtRisk
    <2>. QED BY <1>2, <2>2, <2>3, <2>4, <2>6, StepKeeps
  <1>3. ASSUME NEW s \in Sessions, InsertNote(s) PROVE CreditInv'
    <2>1. PICK n \in Request : n = request[s] /\ n.does = "note"
      BY <1>1, <1>3 DEF InsertNote, Doing, CreditTypeOK
    <2>2. PICK d \in Docs, c \in CommissionStatuses \cup {Nothing} : d = n.id /\ c = FirstStatus(n)
      BY <2>1, RequestFields DEF FirstStatus, CommissionStatuses
    <2>3. /\ commission' = [commission EXCEPT ![d] = c] /\ UNCHANGED <<limit, blocked, doc, owed, waived>> /\ Finish(s)
          /\ byHand' = byHand \cup {e \in {d} : n.paid # (doc[e].status = "paid")}
      BY <1>3, <2>1, <2>2 DEF InsertNote
    <2>4. There(doc[d]) /\ doc[d].status = "paid" /\ c = "pending" => d \in byHand'
      <3>1. n.paid \in BOOLEAN
        BY <2>1, RequestFields
      <3>. QED BY <2>2, <2>3, <3>1 DEF FirstStatus
    <2>. QED BY <1>2, <2>3, <2>4
  <1>4. ASSUME NEW d \in Docs, NEW status \in CommissionStatuses, UpdateCommission(d, status) PROVE CreditInv'
    BY <1>2, <1>4 DEF UpdateCommission
  <1>5. ASSUME NEW d \in Docs, RemoveCommission(d) PROVE CreditInv'
    <2>1. PICK c \in CommissionStatuses \cup {Nothing} : c = Nothing /\ c # "pending"
      BY NothingAssumption DEF CommissionStatuses
    <2>2. commission' = [commission EXCEPT ![d] = c] /\ byHand' = byHand \ {d}
          /\ UNCHANGED <<limit, blocked, doc, owed, request, waived>>
      BY <1>5, <2>1 DEF RemoveCommission
    <2>. QED BY <1>2, <2>1, <2>2
  <1>. QED BY <1>3, <1>4, <1>5, ReadKeeps DEF Reward

(* A customer without documents satisfies the invariant.                      *)
LEMMA CreditBegins == CreditInit => CreditInv
  <1>. SUFFICES ASSUME CreditInit PROVE CreditInv
    OBVIOUS
  <1>1. CreditTypeOK
    BY DEF CreditInit, CreditTypeOK
  <1>2. RequestsStand /\ CreditsStand /\ PaidMakesEligible
    BY DEF CreditInit, RequestsStand, CreditsStand, PaidMakesEligible, Creating, Doing, Written
  <1>3. doc \in Rows /\ owed \in AccountRows
    BY <1>1, ShapeTypes
  <1>4. Risk = 0
    <2>1. PICK f, g : f = Opens(owed) /\ g = EarlyTotals(doc)
      OBVIOUS
    <2>2. \A d \in Docs : f[d] = 0 /\ g[d] = 0
      BY <2>1, KeptApart DEF CreditInit, Opens, OpenIn, EarlyTotals, EarlyTotal
    <2>3. SumOver(f, Docs) = 0 /\ SumOver(g, Docs) = 0
      BY <2>2, AmountsAssumption, SumZero
    <2>. QED BY <2>1, <2>3, RiskIs DEF RiskOf
  <1>5. StillFits
    BY <1>1, <1>4, AmountsAssumption DEF CreditInit, StillFits, Doing, CreditTypeOK
  <1>. QED BY <1>1, <1>2, <1>5 DEF CreditInv, CreditShape

(* Every action on documents, accounts and commissions keeps the invariant.   *)
LEMMA CreditMoves == CreditInv /\ [Sell \/ Reward]_creditVars => CreditInv'
  <1>. SUFFICES ASSUME CreditInv, [Sell \/ Reward]_creditVars PROVE CreditInv'
    OBVIOUS
  <1>1. CASE UNCHANGED creditVars
    <2>1. UNCHANGED <<limit, doc, owed, commission, waived, byHand>> /\ request' = request /\ blocked' = blocked
      BY <1>1 DEF creditVars
    <2>2. CreditTypeOK
      BY DEF CreditInv, CreditShape
    <2>. QED BY <2>1, <2>2, Ends, RowsRest DEF CreditTypeOK
  <1>2. CASE Sell
    <2>1. ASSUME NEW s \in Sessions, WriteRead(s) PROVE CreditInv'
      BY <2>1, ChangeStatusKeeps, RemoveDocumentKeeps, SyncKeeps, EditKeeps, DuplicateKeeps, ConvertKeeps DEF WriteRead
    <2>. QED BY <1>2, <2>1, BeginCreateKeeps, AssertKeeps, InsertKeeps, ReadKeeps, AccountsKeep, GenerateKeeps, LimitKeeps,
                RestKeeps DEF Sell
  <1>. QED BY <1>1, <1>2, RewardKeeps

(***************************************************************************)
(* The commission on a paid document does not stay pending, however the    *)
(* payment arrives and whenever the commission is noted, except across the *)
(* payment itself or by hand (sales-payments.service.ts:296-301,           *)
(* documents.service.ts:694-697, commissions.service.ts:193).              *)
(***************************************************************************)
THEOREM PaidCommissionsAreEligible == CreditSpec => []PaidMakesEligible
  <1>1. CreditInv => PaidMakesEligible
    BY DEF CreditInv
  <1>. QED BY <1>1, CreditBegins, CreditMoves, PTL DEF CreditSpec

(***************************************************************************)
(* What a customer owes and may come to owe stays within the ceiling,      *)
(* unless an unchecked write, a race, an estimate below the final total or *)
(* a lower limit is noted (documents.service.ts:368-379, :599-642,         *)
(* customer-credit.service.ts:91-104, :152-175), for any documents,        *)
(* amounts, limits and sessions.                                           *)
(***************************************************************************)
THEOREM CreditAlwaysHolds == CreditSpec => []CreditHolds
  <1>1. CreditInv => CreditHolds
    BY DEF CreditInv, CreditHolds, StillFits
  <1>. QED BY <1>1, CreditBegins, CreditMoves, PTL DEF CreditSpec

--------------------------------------------------------------------------------
\* Part 3. Approvals.

States == {"unwritten", "not needed", "pending", "approved", "rejected", "cancelled", "removed"}
Asked == {NotAsked} \cup [status : {"pending", "approved", "rejected", "cancelled"}, by : SUBSET Staff]

ApprovalsTypeOK ==
    /\ policy \in [Policies -> Policy \cup {NoPolicy}]
    /\ position \in [Staff -> Positions \cup {"left"}]
    /\ paper \in [Papers -> States]
    /\ asked \in [Papers -> [Policies -> Asked]]

\* What WaitingIsAnswerable says of one document, given its row and its requests.
Answerable(wrote, requests) ==
    /\ wrote = "pending" => \E k \in Policies : requests[k].status = "pending" /\ requests[k].by # {}
    /\ \A k \in Policies : requests[k].status = "pending" =>
          requests[k].by # {} /\ wrote \notin {"unwritten", "not needed", "cancelled"}

(* WaitingIsAnswerable speaks of each document by itself.                       *)
LEMMA OneByOne == WaitingIsAnswerable <=> \A d \in Papers : Answerable(paper[d], asked[d])
  BY DEF WaitingIsAnswerable, Answerable, Waiting

(* A step that touches the row and the requests of one document leaves every    *)
(* other document answerable, and so has to be looked at there only.            *)
LEMMA TouchingOne ==
    ASSUME NEW d \in Papers, NEW wrote, NEW requests,
           paper \in [Papers -> States], asked \in [Papers -> [Policies -> Asked]],
           WaitingIsAnswerable,
           paper' = [paper EXCEPT ![d] = wrote], asked' = [asked EXCEPT ![d] = requests],
           Answerable(wrote, requests)
    PROVE  WaitingIsAnswerable'
  <1>1. \A p \in Papers : Answerable(paper[p], asked[p])
    BY OneByOne
  <1>2. ASSUME NEW p \in Papers PROVE Answerable(paper'[p], asked'[p])
    <2>1. CASE p = d
      <3>1. paper'[p] = wrote /\ asked'[p] = requests
        BY <2>1
      <3> QED
        BY <3>1
    <2>2. CASE p # d
      <3>1. paper'[p] = paper[p] /\ asked'[p] = asked[p]
        BY <2>2
      <3> QED
        BY <1>1, <3>1
    <2> QED
      BY <2>1, <2>2
  <1> QED
    BY <1>2 DEF WaitingIsAnswerable, Answerable, Waiting

(* A request keeps its approvers when it is answered or cancelled.              *)
LEMMA AnsweredRequest ==
    ASSUME NEW ask \in Asked, ask.status = "pending",
           NEW status \in {"approved", "rejected", "cancelled"}
    PROVE  [ask EXCEPT !.status = status] = [status |-> status, by |-> ask.by] /\ ask.by \in SUBSET Staff
  <1>1. NotAsked.status = "not asked"
    BY DEF NotAsked
  <1>2. ask # NotAsked
    BY <1>1
  <1>3. ask \in [status : {"pending", "approved", "rejected", "cancelled"}, by : SUBSET Staff]
    BY <1>2 DEF Asked
  <1> QED
    BY <1>3

--------------------------------------------------------------------------------
(* A document is written together with the request its rule asks for.         *)
LEMMA WriteKeeps ==
    ASSUME ApprovalsTypeOK, WaitingIsAnswerable, NEW d \in Papers, NEW observed \in Observed, Write(d, observed)
    PROVE  ApprovalsTypeOK' /\ WaitingIsAnswerable'
  <1> DEFINE wrote == IF Firing(observed) = {} THEN "not needed" ELSE "pending"
             requests == [k \in Policies |-> IF k \in Firing(observed)
                                             THEN [status |-> "pending", by |-> Eligible(k)] ELSE NotAsked]
  <1>1. paper' = [paper EXCEPT ![d] = wrote] /\ asked' = [asked EXCEPT ![d] = requests]
    BY DEF Write
  <1>2. \A k \in Firing(observed) : k \in Policies /\ Eligible(k) # {} /\ Eligible(k) \in SUBSET Staff
    <2>1. \A k \in Firing(observed) : k \in Policies /\ policy[k] # NoPolicy /\ Eligible(k) # {}
      BY DEF Firing, Matching
    <2>2. \A k \in Firing(observed) : policy[k].staff \in SUBSET Staff
      BY <2>1 DEF ApprovalsTypeOK, Policy
    <2> QED
      BY <2>1, <2>2 DEF Eligible
  <1>3. requests \in [Policies -> Asked] /\ wrote \in States
    BY <1>2 DEF Asked, States
  <1>4. Answerable(wrote, requests)
    BY <1>2 DEF Answerable, NotAsked
  <1>5. WaitingIsAnswerable'
    <2> HIDE DEF wrote, requests
    <2> QED
      BY <1>1, <1>4, TouchingOne DEF ApprovalsTypeOK
  <1>6. ApprovalsTypeOK'
    <2> HIDE DEF wrote, requests
    <2> QED
      BY <1>1, <1>3 DEF ApprovalsTypeOK, Write
  <1> QED
    BY <1>5, <1>6

(* A decision on the request is written to the document in the same step.     *)
LEMMA DecideKeeps ==
    ASSUME ApprovalsTypeOK, WaitingIsAnswerable, NEW x \in Staff, NEW d \in Papers, NEW k \in Policies,
           NEW decision \in {"approved", "rejected"}, Decide(x, d, k, decision)
    PROVE  ApprovalsTypeOK' /\ WaitingIsAnswerable'
  <1> DEFINE wrote == IF paper[d] = "removed" THEN "removed" ELSE decision
             requests == [asked[d] EXCEPT ![k].status = decision]
  <1>1. paper' = [paper EXCEPT ![d] = wrote] /\ asked' = [asked EXCEPT ![d] = requests]
    BY DEF Decide, ApprovalsTypeOK
  <1>2. asked[d] \in [Policies -> Asked] /\ asked[d][k].status = "pending"
    BY DEF ApprovalsTypeOK, Decide
  <1>3. requests \in [Policies -> Asked] /\ wrote \in States
    <2> DEFINE answered == [status |-> decision, by |-> asked[d][k].by]
    <2>1. [asked[d][k] EXCEPT !.status = decision] = answered /\ asked[d][k].by \in SUBSET Staff
      BY <1>2, AnsweredRequest
    <2>2. answered \in Asked
      BY <2>1 DEF Asked
    <2>3. requests = [asked[d] EXCEPT ![k] = answered]
      BY <2>1
    <2> HIDE DEF answered, requests
    <2> QED
      BY <1>2, <2>2, <2>3 DEF States, ApprovalsTypeOK
  <1>4. Answerable(wrote, requests)
    <2>1. Answerable(paper[d], asked[d])
      BY OneByOne
    <2>2. \A j \in Policies : requests[j].status = "pending" => j # k /\ requests[j] = asked[d][j]
      BY <1>2 DEF Asked
    <2>3. wrote \notin {"pending", "unwritten", "not needed", "cancelled"}
      OBVIOUS
    <2> QED
      BY <2>1, <2>2, <2>3 DEF Answerable
  <1>5. WaitingIsAnswerable'
    <2> HIDE DEF wrote, requests
    <2> QED
      BY <1>1, <1>4, TouchingOne DEF ApprovalsTypeOK
  <1>6. ApprovalsTypeOK'
    <2> HIDE DEF wrote, requests
    <2> QED
      BY <1>1, <1>3 DEF ApprovalsTypeOK, Decide
  <1> QED
    BY <1>5, <1>6

(* A document that is cancelled takes its request along.                      *)
LEMMA CancelPaperKeeps ==
    ASSUME ApprovalsTypeOK, WaitingIsAnswerable, NEW d \in Papers, CancelPaper(d)
    PROVE  ApprovalsTypeOK' /\ WaitingIsAnswerable'
  <1>0. ASSUME NEW k \in Policies
        PROVE  CancelledRequests(d)[k] \in Asked /\ CancelledRequests(d)[k].status # "pending"
    <2>1. asked[d][k] \in Asked
      BY DEF ApprovalsTypeOK
    <2>2. CASE asked[d][k].status = "pending"
      <3>1. CancelledRequests(d)[k] = [status |-> "cancelled", by |-> asked[d][k].by] /\ asked[d][k].by \in SUBSET Staff
        BY <2>1, <2>2, AnsweredRequest DEF CancelledRequests
      <3> QED
        BY <3>1 DEF Asked
    <2>3. CASE asked[d][k].status # "pending"
      BY <2>1, <2>3 DEF CancelledRequests
    <2> QED
      BY <2>2, <2>3
  <1>1. CancelledRequests(d) \in [Policies -> Asked] /\ "cancelled" \in States
    BY <1>0 DEF CancelledRequests, States
  <1>2. \A k \in Policies : CancelledRequests(d)[k].status # "pending"
    BY <1>0
  <1>3. Answerable("cancelled", CancelledRequests(d))
    BY <1>2 DEF Answerable
  <1>4. WaitingIsAnswerable'
    BY <1>3, TouchingOne DEF CancelPaper, ApprovalsTypeOK
  <1>5. ApprovalsTypeOK'
    BY <1>1 DEF ApprovalsTypeOK, CancelPaper
  <1> QED
    BY <1>4, <1>5

(* One that is removed waits no more, whatever its requests are.              *)
LEMMA DeletePaperKeeps ==
    ASSUME ApprovalsTypeOK, WaitingIsAnswerable, NEW d \in Papers, DeletePaper(d)
    PROVE  ApprovalsTypeOK' /\ WaitingIsAnswerable'
  <1>1. Answerable("removed", asked[d])
    BY OneByOne DEF Answerable
  <1>2. asked' = [asked EXCEPT ![d] = asked[d]]
    BY DEF DeletePaper, ApprovalsTypeOK
  <1>3. WaitingIsAnswerable'
    BY <1>1, <1>2, TouchingOne DEF DeletePaper, ApprovalsTypeOK
  <1>4. ApprovalsTypeOK'
    BY DEF ApprovalsTypeOK, DeletePaper, States
  <1> QED
    BY <1>3, <1>4

(* Rules and positions may change as they like: a request keeps the approvers   *)
(* it was raised with.                                                          *)
LEMMA AdministrationKeeps ==
    ASSUME ApprovalsTypeOK, WaitingIsAnswerable,
           \/ \E k \in Policies, new \in Wordings : CreatePolicy(k, new) \/ UpdatePolicy(k, new)
           \/ \E k \in Policies : RemovePolicy(k)
           \/ \E x \in Staff, new \in Positions \cup {"left"} : ChangePosition(x, new)
    PROVE  ApprovalsTypeOK' /\ WaitingIsAnswerable'
  <1>1. UNCHANGED <<paper, asked>>
    BY DEF CreatePolicy, UpdatePolicy, RemovePolicy, ChangePosition
  <1>2. WaitingIsAnswerable'
    BY <1>1 DEF WaitingIsAnswerable, Waiting
  <1>3. policy' \in [Policies -> Policy \cup {NoPolicy}] /\ position' \in [Staff -> Positions \cup {"left"}]
    BY ApprovalsAssumption
    DEF ApprovalsTypeOK, CreatePolicy, UpdatePolicy, RemovePolicy, ChangePosition
  <1> QED
    BY <1>1, <1>2, <1>3 DEF ApprovalsTypeOK

--------------------------------------------------------------------------------
(* In every execution the rows have their types, and a document that waits has  *)
(* a request with approvers, one that is not written, cancelled or was never    *)
(* in need of approval has no request open (requests.service.ts:99-156,         *)
(* :266-329).                                                                   *)
THEOREM WaitingCanBeAnswered == ApprovalsSpec => [](ApprovalsTypeOK /\ WaitingIsAnswerable)
  <1>1. ApprovalsInit => ApprovalsTypeOK /\ WaitingIsAnswerable
    <2> SUFFICES ASSUME ApprovalsInit PROVE ApprovalsTypeOK /\ WaitingIsAnswerable
      OBVIOUS
    <2>1. position \in [Staff -> Positions \cup {"left"}]
      BY DEF ApprovalsInit
    <2>2. ApprovalsTypeOK
      BY <2>1 DEF ApprovalsInit, ApprovalsTypeOK, States, Asked
    <2>3. WaitingIsAnswerable
      BY DEF ApprovalsInit, WaitingIsAnswerable, Waiting, NotAsked
    <2> QED
      BY <2>2, <2>3
  <1>2. ApprovalsTypeOK /\ WaitingIsAnswerable /\ [Approve]_approvalVars
          => ApprovalsTypeOK' /\ WaitingIsAnswerable'
    <2> SUFFICES ASSUME ApprovalsTypeOK, WaitingIsAnswerable, [Approve]_approvalVars
                 PROVE  ApprovalsTypeOK' /\ WaitingIsAnswerable'
      OBVIOUS
    <2>1. CASE UNCHANGED approvalVars
      BY <2>1 DEF approvalVars, ApprovalsTypeOK, WaitingIsAnswerable, Waiting
    <2>2. CASE Approve
      BY <2>2, AdministrationKeeps, WriteKeeps, CancelPaperKeeps, DeletePaperKeeps, DecideKeeps DEF Approve
    <2> QED
      BY <2>1, <2>2
  <1> QED
    BY <1>1, <1>2, PTL DEF ApprovalsSpec

--------------------------------------------------------------------------------
\* Part 4. Price lists.

Marking == {c \in Clerks : marking[c] # NoList}

ListsTyped ==
    /\ lists \in [PriceLists -> ListRow \cup {NoList}]
    /\ marking \in [Clerks -> MarkRow \cup {NoList}]

\* What a transaction unmarked is still there, and is not the list that it marks.
SeenAreHeld ==
    \A c \in Marking : marking[c].seen \subseteq Existing /\ marking[c].list \notin marking[c].seen

OverlapIsNoted ==
    \A b, c \in Marking : b # c => {marking[b].list, marking[c].list} \in together

\* A default that a transaction will not unmark is one made so while it was under way.
UnseenIsNoted ==
    \A c \in Marking : \A x \in Defaults :
        x \notin marking[c].seen /\ x # marking[c].list => {x, marking[c].list} \in together

TariffInv == ListsTyped /\ SeenAreHeld /\ OverlapIsNoted /\ UnseenIsNoted /\ TwoDefaultsWereRaced

\* A row that is there has its three fields; a transaction under way has its own.
LEMMA RowsAndMarks ==
    ASSUME ListsTyped
    PROVE  /\ \A l \in Existing : lists[l] \in ListRow /\ l \in PriceLists
           /\ \A c \in Marking : marking[c] \in MarkRow /\ c \in Clerks
           /\ Defaults \subseteq Existing
           /\ \A r \in ListRow : r # NoList
  BY PriceListsAssumption DEF ListsTyped, Existing, Marking, Defaults

\* Changes of rows that take no row away and mark none keep the invariant.
LEMMA FewerDefaults ==
    ASSUME TariffInv, ListsTyped', UNCHANGED <<marking, together>>, Defaults' \subseteq Defaults,
           \A c \in Marking : marking[c].seen \subseteq Existing'
    PROVE  TariffInv'
  <1>1. Marking' = Marking
    BY DEF Marking
  <1>. QED
    BY <1>1 DEF TariffInv, SeenAreHeld, OverlapIsNoted, UnseenIsNoted, TwoDefaultsWereRaced

(* At first no list is a default and no transaction is under way.             *)
LEMMA TariffBegins ==
    ASSUME PriceListsInit
    PROVE  TariffInv
  BY DEF PriceListsInit, TariffInv, ListsTyped, SeenAreHeld, OverlapIsNoted, UnseenIsNoted,
         TwoDefaultsWereRaced, Marking, Defaults, Existing

(* A transaction that begins notes those it overlaps with.                    *)
LEMMA BeginMarkingKeeps ==
    ASSUME TariffInv, NEW c \in Clerks, NEW l \in PriceLists, NEW new \in BOOLEAN,
           BeginMarking(c, l, new)
    PROVE  TariffInv'
  <1>. DEFINE mark == [list |-> l, seen |-> Unmarked(l), new |-> new]
  <1>1. /\ marking[c] = NoList /\ marking' = [marking EXCEPT ![c] = mark] /\ UNCHANGED lists
        /\ together' = together \cup {{l, marking[b].list} : b \in Marking}
    BY DEF BeginMarking, Marking
  <1>2. mark \in MarkRow /\ mark # NoList /\ mark.list = l /\ mark.seen = Defaults \ {l}
    BY PriceListsAssumption DEF MarkRow, Unmarked, Defaults, Existing
  <1>3. /\ Marking' = Marking \cup {c} /\ c \notin Marking
        /\ \A b \in Marking' : b \in Clerks /\ marking'[b] = IF b = c THEN mark ELSE marking[b]
    BY <1>1, <1>2 DEF TariffInv, ListsTyped, Marking
  <1>. HIDE DEF mark
  <1>4. ListsTyped' /\ Existing' = Existing /\ Defaults' = Defaults
    BY <1>1, <1>2 DEF TariffInv, ListsTyped, Existing, Defaults
  <1>5. SeenAreHeld'
    BY <1>2, <1>3, <1>4 DEF TariffInv, SeenAreHeld, Defaults
  <1>6. OverlapIsNoted'
    <2>. SUFFICES ASSUME NEW a \in Marking', NEW b \in Marking', a # b
                  PROVE  {marking'[a].list, marking'[b].list} \in together'
      BY DEF OverlapIsNoted
    <2>1. CASE a # c /\ b # c
      BY <2>1, <1>1, <1>3 DEF TariffInv, OverlapIsNoted
    <2>2. CASE a = c
      BY <2>2, <1>1, <1>2, <1>3
    <2>3. CASE b = c
      <3>1. {l, marking[a].list} \in together'
        BY <2>3, <1>1, <1>3
      <3>2. {l, marking[a].list} = {marking[a].list, l}
        OBVIOUS
      <3>. QED
        BY <2>3, <3>1, <3>2, <1>2, <1>3
    <2>. QED
      BY <2>1, <2>2, <2>3
  <1>7. UnseenIsNoted' /\ TwoDefaultsWereRaced'
    BY <1>1, <1>2, <1>3, <1>4 DEF TariffInv, UnseenIsNoted, TwoDefaultsWereRaced
  <1>. QED
    BY <1>4, <1>5, <1>6, <1>7 DEF TariffInv

(* Where a transaction ends with two defaults, it overlapped with another.    *)
LEMMA EndMarkingKeeps ==
    ASSUME TariffInv, NEW c \in Clerks, NEW active \in BOOLEAN, EndMarking(c, active)
    PROVE  TariffInv'
  <1>. DEFINE t == marking[c]
              Writes(l) == l = t.list /\ (t.new \/ l \in Existing)
  <1>1. /\ c \in Marking /\ t \in MarkRow /\ t.list \notin t.seen /\ t.seen \subseteq Existing
        /\ ~LockedFor(c, t.list) /\ UNCHANGED together
    BY RowsAndMarks DEF EndMarking, Marking, TariffInv, SeenAreHeld
  <1>2. \A b \in Clerks : marking'[b] = IF b = c \/ marking[b] = NoList THEN NoList
                                        ELSE [marking[b] EXCEPT !.seen = @ \ t.seen]
    BY DEF EndMarking
  <1>3. \A b \in Marking' : /\ b \in Marking /\ b # c
                            /\ marking'[b] \in MarkRow
                            /\ marking'[b].list = marking[b].list
                            /\ marking'[b].seen = marking[b].seen \ t.seen
    <2>. SUFFICES ASSUME NEW b \in Marking'
                  PROVE  /\ b \in Marking /\ b # c
                         /\ marking'[b] \in MarkRow
                         /\ marking'[b].list = marking[b].list
                         /\ marking'[b].seen = marking[b].seen \ t.seen
      OBVIOUS
    <2>1. b \in Marking /\ b # c /\ marking'[b] = [marking[b] EXCEPT !.seen = @ \ t.seen]
      BY <1>2 DEF Marking
    <2>2. marking[b] \in MarkRow
      BY <2>1, RowsAndMarks DEF TariffInv
    <2>. QED
      BY <2>1, <2>2 DEF MarkRow
  <1>4. \A l \in PriceLists :
            lists'[l] = IF Writes(l) THEN [default |-> TRUE, active |-> active, used |-> ~t.new /\ lists[l].used]
                        ELSE IF l \in t.seen THEN [lists[l] EXCEPT !.default = FALSE] ELSE lists[l]
    BY DEF EndMarking
  <1>5. \A l \in PriceLists :
            /\ Writes(l) => lists'[l] \in ListRow
            /\ ~Writes(l) /\ l \in t.seen => lists'[l] \in ListRow /\ lists'[l].default = FALSE
            /\ ~Writes(l) /\ l \notin t.seen => lists'[l] = lists[l]
    <2>1. ASSUME NEW l \in PriceLists, Writes(l)
          PROVE  lists'[l] \in ListRow
      <3>. DEFINE listed == [default |-> TRUE, active |-> active, used |-> ~t.new /\ lists[l].used]
      <3>1. listed \in ListRow
        <4>1. (~t.new /\ lists[l].used) \in BOOLEAN
          OBVIOUS
        <4>. QED
          BY <4>1 DEF ListRow
      <3>2. lists'[l] = listed
        BY <2>1, <1>4
      <3>. QED
        BY <3>1, <3>2
    <2>2. ASSUME NEW l \in PriceLists, ~Writes(l), l \in t.seen
          PROVE  lists'[l] \in ListRow /\ lists'[l].default = FALSE
      <3>1. lists[l] \in ListRow
        BY <1>1, <2>2, RowsAndMarks DEF TariffInv
      <3>. QED
        BY <2>2, <3>1, <1>4 DEF ListRow
    <2>. QED
      BY <2>1, <2>2, <1>4
  <1>. HIDE DEF Writes
  <1>6. ListsTyped'
    <2>1. lists' \in [PriceLists -> ListRow \cup {NoList}]
      <3>1. \A l \in PriceLists : lists'[l] \in ListRow \cup {NoList}
        BY <1>5 DEF TariffInv, ListsTyped
      <3>. QED
        BY <3>1 DEF EndMarking
    <2>2. marking' \in [Clerks -> MarkRow \cup {NoList}]
      <3>1. \A b \in Clerks : marking'[b] \in MarkRow \cup {NoList}
        BY <1>3 DEF Marking
      <3>. QED
        BY <3>1 DEF EndMarking
    <2>. QED
      BY <2>1, <2>2 DEF ListsTyped
  <1>7. Existing \subseteq Existing'
    BY <1>5, PriceListsAssumption DEF Existing
  <1>8. \A x \in Defaults' : x = t.list \/ (x \in Defaults /\ x \notin t.seen)
    BY <1>5 DEF Defaults, Existing, Writes
  <1>9. SeenAreHeld' /\ OverlapIsNoted'
    BY <1>1, <1>3, <1>7 DEF TariffInv, SeenAreHeld, OverlapIsNoted
  <1>10. UnseenIsNoted'
    <2>. SUFFICES ASSUME NEW b \in Marking', NEW x \in Defaults',
                         x \notin marking'[b].seen, x # marking'[b].list
                  PROVE  {x, marking'[b].list} \in together'
      BY DEF UnseenIsNoted
    <2>1. CASE x = t.list
      BY <2>1, <1>1, <1>3 DEF TariffInv, OverlapIsNoted
    <2>2. CASE x \in Defaults /\ x \notin t.seen
      BY <2>2, <1>1, <1>3 DEF TariffInv, UnseenIsNoted
    <2>. QED
      BY <2>1, <2>2, <1>8
  <1>11. TwoDefaultsWereRaced'
    <2>. SUFFICES ASSUME NEW x \in Defaults', NEW y \in Defaults', x # y
                  PROVE  {x, y} \in together'
      BY DEF TwoDefaultsWereRaced
    <2>1. CASE x # t.list /\ y # t.list
      BY <2>1, <1>1, <1>8 DEF TariffInv, TwoDefaultsWereRaced
    <2>2. CASE y = t.list
      BY <2>2, <1>1, <1>8 DEF TariffInv, UnseenIsNoted
    <2>3. CASE x = t.list
      <3>1. {y, x} \in together
        BY <2>3, <1>1, <1>8 DEF TariffInv, UnseenIsNoted
      <3>2. {y, x} = {x, y}
        OBVIOUS
      <3>. QED
        BY <3>1, <3>2, <1>1
    <2>. QED
      BY <2>1, <2>2, <2>3
  <1>. QED
    BY <1>6, <1>9, <1>10, <1>11 DEF TariffInv

(* A transaction that is rolled back leaves the lists as they were.           *)
LEMMA VictimKeeps ==
    ASSUME TariffInv, NEW c \in Clerks, DeadlockVictim(c)
    PROVE  TariffInv'
  <1>1. /\ Marking' \subseteq Marking /\ \A b \in Marking' : marking'[b] = marking[b]
        /\ ListsTyped' /\ Existing' = Existing /\ Defaults' = Defaults /\ UNCHANGED together
    BY DEF DeadlockVictim, TariffInv, ListsTyped, Marking, Existing, Defaults
  <1>. QED
    BY <1>1 DEF TariffInv, SeenAreHeld, OverlapIsNoted, UnseenIsNoted, TwoDefaultsWereRaced

(* A list saved without the default keeps at most the mark it has.            *)
LEMMA SaveKeeps ==
    ASSUME TariffInv, NEW c \in Clerks, NEW l \in PriceLists, NEW keep \in BOOLEAN,
           NEW active \in BOOLEAN, Save(c, l, keep, active)
    PROVE  TariffInv'
  <1>. DEFINE listed == [default |-> keep /\ lists[l] # NoList /\ lists[l].default, active |-> active,
                      used |-> lists[l] # NoList /\ lists[l].used]
  <1>1. lists' = [lists EXCEPT ![l] = listed] /\ UNCHANGED <<marking, together>>
    BY DEF Save
  <1>2. listed \in ListRow
    <2>1. (keep /\ lists[l] # NoList /\ lists[l].default) \in BOOLEAN /\ (lists[l] # NoList /\ lists[l].used) \in BOOLEAN
      OBVIOUS
    <2>. QED
      BY <2>1 DEF ListRow
  <1>3. listed.default => l \in Defaults
    BY DEF Defaults, Existing
  <1>. HIDE DEF listed
  <1>4. ListsTyped' /\ Existing \subseteq Existing' /\ Defaults' \subseteq Defaults
    BY <1>1, <1>2, <1>3, PriceListsAssumption DEF TariffInv, ListsTyped, Existing, Defaults
  <1>. QED
    BY <1>1, <1>4, FewerDefaults DEF TariffInv, SeenAreHeld

(* Use of a list leaves the marks.                                            *)
LEMMA UseKeeps ==
    ASSUME TariffInv, NEW l \in PriceLists, UseInDocument(l)
    PROVE  TariffInv'
  <1>1. lists' = [lists EXCEPT ![l].used = TRUE] /\ l \in Existing /\ UNCHANGED <<marking, together>>
    BY DEF UseInDocument
  <1>2. lists[l] \in ListRow
    BY <1>1, RowsAndMarks DEF TariffInv
  <1>3. ListsTyped' /\ Existing \subseteq Existing' /\ Defaults' \subseteq Defaults
    BY <1>1, <1>2, PriceListsAssumption DEF TariffInv, ListsTyped, Existing, Defaults, ListRow
  <1>. QED
    BY <1>1, <1>3, FewerDefaults DEF TariffInv, SeenAreHeld

(* A list that goes, or is made inactive, makes no second default.            *)
LEMMA RemoveKeeps ==
    ASSUME TariffInv, NEW c \in Clerks, NEW l \in PriceLists, RemoveList(c, l)
    PROVE  TariffInv'
  <1>1. /\ lists' = [lists EXCEPT ![l] = IF lists[l].used THEN [lists[l] EXCEPT !.active = FALSE] ELSE NoList]
        /\ l \in Existing /\ UNCHANGED <<marking, together>>
    BY DEF RemoveList
  <1>2. lists[l] \in ListRow
    BY <1>1, RowsAndMarks DEF TariffInv
  <1>3. \A b \in Marking : l \notin marking[b].seen
    BY DEF RemoveList, LockedFor, Marking
  <1>4. ListsTyped' /\ Existing \ {l} \subseteq Existing' /\ Defaults' \subseteq Defaults
    BY <1>1, <1>2, PriceListsAssumption DEF TariffInv, ListsTyped, Existing, Defaults, ListRow
  <1>. QED
    BY <1>1, <1>3, <1>4, FewerDefaults DEF TariffInv, SeenAreHeld

(* Every step of the desk keeps the invariant.                                *)
LEMMA TariffKeeps ==
    ASSUME TariffInv, [Tariff]_priceVars
    PROVE  TariffInv'
  <1>1. CASE UNCHANGED priceVars
    <2>1. ListsTyped' /\ Existing' = Existing /\ Defaults' = Defaults
      BY <1>1 DEF TariffInv, ListsTyped, Existing, Defaults, priceVars
    <2>. QED
      BY <1>1, <2>1, FewerDefaults DEF TariffInv, SeenAreHeld, priceVars
  <1>. QED
    BY <1>1, BeginMarkingKeeps, EndMarkingKeeps, VictimKeeps, SaveKeeps, UseKeeps, RemoveKeeps DEF Tariff

\* Two lists are both the default only after two transactions that made them so overlapped
\* (price-lists.service.ts create and update take the mark from the rows they see).
THEOREM DefaultsAreRaced == PriceListsSpec => []TwoDefaultsWereRaced
  <1>1. TariffInv => TwoDefaultsWereRaced
    BY DEF TariffInv
  <1>. QED
    BY <1>1, TariffBegins, TariffKeeps, PTL DEF PriceListsSpec

--------------------------------------------------------------------------------
\* Part 5. Dunning.

MailType == [rule : Rules, offset : Offsets, edits : Nat, run : Nat, day : Nat, due : Dues, logged : Nat]
RunType == [offsets : UNION {[K -> Offsets] : K \in SUBSET Rules}, edits : Nat, number : Nat, day : Nat,
            due : [Receivables -> Dues], todo : SUBSET Receivables, to : SUBSET Receivables, hand : Hand \cup {Nil}]

ChaseTyped ==
    /\ DunningTypeOK
    /\ run \in [Runs -> RunType \cup {Nil}]
    /\ mails \in [Receivables -> Seq(MailType)]

\* What a run has read; before its accounts it has nothing to do.
RunStands(m) ==
    /\ m.edits <= edits /\ m.number <= begun /\ m.day <= day
    /\ m.edits = edits => m.offsets = [k \in Active |-> rule[k].offset]
    /\ m.hand # Nil \/ m.todo # {} => m.number # 0
    /\ m.hand # Nil => m.hand.rule \in Steps(m, m.hand.about)

\* The step in hand: what was logged of its rule before the run began was removed with the rule; the e-mail sent is
\* not logged.
HandStands(m) == m.hand # Nil =>
    LET sent == mails[m.hand.about]
    IN  /\ m.hand.result = "unsent" =>
              \A i \in DOMAIN sent : sent[i].rule = m.hand.rule /\ Logged(sent[i]) /\ sent[i].logged < m.number =>
                  rule[m.hand.rule] = Removed
        /\ m.hand.result = "sent" =>
              /\ m.hand.mail \in DOMAIN sent /\ ~Logged(sent[m.hand.mail])
              /\ sent[m.hand.mail].rule = m.hand.rule /\ sent[m.hand.mail].run = m.number

\* Two runs: the same rules under the same edits, and a day no earlier for the one that began later.
Agree(m, n) ==
    /\ m.edits = n.edits => m.offsets = n.offsets
    /\ m.number # 0 => m.number # n.number /\ (m.number < n.number => m.day <= n.day)

MailStands(r, e) ==
    /\ e.edits <= edits /\ e.run \in 1..begun /\ e.day <= day /\ e.offset <= e.day - e.due
    /\ e.edits = edits => e.rule \in Active /\ e.offset = rule[e.rule].offset
    /\ Logged(e) => log[<<r, e.rule>>] # Nil \/ rule[e.rule] = Removed

\* An e-mail and a run that may send another.
Knows(m, e) ==
    /\ e.edits = m.edits => e.rule \in DOMAIN m.offsets /\ e.offset = m.offsets[e.rule]
    /\ e.run <= m.number => e.day <= m.day
\* What a run sent and did not log it has in hand.
InHand(m, r, i) == m.hand # Nil /\ m.hand.result = "sent" /\ m.hand.about = r /\ m.hand.mail = i
Own(m, r, i) == mails[r][i].run = m.number /\ ~Logged(mails[r][i]) => InHand(m, r, i)

ChaseInv ==
    /\ ChaseTyped
    /\ \A r \in Receivables : \A i \in DOMAIN mails[r] : MailStands(r, mails[r][i])
    /\ \A u \in Runs : run[u] # Nil => RunStands(run[u]) /\ HandStands(run[u])
    /\ \A u, v \in Runs : u # v /\ run[u] # Nil /\ run[v] # Nil => Agree(run[u], run[v])
    /\ \A u \in Runs : run[u] # Nil =>
          \A r \in Receivables : \A i \in DOMAIN mails[r] : Knows(run[u], mails[r][i]) /\ Own(run[u], r, i)
    /\ ChasingEscalates

(* When nothing was sent and no run is under way, the invariant holds.        *)
LEMMA ChaseStart == DunningInit => ChaseInv
  <1> SUFFICES ASSUME DunningInit PROVE ChaseInv
    OBVIOUS
  <1>1. ChaseTyped
    BY DunningAssumption DEF DunningInit, ChaseTyped, DunningTypeOK
  <1>2. \A r \in Receivables : mails[r] = <<>>
    BY DEF DunningInit
  <1>3. \A r \in Receivables : DOMAIN mails[r] = {}
    BY <1>2
  <1> QED
    BY <1>1, <1>3 DEF ChaseInv, DunningInit, ChasingEscalates, LoggedOnce, OneUnlogged, NoRepeat, MorePressing

(* What the types say of one e-mail.                                          *)
LEMMA MailTyped ==
    ASSUME ChaseTyped, NEW r \in Receivables, NEW i \in DOMAIN mails[r]
    PROVE  /\ mails[r] \in Seq(MailType) /\ mails[r][i] \in MailType /\ i \in Nat
           /\ mails[r][i].rule \in Rules /\ mails[r][i].offset \in Int /\ mails[r][i].edits \in Nat
           /\ mails[r][i].run \in Nat /\ mails[r][i].day \in Nat /\ mails[r][i].due \in Int
           /\ mails[r][i].logged \in Nat
  <1>1. mails[r] \in Seq(MailType)
    BY DEF ChaseTyped
  <1>2. mails[r][i] \in MailType /\ i \in Nat
    BY <1>1
  <1>3. \A e \in MailType : /\ e.rule \in Rules /\ e.offset \in Int /\ e.edits \in Nat /\ e.run \in Nat
                            /\ e.day \in Nat /\ e.due \in Int /\ e.logged \in Nat
    BY DunningAssumption DEF MailType
  <1> QED
    BY <1>1, <1>2, <1>3

(* What the types say of one run that is under way.                           *)
LEMMA RunTyped ==
    ASSUME NEW m \in RunType
    PROVE  /\ m.edits \in Nat /\ m.number \in Nat /\ m.day \in Nat
           /\ DOMAIN m.offsets \subseteq Rules
           /\ \A k \in DOMAIN m.offsets : m.offsets[k] \in Offsets /\ m.offsets[k] \in Int
           /\ m.due \in [Receivables -> Dues] /\ \A r \in Receivables : m.due[r] \in Dues /\ m.due[r] \in Int
           /\ m.todo \in SUBSET Receivables /\ m.to \in SUBSET Receivables
           /\ m.hand \in Hand \cup {Nil}
  <1>1. /\ m.offsets \in UNION {[K -> Offsets] : K \in SUBSET Rules}
        /\ m.edits \in Nat /\ m.number \in Nat /\ m.day \in Nat /\ m.due \in [Receivables -> Dues]
        /\ m.todo \in SUBSET Receivables /\ m.to \in SUBSET Receivables
        /\ m.hand \in Hand \cup {Nil}
    BY DEF RunType
  <1>2. PICK K \in SUBSET Rules : m.offsets \in [K -> Offsets]
    BY <1>1
  <1>3. \A k \in DOMAIN m.offsets : m.offsets[k] \in Offsets
    BY <1>2
  <1>4. DOMAIN m.offsets \subseteq Rules
    BY <1>2
  <1> QED
    BY <1>1, <1>3, <1>4, DunningAssumption

(* What the types say of the step a run has in hand.                          *)
LEMMA HandTyped ==
    ASSUME NEW hand \in Hand
    PROVE  hand.about \in Receivables /\ hand.rule \in Rules /\ hand.mail \in Nat
           /\ hand.result \in {"unsent", "skipped", "sent", "failed"}
  BY DEF Hand

(* What the types say of the counters.                                        *)
LEMMA CountersTyped ==
    ASSUME DunningTypeOK
    PROVE  day \in Nat /\ edits \in Nat /\ begun \in Nat
  BY DunningAssumption DEF DunningTypeOK

(* Where e-mails, runs, rules and the log stand (days pass, due dates move,   *)
(* accounts are settled, addresses change), the invariant stands.             *)
LEMMA ChaseStands ==
    ASSUME ChaseInv, UNCHANGED <<rule, edits, begun, log, run, mails>>, day <= day', DunningTypeOK'
    PROVE  ChaseInv'
  <1>1. ChaseTyped /\ ChaseTyped'
    BY DEF ChaseInv, ChaseTyped
  <1>2. day \in Nat /\ day' \in Nat
    BY <1>1, DunningAssumption DEF ChaseTyped, DunningTypeOK
  <1>3. ASSUME NEW r \in Receivables, NEW i \in DOMAIN mails[r] PROVE MailStands(r, mails[r][i])'
    <2>1. MailStands(r, mails[r][i]) /\ mails[r][i].day \in Nat
      BY <1>1, MailTyped DEF ChaseInv
    <2> QED
      BY <1>2, <2>1 DEF MailStands, Active, Kept, Logged
  <1>4. ASSUME NEW u \in Runs, run[u] # Nil PROVE (RunStands(run[u]) /\ HandStands(run[u]))'
    <2>1. RunStands(run[u]) /\ HandStands(run[u]) /\ run[u] \in RunType
      BY <1>1, <1>4 DEF ChaseInv, ChaseTyped
    <2>2. run[u].day \in Nat
      BY <2>1, RunTyped
    <2> QED
      BY <1>2, <2>1, <2>2 DEF RunStands, HandStands, Active, Kept, Steps, Due, DaysLate, Logged
  <1>5. \A u, v \in Runs : u # v /\ run[u] # Nil /\ run[v] # Nil => Agree(run[u], run[v])'
    BY DEF ChaseInv, Agree
  <1>6. \A u \in Runs : run[u] # Nil =>
          \A r \in Receivables : \A i \in DOMAIN mails[r] : (Knows(run[u], mails[r][i]) /\ Own(run[u], r, i))'
    BY DEF ChaseInv, Knows, Own, InHand, Logged
  <1>7. ChasingEscalates'
    BY DEF ChaseInv, ChasingEscalates, LoggedOnce, OneUnlogged, NoRepeat, MorePressing, Logged
  <1> QED
    BY <1>1, <1>3, <1>4, <1>5, <1>6, <1>7 DEF ChaseInv

(* The rules change: nothing was sent, and no run began, under the new ones,  *)
(* a removed rule stays removed, and the log forgets only with its rule.      *)
LEMMA RulesMove ==
    ASSUME ChaseInv, edits' = edits + 1, UNCHANGED <<accountVars, begun, run, mails>>, DunningTypeOK',
           \A k \in Rules : rule[k] = Removed => rule'[k] = Removed,
           \A r \in Receivables, k \in Rules :
               log[<<r, k>>] # Nil => log'[<<r, k>>] # Nil \/ rule'[k] = Removed
    PROVE  ChaseInv'
  <1>1. ChaseTyped /\ ChaseTyped' /\ UNCHANGED day
    BY DEF ChaseInv, ChaseTyped, accountVars
  <1>2. edits \in Nat
    BY <1>1, CountersTyped DEF ChaseTyped
  <1>3. ASSUME NEW r \in Receivables, NEW i \in DOMAIN mails[r] PROVE MailStands(r, mails[r][i])'
    <2>1. mails[r][i].edits \in Nat /\ mails[r][i].rule \in Rules /\ MailStands(r, mails[r][i])
      BY <1>1, MailTyped DEF ChaseInv
    <2> QED
      BY <1>1, <1>2, <2>1 DEF MailStands, Logged
  <1>4. ASSUME NEW u \in Runs, run[u] # Nil PROVE (RunStands(run[u]) /\ HandStands(run[u]))'
    <2>1. RunStands(run[u]) /\ HandStands(run[u]) /\ run[u] \in RunType
      BY <1>1, <1>4 DEF ChaseInv, ChaseTyped
    <2>2. run[u].edits \in Nat /\ run[u].hand \in Hand \cup {Nil}
      BY <2>1, RunTyped
    <2>3. RunStands(run[u])'
      BY <1>1, <1>2, <2>1, <2>2 DEF RunStands, Steps, Due, DaysLate
    <2>4. run[u].hand # Nil => run[u].hand.rule \in Rules
      BY <2>2, HandTyped
    <2>5. HandStands(run[u])'
      BY <2>1, <2>4 DEF HandStands, Logged
    <2> QED
      BY <2>3, <2>5
  <1>5. \A u, v \in Runs : u # v /\ run[u] # Nil /\ run[v] # Nil => Agree(run[u], run[v])'
    BY DEF ChaseInv, Agree
  <1>6. \A u \in Runs : run[u] # Nil =>
          \A r \in Receivables : \A i \in DOMAIN mails[r] : (Knows(run[u], mails[r][i]) /\ Own(run[u], r, i))'
    BY DEF ChaseInv, Knows, Own, InHand, Logged
  <1>7. NoRepeat'
    <2>1. NoRepeat /\ \A r \in Receivables : \A i \in DOMAIN mails[r] : mails[r][i].rule \in Rules
      BY <1>1, MailTyped DEF ChaseInv, ChasingEscalates
    <2> QED
      BY <2>1 DEF NoRepeat, Logged
  <1>8. ChasingEscalates'
    BY <1>7 DEF ChaseInv, ChasingEscalates, LoggedOnce, OneUnlogged, MorePressing, Logged
  <1> QED
    BY <1>1, <1>3, <1>4, <1>5, <1>6, <1>8 DEF ChaseInv

(* A run takes a step of its own, no earlier run being counted away, and      *)
(* nothing else changes: the invariant stands if the run keeps to it.         *)
LEMMA RunMoves ==
    ASSUME ChaseInv, NEW u \in Runs, NEW n \in RunType \cup {Nil}, run' = [run EXCEPT ![u] = n],
           begun <= begun', UNCHANGED <<accountVars, rule, edits, log, mails>>, DunningTypeOK',
           n # Nil => /\ RunStands(n)' /\ HandStands(n)
                      /\ \A v \in Runs : v # u /\ run[v] # Nil => Agree(n, run[v]) /\ Agree(run[v], n)
                      /\ \A r \in Receivables : \A i \in DOMAIN mails[r] : Knows(n, mails[r][i]) /\ Own(n, r, i)
    PROVE  ChaseInv'
  <1>1. ChaseTyped /\ UNCHANGED day /\ run' \in [Runs -> RunType \cup {Nil}]
    BY DEF ChaseInv, ChaseTyped, accountVars
  <1>2. ChaseTyped'
    BY <1>1 DEF ChaseTyped
  <1>3. \A v \in Runs : run'[v] = IF v = u THEN n ELSE run[v]
    BY <1>1 DEF ChaseTyped
  <1>4. begun \in Nat /\ begun' \in Nat
    BY <1>1, <1>2, DunningAssumption DEF ChaseTyped, DunningTypeOK
  <1>5. ASSUME NEW r \in Receivables, NEW i \in DOMAIN mails[r] PROVE MailStands(r, mails[r][i])'
    <2>1. MailStands(r, mails[r][i]) /\ mails[r][i].run \in Nat
      BY <1>1, MailTyped DEF ChaseInv
    <2> QED
      BY <1>1, <1>4, <2>1 DEF MailStands, Active, Kept, Logged
  <1>6. ASSUME NEW v \in Runs, run'[v] # Nil PROVE (RunStands(run[v]) /\ HandStands(run[v]))'
    <2>1. CASE v = u
      BY <1>3, <1>6, <2>1 DEF RunStands, HandStands, Active, Kept, Steps, Due, DaysLate, Logged
    <2>2. CASE v # u
      <3>1. run'[v] = run[v] /\ RunStands(run[v]) /\ HandStands(run[v]) /\ run[v] \in RunType
        BY <1>1, <1>3, <1>6, <2>2 DEF ChaseInv, ChaseTyped
      <3>2. run[v].number \in Nat
        BY <3>1, RunTyped
      <3> QED
        BY <1>1, <1>4, <3>1, <3>2 DEF RunStands, HandStands, Active, Kept, Steps, Due, DaysLate, Logged
    <2> QED
      BY <2>1, <2>2
  <1>7. \A v, w \in Runs : v # w /\ run'[v] # Nil /\ run'[w] # Nil => Agree(run'[v], run'[w])
    BY <1>3 DEF ChaseInv
  <1>8. ASSUME NEW v \in Runs, run'[v] # Nil, NEW r \in Receivables, NEW i \in DOMAIN mails[r]
        PROVE  Knows(run'[v], mails[r][i]) /\ Own(run'[v], r, i)
    BY <1>3, <1>8 DEF ChaseInv
  <1>9. \A v \in Runs : run'[v] # Nil =>
          \A r \in Receivables : \A i \in DOMAIN mails'[r] : (Knows(run[v], mails[r][i]) /\ Own(run[v], r, i))'
    BY <1>8 DEF Knows, Own, InHand, Logged
  <1>10. \A v, w \in Runs : v # w /\ run'[v] # Nil /\ run'[w] # Nil => Agree(run[v], run[w])'
    BY <1>7 DEF Agree
  <1>11. ChasingEscalates'
    BY DEF ChaseInv, ChasingEscalates, LoggedOnce, OneUnlogged, NoRepeat, MorePressing, Logged
  <1> QED
    BY <1>2, <1>5, <1>6, <1>9, <1>10, <1>11 DEF ChaseInv

(* Creating, updating, removing and seeding rules                             *)
(* (dunning.service.ts:127-206) are such changes.                             *)
LEMMA RuleSteps ==
    ASSUME ChaseInv,
           \/ \E k \in Rules, offset \in Offsets, active \in BOOLEAN :
                 CreateRule(k, offset, active) \/ UpdateRule(k, offset, active)
           \/ \E k \in Rules : RemoveRule(k)
           \/ SeedDefaults
    PROVE  ChaseInv'
  <1>1. /\ DunningTypeOK /\ rule \in [Rules -> Rule \cup {Unused, Removed}]
        /\ log \in [Receivables \X Rules -> {"sent", "failed", "skipped", Nil}]
    BY DEF ChaseInv, ChaseTyped, DunningTypeOK
  <1>2. \A offset \in Offsets, active \in BOOLEAN : [state |-> "kept", offset |-> offset, active |-> active] \in Rule
    BY DEF Rule
  <1>3. \A x \in Rule, offset \in Offsets, active \in BOOLEAN : [x EXCEPT !.offset = offset, !.active = active] \in Rule
    <2>1. \A x \in Rule, offset \in Offsets : [x EXCEPT !.offset = offset] \in Rule
      BY DEF Rule
    <2>2. \A x \in Rule, active \in BOOLEAN : [x EXCEPT !.active = active] \in Rule
      BY DEF Rule
    <2>3. \A x \in Rule, offset \in Offsets, active \in BOOLEAN :
             [x EXCEPT !.offset = offset, !.active = active] = [[x EXCEPT !.offset = offset] EXCEPT !.active = active]
      OBVIOUS
    <2> QED
      BY <2>1, <2>2, <2>3
  <1>4. ASSUME NEW new \in [Rules -> Rule \cup {Unused, Removed}], Change(new),
               log' \in [Receivables \X Rules -> {"sent", "failed", "skipped", Nil}],
               \A k \in Rules : rule[k] = Removed => new[k] = Removed,
               \A r \in Receivables, k \in Rules : log[<<r, k>>] # Nil => log'[<<r, k>>] # Nil \/ new[k] = Removed
        PROVE  ChaseInv'
    <2>1. edits + 1 \in 0..MaxEdits
      BY <1>1, <1>4, DunningAssumption DEF Change, DunningTypeOK
    <2>2. DunningTypeOK'
      BY <1>1, <1>4, <2>1 DEF Change, DunningTypeOK, accountVars
    <2>3. /\ edits' = edits + 1 /\ UNCHANGED <<accountVars, begun, run, mails>>
          /\ \A k \in Rules : rule[k] = Removed => rule'[k] = Removed
          /\ \A r \in Receivables, k \in Rules : log[<<r, k>>] # Nil => log'[<<r, k>>] # Nil \/ rule'[k] = Removed
      BY <1>4 DEF Change
    <2> QED
      BY <2>2, <2>3, RulesMove
  <1>5. ASSUME NEW k \in Rules, NEW offset \in Offsets, NEW active \in BOOLEAN, CreateRule(k, offset, active)
        PROVE  ChaseInv'
    <2> DEFINE new == [rule EXCEPT ![k] = [state |-> "kept", offset |-> offset, active |-> active]]
    <2>1. new \in [Rules -> Rule \cup {Unused, Removed}]
      BY <1>1, <1>2
    <2>2. Change(new) /\ log' = log
      BY <1>5 DEF CreateRule
    <2>3. \A j \in Rules : rule[j] = Removed => new[j] = Removed
      BY <1>1, <1>5 DEF CreateRule, Unused, Removed
    <2> HIDE DEF new
    <2> QED
      BY <1>1, <1>4, <2>1, <2>2, <2>3
  <1>6. ASSUME NEW k \in Rules, NEW offset \in Offsets, NEW active \in BOOLEAN, UpdateRule(k, offset, active)
        PROVE  ChaseInv'
    <2> DEFINE new == [rule EXCEPT ![k].offset = offset, ![k].active = active]
               written == [rule[k] EXCEPT !.offset = offset, !.active = active]
    <2>0. rule[k] \in Rule /\ rule[k] # Removed
      BY <1>1, <1>6 DEF UpdateRule, Kept
    <2>1. written \in Rule
      BY <1>3, <2>0
    <2>2. new = [rule EXCEPT ![k] = written]
      BY <1>1
    <2>3. Change(new) /\ log' = log
      BY <1>6 DEF UpdateRule
    <2> HIDE DEF new, written
    <2>4. new \in [Rules -> Rule \cup {Unused, Removed}]
      BY <1>1, <2>1, <2>2
    <2>5. \A j \in Rules : rule[j] = Removed => new[j] = Removed
      BY <1>1, <2>0, <2>2
    <2> QED
      BY <1>1, <1>4, <2>3, <2>4, <2>5
  <1>7. ASSUME NEW k \in Rules, RemoveRule(k) PROVE ChaseInv'
    <2> DEFINE new == [rule EXCEPT ![k] = Removed]
    <2>1. new \in [Rules -> Rule \cup {Unused, Removed}]
      BY <1>1
    <2>2. Change(new) /\ log' = [p \in Receivables \X Rules |-> IF p[2] = k THEN Nil ELSE log[p]]
      BY <1>7 DEF RemoveRule
    <2>3. log' \in [Receivables \X Rules -> {"sent", "failed", "skipped", Nil}]
      BY <1>1, <2>2
    <2>4. \A j \in Rules : new[j] = IF j = k THEN Removed ELSE rule[j]
      BY <1>1
    <2>5. \A r \in Receivables, j \in Rules : log'[<<r, j>>] = IF j = k THEN Nil ELSE log[<<r, j>>]
      BY <2>2
    <2> HIDE DEF new
    <2> QED
      BY <1>4, <2>1, <2>2, <2>3, <2>4, <2>5
  <1>8. ASSUME SeedDefaults PROVE ChaseInv'
    <2> DEFINE new == [k \in Rules |-> IF rule[k] = Unused
                          THEN [state |-> "kept", offset |-> DefaultOffset[k], active |-> TRUE] ELSE rule[k]]
    <2>1. new \in [Rules -> Rule \cup {Unused, Removed}]
      BY <1>1, <1>2, DunningAssumption
    <2>2. Change(new) /\ log' = log
      BY <1>8 DEF SeedDefaults
    <2>3. \A j \in Rules : rule[j] = Removed => new[j] = Removed
      BY DEF Unused, Removed
    <2> HIDE DEF new
    <2> QED
      BY <1>1, <1>4, <2>1, <2>2, <2>3
  <1> QED
    BY <1>5, <1>6, <1>7, <1>8

\* What a run has read of the rules and the accounts.
SameReading(m, n) ==
    /\ n.offsets = m.offsets /\ n.edits = m.edits /\ n.number = m.number /\ n.day = m.day /\ n.due = m.due

(* A run that goes on with what it has read, and sends nothing, keeps the     *)
(* invariant if the step it takes in hand is one the log does not have, and   *)
(* no e-mail it sent is left behind.                                          *)
LEMMA ReadingKept ==
    ASSUME ChaseInv, NEW u \in Runs, run[u] # Nil, NEW n \in RunType, SameReading(run[u], n), n.todo \subseteq run[u].todo,
           run' = [run EXCEPT ![u] = n], UNCHANGED <<accountVars, rule, edits, begun, log, mails>>,
           run[u].hand # Nil => run[u].hand.result # "sent",
           n.hand # Nil => /\ n.number # 0 /\ n.hand.result # "sent" /\ n.hand.rule \in Steps(n, n.hand.about)
                           /\ n.hand.result = "unsent" =>
                                 \A i \in DOMAIN mails[n.hand.about] : LET e == mails[n.hand.about][i] IN
                                     e.rule = n.hand.rule /\ Logged(e) /\ e.logged < n.number => rule[n.hand.rule] = Removed
    PROVE  ChaseInv'
  <1>1. ChaseTyped /\ DunningTypeOK /\ UNCHANGED day
    BY DEF ChaseInv, ChaseTyped, accountVars
  <1>2. DunningTypeOK'
    BY <1>1 DEF DunningTypeOK, accountVars
  <1>3. RunStands(run[u])
    BY DEF ChaseInv
  <1>4. RunStands(n)'
    BY <1>1, <1>3 DEF RunStands, SameReading, Active, Kept, Steps, Due, DaysLate
  <1>5. HandStands(n)
    BY DEF HandStands
  <1>6. \A v \in Runs : v # u /\ run[v] # Nil => Agree(n, run[v]) /\ Agree(run[v], n)
    BY DEF ChaseInv, Agree, SameReading
  <1>7. ASSUME NEW r \in Receivables, NEW i \in DOMAIN mails[r] PROVE Knows(n, mails[r][i]) /\ Own(n, r, i)
    <2>1. Knows(run[u], mails[r][i]) /\ Own(run[u], r, i)
      BY DEF ChaseInv
    <2> QED
      BY <2>1 DEF Knows, Own, InHand, SameReading
  <1>8. begun <= begun'
    BY <1>1, CountersTyped
  <1> QED
    BY <1>2, <1>4, <1>5, <1>6, <1>7, <1>8, RunMoves

(* Looking at an account (dunning.service.ts:277-321): the step a run takes   *)
(* in hand is one the log does not have.                                      *)
LEMMA ConsiderMoves ==
    ASSUME ChaseInv, NEW u \in Runs, NEW r \in Receivables, Consider(u, r)
    PROVE  ChaseInv'
  <1> DEFINE m == run[u]
  <1>1. m # Nil /\ m.hand = Nil /\ r \in m.todo /\ UNCHANGED <<accountVars, rule, edits, begun, log, mails>>
    BY DEF Consider
  <1>2. ChaseTyped /\ run \in [Runs -> RunType \cup {Nil}]
    BY DEF ChaseInv, ChaseTyped
  <1>3. m \in RunType
    BY <1>1, <1>2
  <1>4. m.todo \in SUBSET Receivables /\ DOMAIN m.offsets \subseteq Rules /\ m.number # 0
    BY <1>1, <1>3, RunTyped DEF ChaseInv, RunStands
  <1>5. ASSUME NEW hand \in Hand \cup {Nil},
               run' = [run EXCEPT ![u] = [m EXCEPT !.todo = m.todo \ {r}, !.hand = hand]],
               hand # Nil => /\ hand.rule \in Steps(m, hand.about) /\ hand.result # "sent"
                             /\ hand.about \in Receivables /\ log[<<hand.about, hand.rule>>] = Nil
        PROVE  ChaseInv'
    <2> DEFINE n == [m EXCEPT !.todo = m.todo \ {r}, !.hand = hand]
    <2> HIDE DEF m, n
    <2>0. m.todo \ {r} \in SUBSET Receivables
      BY <1>4
    <2>1. n \in RunType /\ SameReading(m, n) /\ n.hand = hand /\ n.todo \subseteq m.todo
      <3> DEFINE l == [m EXCEPT !.todo = m.todo \ {r}]
      <3>1. l \in RunType /\ SameReading(m, l) /\ l.todo \subseteq m.todo
        BY <1>3, <2>0 DEF RunType, SameReading
      <3>2. n = [l EXCEPT !.hand = hand]
        BY DEF n
      <3> HIDE DEF l
      <3>3. n \in RunType /\ SameReading(l, n) /\ n.hand = hand /\ n.todo = l.todo
        BY <3>1, <3>2 DEF RunType, SameReading
      <3> QED
        BY <3>1, <3>3 DEF SameReading
    <2>2. run' = [run EXCEPT ![u] = n]
      BY <1>5 DEF n
    <2>3. ASSUME n.hand # Nil, NEW i \in DOMAIN mails[n.hand.about], mails[n.hand.about][i].rule = n.hand.rule,
                 Logged(mails[n.hand.about][i])
          PROVE  rule[n.hand.rule] = Removed
      <3>1. hand.about \in Receivables /\ log[<<hand.about, hand.rule>>] = Nil
        BY <1>5, <2>1, <2>3
      <3>2. MailStands(hand.about, mails[hand.about][i])
        BY <2>1, <2>3, <3>1 DEF ChaseInv
      <3> QED
        BY <2>1, <2>3, <3>1, <3>2 DEF MailStands
    <2>4. n.number # 0 /\ (n.hand # Nil => n.hand.rule \in Steps(n, n.hand.about) /\ n.hand.result # "sent")
      BY <1>4, <1>5, <2>1 DEF SameReading, Steps, Due, DaysLate, m
    <2> USE DEF m
    <2> QED
      BY <1>1, <2>1, <2>2, <2>3, <2>4, ReadingKept
  <1>6. CASE run' = [run EXCEPT ![u].todo = @ \ {r}]
    <2>1. [m EXCEPT !.todo = m.todo \ {r}, !.hand = Nil] = [m EXCEPT !.todo = m.todo \ {r}]
      BY <1>1, <1>3 DEF RunType
    <2>2. run' = [run EXCEPT ![u] = [m EXCEPT !.todo = m.todo \ {r}]]
      BY <1>2, <1>6
    <2> QED
      BY <1>5, <2>1, <2>2
  <1>7. ASSUME NEW k \in Steps(m, r), ~Already(r, k),
               run' = [run EXCEPT ![u].todo = @ \ {r},
                                  ![u].hand = [about |-> r, rule |-> k, mail |-> 0,
                                               result |-> IF r \in run[u].to THEN "unsent" ELSE "skipped"]]
        PROVE  ChaseInv'
    <2> DEFINE hand == [about |-> r, rule |-> k, mail |-> 0, result |-> IF r \in m.to THEN "unsent" ELSE "skipped"]
    <2>1. k \in Rules
      BY <1>4 DEF Steps, Due
    <2>2. hand \in Hand /\ hand.rule = k /\ hand.about = r /\ hand.result # "sent"
      BY <2>1 DEF Hand
    <2>3. run' = [run EXCEPT ![u] = [m EXCEPT !.todo = m.todo \ {r}, !.hand = hand]]
      BY <1>2, <1>7
    <2>4. log[<<hand.about, hand.rule>>] = Nil
      BY <1>7, <2>2 DEF Already
    <2> HIDE DEF hand
    <2> QED
      BY <1>5, <1>7, <2>2, <2>3, <2>4
  <1> QED
    BY <1>6, <1>7 DEF Consider

(* A run begins (dunning.service.ts:241-262): the rules it reads are those of *)
(* now.                                                                       *)
LEMMA BeginRunMoves ==
    ASSUME ChaseInv, NEW u \in Runs, BeginRun(u)
    PROVE  ChaseInv'
  <1>0. PICK n : n = [offsets |-> [k \in Active |-> rule[k].offset], edits |-> edits, number |-> 0,
                      day |-> day, due |-> due, todo |-> {}, to |-> {}, hand |-> Nil]
    OBVIOUS
  <1>1. /\ run[u] = Nil /\ UNCHANGED <<accountVars, rule, edits, begun, log, mails>>
        /\ run' = [run EXCEPT ![u] = n]
    BY <1>0 DEF BeginRun
  <1>2. ChaseTyped /\ DunningTypeOK /\ day \in Nat /\ edits \in Nat /\ begun \in Nat
    BY CountersTyped DEF ChaseInv, ChaseTyped
  <1>3. n \in RunType
    <2>1. \A k \in Active : rule[k] \in Rule
      BY <1>2 DEF DunningTypeOK, Active, Kept
    <2>2. \A k \in Active : rule[k].offset \in Offsets
      BY <2>1 DEF Rule
    <2>3. [k \in Active |-> rule[k].offset] \in [Active -> Offsets] /\ Active \in SUBSET Rules
      BY <2>2 DEF Active
    <2>4. [k \in Active |-> rule[k].offset] \in UNION {[K -> Offsets] : K \in SUBSET Rules}
      BY <2>3
    <2>5. due \in [Receivables -> Dues]
      BY <1>2 DEF DunningTypeOK
    <2> QED
      BY <1>0, <1>2, <2>4, <2>5 DEF RunType
  <1>4. /\ n.offsets = [k \in Active |-> rule[k].offset] /\ n.edits = edits /\ n.number = 0 /\ n.day = day
        /\ n.hand = Nil /\ n.todo = {}
    BY <1>0
  <1>5. DunningTypeOK'
    BY <1>1, <1>2 DEF DunningTypeOK, accountVars
  <1>6. UNCHANGED day /\ begun <= begun'
    BY <1>1, <1>2 DEF accountVars
  <1>7. RunStands(n)' /\ HandStands(n)
    BY <1>1, <1>2, <1>4, <1>6 DEF RunStands, HandStands, Active, Kept
  <1>8. ASSUME NEW v \in Runs, run[v] # Nil PROVE Agree(n, run[v]) /\ Agree(run[v], n)
    <2>1. RunStands(run[v]) /\ run[v] \in RunType
      BY <1>2, <1>8 DEF ChaseInv, ChaseTyped
    <2>2. run[v].number \in Nat
      BY <2>1, RunTyped
    <2> QED
      BY <1>4, <2>1, <2>2 DEF Agree, RunStands
  <1>9. ASSUME NEW r \in Receivables, NEW i \in DOMAIN mails[r] PROVE Knows(n, mails[r][i]) /\ Own(n, r, i)
    <2>1. MailStands(r, mails[r][i]) /\ mails[r][i].run \in Nat
      BY <1>2, MailTyped DEF ChaseInv
    <2> QED
      BY <1>2, <1>4, <2>1 DEF Knows, Own, MailStands
  <1> QED
    BY <1>1, <1>3, <1>5, <1>6, <1>7, <1>8, <1>9, RunMoves

(* A run reads the accounts and the day (dunning.service.ts:264-275): it is   *)
(* the last to do so, on a day no earlier than any before.                    *)
LEMMA ReadAccountsMoves ==
    ASSUME ChaseInv, NEW u \in Runs, ReadAccounts(u)
    PROVE  ChaseInv'
  <1> DEFINE m == run[u]
  <1>0. PICK n : n = [m EXCEPT !.number = begun + 1, !.day = day, !.due = due, !.todo = open, !.to = reachable]
    OBVIOUS
  <1>1. /\ m # Nil /\ m.number = 0 /\ begun' = begun + 1 /\ begun < MaxRuns
        /\ UNCHANGED <<accountVars, rule, edits, log, mails>>
    BY DEF ReadAccounts
  <1>2. ChaseTyped /\ DunningTypeOK /\ day \in Nat /\ edits \in Nat /\ begun \in Nat
    BY CountersTyped DEF ChaseInv, ChaseTyped
  <1>3. m \in RunType /\ RunStands(m)
    BY <1>1, <1>2 DEF ChaseInv, ChaseTyped
  <1>4. run' = [run EXCEPT ![u] = n]
    BY <1>0, <1>2 DEF ReadAccounts, ChaseTyped
  <1>5. m.hand = Nil
    BY <1>1, <1>3 DEF RunStands
  <1>6. due \in [Receivables -> Dues] /\ open \in SUBSET Receivables /\ reachable \in SUBSET Receivables
    BY <1>2 DEF DunningTypeOK
  <1> HIDE DEF m
  <1>7. /\ n \in RunType /\ n.offsets = m.offsets /\ n.edits = m.edits /\ n.number = begun + 1 /\ n.day = day
        /\ n.hand = Nil
    <2> DEFINE x == [m EXCEPT !.number = begun + 1]
               y == [x EXCEPT !.day = day]
               z == [y EXCEPT !.due = due]
               w == [z EXCEPT !.todo = open]
    <2>1. n = [w EXCEPT !.to = reachable]
      BY <1>0
    <2>2. /\ x \in RunType /\ x.offsets = m.offsets /\ x.edits = m.edits /\ x.number = begun + 1 /\ x.hand = m.hand
      BY <1>2, <1>3 DEF RunType
    <2> HIDE DEF x
    <2>3. /\ y \in RunType /\ y.offsets = x.offsets /\ y.edits = x.edits /\ y.number = x.number /\ y.hand = x.hand
          /\ y.day = day
      BY <1>2, <2>2 DEF RunType
    <2> HIDE DEF y
    <2>4. /\ z \in RunType /\ z.offsets = y.offsets /\ z.edits = y.edits /\ z.number = y.number /\ z.hand = y.hand
          /\ z.day = y.day
      BY <1>6, <2>3 DEF RunType
    <2> HIDE DEF z
    <2>5. /\ w \in RunType /\ w.offsets = z.offsets /\ w.edits = z.edits /\ w.number = z.number /\ w.hand = z.hand
          /\ w.day = z.day
      BY <1>6, <2>4 DEF RunType
    <2> HIDE DEF w
    <2>6. /\ n \in RunType /\ n.offsets = w.offsets /\ n.edits = w.edits /\ n.number = w.number /\ n.hand = w.hand
          /\ n.day = w.day
      BY <1>6, <2>1, <2>5 DEF RunType
    <2> QED
      BY <1>5, <2>2, <2>3, <2>4, <2>5, <2>6
  <1>8. begun + 1 \in 0..MaxRuns /\ begun <= begun' /\ UNCHANGED day
    BY <1>1, <1>2, DunningAssumption DEF accountVars
  <1>9. DunningTypeOK'
    BY <1>1, <1>2, <1>8 DEF DunningTypeOK, accountVars
  <1>10. RunStands(n)' /\ HandStands(n)
    BY <1>1, <1>2, <1>3, <1>7, <1>8 DEF RunStands, HandStands, Active, Kept
  <1>11. ASSUME NEW v \in Runs, v # u, run[v] # Nil PROVE Agree(n, run[v]) /\ Agree(run[v], n)
    <2>1. RunStands(run[v]) /\ run[v] \in RunType /\ Agree(m, run[v])
      BY <1>1, <1>2, <1>11 DEF ChaseInv, ChaseTyped, m
    <2>2. run[v].number \in Nat
      BY <2>1, RunTyped
    <2> QED
      BY <1>2, <1>7, <2>1, <2>2 DEF Agree, RunStands
  <1>12. ASSUME NEW r \in Receivables, NEW i \in DOMAIN mails[r] PROVE Knows(n, mails[r][i]) /\ Own(n, r, i)
    <2>1. MailStands(r, mails[r][i]) /\ mails[r][i].run \in Nat /\ Knows(m, mails[r][i])
      BY <1>1, <1>2, MailTyped DEF ChaseInv, m
    <2> QED
      BY <1>2, <1>7, <2>1 DEF Knows, Own, MailStands
  <1> QED
    BY <1>1, <1>4, <1>7, <1>8, <1>9, <1>10, <1>11, <1>12, RunMoves

(* Sending (dunning.service.ts:322-333): what a run sends was not logged      *)
(* before it began, and is no milder than what a run before it sent.          *)
LEMMA SendMoves ==
    ASSUME ChaseInv, NEW u \in Runs, NEW sent \in BOOLEAN, Send(u, sent)
    PROVE  ChaseInv'
  <1> DEFINE m == run[u]
             a == m.hand.about
             k == m.hand.rule
             hand == [m.hand EXCEPT !.result = IF sent THEN "sent" ELSE "failed", !.mail = Len(mails[a]) + 1]
  <1>1. /\ m # Nil /\ m.hand # Nil /\ m.hand.result = "unsent"
        /\ UNCHANGED <<accountVars, rule, edits, begun, log>>
    BY DEF Send
  <1>2. ChaseTyped /\ DunningTypeOK /\ UNCHANGED day /\ day \in Nat /\ edits \in Nat /\ begun \in Nat
    BY <1>1, CountersTyped DEF ChaseInv, ChaseTyped, accountVars
  <1>3. m \in RunType /\ RunStands(m) /\ HandStands(m)
    BY <1>1, <1>2 DEF ChaseInv, ChaseTyped
  <1>4. /\ m.hand \in Hand /\ m.day \in Nat /\ m.edits \in Nat /\ m.number \in Nat
        /\ m.due \in [Receivables -> Dues] /\ \A r \in Receivables : m.due[r] \in Int
        /\ \A j \in DOMAIN m.offsets : m.offsets[j] \in Offsets /\ m.offsets[j] \in Int
    BY <1>1, <1>3, RunTyped
  <1>5. a \in Receivables /\ k \in Rules /\ mails[a] \in Seq(MailType) /\ Len(mails[a]) \in Nat
    BY <1>2, <1>4, HandTyped DEF ChaseTyped
  <1>6. /\ m.number # 0 /\ k \in Steps(m, a) /\ k \in DOMAIN m.offsets /\ m.offsets[k] <= m.day - m.due[a]
        /\ \A i \in DOMAIN mails[a] :
              mails[a][i].rule = k /\ Logged(mails[a][i]) /\ mails[a][i].logged < m.number => rule[k] = Removed
    BY <1>1, <1>3 DEF RunStands, HandStands, Steps, Due, DaysLate
  <1>7. /\ hand \in Hand /\ hand.about = a /\ hand.rule = k /\ hand.mail = Len(mails[a]) + 1
        /\ hand.result = IF sent THEN "sent" ELSE "failed"
    <2> DEFINE sending(h, result, mail) == [h EXCEPT !.result = result, !.mail = mail]
    <2>1. ASSUME NEW h \in Hand, NEW mail \in Nat, NEW result \in {"sent", "failed"}
          PROVE  /\ sending(h, result, mail) \in Hand
                 /\ sending(h, result, mail).about = h.about /\ sending(h, result, mail).rule = h.rule
                 /\ sending(h, result, mail).mail = mail /\ sending(h, result, mail).result = result
      <3> DEFINE g == [h EXCEPT !.result = result]
      <3>1. g \in Hand /\ g.about = h.about /\ g.rule = h.rule /\ g.result = result
        BY DEF Hand
      <3>2. \A f \in Hand : LET e == [f EXCEPT !.mail = mail] IN
               e \in Hand /\ e.about = f.about /\ e.rule = f.rule /\ e.mail = mail /\ e.result = f.result
        BY DEF Hand
      <3>3. sending(h, result, mail) = [g EXCEPT !.mail = mail]
        OBVIOUS
      <3> HIDE DEF g, sending
      <3> QED
        BY <3>1, <3>2, <3>3
    <2>2. PICK h, mail, result : h = m.hand /\ mail = Len(mails[a]) + 1 /\ result = IF sent THEN "sent" ELSE "failed"
      OBVIOUS
    <2>3. h \in Hand /\ mail \in Nat /\ result \in {"sent", "failed"}
      BY <1>4, <1>5, <2>2
    <2>4. hand = sending(h, result, mail) /\ h.about = a /\ h.rule = k
      BY <2>2
    <2> HIDE DEF hand, sending, a, k, m
    <2>5. hand \in Hand /\ hand.about = a /\ hand.rule = k /\ hand.mail = mail /\ hand.result = result
      BY <2>1, <2>3, <2>4
    <2> QED
      BY <2>2, <2>5
  <1>8. PICK n : n = [m EXCEPT !.hand = hand]
    OBVIOUS
  <1>9. run' = [run EXCEPT ![u] = n]
    <2>1. run \in [Runs -> RunType \cup {Nil}]
      BY <1>2 DEF ChaseTyped
    <2>2. run' = [run EXCEPT ![u].hand.result = IF sent THEN "sent" ELSE "failed",
                             ![u].hand.mail = Len(mails[run[u].hand.about]) + 1]
      BY DEF Send
    <2>3. n = [[m EXCEPT !.hand.result = IF sent THEN "sent" ELSE "failed"] EXCEPT !.hand.mail = Len(mails[a]) + 1]
      BY <1>3, <1>8 DEF RunType
    <2> QED
      BY <2>1, <2>2, <2>3
  <1>10. PICK x : x = [rule |-> k, offset |-> m.offsets[k], edits |-> m.edits, run |-> m.number, day |-> m.day,
                       due |-> m.due[a], logged |-> 0]
    OBVIOUS
  <1>11. mails' = IF ~sent THEN mails ELSE [mails EXCEPT ![a] = Append(@, x)]
    BY <1>10 DEF Send
  <1>12. /\ x \in MailType /\ x.rule = k /\ x.offset = m.offsets[k] /\ x.edits = m.edits /\ x.run = m.number
         /\ x.day = m.day /\ x.due = m.due[a] /\ x.logged = 0 /\ ~Logged(x)
    <2>1. m.due[a] \in Dues
      BY <1>4, <1>5
    <2> QED
      BY <1>4, <1>5, <1>6, <1>10, <2>1 DEF MailType, Logged
  <1> HIDE DEF m, a, k, hand
  <1>13. n \in RunType /\ SameReading(m, n) /\ n.hand = hand /\ n.todo = m.todo /\ hand # Nil
    BY <1>3, <1>7, <1>8, DunningAssumption DEF RunType, SameReading
  <1>14. CASE ~sent
    <2>1. UNCHANGED mails
      BY <1>11, <1>14
    <2>2. /\ n.number # 0 /\ n.hand.result # "sent" /\ n.hand.result # "unsent" /\ n.hand.rule \in Steps(n, n.hand.about)
      BY <1>6, <1>7, <1>13, <1>14 DEF SameReading, Steps, Due, DaysLate
    <2> QED
      BY <1>1, <1>9, <1>13, <2>1, <2>2, ReadingKept DEF m
  <1>15. CASE sent
    <2> DEFINE l == Len(mails[a]) + 1
    <2>1. /\ mails' = [mails EXCEPT ![a] = Append(@, x)]
          /\ \A r \in Receivables : mails'[r] = IF r = a THEN Append(mails[a], x) ELSE mails[r]
      BY <1>2, <1>11, <1>15 DEF ChaseTyped
    <2>2. /\ Append(mails[a], x) \in Seq(MailType) /\ DOMAIN Append(mails[a], x) = 1..l
          /\ Append(mails[a], x)[l] = x /\ \A i \in 1..Len(mails[a]) : Append(mails[a], x)[i] = mails[a][i]
          /\ DOMAIN mails[a] = 1..Len(mails[a])
      BY <1>5, <1>12
    <2>3. mails' \in [Receivables -> Seq(MailType)]
      BY <1>2, <2>1, <2>2 DEF ChaseTyped
    <2>4. DunningTypeOK' /\ run' \in [Runs -> RunType \cup {Nil}]
      BY <1>1, <1>2, <1>9, <1>13 DEF DunningTypeOK, ChaseTyped, accountVars
    <2>5. ChaseTyped'
      BY <2>3, <2>4 DEF ChaseTyped
    <2>6. ASSUME NEW r \in Receivables, NEW i \in DOMAIN mails'[r]
          PROVE  (i \in DOMAIN mails[r] /\ mails'[r][i] = mails[r][i]) \/ (r = a /\ i = l /\ mails'[r][i] = x)
      BY <1>5, <2>1, <2>2
    <2>7. \A r \in Receivables : \A i \in DOMAIN mails[r] : i \in DOMAIN mails'[r] /\ mails'[r][i] = mails[r][i]
      BY <1>5, <2>1, <2>2
    <2>8. l \in DOMAIN mails'[a] /\ mails'[a][l] = x
      <3>1. mails'[a] = Append(mails[a], x)
        BY <1>5, <2>1
      <3>2. l \in 1..l
        BY <1>5
      <3> QED
        BY <2>2, <3>1, <3>2
    <2>9. \A i \in DOMAIN mails[a] : i # l
      BY <1>5, <2>2
    <2> HIDE DEF l
    <2>10. \A v \in Runs : run'[v] = IF v = u THEN n ELSE run[v]
      BY <1>2, <1>9 DEF ChaseTyped
    <2>11. ASSUME NEW v \in Runs, run[v] # Nil
           PROVE  /\ run[v] \in RunType /\ run[v].edits \in Nat /\ run[v].number \in Nat /\ run[v].day \in Nat
                  /\ RunStands(run[v]) /\ HandStands(run[v])
                  /\ v # u => Agree(m, run[v]) /\ Agree(run[v], m)
                  /\ \A r \in Receivables : \A i \in DOMAIN mails[r] : Knows(run[v], mails[r][i]) /\ Own(run[v], r, i)
      <3>1. run[v] \in RunType
        BY <1>2, <2>11 DEF ChaseTyped
      <3> QED
        BY <1>1, <2>11, <3>1, RunTyped DEF ChaseInv, m
    <2>12. ASSUME NEW r \in Receivables, r = a PROVE MailStands(r, x)'
      <3>1. x.edits <= edits /\ x.day <= day /\ x.run \in 1..begun
        BY <1>2, <1>3, <1>4, <1>6, <1>12 DEF RunStands
      <3>2. x.edits = edits => k \in Active /\ m.offsets[k] = rule[k].offset
        BY <1>3, <1>6, <1>12 DEF RunStands
      <3>3. x.offset <= x.day - x.due
        BY <1>6, <1>12
      <3> QED
        BY <1>1, <1>2, <1>12, <2>12, <3>1, <3>2, <3>3 DEF MailStands, Active, Kept, Logged
    <2>13. ASSUME NEW r \in Receivables, NEW i \in DOMAIN mails'[r] PROVE MailStands(r, mails[r][i])'
      <3>1. CASE i \in DOMAIN mails[r] /\ mails'[r][i] = mails[r][i]
        <4>1. MailStands(r, mails[r][i])
          BY <3>1 DEF ChaseInv
        <4> QED
          BY <1>1, <1>2, <3>1, <4>1 DEF MailStands, Active, Kept, Logged
      <3>2. CASE r = a /\ i = l /\ mails'[r][i] = x
        BY <2>12, <3>2 DEF MailStands, Active, Kept, Logged
      <3> QED
        BY <2>6, <3>1, <3>2
    <2>14. ASSUME NEW v \in Runs, run'[v] # Nil PROVE RunStands(run[v])'
      <3>1. CASE v = u
        <4>1. run'[v] = n /\ n.number # 0 /\ n.hand.rule \in Steps(n, n.hand.about)
          BY <1>6, <1>7, <1>13, <2>10, <3>1 DEF SameReading, Steps, Due, DaysLate
        <4>2. n.edits <= edits /\ n.number <= begun /\ n.day <= day
              /\ (n.edits = edits => n.offsets = [q \in Active |-> rule[q].offset])
          BY <1>3, <1>13 DEF SameReading, RunStands
        <4> QED
          BY <1>1, <1>2, <4>1, <4>2 DEF RunStands, Active, Kept, Steps, Due, DaysLate
      <3>2. CASE v # u
        BY <1>1, <1>2, <2>10, <2>11, <2>14, <3>2 DEF RunStands, Active, Kept, Steps, Due, DaysLate
      <3> QED
        BY <3>1, <3>2
    <2>15. ASSUME NEW v \in Runs, run'[v] # Nil PROVE HandStands(run[v])'
      <3>1. CASE v = u
        <4>1. run'[v] = n /\ n.hand = hand /\ n.number = m.number
          BY <1>13, <2>10, <3>1 DEF SameReading
        <4>2. hand.result = "sent" /\ hand.about = a /\ hand.mail = l /\ hand.rule = k
          BY <1>7, <1>15 DEF l
        <4> QED
          BY <1>12, <2>8, <4>1, <4>2 DEF HandStands, Logged
      <3>2. CASE v # u /\ run[v].hand # Nil
        <4>1. run'[v] = run[v] /\ run[v] # Nil
          BY <2>10, <2>15, <3>2
        <4>2. HandStands(run[v]) /\ run[v].hand \in Hand
          BY <2>11, <3>2, <4>1, RunTyped
        <4> DEFINE b == run[v].hand.about
        <4>3. b \in Receivables
          BY <4>2, HandTyped
        <4>4. ASSUME NEW i \in DOMAIN mails'[b], run[v].hand.result = "unsent", mails'[b][i].rule = run[v].hand.rule,
                     Logged(mails'[b][i]), mails'[b][i].logged < run[v].number
              PROVE  rule[run[v].hand.rule] = Removed
          <5>1. i \in DOMAIN mails[b] /\ mails'[b][i] = mails[b][i]
            BY <1>12, <2>6, <4>3, <4>4
          <5> QED
            BY <3>2, <4>2, <4>4, <5>1 DEF HandStands
        <4>5. ASSUME run[v].hand.result = "sent"
              PROVE  /\ run[v].hand.mail \in DOMAIN mails'[b] /\ ~Logged(mails'[b][run[v].hand.mail])
                     /\ mails'[b][run[v].hand.mail].rule = run[v].hand.rule
                     /\ mails'[b][run[v].hand.mail].run = run[v].number
          BY <2>7, <3>2, <4>2, <4>3, <4>5 DEF HandStands
        <4> QED
          BY <1>1, <4>1, <4>4, <4>5 DEF HandStands, Logged
      <3>3. CASE v # u /\ run[v].hand = Nil
        BY <2>10, <3>3 DEF HandStands
      <3> QED
        BY <3>1, <3>2, <3>3
    <2>16. \A v, w \in Runs : v # w /\ run'[v] # Nil /\ run'[w] # Nil => Agree(run[v], run[w])'
      <3>1. ASSUME NEW v \in Runs, run'[v] # Nil, v # u PROVE Agree(n, run'[v]) /\ Agree(run'[v], n)
        BY <1>13, <2>10, <2>11, <3>1 DEF Agree, SameReading
      <3> QED
        BY <2>10, <3>1 DEF ChaseInv, Agree
    <2>17. ASSUME NEW v \in Runs, run'[v] # Nil, NEW r \in Receivables, NEW i \in DOMAIN mails'[r]
           PROVE  Knows(run'[v], mails'[r][i])
      <3>1. CASE i \in DOMAIN mails[r] /\ mails'[r][i] = mails[r][i]
        <4>1. Knows(run[v], mails[r][i]) /\ (v # u => run'[v] = run[v]) /\ (v = u => run'[v] = n /\ run[v] = m)
          BY <1>1, <2>10, <2>11, <2>17, <3>1 DEF m
        <4> QED
          BY <1>13, <3>1, <4>1 DEF Knows, SameReading
      <3>2. CASE r = a /\ i = l /\ mails'[r][i] = x
        <4>1. CASE v = u
          BY <1>4, <1>6, <1>12, <1>13, <2>10, <3>2, <4>1 DEF Knows, SameReading
        <4>2. CASE v # u
          <5>1. run'[v] = run[v] /\ Agree(m, run[v]) /\ run[v].number \in Nat /\ run[v].day \in Nat
            BY <2>10, <2>11, <2>17, <4>2
          <5> QED
            BY <1>4, <1>6, <1>12, <3>2, <5>1 DEF Knows, Agree
        <4> QED
          BY <4>1, <4>2
      <3> QED
        BY <2>6, <3>1, <3>2
    <2>18. ASSUME NEW v \in Runs, run'[v] # Nil, NEW r \in Receivables, NEW i \in DOMAIN mails'[r],
                  mails'[r][i].run = run'[v].number, ~Logged(mails'[r][i])
           PROVE  InHand(run'[v], r, i)
      <3>1. CASE i \in DOMAIN mails[r] /\ mails'[r][i] = mails[r][i]
        <4>1. CASE v # u
          BY <2>10, <2>11, <2>18, <3>1, <4>1 DEF Own, InHand
        <4>2. CASE v = u
          <5>1. mails[r][i].run = m.number /\ ~Logged(mails[r][i])
            BY <1>13, <2>10, <2>18, <3>1, <4>2 DEF SameReading
          <5> QED
            BY <1>1, <2>11, <3>1, <5>1 DEF Own, InHand, m
        <4> QED
          BY <4>1, <4>2
      <3>2. CASE r = a /\ i = l /\ mails'[r][i] = x
        <4>1. CASE v = u
          BY <1>7, <1>13, <1>15, <2>10, <2>18, <3>2, <4>1 DEF InHand, l
        <4>2. CASE v # u
          <5>1. run'[v] = run[v] /\ Agree(m, run[v])
            BY <2>10, <2>11, <2>18, <4>2
          <5> QED
            BY <1>6, <1>12, <2>18, <3>2, <5>1 DEF Agree
        <4> QED
          BY <4>1, <4>2
      <3> QED
        BY <2>6, <3>1, <3>2
    <2>19. \A v \in Runs : run'[v] # Nil =>
              \A r \in Receivables : \A i \in DOMAIN mails'[r] : (Knows(run[v], mails[r][i]) /\ Own(run[v], r, i))'
      BY <2>17, <2>18 DEF Knows, Own, InHand, Logged
    <2>20. LoggedOnce'
      <3>1. ASSUME NEW r \in Receivables, NEW i \in DOMAIN mails'[r], NEW j \in DOMAIN mails'[r], i # j,
                   Logged(mails'[r][i]), Logged(mails'[r][j])
            PROVE  mails'[r][i].rule # mails'[r][j].rule
        <4>1. /\ i \in DOMAIN mails[r] /\ mails'[r][i] = mails[r][i]
              /\ j \in DOMAIN mails[r] /\ mails'[r][j] = mails[r][j]
          BY <1>12, <2>6, <3>1
        <4> QED
          BY <3>1, <4>1 DEF ChaseInv, ChasingEscalates, LoggedOnce
      <3> QED
        BY <3>1 DEF LoggedOnce, Logged
    <2>21. OneUnlogged'
      <3>1. ASSUME NEW r \in Receivables, NEW i \in DOMAIN mails[r], mails[r][i].run = x.run PROVE Logged(mails[r][i])
        <4>1. Own(m, r, i)
          BY <1>1, <2>11, <3>1 DEF m
        <4> QED
          BY <1>1, <1>12, <3>1, <4>1 DEF Own, InHand
      <3>2. ASSUME NEW r \in Receivables, NEW z \in Receivables, NEW i \in DOMAIN mails'[r], NEW j \in DOMAIN mails'[z],
                   mails'[r][i].run = mails'[z][j].run, ~Logged(mails'[r][i]), ~Logged(mails'[z][j])
            PROVE  r = z /\ i = j
        <4>1. CASE /\ i \in DOMAIN mails[r] /\ mails'[r][i] = mails[r][i]
                   /\ j \in DOMAIN mails[z] /\ mails'[z][j] = mails[z][j]
          BY <3>2, <4>1 DEF ChaseInv, ChasingEscalates, OneUnlogged
        <4>2. CASE r = a /\ i = l /\ mails'[r][i] = x
          <5>1. ~(j \in DOMAIN mails[z] /\ mails'[z][j] = mails[z][j])
            BY <3>1, <3>2, <4>2
          <5> QED
            BY <2>6, <4>2, <5>1
        <4>3. CASE z = a /\ j = l /\ mails'[z][j] = x
          <5>1. ~(i \in DOMAIN mails[r] /\ mails'[r][i] = mails[r][i])
            BY <3>1, <3>2, <4>3
          <5> QED
            BY <2>6, <4>3, <5>1
        <4> QED
          BY <2>6, <4>1, <4>2, <4>3
      <3> QED
        BY <3>2 DEF OneUnlogged, Logged
    <2>22. ASSUME NEW r \in Receivables, NEW i \in DOMAIN mails'[r], NEW j \in DOMAIN mails'[r], i < j
           PROVE  i \in DOMAIN mails[r] /\ mails'[r][i] = mails[r][i]
      <3>1. ~(r = a /\ i = l)
        BY <1>5, <2>1, <2>2, <2>22 DEF l
      <3> QED
        BY <2>6, <3>1
    <2>23. NoRepeat'
      <3>1. ASSUME NEW r \in Receivables, NEW i \in DOMAIN mails'[r], NEW j \in DOMAIN mails'[r], i < j,
                   mails'[r][i].rule = mails'[r][j].rule, Logged(mails'[r][i]), mails'[r][i].logged < mails'[r][j].run
            PROVE  rule[mails'[r][i].rule] = Removed
        <4>1. i \in DOMAIN mails[r] /\ mails'[r][i] = mails[r][i]
          BY <2>22, <3>1
        <4>2. CASE j \in DOMAIN mails[r] /\ mails'[r][j] = mails[r][j]
          BY <3>1, <4>1, <4>2 DEF ChaseInv, ChasingEscalates, NoRepeat
        <4>3. CASE r = a /\ j = l /\ mails'[r][j] = x
          BY <1>6, <1>12, <3>1, <4>1, <4>3
        <4> QED
          BY <2>6, <4>2, <4>3
      <3> QED
        BY <1>1, <3>1 DEF NoRepeat, Logged
    <2>24. MorePressing'
      <3>1. ASSUME NEW r \in Receivables, NEW i \in DOMAIN mails'[r], NEW j \in DOMAIN mails'[r], i < j,
                   mails'[r][i].edits = mails'[r][j].edits, mails'[r][i].run <= mails'[r][j].run,
                   mails'[r][j].due <= mails'[r][i].due
            PROVE  mails'[r][i].offset <= mails'[r][j].offset
        <4>1. i \in DOMAIN mails[r] /\ mails'[r][i] = mails[r][i]
          BY <2>22, <3>1
        <4>2. CASE j \in DOMAIN mails[r] /\ mails'[r][j] = mails[r][j]
          BY <3>1, <4>1, <4>2 DEF ChaseInv, ChasingEscalates, MorePressing
        <4>3. CASE r = a /\ j = l /\ mails'[r][j] = x
          <5> DEFINE first == mails[a][i]
          <5>1. first.edits = m.edits /\ first.run <= m.number /\ m.due[a] <= first.due
            BY <1>12, <3>1, <4>1, <4>3
          <5>2. Knows(m, first) /\ MailStands(a, first)
            BY <1>1, <1>5, <2>11, <4>1, <4>3 DEF m, ChaseInv
          <5>3. first.offset \in Int /\ first.day \in Nat /\ first.due \in Int /\ m.due[a] \in Int
            BY <1>2, <1>4, <1>5, <4>1, <4>3, MailTyped
          <5> HIDE DEF first
          <5>4. first.rule \in DOMAIN m.offsets /\ first.offset = m.offsets[first.rule]
            BY <5>1, <5>2 DEF Knows
          <5>5. first.day <= m.day /\ first.offset <= first.day - first.due
            BY <5>1, <5>2 DEF Knows, MailStands
          <5>6. first.offset <= m.day - m.due[a]
            BY <1>4, <5>1, <5>3, <5>5
          <5>7. first.rule \in Due(m, a)
            BY <5>4, <5>6 DEF Due, DaysLate
          <5>8. first.offset <= m.offsets[k]
            BY <1>6, <5>4, <5>7 DEF Steps
          <5> QED
            BY <1>12, <4>1, <4>3, <5>8 DEF first
        <4> QED
          BY <2>6, <4>2, <4>3
      <3> QED
        BY <3>1 DEF MorePressing
    <2>25. ChasingEscalates'
      BY <2>20, <2>21, <2>23, <2>24 DEF ChasingEscalates
    <2> QED
      BY <2>5, <2>13, <2>14, <2>15, <2>16, <2>19, <2>25 DEF ChaseInv
  <1> QED
    BY <1>14, <1>15

(* Logging (dunning.service.ts:335-346): the step was in no log, and no run   *)
(* under way began later.                                                     *)
LEMMA InsertLogMoves ==
    ASSUME ChaseInv, NEW u \in Runs, InsertLog(u)
    PROVE  ChaseInv'
  <1> DEFINE m == run[u]
             a == m.hand.about
             k == m.hand.rule
  <1>1. /\ m # Nil /\ m.hand # Nil /\ m.hand.result # "unsent"
        /\ UNCHANGED <<accountVars, rule, edits, begun>>
    BY DEF InsertLog
  <1>2. ChaseTyped /\ DunningTypeOK /\ UNCHANGED day /\ day \in Nat /\ edits \in Nat /\ begun \in Nat
    BY <1>1, CountersTyped DEF ChaseInv, ChaseTyped, accountVars
  <1>3. m \in RunType /\ RunStands(m) /\ HandStands(m)
    BY <1>1, <1>2 DEF ChaseInv, ChaseTyped
  <1>4. m.hand \in Hand /\ m.number \in Nat /\ m.number # 0 /\ m.number <= begun /\ begun # 0
    BY <1>1, <1>2, <1>3, RunTyped DEF RunStands
  <1>5. /\ a \in Receivables /\ k \in Rules /\ mails[a] \in Seq(MailType) /\ m.hand.mail \in Nat
        /\ m.hand.result \in {"sent", "failed", "skipped"}
    BY <1>1, <1>2, <1>4, HandTyped DEF ChaseTyped
  <1>6. CASE run' = [run EXCEPT ![u] = Nil] /\ UNCHANGED <<log, mails>>
    <2>1. DunningTypeOK' /\ begun <= begun'
      BY <1>1, <1>2, <1>6 DEF DunningTypeOK, accountVars
    <2> QED
      BY <1>1, <1>6, <2>1, RunMoves
  <1>7. CASE /\ log[<<a, k>>] = Nil /\ rule[k] # Removed
             /\ log' = [log EXCEPT ![<<a, k>>] = m.hand.result]
             /\ run' = [run EXCEPT ![u].hand = Nil]
             /\ mails' = IF m.hand.result # "sent" THEN mails
                         ELSE [mails EXCEPT ![a][m.hand.mail].logged = begun]
    <2> DEFINE hit(r, i) == m.hand.result = "sent" /\ r = a /\ i = m.hand.mail
               y(q) == [q EXCEPT !.logged = begun]
    <2>1. log \in [Receivables \X Rules -> {"sent", "failed", "skipped", Nil}] /\ <<a, k>> \in Receivables \X Rules
      BY <1>2, <1>5 DEF DunningTypeOK
    <2>2. /\ log' \in [Receivables \X Rules -> {"sent", "failed", "skipped", Nil}]
          /\ \A r \in Receivables, j \in Rules :
                log'[<<r, j>>] = IF r = a /\ j = k THEN m.hand.result ELSE log[<<r, j>>]
      BY <1>5, <1>7, <2>1
    <2>3. log'[<<a, k>>] # Nil /\ \A r \in Receivables, j \in Rules : log[<<r, j>>] # Nil => log'[<<r, j>>] # Nil
      BY <1>5, <2>2, DunningAssumption
    <2>4. run \in [Runs -> RunType \cup {Nil}] /\ mails \in [Receivables -> Seq(MailType)]
      BY <1>2 DEF ChaseTyped
    <2>5. PICK n : n = [m EXCEPT !.hand = Nil]
      OBVIOUS
    <2>6. n \in RunType /\ SameReading(m, n) /\ n.hand = Nil /\ n.todo = m.todo
      BY <1>3, <2>5 DEF RunType, SameReading
    <2>7. run' = [run EXCEPT ![u] = n]
      BY <1>7, <2>4, <2>5
    <2>8. m.hand.result = "sent" => /\ m.hand.mail \in DOMAIN mails[a] /\ mails[a][m.hand.mail].rule = k
                                    /\ mails[a][m.hand.mail].run = m.number /\ ~Logged(mails[a][m.hand.mail])
      BY <1>1, <1>3 DEF HandStands
    <2> HIDE DEF m, a, k
    <2>9. \A v \in Runs : run'[v] = IF v = u THEN n ELSE run[v]
      BY <2>4, <2>7
    <2>10. \A q \in MailType : /\ y(q) \in MailType /\ y(q).rule = q.rule /\ y(q).offset = q.offset
                               /\ y(q).edits = q.edits /\ y(q).run = q.run /\ y(q).day = q.day /\ y(q).due = q.due
                               /\ y(q).logged = begun
      BY <1>2 DEF MailType
    <2> HIDE DEF y
    <2>11. /\ mails' \in [Receivables -> Seq(MailType)]
           /\ \A r \in Receivables : /\ DOMAIN mails'[r] = DOMAIN mails[r]
                                     /\ \A i \in DOMAIN mails[r] :
                                           mails'[r][i] = IF hit(r, i) THEN y(mails[r][i]) ELSE mails[r][i]
      <3>1. CASE m.hand.result # "sent"
        BY <1>7, <2>4, <3>1
      <3>2. CASE m.hand.result = "sent"
        <4> DEFINE s == [mails[a] EXCEPT ![m.hand.mail] = y(mails[a][m.hand.mail])]
        <4>1. mails' = [mails EXCEPT ![a] = s]
          BY <1>5, <1>7, <2>4, <3>2 DEF y
        <4>2. mails[a][m.hand.mail] \in MailType
          BY <1>5, <2>8, <3>2
        <4>3. y(mails[a][m.hand.mail]) \in MailType
          BY <2>10, <4>2
        <4>4. /\ s \in Seq(MailType) /\ DOMAIN s = DOMAIN mails[a]
              /\ \A i \in DOMAIN s : s[i] = IF i = m.hand.mail THEN y(mails[a][i]) ELSE mails[a][i]
          BY <1>5, <2>8, <3>2, <4>3
        <4> HIDE DEF s
        <4>5. \A r \in Receivables : mails'[r] = IF r = a THEN s ELSE mails[r]
          BY <2>4, <4>1
        <4>6. mails' \in [Receivables -> Seq(MailType)]
          BY <2>4, <4>1, <4>4
        <4> QED
          BY <3>2, <4>4, <4>5, <4>6
      <3> QED
        BY <3>1, <3>2
    <2>12. ASSUME NEW r \in Receivables, NEW i \in DOMAIN mails[r]
           PROVE  /\ mails'[r][i].rule = mails[r][i].rule /\ mails'[r][i].offset = mails[r][i].offset
                  /\ mails'[r][i].edits = mails[r][i].edits /\ mails'[r][i].run = mails[r][i].run
                  /\ mails'[r][i].day = mails[r][i].day /\ mails'[r][i].due = mails[r][i].due
                  /\ mails'[r][i].logged = IF hit(r, i) THEN begun ELSE mails[r][i].logged
                  /\ Logged(mails'[r][i]) <=> Logged(mails[r][i]) \/ hit(r, i)
                  /\ mails[r][i].run \in Nat /\ mails[r][i].rule \in Rules /\ MailStands(r, mails[r][i])
      <3>1. mails[r][i] \in MailType
        BY <2>4
      <3>2. mails[r][i].run \in Nat /\ mails[r][i].rule \in Rules
        BY <1>2, MailTyped
      <3> QED
        BY <1>4, <2>10, <2>11, <3>1, <3>2 DEF Logged, ChaseInv
    <2>13. DunningTypeOK' /\ run' \in [Runs -> RunType \cup {Nil}]
      BY <1>1, <1>2, <2>2, <2>4, <2>6, <2>7 DEF DunningTypeOK, accountVars
    <2>14. ChaseTyped'
      BY <2>11, <2>13 DEF ChaseTyped
    <2> HIDE DEF hit
    <2>15. ASSUME NEW r \in Receivables, NEW i \in DOMAIN mails[r], hit(r, i)
           PROVE  mails[r][i].rule = k /\ mails[r][i].run = m.number /\ r = a /\ i = m.hand.mail /\ ~Logged(mails[r][i])
      BY <2>8, <2>15 DEF hit
    <2>16. ASSUME NEW r \in Receivables, NEW i \in DOMAIN mails'[r] PROVE MailStands(r, mails[r][i])'
      <3>1. i \in DOMAIN mails[r]
        BY <2>11
      <3>2. Logged(mails'[r][i]) => log'[<<r, mails[r][i].rule>>] # Nil \/ rule[mails[r][i].rule] = Removed
        BY <2>3, <2>12, <2>15, <3>1 DEF MailStands
      <3> QED
        BY <1>1, <1>2, <2>12, <3>1, <3>2 DEF MailStands, Active, Kept, Logged
    <2>17. ASSUME NEW v \in Runs, run'[v] # Nil, v # u
           PROVE  /\ run'[v] = run[v] /\ run[v] # Nil /\ run[v] \in RunType /\ run[v].number \in Nat
                  /\ run[v].hand \in Hand \cup {Nil} /\ RunStands(run[v]) /\ HandStands(run[v]) /\ Agree(m, run[v])
      <3>1. run'[v] = run[v] /\ run[v] # Nil /\ run[v] \in RunType
        BY <2>4, <2>9, <2>17
      <3> QED
        BY <1>1, <2>17, <3>1, RunTyped DEF ChaseInv, m
    <2>18. ASSUME NEW v \in Runs, run'[v] # Nil PROVE RunStands(run[v])'
      <3>1. CASE v = u
        BY <1>1, <1>2, <1>3, <1>4, <2>6, <2>9, <3>1 DEF RunStands, SameReading, Active, Kept
      <3>2. CASE v # u
        BY <1>1, <1>2, <2>17, <2>18, <3>2 DEF RunStands, Active, Kept, Steps, Due, DaysLate
      <3> QED
        BY <3>1, <3>2
    <2>19. ASSUME NEW v \in Runs, run'[v] # Nil PROVE HandStands(run[v])'
      <3>1. CASE v = u \/ run[v].hand = Nil
        BY <2>6, <2>9, <3>1 DEF HandStands
      <3>2. CASE v # u /\ run[v].hand # Nil
        <4>1. /\ run'[v] = run[v] /\ HandStands(run[v]) /\ run[v].number \in Nat /\ run[v].number <= begun
              /\ Agree(m, run[v]) /\ run[v].hand \in Hand
          BY <2>17, <2>19, <3>2 DEF RunStands
        <4> DEFINE b == run[v].hand.about
        <4>2. b \in Receivables
          BY <4>1, HandTyped
        <4>3. ASSUME NEW i \in DOMAIN mails[b], run[v].hand.result = "unsent", mails'[b][i].rule = run[v].hand.rule,
                     Logged(mails'[b][i]), mails'[b][i].logged < run[v].number
              PROVE  rule[run[v].hand.rule] = Removed
          <5>1. ~hit(b, i)
            BY <1>2, <2>12, <4>1, <4>2, <4>3
          <5> QED
            BY <2>12, <3>2, <4>1, <4>2, <4>3, <5>1 DEF HandStands
        <4>4. ASSUME run[v].hand.result = "sent"
              PROVE  /\ run[v].hand.mail \in DOMAIN mails[b] /\ ~Logged(mails'[b][run[v].hand.mail])
                     /\ mails'[b][run[v].hand.mail].rule = run[v].hand.rule
                     /\ mails'[b][run[v].hand.mail].run = run[v].number
          <5>1. /\ run[v].hand.mail \in DOMAIN mails[b] /\ ~Logged(mails[b][run[v].hand.mail])
                /\ mails[b][run[v].hand.mail].rule = run[v].hand.rule
                /\ mails[b][run[v].hand.mail].run = run[v].number
            BY <3>2, <4>1, <4>4 DEF HandStands
          <5>2. ~hit(b, run[v].hand.mail)
            BY <1>4, <2>15, <4>1, <4>2, <5>1 DEF Agree
          <5> QED
            BY <2>12, <4>2, <5>1, <5>2
        <4>5. DOMAIN mails'[b] = DOMAIN mails[b]
          BY <2>11, <4>2
        <4> QED
          BY <1>1, <4>1, <4>3, <4>4, <4>5 DEF HandStands, Logged
      <3> QED
        BY <3>1, <3>2
    <2>20. \A v, w \in Runs : v # w /\ run'[v] # Nil /\ run'[w] # Nil => Agree(run[v], run[w])'
      <3>1. ASSUME NEW v \in Runs, run[v] # Nil, v # u PROVE Agree(n, run[v]) /\ Agree(run[v], n)
        <4>1. Agree(m, run[v]) /\ Agree(run[v], m)
          BY <1>1, <3>1 DEF ChaseInv, m
        <4> QED
          BY <2>6, <4>1 DEF Agree, SameReading
      <3> QED
        BY <2>9, <3>1 DEF ChaseInv, Agree
    <2>21. ASSUME NEW v \in Runs, run'[v] # Nil, NEW r \in Receivables, NEW i \in DOMAIN mails[r]
           PROVE  (Knows(run[v], mails[r][i]) /\ Own(run[v], r, i))'
      <3>1. CASE v # u
        <4>1. run'[v] = run[v] /\ Knows(run[v], mails[r][i]) /\ Own(run[v], r, i)
          BY <2>17, <2>21, <3>1 DEF ChaseInv
        <4> QED
          BY <2>12, <4>1 DEF Knows, Own, InHand, Logged
      <3>2. CASE v = u
        <4>1. Knows(m, mails[r][i]) /\ Own(m, r, i) /\ run'[v] = n
          BY <1>1, <2>9, <3>2 DEF ChaseInv, m
        <4>2. mails[r][i].run = m.number /\ ~Logged(mails[r][i]) => hit(r, i)
          BY <4>1 DEF Own, InHand, hit, a
        <4>3. Knows(n, mails'[r][i])
          BY <2>6, <2>12, <4>1 DEF Knows, SameReading
        <4>4. ~(mails'[r][i].run = n.number /\ ~Logged(mails'[r][i]))
          BY <2>6, <2>12, <4>2 DEF SameReading
        <4> QED
          BY <4>1, <4>3, <4>4 DEF Knows, Own, Logged
      <3> QED
        BY <3>1, <3>2
    <2>22. LoggedOnce'
      <3>1. ASSUME NEW r \in Receivables, NEW i \in DOMAIN mails[r], NEW j \in DOMAIN mails[r], i # j,
                   Logged(mails'[r][i]), Logged(mails'[r][j])
            PROVE  mails'[r][i].rule # mails'[r][j].rule
        <4>1. ASSUME NEW g \in DOMAIN mails[r], NEW h \in DOMAIN mails[r], hit(r, g), h # g, Logged(mails'[r][h])
              PROVE  mails[r][h].rule # k
          <5>1. Logged(mails[r][h]) /\ r = a
            BY <2>12, <2>15, <4>1 DEF hit
          <5> QED
            BY <1>7, <2>12, <5>1 DEF MailStands
        <4>2. CASE hit(r, i)
          BY <2>12, <2>15, <3>1, <4>1, <4>2
        <4>3. CASE hit(r, j)
          BY <2>12, <2>15, <3>1, <4>1, <4>3
        <4>4. CASE ~hit(r, i) /\ ~hit(r, j)
          BY <2>12, <3>1, <4>4 DEF ChaseInv, ChasingEscalates, LoggedOnce
        <4> QED
          BY <4>2, <4>3, <4>4
      <3> QED
        BY <2>11, <3>1 DEF LoggedOnce, Logged
    <2>23. OneUnlogged'
      <3>1. ASSUME NEW r \in Receivables, NEW z \in Receivables, NEW i \in DOMAIN mails[r], NEW j \in DOMAIN mails[z],
                   mails'[r][i].run = mails'[z][j].run, ~Logged(mails'[r][i]), ~Logged(mails'[z][j])
            PROVE  r = z /\ i = j
        BY <2>12, <3>1 DEF ChaseInv, ChasingEscalates, OneUnlogged
      <3> QED
        BY <2>11, <3>1 DEF OneUnlogged, Logged
    <2>24. NoRepeat'
      <3>1. ASSUME NEW r \in Receivables, NEW i \in DOMAIN mails[r], NEW j \in DOMAIN mails[r], i < j,
                   mails'[r][i].rule = mails'[r][j].rule, Logged(mails'[r][i]), mails'[r][i].logged < mails'[r][j].run
            PROVE  rule[mails'[r][i].rule] = Removed
        <4>1. mails[r][j].run <= begun
          <5>1. MailStands(r, mails[r][j]) /\ mails[r][j].run \in Nat
            BY <2>12
          <5> QED
            BY <1>2, <5>1 DEF MailStands
        <4>2. ~hit(r, i)
          BY <1>2, <2>12, <3>1, <4>1
        <4> QED
          BY <2>12, <3>1, <4>2 DEF ChaseInv, ChasingEscalates, NoRepeat
      <3> QED
        BY <1>1, <2>11, <3>1 DEF NoRepeat, Logged
    <2>25. MorePressing'
      <3>1. ASSUME NEW r \in Receivables, NEW i \in DOMAIN mails[r], NEW j \in DOMAIN mails[r], i < j,
                   mails'[r][i].edits = mails'[r][j].edits, mails'[r][i].run <= mails'[r][j].run,
                   mails'[r][j].due <= mails'[r][i].due
            PROVE  mails'[r][i].offset <= mails'[r][j].offset
        BY <2>12, <3>1 DEF ChaseInv, ChasingEscalates, MorePressing
      <3> QED
        BY <2>11, <3>1 DEF MorePressing
    <2>26. ChasingEscalates'
      BY <2>22, <2>23, <2>24, <2>25 DEF ChasingEscalates
    <2>27. \A v \in Runs : run'[v] # Nil =>
              \A r \in Receivables : \A i \in DOMAIN mails'[r] : (Knows(run[v], mails[r][i]) /\ Own(run[v], r, i))'
      BY <2>11, <2>21
    <2> QED
      BY <2>14, <2>16, <2>18, <2>19, <2>20, <2>26, <2>27 DEF ChaseInv
  <1> QED
    BY <1>6, <1>7 DEF InsertLog

(* Every action on rules, accounts and runs keeps the invariant of dunning    *)
(* (dunning.service.ts:127-346).                                              *)
LEMMA ChaseMoves ==
    ASSUME ChaseInv, [Chase]_dunningVars
    PROVE  ChaseInv'
  <1>1. ChaseTyped /\ DunningTypeOK /\ day \in Nat /\ begun \in Nat
    BY CountersTyped DEF ChaseInv, ChaseTyped
  <1>2. CASE \/ \E k \in Rules, offset \in Offsets, active \in BOOLEAN :
                   CreateRule(k, offset, active) \/ UpdateRule(k, offset, active)
             \/ \E k \in Rules : RemoveRule(k)
             \/ SeedDefaults
    BY <1>2, RuleSteps
  <1>3. ASSUME \/ NextDay \/ UNCHANGED dunningVars
               \/ \E r \in Receivables : Settle(r) \/ ChangeAddress(r)
               \/ \E r \in Receivables, d \in Dues : MoveDue(r, d)
        PROVE  ChaseInv'
    <2>1. UNCHANGED <<rule, edits, begun, log, run, mails>> /\ day <= day'
      BY <1>1, <1>3 DEF NextDay, Settle, ChangeAddress, MoveDue, dunningVars, accountVars
    <2>2. due' \in [Receivables -> Dues] /\ open' \subseteq Receivables /\ reachable' \subseteq Receivables
      BY <1>1, <1>3 DEF DunningTypeOK, NextDay, Settle, ChangeAddress, MoveDue, dunningVars, accountVars
    <2>3. day' \in 0..MaxDay
      BY <1>1, <1>3, DunningAssumption
         DEF DunningTypeOK, NextDay, Settle, ChangeAddress, MoveDue, dunningVars, accountVars
    <2>4. DunningTypeOK'
      BY <1>1, <2>1, <2>2, <2>3 DEF DunningTypeOK
    <2> QED
      BY <2>1, <2>4, ChaseStands
  <1>4. CASE \E u \in Runs : BeginRun(u) \/ ReadAccounts(u)
    BY <1>4, BeginRunMoves, ReadAccountsMoves
  <1>5. CASE \E u \in Runs : InsertLog(u)
    BY <1>5, InsertLogMoves
  <1>6. ASSUME NEW u \in Runs, EndRun(u) \/ BreakOff(u) PROVE ChaseInv'
    <2>1. run' = [run EXCEPT ![u] = Nil] /\ UNCHANGED <<accountVars, rule, edits, begun, log, mails>>
      BY <1>6 DEF EndRun, BreakOff
    <2>2. DunningTypeOK' /\ begun <= begun'
      BY <1>1, <2>1 DEF DunningTypeOK, accountVars
    <2> QED
      BY <2>1, <2>2, RunMoves
  <1>7. CASE \E u \in Runs, r \in Receivables : Consider(u, r)
    BY <1>7, ConsiderMoves
  <1>8. CASE \E u \in Runs, sent \in BOOLEAN : Send(u, sent)
    BY <1>8, SendMoves
  <1> QED
    BY <1>2, <1>3, <1>4, <1>5, <1>6, <1>7, <1>8 DEF Chase

(* However runs overlap, break off, and rules, accounts and due dates change  *)
(* under them, no step is logged twice, a run leaves one e-mail out of the    *)
(* log at most, repeats nothing logged before it read the accounts, and is no *)
(* milder than an earlier one under the same rules and due date               *)
(* (dunning.service.ts:241-346).                                              *)
THEOREM ChasingAlwaysEscalates == DunningSpec => []ChasingEscalates
  <1>1. ChaseInv /\ [Chase]_dunningVars => ChaseInv'
    BY ChaseMoves
  <1>2. ChaseInv => ChasingEscalates
    BY DEF ChaseInv
  <1> QED
    BY <1>1, <1>2, ChaseStart, PTL DEF DunningSpec

--------------------------------------------------------------------------------
\* Part 6. The check digits.

(* A weighted sum of integers is an integer.                                  *)
LEMMA WeightedType ==
    ASSUME NEW n \in Nat, NEW w \in [1..n -> Int], NEW s, \A i \in 1..n : s[i] \in Int
    PROVE  Weighted(s, w) \in Int
  <1>. DEFINE f == [i \in 1..n |-> s[i] * w[i]]
  <1>1. \A i \in 1..n : f[i] \in Int
    <2>. SUFFICES ASSUME NEW i \in 1..n PROVE f[i] \in Int
      OBVIOUS
    <2>1. s[i] \in Int /\ w[i] \in Int
      OBVIOUS
    <2>. QED BY <2>1
  <1>2. IsFiniteSet(1..n)
    BY FS_Interval
  <1>3. Weighted(s, w) = SumOver(f, 1..n)
    BY DEF Weighted
  <1>. HIDE DEF f
  <1>. QED BY <1>1, <1>2, <1>3, SumType

(* A weighted sum depends on the places it weighs only.                       *)
LEMMA WeightedSame ==
    ASSUME NEW n \in Nat, NEW w \in [1..n -> Int], NEW s, NEW t, \A i \in 1..n : t[i] = s[i]
    PROVE  Weighted(t, w) = Weighted(s, w)
  <1>1. [i \in 1..n |-> t[i] * w[i]] = [i \in 1..n |-> s[i] * w[i]]
    OBVIOUS
  <1>. QED BY <1>1 DEF Weighted

\* Between s and t the weighted sum changes by b times c.
Shifted(s, t, w, b, c) == Weighted(t, w) = Weighted(s, w) + c * b

(* Another value at one place changes the weighted sum by the weight times    *)
(* the difference.                                                            *)
LEMMA WeightedSlip ==
    ASSUME NEW n \in Nat, NEW w \in [1..n -> Int], NEW s, NEW t, NEW i \in 1..n,
           \A j \in 1..n : s[j] \in Int, t[i] \in Int, \A j \in (1..n) \ {i} : t[j] = s[j]
    PROVE  Weighted(t, w) = Weighted(s, w) + w[i] * (t[i] - s[i])
  <1>. DEFINE f == [j \in 1..n |-> s[j] * w[j]]
              g == [j \in 1..n |-> t[j] * w[j]]
  <1>1. \A j \in 1..n : f[j] \in Int
    <2>. SUFFICES ASSUME NEW j \in 1..n PROVE f[j] \in Int
      OBVIOUS
    <2>1. s[j] \in Int /\ w[j] \in Int
      OBVIOUS
    <2>. QED BY <2>1
  <1>2. \A j \in (1..n) \ {i} : g[j] = f[j]
    OBVIOUS
  <1>3. g[i] = t[i] * w[i] /\ f[i] = s[i] * w[i] /\ f[i] \in Int
    BY <1>1
  <1>4. IsFiniteSet(1..n)
    BY FS_Interval
  <1>5. Weighted(s, w) = SumOver(f, 1..n) /\ Weighted(t, w) = SumOver(g, 1..n)
    BY DEF Weighted
  <1>. HIDE DEF f, g
  <1>6. PICK a \in Int, b \in Int, c \in Int : a = t[i] /\ b = s[i] /\ c = w[i]
    OBVIOUS
  <1>7. g[i] = a * c /\ f[i] = b * c
    BY <1>3, <1>6
  <1>8. g[i] \in Int
    BY <1>7
  <1>9. SumOver(g, 1..n) = SumOver(f, 1..n) + (g[i] - f[i])
    <2>1. PICK F, G, S, x : F = f /\ G = g /\ S = 1..n /\ x = i
      OBVIOUS
    <2>2. x \in S /\ IsFiniteSet(S) /\ (\A j \in S : F[j] \in Int) /\ (\A j \in S \ {x} : G[j] = F[j]) /\ G[x] \in Int
      BY <1>1, <1>2, <1>4, <1>8, <2>1
    <2>3. SumOver(G, S) = SumOver(F, S) + (G[x] - F[x])
      BY ONLY <2>2, SumChange
    <2>. QED BY <2>1, <2>3
  <1>10. a * c - b * c = c * (a - b)
    OBVIOUS
  <1>. QED BY <1>5, <1>6, <1>7, <1>9, <1>10

(* Two neighbours exchanged change it by the difference of their weights      *)
(* times their own.                                                           *)
LEMMA WeightedExchange ==
    ASSUME NEW n \in Nat, NEW w \in [1..n -> Int], NEW s, NEW t, NEW i \in 1..n, i + 1 \in 1..n,
           \A j \in 1..n : s[j] \in Int, t[i] = s[i + 1], t[i + 1] = s[i],
           \A j \in (1..n) \ {i, i + 1} : t[j] = s[j]
    PROVE  Shifted(s, t, w, s[i + 1] - s[i], w[i] - w[i + 1])
  <1>. DEFINE m == [j \in 1..n |-> IF j = i THEN s[i + 1] ELSE s[j]]
  <1>1. Weighted(m, w) = Weighted(s, w) + w[i] * (m[i] - s[i])
    <2>1. m[i] \in Int /\ \A j \in (1..n) \ {i} : m[j] = s[j]
      OBVIOUS
    <2>. HIDE DEF m
    <2>. QED BY <2>1, WeightedSlip
  <1>2. Weighted(t, w) = Weighted(m, w) + w[i + 1] * (t[i + 1] - m[i + 1])
    <2>1. /\ \A j \in 1..n : m[j] \in Int
          /\ \A j \in (1..n) \ {i + 1} : t[j] = m[j]
          /\ t[i + 1] \in Int
      OBVIOUS
    <2>. HIDE DEF m
    <2>. QED BY <2>1, WeightedSlip
  <1>3. m[i] = s[i + 1] /\ m[i + 1] = s[i + 1]
    OBVIOUS
  <1>. HIDE DEF m
  <1>4. PICK a \in Int, b \in Int, c \in Int, d \in Int : a = s[i] /\ b = s[i + 1] /\ c = w[i] /\ d = w[i + 1]
    OBVIOUS
  <1>5. Weighted(s, w) \in Int
    BY WeightedType
  <1>6. Weighted(t, w) = Weighted(s, w) + c * (b - a) + d * (a - b)
    BY <1>1, <1>2, <1>3, <1>4
  <1>7. c * (b - a) + d * (a - b) = (c - d) * (b - a)
    OBVIOUS
  <1>8. c * (b - a) \in Int /\ d * (a - b) \in Int
    OBVIOUS
  <1>9. Weighted(t, w) = Weighted(s, w) + (c - d) * (b - a)
    BY <1>5, <1>6, <1>7, <1>8
  <1>. QED BY <1>4, <1>9 DEF Shifted

(* A product of two small factors is a multiple of 11 only if one is zero.    *)
LEMMA Prime11 ==
    ASSUME NEW a \in Int, NEW b \in Int, NEW k \in Int, -10 <= a, a <= 10, -10 <= b, b <= 10, a * b = 11 * k
    PROVE  a = 0 \/ b = 0
  <1>1. ASSUME NEW x \in 1..10, NEW y \in Int, -10 <= y, y <= 10, NEW z \in Int, x * y = 11 * z PROVE y = 0
    <2>1. CASE x = 1 BY <1>1, <2>1
    <2>2. CASE x = 2 BY <1>1, <2>2
    <2>3. CASE x = 3 BY <1>1, <2>3
    <2>4. CASE x = 4 BY <1>1, <2>4
    <2>5. CASE x = 5 BY <1>1, <2>5
    <2>6. CASE x = 6 BY <1>1, <2>6
    <2>7. CASE x = 7 BY <1>1, <2>7
    <2>8. CASE x = 8 BY <1>1, <2>8
    <2>9. CASE x = 9 BY <1>1, <2>9
    <2>10. CASE x = 10 BY <1>1, <2>10
    <2>. QED BY <2>1, <2>2, <2>3, <2>4, <2>5, <2>6, <2>7, <2>8, <2>9, <2>10
  <1>2. CASE a > 0
    BY <1>1, <1>2
  <1>3. CASE a < 0
    <2>1. (-a) * b = 11 * (-k)
      OBVIOUS
    <2>. QED BY <1>1, <1>3, <2>1
  <1>. QED BY <1>2, <1>3

(* Numbers with the same remainder differ by a multiple.                      *)
LEMMA SameRest ==
    ASSUME NEW x \in Int, NEW y \in Int, NEW n \in Int, n > 0, x % n = y % n
    PROVE  \E k \in Int : x - y = n * k
  <1>1. x = n * (x \div n) + (x % n) /\ y = n * (y \div n) + (y % n)
    OBVIOUS
  <1>2. PICK p \in Int, q \in Int, r \in Int : p = x \div n /\ q = y \div n /\ r = x % n
    OBVIOUS
  <1>3. x - y = n * (p - q)
    BY <1>1, <1>2
  <1>. QED BY <1>3

(* So do sums with the same check digit modulo 11, unless it is 0, which      *)
(* stands for two remainders (tax-id.validator.ts:60-95).                     *)
LEMMA Rests11 ==
    ASSUME NEW x \in Int, NEW y \in Int, Modulo11(x) = Modulo11(y), Modulo11(x) # 0
    PROVE  \E k \in Int : x - y = 11 * k
  <1>1. x % 11 = y % 11
    BY DEF Modulo11
  <1>. QED BY <1>1, SameRest

(* The weights of a cnpj, and what neighbours differ by (tax-                 *)
(* id.validator.ts:69-70).                                                    *)
LEMMA W1Weights ==
    /\ W1 \in [1..12 -> Int]
    /\ \A i \in 1..12 : W1[i] \in 2..9
    /\ \A i \in 1..11 : W1[i] - W1[i + 1] \in {1, -7}
  BY DEF W1

\* The weights of a nie, and the differences of neighbours.
NieSteps == {10000000, 1000000, 100000, 10000, 1000, 100, 10, 1, 9000000, 900000, 90000, 9000, 900, 90, 9}

(* The weights of a nie, and what neighbours differ by, are among NieSteps.   *)
LEMMA TensAre ==
    /\ Tens \in [1..8 -> Int]
    /\ \A i \in 1..8 : Tens[i] \in NieSteps
    /\ \A i \in 1..7 : Tens[i] - Tens[i + 1] \in NieSteps
  BY SMT DEF Tens, NieSteps

(* A step of a nie times a small difference is a multiple of 23 only if the   *)
(* difference is zero.                                                        *)
LEMMA Prime23 ==
    ASSUME NEW w \in NieSteps,
           NEW d \in -9..9, NEW k \in Int, w * d = 23 * k
    PROVE  d = 0
  <1>1. CASE w = 10000000 BY <1>1, SMT
  <1>2. CASE w = 1000000 BY <1>2, SMT
  <1>3. CASE w = 100000 BY <1>3, SMT
  <1>4. CASE w = 10000 BY <1>4, SMT
  <1>5. CASE w = 1000 BY <1>5, SMT
  <1>6. CASE w = 100 BY <1>6, SMT
  <1>7. CASE w = 10 BY <1>7, SMT
  <1>8. CASE w = 1 BY <1>8, SMT
  <1>9. CASE w = 9000000 BY <1>9, SMT
  <1>10. CASE w = 900000 BY <1>10, SMT
  <1>11. CASE w = 90000 BY <1>11, SMT
  <1>12. CASE w = 9000 BY <1>12, SMT
  <1>13. CASE w = 900 BY <1>13, SMT
  <1>14. CASE w = 90 BY <1>14, SMT
  <1>15. CASE w = 9 BY <1>15, SMT
  <1>. QED BY <1>1, <1>2, <1>3, <1>4, <1>5, <1>6, <1>7, <1>8, <1>9, <1>10, <1>11, <1>12, <1>13, <1>14, <1>15, SMT DEF NieSteps

(* The doubled digits of a cif are digits, different for different digits,    *)
(* and doubling tells two digits apart but for 0 and 9 (tax-                  *)
(* id.validator.ts:147-153).                                                  *)
LEMMA DoubledApart ==
    ASSUME NEW a \in Digits, NEW b \in Digits
    PROVE  /\ CifDoubled(a) \in Digits
           /\ CifDoubled(a) = CifDoubled(b) => a = b
           /\ CifDoubled(a) - a = CifDoubled(b) - b => a = b \/ {a, b} = {0, 9}
           /\ CifDoubled(a) - a \in -4..4
  <1>. DEFINE e == CifDoubled(a)
              f == CifDoubled(b)
  <1>1. \A x \in Digits : CifDoubled(x) = IF x < 5 THEN 2 * x ELSE 2 * x - 9
    BY DEF Digits, CifDoubled
  <1>2. /\ e = IF a < 5 THEN 2 * a ELSE 2 * a - 9
        /\ f = IF b < 5 THEN 2 * b ELSE 2 * b - 9
    BY <1>1
  <1>. HIDE DEF e, f
  <1>3. /\ e \in Digits /\ (e = f => a = b) /\ e - a \in -4..4
        /\ e - a = f - b => a = b \/ (a = 0 /\ b = 9) \/ (a = 9 /\ b = 0)
    BY <1>2 DEF Digits
  <1>4. (a = 0 /\ b = 9) \/ (a = 9 /\ b = 0) => {a, b} = {0, 9}
    OBVIOUS
  <1>. QED BY <1>3, <1>4 DEF e, f

Places == Int \cup Kinds

OneOff(s, t, D, i) == t[i] \in Digits /\ t[i] # s[i] /\ \A j \in D \ {i} : t[j] = s[j]
TwoOff(s, t, D, i) == s[i] # s[i + 1] /\ t[i] = s[i + 1] /\ t[i + 1] = s[i] /\ \A j \in D \ {i, i + 1} : t[j] = s[j]

\* What the weights of a slip at i in B come to.
Factor(w, B, i, c) == c = w[i] \/ (i + 1 \in B /\ c = w[i] - w[i + 1])

(* A slip that changes an identifier changes one place, or exchanges two      *)
(* neighbours that differ.                                                    *)
LEMMA SlipIs ==
    ASSUME NEW type, NEW s \in Seq(Places), Body(type) \subseteq DOMAIN s, NEW slip, slip \in Slips(type, s), slip # s
    PROVE  \/ \E i \in Body(type) : OneOff(s, slip, DOMAIN s, i)
           \/ \E i \in Body(type) : i + 1 \in Body(type) /\ TwoOff(s, slip, DOMAIN s, i)
  <1>0. s \in [1..Len(s) -> Places] /\ Len(s) \in Nat
    OBVIOUS
  <1>1. CASE \E i \in Body(type), d \in Digits : slip = Mistyped(s, i, d)
    <2>1. PICK i \in Body(type), d \in Digits : slip = Mistyped(s, i, d)
      BY <1>1
    <2>2. d # s[i]
      BY <1>0, <2>1 DEF Mistyped
    <2>3. OneOff(s, slip, DOMAIN s, i)
      BY <1>0, <2>1, <2>2 DEF Mistyped, OneOff
    <2>. QED BY <2>3
  <1>2. CASE \E i \in Body(type) : i + 1 \in Body(type) /\ slip = Exchanged(s, i)
    <2>1. PICK i \in Body(type) : i + 1 \in Body(type) /\ slip = Exchanged(s, i)
      BY <1>2
    <2>2. s[i] # s[i + 1]
      BY <1>0, <2>1 DEF Exchanged
    <2>3. i \in Int
      BY <1>0
    <2>4. TwoOff(s, slip, DOMAIN s, i)
      BY <1>0, <2>1, <2>2, <2>3 DEF Exchanged, TwoOff
    <2>. QED BY <2>1, <2>4
  <1>. QED BY <1>1, <1>2 DEF Slips

(* Two different digits differ by 1 to 9.                                     *)
LEMMA OtherDigit ==
    ASSUME NEW x \in Digits, NEW y \in Digits, x # y
    PROVE  y - x \in -9..9 /\ y - x # 0
  BY DEF Digits

(* One digit mistyped shifts the weighted sum by its weight times a small     *)
(* difference.                                                                *)
LEMMA OneShift ==
    ASSUME NEW n \in Nat, NEW w \in [1..n -> Int], NEW s, \A j \in 1..n : s[j] \in Int,
           NEW i \in 1..n, s[i] \in Digits, NEW t, OneOff(s, t, 1..n, i)
    PROVE  \E b \in -9..9, c \in Int : b # 0 /\ c = w[i] /\ Shifted(s, t, w, b, c)
  <1>1. t[i] \in Int
    BY DEF Digits, OneOff
  <1>2. Weighted(t, w) = Weighted(s, w) + w[i] * (t[i] - s[i])
    BY <1>1, WeightedSlip DEF OneOff
  <1>3. t[i] - s[i] \in -9..9 /\ t[i] - s[i] # 0
    BY OtherDigit DEF OneOff
  <1>4. PICK b \in -9..9, c \in Int : b = t[i] - s[i] /\ c = w[i]
    BY <1>3
  <1>5. b # 0 /\ Shifted(s, t, w, b, c)
    BY <1>2, <1>3, <1>4 DEF Shifted
  <1>. QED BY <1>4, <1>5

(* Two neighbours exchanged shift it by the difference of their weights times *)
(* a small one.                                                               *)
LEMMA TwoShifts ==
    ASSUME NEW n \in Nat, NEW w \in [1..n -> Int], NEW s, \A j \in 1..n : s[j] \in Int,
           NEW i \in 1..n, i + 1 \in 1..n, s[i] \in Digits, s[i + 1] \in Digits, NEW t, TwoOff(s, t, 1..n, i)
    PROVE  \E b \in -9..9, c \in Int : b # 0 /\ c = w[i] - w[i + 1] /\ Shifted(s, t, w, b, c)
  <1>2. Shifted(s, t, w, s[i + 1] - s[i], w[i] - w[i + 1])
    BY WeightedExchange DEF TwoOff
  <1>3. s[i + 1] - s[i] \in -9..9 /\ s[i + 1] - s[i] # 0
    BY OtherDigit DEF TwoOff
  <1>4. PICK b \in -9..9, c \in Int : b = s[i + 1] - s[i] /\ c = w[i] - w[i + 1]
    <2>1. PICK x \in Int, y \in Int : x = w[i] /\ y = w[i + 1]
      OBVIOUS
    <2>2. PICK b \in -9..9 : b = s[i + 1] - s[i]
      BY <1>3
    <2>3. x - y \in Int
      OBVIOUS
    <2>. QED BY <2>1, <2>2, <2>3
  <1>5. b # 0 /\ Shifted(s, t, w, b, c)
    BY <1>2, <1>3, <1>4 DEF Shifted
  <1>. QED BY <1>4, <1>5

(* Whatever the slip, the weighted sum is shifted by such a product.          *)
LEMMA SlipShifts ==
    ASSUME NEW type, NEW n \in Nat, NEW w \in [1..n -> Int], NEW s \in Seq(Places), 1..n \subseteq DOMAIN s,
           NEW slip, slip \in Slips(type, s), slip # s, Body(type) \subseteq 1..n, \A i \in 1..n : s[i] \in Int,
           \A i \in Body(type) : s[i] \in Digits
    PROVE  \E i \in Body(type), b \in -9..9, c \in Int :
              /\ b # 0 /\ Shifted(s, slip, w, b, c)
              /\ Factor(w, Body(type), i, c)
  <1>1. Body(type) \subseteq DOMAIN s
    OBVIOUS
  <1>2. \/ \E i \in Body(type) : OneOff(s, slip, DOMAIN s, i)
        \/ \E i \in Body(type) : i + 1 \in Body(type) /\ TwoOff(s, slip, DOMAIN s, i)
    BY <1>1, SlipIs
  <1>3. CASE \E i \in Body(type) : OneOff(s, slip, DOMAIN s, i)
    <2>1. PICK i \in 1..n : i \in Body(type) /\ OneOff(s, slip, DOMAIN s, i)
      BY <1>3
    <2>2. s[i] \in Digits /\ OneOff(s, slip, 1..n, i)
      BY <2>1 DEF OneOff
    <2>3. \E b \in -9..9, c \in Int : b # 0 /\ c = w[i] /\ Shifted(s, slip, w, b, c)
      BY <2>2, OneShift
    <2>. QED BY <2>1, <2>3 DEF Factor
  <1>4. CASE \E i \in Body(type) : i + 1 \in Body(type) /\ TwoOff(s, slip, DOMAIN s, i)
    <2>1. PICK i \in 1..n : i \in Body(type) /\ i + 1 \in Body(type) /\ TwoOff(s, slip, DOMAIN s, i)
      BY <1>4
    <2>2. s[i] \in Digits /\ s[i + 1] \in Digits /\ i + 1 \in 1..n /\ TwoOff(s, slip, 1..n, i)
      BY <2>1 DEF TwoOff
    <2>3. \E b \in -9..9, c \in Int : b # 0 /\ c = w[i] - w[i + 1] /\ Shifted(s, slip, w, b, c)
      BY <2>2, TwoShifts
    <2>. QED BY <2>1, <2>3 DEF Factor
  <1>. QED BY <1>2, <1>3, <1>4

\* Weights under which any slip changes the sum modulo 11, and sums that differ so.
Sharp(w, n) ==
    /\ w \in [1..n -> Int] /\ \A i \in 1..n : w[i] \in 2..10
    /\ \A i \in 1..n : i + 1 \in 1..n => w[i] - w[i + 1] \in {1, -7}
Apart(x, y) == x \in Int /\ y \in Int /\ \A k \in Int : x - y # 11 * k

(* Sums that differ by a product of two small factors that are not zero are   *)
(* apart modulo 11.                                                           *)
LEMMA ApartIs ==
    ASSUME NEW x \in Int, NEW b \in -9..9, NEW c \in -10..10, b # 0, c # 0, NEW y, y = x + c * b
    PROVE  Apart(y, x)
  <1>1. c * b \in Int
    OBVIOUS
  <1>2. ASSUME NEW k \in Int, y - x = 11 * k PROVE FALSE
    <2>1. PICK p \in Int : p = c * b
      BY <1>1
    <2>2. c * b = 11 * k
      BY <1>2, <2>1
    <2>. QED BY <2>2, Prime11
  <1>3. PICK p \in Int : p = c * b
    BY <1>1
  <1>4. y \in Int
    BY <1>3
  <1>. QED BY <1>2, <1>4 DEF Apart

(* A slip leaves what is outside the body, the check digits, as it was.       *)
LEMMA SlipKeeps ==
    ASSUME NEW type, NEW s \in Seq(Places), Body(type) \subseteq DOMAIN s, NEW slip, slip \in Slips(type, s), slip # s
    PROVE  \A j \in DOMAIN s \ Body(type) : slip[j] = s[j]
  BY SlipIs DEF OneOff, TwoOff

(* Under sharp weights a slip moves the sum modulo 11 and keeps the check     *)
(* digit.                                                                     *)
LEMMA ShiftSeen ==
    ASSUME NEW type, NEW n \in Nat, NEW w, Sharp(w, n), NEW s \in Seq(Places), NEW m \in Nat, n < m, AllDigits(s, m),
           NEW slip, slip \in Slips(type, s), slip # s, Body(type) = 1..n,
           NEW p, p = n + 1
    PROVE  Apart(Weighted(slip, w), Weighted(s, w)) /\ slip[p] = s[p]
  <1>w. w \in [1..n -> Int]
    BY DEF Sharp
  <1>d. DOMAIN s = 1..m /\ 1..n \subseteq 1..m /\ n + 1 \in (1..m) \ (1..n)
    BY DEF AllDigits
  <1>i. \A i \in 1..n : s[i] \in Digits /\ s[i] \in Int
    BY <1>d DEF AllDigits, Digits
  <1>1. Weighted(s, w) \in Int
    BY <1>w, <1>i, WeightedType
  <1>2. \E i \in Body(type), b \in -9..9, c \in Int :
                /\ b # 0 /\ Shifted(s, slip, w, b, c)
                /\ Factor(w, Body(type), i, c)
    BY <1>w, <1>d, <1>i, SlipShifts
  <1>3. PICK b \in -9..9, c \in -10..10 : b # 0 /\ c # 0 /\ Shifted(s, slip, w, b, c)
    <2>1. PICK i \in Body(type), b \in -9..9, c \in Int : b # 0 /\ Shifted(s, slip, w, b, c) /\ Factor(w, Body(type), i, c)
      BY <1>2
    <2>2. c \in 2..10 \/ c \in {1, -7}
      BY <2>1 DEF Factor, Sharp
    <2>3. c \in -10..10 /\ c # 0
      BY <2>2
    <2>. QED BY <2>1, <2>3
  <1>4. Apart(Weighted(slip, w), Weighted(s, w))
    BY <1>1, <1>3, ApartIs DEF Shifted
  <1>5. slip[p] = s[p]
    BY <1>d, SlipKeeps
  <1>. QED BY <1>4, <1>5

(* The weights of cnpj, cpf and nif are sharp (tax-id.validator.ts:60-116).   *)
LEMMA SharpWeights ==
    /\ Sharp(W1, 12)
    /\ Sharp([i \in 1..9 |-> 9 + 2 - i], 9)
    /\ Sharp([i \in 1..8 |-> 10 - i], 8)
  <1>1. Sharp(W1, 12)
    <2>1. \A i \in 1..12 : W1[i] \in 2..10
      BY W1Weights
    <2>2. \A i \in 1..12 : i + 1 \in 1..12 => W1[i] - W1[i + 1] \in {1, -7}
      BY W1Weights
    <2>. QED BY <2>1, <2>2, W1Weights DEF Sharp
  <1>2. Sharp([i \in 1..9 |-> 9 + 2 - i], 9)
    BY DEF Sharp
  <1>3. Sharp([i \in 1..8 |-> 10 - i], 8)
    BY DEF Sharp
  <1>. QED BY <1>1, <1>2, <1>3

(* Sums that are apart share a check digit only where it is 0.                *)
LEMMA ModuloApart ==
    ASSUME NEW x, NEW y, Apart(x, y), Modulo11(x) = Modulo11(y)
    PROVE  Modulo11(y) = 0
  <1>1. x \in Int /\ y \in Int
    BY DEF Apart
  <1>. QED BY <1>1, Rests11 DEF Apart

(* A slip of a cnpj is accepted only if its first check digit is 0 (tax-      *)
(* id.validator.ts:60-78).                                                    *)
LEMMA CnpjSeen ==
    ASSUME NEW s \in Seq(Places), Cnpj(s), NEW slip, slip \in Slips("cnpj", s), slip # s, Cnpj(slip)
    PROVE  s[13] = 0
  <1>1. Body("cnpj") = 1..12 /\ AllDigits(s, 14)
    BY DEF Body, Cnpj
  <1>2. Apart(Weighted(slip, W1), Weighted(s, W1)) /\ slip[13] = s[13]
    <2>1. PICK n \in Nat, m \in Nat, p \in Nat : n = 12 /\ m = 14 /\ p = 13
      OBVIOUS
    <2>2. n < m /\ p = n + 1 /\ Body("cnpj") = 1..n /\ AllDigits(s, m) /\ Sharp(W1, n)
      BY <1>1, <2>1, SharpWeights
    <2>3. Apart(Weighted(slip, W1), Weighted(s, W1)) /\ slip[p] = s[p]
      BY <2>2, ShiftSeen
    <2>. QED BY <2>1, <2>3
  <1>3. s[13] = Modulo11(Weighted(s, W1)) /\ slip[13] = Modulo11(Weighted(slip, W1))
    BY DEF Cnpj
  <1>. QED BY <1>2, <1>3, ModuloApart

(* A slip of a nif is accepted only if its check digit is 0 (tax-             *)
(* id.validator.ts:99-116).                                                   *)
LEMMA NifSeen ==
    ASSUME NEW s \in Seq(Places), Nif(s), NEW slip, slip \in Slips("nif", s), slip # s, Nif(slip)
    PROVE  s[9] = 0
  <1>1. Body("nif") = 1..8 /\ AllDigits(s, 9)
    BY DEF Body, Nif
  <1>2. Apart(NifSum(slip), NifSum(s)) /\ slip[9] = s[9]
    <2>1. PICK w : w = [i \in 1..8 |-> 10 - i]
      OBVIOUS
    <2>2. PICK n \in Nat, m \in Nat, p \in Nat : n = 8 /\ m = 9 /\ p = 9
      OBVIOUS
    <2>3. n < m /\ p = n + 1 /\ Body("nif") = 1..n /\ AllDigits(s, m) /\ Sharp(w, n)
      BY <1>1, <2>1, <2>2, SharpWeights
    <2>4. Apart(Weighted(slip, w), Weighted(s, w)) /\ slip[p] = s[p]
      BY <2>3, ShiftSeen
    <2>. QED BY <2>1, <2>2, <2>4 DEF NifSum
  <1>3. s[9] = Modulo11(NifSum(s)) /\ slip[9] = Modulo11(NifSum(slip))
    BY DEF Nif
  <1>. QED BY <1>2, <1>3, ModuloApart

(* The same of the remainders of a cpf, where 10 becomes 0.                   *)
LEMMA CpfRests ==
    ASSUME NEW x, NEW y, Apart(x, y), NEW a, NEW b, a = (x * 10) % 11, b = (y * 10) % 11,
           (IF a = 10 THEN 0 ELSE a) = (IF b = 10 THEN 0 ELSE b)
    PROVE  (IF b = 10 THEN 0 ELSE b) = 0
  <1>. SUFFICES ASSUME (IF b = 10 THEN 0 ELSE b) # 0 PROVE FALSE
    OBVIOUS
  <1>0. PICK p \in Int, q \in Int : p = x /\ q = y
    BY DEF Apart
  <1>1. a = b
    OBVIOUS
  <1>2. PICK k \in Int : p * 10 - q * 10 = 11 * k
    <2>1. p * 10 \in Int /\ q * 10 \in Int /\ (p * 10) % 11 = (q * 10) % 11
      BY <1>0, <1>1
    <2>. QED BY <2>1, SameRest
  <1>3. PICK j \in Int : p - q = 11 * j
    <2>1. p - q - k \in Int /\ p - q = 11 * (p - q - k)
      BY <1>2
    <2>. QED BY <2>1
  <1>. QED BY <1>0, <1>3 DEF Apart

(* A slip of a cpf is accepted only if its first check digit is 0 (tax-       *)
(* id.validator.ts:80-97).                                                    *)
LEMMA CpfSeen ==
    ASSUME NEW s \in Seq(Places), Cpf(s), NEW slip, slip \in Slips("cpf", s), slip # s, Cpf(slip)
    PROVE  s[10] = 0
  <1>1. Body("cpf") = 1..9 /\ AllDigits(s, 11)
    BY DEF Body, Cpf
  <1>2. PICK w : w = [i \in 1..9 |-> 9 + 2 - i]
    OBVIOUS
  <1>3. Apart(Weighted(slip, w), Weighted(s, w)) /\ slip[10] = s[10]
    <2>1. PICK n \in Nat, m \in Nat, p \in Nat : n = 9 /\ m = 11 /\ p = 10
      OBVIOUS
    <2>2. n < m /\ p = n + 1 /\ Body("cpf") = 1..n /\ AllDigits(s, m) /\ Sharp(w, n)
      BY <1>1, <1>2, <2>1, SharpWeights
    <2>3. Apart(Weighted(slip, w), Weighted(s, w)) /\ slip[p] = s[p]
      BY <2>2, ShiftSeen
    <2>. QED BY <2>1, <2>3
  <1>4. PICK a, b : a = (Weighted(slip, w) * 10) % 11 /\ b = (Weighted(s, w) * 10) % 11
    OBVIOUS
  <1>5. s[10] = (IF b = 10 THEN 0 ELSE b) /\ slip[10] = (IF a = 10 THEN 0 ELSE a)
    BY <1>2, <1>4 DEF Cpf, CpfDigit
  <1>. QED BY <1>3, <1>4, <1>5, CpfRests

(* No slip of a nie is accepted: its letter stands for one remainder of 23    *)
(* (tax-id.validator.ts:127-139).                                             *)
LEMMA NieSeen ==
    ASSUME NEW s \in Seq(Places), Nie(s), NEW slip, slip \in Slips("nie", s), slip # s, Nie(slip)
    PROVE  FALSE
  <1>1. Body("nie") = 2..8 /\ DOMAIN s = 1..9
    BY DEF Body, Nie
  <1>2. slip[9] = s[9]
    BY <1>1, SlipKeeps
  <1>3. \A i \in 1..8 : s[i] \in Int
    BY DEF Nie, Digits
  <1>4. PICK n \in Nat : n = 8
    OBVIOUS
  <1>5. /\ Tens \in [1..n -> Int] /\ 1..n \subseteq DOMAIN s /\ Body("nie") \subseteq 1..n
        /\ (\A i \in 1..n : s[i] \in Int) /\ \A i \in Body("nie") : s[i] \in Digits
    <2>1. Tens \in [1..n -> Int]
      BY <1>4, TensAre
    <2>2. 1..n \subseteq DOMAIN s /\ Body("nie") \subseteq 1..n /\ \A i \in 1..n : s[i] \in Int
      BY <1>1, <1>3, <1>4
    <2>3. \A i \in Body("nie") : s[i] \in Digits
      BY <1>1 DEF Nie
    <2>. QED BY <2>1, <2>2, <2>3
  <1>6. \E i \in Body("nie"), b \in -9..9, c \in Int :
                /\ b # 0 /\ Shifted(s, slip, Tens, b, c)
                /\ Factor(Tens, Body("nie"), i, c)
    BY <1>5, SlipShifts
  <1>7. PICK i \in Body("nie"), b \in -9..9, c \in Int :
                /\ b # 0 /\ Shifted(s, slip, Tens, b, c)
                /\ Factor(Tens, Body("nie"), i, c)
    BY <1>6
  <1>8. c \in NieSteps
    <2>1. i \in 1..8 /\ (i + 1 \in Body("nie") => i \in 1..7)
      BY <1>1
    <2>. QED BY <1>7, <2>1, TensAre DEF Factor
  <1>9. Weighted(s, Tens) \in Int
    BY <1>5, WeightedType
  <1>10. PICK x \in Int, p \in Int : x = Weighted(s, Tens) /\ p = c * b
    BY <1>9
  <1>11. Number(s) = x /\ Number(slip) = x + p
    BY <1>7, <1>10 DEF Number, Shifted
  <1>12. (x + p) % 23 = x % 23
    BY <1>2, <1>11 DEF Nie
  <1>13. PICK k \in Int : p = 23 * k
    <2>1. \E k \in Int : (x + p) - x = 23 * k
      BY <1>12, SameRest
    <2>. QED BY <2>1
  <1>. QED BY <1>7, <1>8, <1>10, <1>13, Prime23

(* A sum of which two terms change moves by the two differences.              *)
LEMMA SumTwoChange ==
    ASSUME NEW S, IsFiniteSet(S), NEW f, NEW g, NEW x \in S, NEW y \in S, x # y,
           \A z \in S : f[z] \in Int, \A z \in S \ {x, y} : g[z] = f[z], g[x] \in Int, g[y] \in Int
    PROVE  SumOver(g, S) = SumOver(f, S) + (g[x] - f[x]) + (g[y] - f[y])
  <1>1. PICK h : h = [z \in S |-> IF z = x THEN g[x] ELSE f[z]]
    OBVIOUS
  <1>2. /\ \A z \in S : h[z] \in Int
        /\ \A z \in S \ {x} : h[z] = f[z]
        /\ \A z \in S \ {y} : g[z] = h[z]
        /\ h[x] = g[x] /\ h[y] = f[y]
    BY <1>1
  <1>3. SumOver(h, S) = SumOver(f, S) + (h[x] - f[x])
    BY <1>2, SumChange
  <1>4. SumOver(g, S) = SumOver(h, S) + (g[y] - h[y])
    <2>1. (\A z \in S : h[z] \in Int) /\ (\A z \in S \ {y} : g[z] = h[z]) /\ g[y] \in Int
      BY <1>2
    <2>. QED BY <2>1, SumChange
  <1>5. SumOver(f, S) \in Int
    BY SumType
  <1>6. f[x] \in Int /\ f[y] \in Int
    OBVIOUS
  <1>. QED BY <1>2, <1>3, <1>4, <1>5, <1>6

CifSum(s) == SumOver(CifTerms(s), 2..8)
DigitsOfCif(s) == \A i \in 2..8 : s[i] \in Digits

(* A cif has finitely many places.                                            *)
LEMMA PlacesFinite == IsFiniteSet(2..8)
  <1>1. PICK a \in Int, b \in Int : a = 2 /\ b = 8
    OBVIOUS
  <1>2. IsFiniteSet(a..b)
    BY FS_Interval
  <1>. QED BY <1>1, <1>2

(* The terms of the sum of a cif are digits, the sum an integer.              *)
LEMMA TermsAre ==
    ASSUME NEW s, DigitsOfCif(s)
    PROVE  /\ \A i \in 2..8 : CifTerms(s)[i] = IF i % 2 = 0 THEN CifDoubled(s[i]) ELSE s[i]
           /\ \A i \in 2..8 : CifTerms(s)[i] \in Digits /\ CifTerms(s)[i] \in Int
           /\ CifSum(s) \in Int
  <1>1. \A i \in 2..8 : CifTerms(s)[i] = IF i % 2 = 0 THEN CifDoubled(s[i]) ELSE s[i]
    BY DEF CifTerms
  <1>2. \A i \in 2..8 : CifTerms(s)[i] \in Digits
    BY <1>1, DoubledApart DEF DigitsOfCif
  <1>3. \A i \in 2..8 : CifTerms(s)[i] \in Int
    BY <1>2 DEF Digits
  <1>4. IsFiniteSet(2..8)
    BY PlacesFinite
  <1>5. CifSum(s) \in Int
    BY <1>3, <1>4, SumType DEF CifSum
  <1>. QED BY <1>1, <1>2, <1>3, <1>5

(* One digit mistyped moves the sum of a cif by 1 to 9.                       *)
LEMMA CifOne ==
    ASSUME NEW s, DigitsOfCif(s), NEW t, DigitsOfCif(t), NEW i \in 2..8, OneOff(s, t, 2..8, i)
    PROVE  \E e \in -9..9 : e # 0 /\ CifSum(t) = CifSum(s) + e
  <1>. DEFINE f == CifTerms(s)
              g == CifTerms(t)
  <1>1. /\ \A j \in 2..8 : f[j] \in Int /\ g[j] \in Int
        /\ \A j \in (2..8) \ {i} : g[j] = f[j]
    BY TermsAre DEF OneOff
  <1>2. f[i] \in Digits /\ g[i] \in Digits /\ f[i] # g[i]
    <2>1. s[i] \in Digits /\ t[i] \in Digits /\ s[i] # t[i]
      BY DEF DigitsOfCif, OneOff
    <2>2. CifDoubled(s[i]) # CifDoubled(t[i])
      BY <2>1, DoubledApart
    <2>. QED BY <2>1, <2>2, TermsAre
  <1>3. IsFiniteSet(2..8)
    BY PlacesFinite
  <1>4. PICK F, G, S, x : F = f /\ G = g /\ S = 2..8 /\ x = i
    OBVIOUS
  <1>. HIDE DEF f, g
  <1>5. SumOver(G, S) = SumOver(F, S) + (G[x] - F[x])
    <2>1. x \in S /\ IsFiniteSet(S) /\ (\A j \in S : F[j] \in Int) /\ (\A j \in S \ {x} : G[j] = F[j]) /\ G[x] \in Int
      BY <1>1, <1>3, <1>4
    <2>. QED BY ONLY <2>1, SumChange
  <1>6. CifSum(t) = CifSum(s) + (g[i] - f[i])
    BY <1>4, <1>5 DEF CifSum, f, g
  <1>7. g[i] - f[i] \in -9..9 /\ g[i] - f[i] # 0
    BY <1>2, OtherDigit
  <1>. QED BY <1>6, <1>7

(* So do neighbours exchanged, other than 0 and 9: one of the two is doubled, *)
(* then the other.                                                            *)
LEMMA CifTwo ==
    ASSUME NEW s, DigitsOfCif(s), NEW t, DigitsOfCif(t), NEW i \in 2..7, TwoOff(s, t, 2..8, i), {s[i], s[i + 1]} # {0, 9}
    PROVE  \E e \in -9..9 : e # 0 /\ CifSum(t) = CifSum(s) + e
  <1>. DEFINE f == CifTerms(s)
              g == CifTerms(t)
  <1>0. i \in 2..8 /\ i + 1 \in 2..8 /\ i # i + 1
    OBVIOUS
  <1>1. /\ \A j \in 2..8 : f[j] \in Int /\ g[j] \in Int
        /\ \A j \in (2..8) \ {i, i + 1} : g[j] = f[j]
    BY TermsAre DEF TwoOff
  <1>2. PICK a \in Digits, b \in Digits, x \in Digits, y \in Digits :
             a = s[i] /\ b = s[i + 1] /\ x = CifDoubled(a) /\ y = CifDoubled(b)
    BY <1>0, DoubledApart DEF DigitsOfCif
  <1>3. x - a # y - b /\ x - a \in -4..4 /\ y - b \in -4..4
    <2>1. a # b /\ {a, b} # {0, 9}
      BY <1>2 DEF TwoOff
    <2>. QED BY <1>2, <2>1, DoubledApart
  <1>4. (g[i] - f[i]) + (g[i + 1] - f[i + 1]) \in {(y - b) - (x - a), (x - a) - (y - b)}
    <2>1. CASE i % 2 = 0
      <3>1. (i + 1) % 2 # 0
        BY <2>1
      <3>2. f[i] = x /\ f[i + 1] = b /\ g[i] = y /\ g[i + 1] = a
        BY <1>0, <1>2, <2>1, <3>1, TermsAre DEF TwoOff
      <3>3. (y - x) + (a - b) = (y - b) - (x - a)
        BY DEF Digits
      <3>. QED BY <3>2, <3>3
    <2>2. CASE i % 2 # 0
      <3>1. (i + 1) % 2 = 0
        BY <2>2
      <3>2. f[i] = a /\ f[i + 1] = y /\ g[i] = b /\ g[i + 1] = x
        BY <1>0, <1>2, <2>2, <3>1, TermsAre DEF TwoOff
      <3>3. (b - a) + (x - y) = (x - a) - (y - b)
        BY DEF Digits
      <3>. QED BY <3>2, <3>3
    <2>. QED BY <2>1, <2>2
  <1>5. IsFiniteSet(2..8)
    BY PlacesFinite
  <1>6. PICK F, G, S, p, q : F = f /\ G = g /\ S = 2..8 /\ p = i /\ q = i + 1
    OBVIOUS
  <1>. HIDE DEF f, g
  <1>7. SumOver(G, S) = SumOver(F, S) + (G[p] - F[p]) + (G[q] - F[q])
    <2>1. /\ p \in S /\ q \in S /\ p # q /\ IsFiniteSet(S) /\ (\A j \in S : F[j] \in Int)
          /\ (\A j \in S \ {p, q} : G[j] = F[j]) /\ G[p] \in Int /\ G[q] \in Int
      BY <1>0, <1>1, <1>5, <1>6
    <2>. QED BY ONLY <2>1, SumTwoChange
  <1>8. CifSum(t) = CifSum(s) + ((g[i] - f[i]) + (g[i + 1] - f[i + 1]))
    <2>1. CifSum(t) = CifSum(s) + (g[i] - f[i]) + (g[i + 1] - f[i + 1])
      BY <1>6, <1>7 DEF CifSum, f, g
    <2>2. CifSum(s) \in Int
      BY TermsAre
    <2>. QED BY <1>0, <1>1, <2>1, <2>2
  <1>9. PICK e : e = (g[i] - f[i]) + (g[i + 1] - f[i + 1])
    OBVIOUS
  <1>10. e \in -9..9 /\ e # 0
    <2>1. PICK u \in -4..4, v \in -4..4 : u = x - a /\ v = y - b /\ u # v
      BY <1>3
    <2>2. e \in {v - u, u - v}
      BY <1>4, <1>9, <2>1
    <2>. QED BY <2>1, <2>2
  <1>. QED BY <1>8, <1>9, <1>10

(* Sums that differ by 1 to 9 have different check digits.                    *)
LEMMA CifDigitApart ==
    ASSUME NEW s, NEW t, CifSum(s) \in Int, NEW e \in -9..9, e # 0, CifSum(t) = CifSum(s) + e
    PROVE  CifDigit(s) \in Digits /\ CifDigit(t) \in Digits /\ CifDigit(s) # CifDigit(t)
  <1>1. PICK x \in Int : x = CifSum(s)
    OBVIOUS
  <1>2. x % 10 # (x + e) % 10
    OBVIOUS
  <1>3. /\ CifDigit(s) = IF x % 10 = 0 THEN 0 ELSE 10 - (x % 10)
        /\ CifDigit(t) = IF (x + e) % 10 = 0 THEN 0 ELSE 10 - ((x + e) % 10)
    BY <1>1 DEF CifDigit, CifSum
  <1>4. x % 10 \in 0..9 /\ (x + e) % 10 \in 0..9
    OBVIOUS
  <1>. QED BY <1>2, <1>3, <1>4 DEF Digits

(* A slip of a cif is accepted only if it exchanges 0 and 9 (tax-             *)
(* id.validator.ts:141-177).                                                  *)
LEMMA CifSeen ==
    ASSUME NEW s \in Seq(Places), Cif(s), NEW slip, slip \in Slips("cif", s), slip # s, Cif(slip)
    PROVE  \E i \in 2..7 : {s[i], s[i + 1]} = {0, 9} /\ slip[i] = s[i + 1] /\ slip[i + 1] = s[i]
  <1>1. Body("cif") = 2..8 /\ DOMAIN s = 1..9
    BY DEF Body, Cif
  <1>2. slip[9] = s[9] /\ slip[1] = s[1]
    BY <1>1, SlipKeeps
  <1>3. DigitsOfCif(s) /\ DigitsOfCif(slip)
    BY DEF Cif, DigitsOfCif
  <1>4. SUFFICES ASSUME ~\E i \in 2..7 : {s[i], s[i + 1]} = {0, 9} /\ slip[i] = s[i + 1] /\ slip[i + 1] = s[i]
                 PROVE  FALSE
    OBVIOUS
  <1>5. \/ \E i \in 2..8 : OneOff(s, slip, DOMAIN s, i)
        \/ \E i \in 2..8 : i + 1 \in 2..8 /\ TwoOff(s, slip, DOMAIN s, i)
    BY <1>1, SlipIs
  <1>6. \E e \in -9..9 : e # 0 /\ CifSum(slip) = CifSum(s) + e
    <2>1. CASE \E i \in 2..8 : OneOff(s, slip, DOMAIN s, i)
      <3>1. PICK i \in 2..8 : OneOff(s, slip, 2..8, i)
        BY <1>1, <2>1 DEF OneOff
      <3>. QED BY <1>3, <3>1, CifOne
    <2>2. CASE \E i \in 2..8 : i + 1 \in 2..8 /\ TwoOff(s, slip, DOMAIN s, i)
      <3>1. PICK i \in 2..7 : TwoOff(s, slip, 2..8, i)
        BY <1>1, <2>2 DEF TwoOff
      <3>2. {s[i], s[i + 1]} # {0, 9}
        BY <1>4, <3>1 DEF TwoOff
      <3>. QED BY <1>3, <3>1, <3>2, CifTwo
    <2>. QED BY <1>5, <2>1, <2>2
  <1>7. CifDigit(s) \in Digits /\ CifDigit(slip) \in Digits /\ CifDigit(s) # CifDigit(slip)
    BY <1>3, <1>6, TermsAre, CifDigitApart
  <1>. QED BY <1>2, <1>7 DEF Cif, Digits

\* What comes before the check base.
Bases(type) ==
    CASE type = "cnpj" -> [1..12 -> Digits]
      [] type = "cpf" -> [1..9 -> Digits]
      [] type = "nif" -> [1..8 -> Digits]
      [] type = "nie" -> {s \in [1..8 -> Digits] : s[1] \in 0..2}
      [] type = "cif" -> {s \in [1..8 -> Digits \cup Kinds] : s[1] \in Kinds /\ \A i \in 2..8 : s[i] \in Digits}

\* t is s and then d.
Prolongs(t, s, d, n, m, T) == t \in [1..m -> T] /\ Len(t) = m /\ t[m] = d /\ \A i \in 1..n : t[i] = s[i]

(* What Append makes of a sequence whose length is known.                     *)
LEMMA Appended ==
    ASSUME NEW n \in Nat, NEW m \in Nat, m = n + 1, NEW T, NEW s \in [1..n -> T], NEW d \in T, NEW t, t = Append(s, d)
    PROVE  Prolongs(t, s, d, n, m, T)
  <1>1. s \in Seq(T) /\ Len(s) = n
    OBVIOUS
  <1>2. t \in Seq(T) /\ Len(t) = Len(s) + 1 /\ t[Len(s) + 1] = d /\ \A i \in 1..Len(s) : t[i] = s[i]
    BY <1>1, AppendProperties
  <1>3. Len(t) = m /\ t[m] = d /\ \A i \in 1..n : t[i] = s[i]
    BY <1>1, <1>2
  <1>4. t \in [1..m -> T]
    BY <1>2, <1>3, LenProperties
  <1>. QED BY <1>3, <1>4 DEF Prolongs

(* What becomes of a sum modulo 11 is a digit.                                *)
LEMMA ModuloDigit == ASSUME NEW x \in Int PROVE Modulo11(x) \in Digits
  BY DEF Modulo11, Digits

(* The weights of the second check digit of a cnpj are thirteen integers.     *)
LEMMA W2Weights == W2 \in [1..13 -> Int]
  <1>1. PICK six : six = <<6>>
    OBVIOUS
  <1>2. six \in Seq(Int) /\ Len(six) = 1
    BY <1>1
  <1>3. W1 \in Seq(Int) /\ Len(W1) = 12
    BY DEF W1
  <1>4. PICK w : w = six \o W1
    OBVIOUS
  <1>5. w \in Seq(Int) /\ Len(w) = Len(six) + Len(W1)
    BY <1>2, <1>3, <1>4, ConcatProperties
  <1>6. Len(w) = 13
    BY <1>2, <1>3, <1>5
  <1>7. w \in [1..13 -> Int]
    BY <1>5, <1>6, LenProperties
  <1>. QED BY <1>1, <1>4, <1>7 DEF W2

(* A cnpj with its check digits is accepted, unless all its digits are the    *)
(* same (tax-id.validator.ts:60-78).                                          *)
LEMMA CnpjCompleted ==
    ASSUME NEW base \in [1..12 -> Digits], NEW s, s = Completed("cnpj", base)
    PROVE  s \in [1..14 -> Digits] /\ (Same(s) \/ Cnpj(s))
  <1>1. PICK first, longer, second : /\ first = Modulo11(Weighted(base, W1)) /\ longer = Append(base, first)
                                     /\ second = Modulo11(Weighted(longer, W2)) /\ s = Append(longer, second)
    BY DEF Completed
  <1>2. first \in Digits
    <2>1. \A i \in 1..12 : base[i] \in Int
      BY DEF Digits
    <2>2. Weighted(base, W1) \in Int
      BY <2>1, W1Weights, WeightedType
    <2>. QED BY <1>1, <2>2, ModuloDigit
  <1>3. longer \in [1..13 -> Digits] /\ longer[13] = first /\ \A i \in 1..12 : longer[i] = base[i]
    <2>1. PICK n \in Nat, m \in Nat : n = 12 /\ m = 13
      OBVIOUS
    <2>2. m = n + 1 /\ base \in [1..n -> Digits] /\ first \in Digits /\ longer = Append(base, first)
      BY <2>1, <1>1, <1>2
    <2>3. Prolongs(longer, base, first, n, m, Digits)
      BY <2>2, Appended
    <2>. QED BY <2>1, <2>3 DEF Prolongs
  <1>4. second \in Digits
    <2>1. \A i \in 1..13 : longer[i] \in Int
      BY <1>3 DEF Digits
    <2>2. Weighted(longer, W2) \in Int
      BY <2>1, W2Weights, WeightedType
    <2>. QED BY <1>1, <2>2, ModuloDigit
  <1>5. s \in [1..14 -> Digits] /\ Len(s) = 14 /\ s[14] = second /\ \A i \in 1..13 : s[i] = longer[i]
    <2>1. PICK n \in Nat, m \in Nat : n = 13 /\ m = 14
      OBVIOUS
    <2>2. m = n + 1 /\ longer \in [1..n -> Digits] /\ second \in Digits /\ s = Append(longer, second)
      BY <2>1, <1>1, <1>3, <1>4
    <2>3. Prolongs(s, longer, second, n, m, Digits)
      BY <2>2, Appended
    <2>. QED BY <2>1, <2>3 DEF Prolongs
  <1>6. Weighted(s, W1) = Weighted(base, W1)
    <2>1. PICK n \in Nat : n = 12
      OBVIOUS
    <2>2. W1 \in [1..n -> Int] /\ \A i \in 1..n : s[i] = base[i]
      BY <1>3, <1>5, <2>1, W1Weights
    <2>. QED BY <2>2, WeightedSame
  <1>7. Weighted([s EXCEPT ![13] = first], W2) = Weighted(longer, W2)
    <2>1. PICK u : u = [s EXCEPT ![13] = first]
      OBVIOUS
    <2>2. PICK n \in Nat : n = 13
      OBVIOUS
    <2>3. W2 \in [1..n -> Int] /\ \A i \in 1..n : u[i] = longer[i]
      BY <1>3, <1>5, <2>1, <2>2, W2Weights
    <2>4. Weighted(u, W2) = Weighted(longer, W2)
      BY <2>3, WeightedSame
    <2>. QED BY <2>1, <2>4
  <1>8. AllDigits(s, 14)
    BY <1>5 DEF AllDigits
  <1>9. s[13] = first
    BY <1>3, <1>5
  <1>. QED BY <1>1, <1>5, <1>6, <1>7, <1>8, <1>9 DEF Cnpj

(* A check digit of a cpf is a digit, and depends on the places before it     *)
(* only.                                                                      *)
LEMMA CpfDigitIs ==
    ASSUME NEW n \in {9, 10}, NEW s, \A i \in 1..n : s[i] \in Digits
    PROVE  CpfDigit(s, n) \in Digits /\ \A t : (\A i \in 1..n : t[i] = s[i]) => CpfDigit(t, n) = CpfDigit(s, n)
  <1>1. PICK w : w = [i \in 1..n |-> n + 2 - i]
    OBVIOUS
  <1>2. w \in [1..n -> Int] /\ n \in Nat
    BY <1>1
  <1>3. \A i \in 1..n : s[i] \in Int
    BY DEF Digits
  <1>4. Weighted(s, w) \in Int
    BY <1>2, <1>3, WeightedType
  <1>5. CpfDigit(s, n) \in Digits
    <2>1. PICK x \in Int : x = Weighted(s, w)
      BY <1>4
    <2>2. CpfDigit(s, n) = IF (x * 10) % 11 = 10 THEN 0 ELSE (x * 10) % 11
      BY <1>1, <2>1 DEF CpfDigit
    <2>3. (x * 10) % 11 \in 0..10
      OBVIOUS
    <2>. QED BY <2>2, <2>3 DEF Digits
  <1>6. ASSUME NEW t, \A i \in 1..n : t[i] = s[i] PROVE CpfDigit(t, n) = CpfDigit(s, n)
    <2>1. Weighted(t, w) = Weighted(s, w)
      BY <1>2, <1>6, WeightedSame
    <2>. QED BY <1>1, <2>1 DEF CpfDigit
  <1>. QED BY <1>5, <1>6

(* A cpf with its check digits is accepted, unless all its digits are the     *)
(* same (tax-id.validator.ts:80-97).                                          *)
LEMMA CpfCompleted ==
    ASSUME NEW base \in [1..9 -> Digits], NEW s, s = Completed("cpf", base)
    PROVE  s \in [1..11 -> Digits] /\ (Same(s) \/ Cpf(s))
  <1>1. PICK first, longer, second : /\ first = CpfDigit(base, 9) /\ longer = Append(base, first)
                                     /\ second = CpfDigit(longer, 10) /\ s = Append(longer, second)
    BY DEF Completed
  <1>2. first \in Digits
    BY <1>1, CpfDigitIs
  <1>3. longer \in [1..10 -> Digits] /\ longer[10] = first /\ \A i \in 1..9 : longer[i] = base[i]
    <2>1. PICK n \in Nat, m \in Nat : n = 9 /\ m = 10
      OBVIOUS
    <2>2. m = n + 1 /\ base \in [1..n -> Digits] /\ first \in Digits /\ longer = Append(base, first)
      BY <2>1, <1>1, <1>2
    <2>3. Prolongs(longer, base, first, n, m, Digits)
      BY <2>2, Appended
    <2>. QED BY <2>1, <2>3 DEF Prolongs
  <1>4. second \in Digits
    BY <1>1, <1>3, CpfDigitIs
  <1>5. s \in [1..11 -> Digits] /\ Len(s) = 11 /\ s[11] = second /\ \A i \in 1..10 : s[i] = longer[i]
    <2>1. PICK n \in Nat, m \in Nat : n = 10 /\ m = 11
      OBVIOUS
    <2>2. m = n + 1 /\ longer \in [1..n -> Digits] /\ second \in Digits /\ s = Append(longer, second)
      BY <2>1, <1>1, <1>3, <1>4
    <2>3. Prolongs(s, longer, second, n, m, Digits)
      BY <2>2, Appended
    <2>. QED BY <2>1, <2>3 DEF Prolongs
  <1>6. CpfDigit(s, 9) = first
    <2>1. \A i \in 1..9 : s[i] = base[i]
      BY <1>3, <1>5
    <2>. QED BY <1>1, <2>1, CpfDigitIs
  <1>7. CpfDigit(s, 10) = second
    BY <1>1, <1>3, <1>5, CpfDigitIs
  <1>8. AllDigits(s, 11)
    BY <1>5 DEF AllDigits
  <1>9. s[10] = first
    BY <1>3, <1>5
  <1>. QED BY <1>5, <1>6, <1>7, <1>8, <1>9 DEF Cpf

(* A nif with its check digit is accepted, unless it begins with 0 or 4 (tax- *)
(* id.validator.ts:99-116).                                                   *)
LEMMA NifCompleted ==
    ASSUME NEW base \in [1..8 -> Digits], NEW s, s = Completed("nif", base)
    PROVE  s \in [1..9 -> Digits] /\ (s[1] \in {0, 4} \/ Nif(s))
  <1>1. PICK first : first = Modulo11(NifSum(base)) /\ s = Append(base, first)
    BY DEF Completed
  <1>2. PICK w : w = [i \in 1..8 |-> 10 - i]
    OBVIOUS
  <1>3. w \in [1..8 -> Int] /\ NifSum(base) = Weighted(base, w) /\ NifSum(s) = Weighted(s, w)
    BY <1>2 DEF NifSum
  <1>4. first \in Digits
    <2>1. \A i \in 1..8 : base[i] \in Int
      BY DEF Digits
    <2>2. Weighted(base, w) \in Int
      BY <1>3, <2>1, WeightedType
    <2>. QED BY <1>1, <1>3, <2>2, ModuloDigit
  <1>5. s \in [1..9 -> Digits] /\ Len(s) = 9 /\ s[9] = first /\ \A i \in 1..8 : s[i] = base[i]
    <2>1. PICK n \in Nat, m \in Nat : n = 8 /\ m = 9
      OBVIOUS
    <2>2. m = n + 1 /\ base \in [1..n -> Digits] /\ first \in Digits /\ s = Append(base, first)
      BY <2>1, <1>1, <1>4
    <2>3. Prolongs(s, base, first, n, m, Digits)
      BY <2>2, Appended
    <2>. QED BY <2>1, <2>3 DEF Prolongs
  <1>6. NifSum(s) = NifSum(base)
    <2>1. PICK n \in Nat : n = 8
      OBVIOUS
    <2>2. w \in [1..n -> Int] /\ \A i \in 1..n : s[i] = base[i]
      BY <1>3, <1>5, <2>1
    <2>3. Weighted(s, w) = Weighted(base, w)
      BY <2>2, WeightedSame
    <2>. QED BY <1>3, <2>3
  <1>7. AllDigits(s, 9)
    BY <1>5 DEF AllDigits
  <1>. QED BY <1>1, <1>5, <1>6, <1>7 DEF Nif

(* A nie with its letter is accepted (tax-id.validator.ts:127-139).           *)
LEMMA NieCompleted ==
    ASSUME NEW base \in [1..8 -> Digits], base[1] \in 0..2, NEW s, s = Completed("nie", base)
    PROVE  s \in [1..9 -> Int] /\ Nie(s)
  <1>1. PICK first : first = Number(base) % 23 /\ s = Append(base, first)
    BY DEF Completed
  <1>2. \A i \in 1..8 : base[i] \in Int
    BY DEF Digits
  <1>3. first \in Int
    <2>1. PICK x \in Int : x = Number(base)
      BY <1>2, TensAre, WeightedType DEF Number
    <2>. QED BY <1>1, <2>1
  <1>4. s \in [1..9 -> Int] /\ Len(s) = 9 /\ s[9] = first /\ \A i \in 1..8 : s[i] = base[i]
    <2>1. PICK n \in Nat, m \in Nat : n = 8 /\ m = 9
      OBVIOUS
    <2>2. m = n + 1 /\ base \in [1..n -> Int] /\ first \in Int /\ s = Append(base, first)
      BY <2>1, <1>1, <1>3, <1>2
    <2>3. Prolongs(s, base, first, n, m, Int)
      BY <2>2, Appended
    <2>. QED BY <2>1, <2>3 DEF Prolongs
  <1>5. Number(s) = Number(base)
    <2>1. PICK n \in Nat : n = 8
      OBVIOUS
    <2>2. Tens \in [1..n -> Int] /\ \A i \in 1..n : s[i] = base[i]
      BY <1>4, <2>1, TensAre, SMT
    <2>. QED BY <2>2, WeightedSame DEF Number
  <1>6. Len(s) = 9 /\ s[1] \in 0..2 /\ \A i \in 2..8 : s[i] \in Digits
    BY <1>4
  <1>7. s[9] = Number(s) % 23
    BY <1>1, <1>4, <1>5
  <1>. QED BY <1>4, <1>6, <1>7 DEF Nie

(* A cif with its check digit, or its letter, is accepted (tax-               *)
(* id.validator.ts:141-177).                                                  *)
LEMMA CifCompleted ==
    ASSUME NEW base \in Bases("cif"), NEW s, s = Completed("cif", base)
    PROVE  s \in [1..9 -> Places] /\ Cif(s)
  <1>0. base \in [1..8 -> Digits \cup Kinds] /\ base[1] \in Kinds /\ \A i \in 2..8 : base[i] \in Digits
    BY DEF Bases
  <1>1. PICK first : /\ first = (IF base[1] = "letter" THEN 10 + CifDigit(base) ELSE CifDigit(base))
                     /\ s = Append(base, first)
    BY DEF Completed
  <1>2. CifDigit(base) \in Digits
    <2>1. PICK x \in Int : x = CifSum(base)
      BY <1>0, TermsAre DEF DigitsOfCif
    <2>2. CifDigit(base) = IF x % 10 = 0 THEN 0 ELSE 10 - (x % 10)
      BY <2>1 DEF CifDigit, CifSum
    <2>. QED BY <2>2 DEF Digits
  <1>3. first \in 0..19 /\ first \in Places
    BY <1>1, <1>2 DEF Digits, Places
  <1>4. s \in [1..9 -> Places] /\ Len(s) = 9 /\ s[9] = first /\ \A i \in 1..8 : s[i] = base[i]
    <2>1. PICK n \in Nat, m \in Nat : n = 8 /\ m = 9
      OBVIOUS
    <2>2. m = n + 1 /\ base \in [1..n -> Places] /\ first \in Places /\ s = Append(base, first)
      BY <2>1, <1>1, <1>3, <1>0 DEF Places, Digits
    <2>3. Prolongs(s, base, first, n, m, Places)
      BY <2>2, Appended
    <2>. QED BY <2>1, <2>3 DEF Prolongs
  <1>5. CifDigit(s) = CifDigit(base)
    <2>1. CifTerms(s) = CifTerms(base)
      BY <1>4 DEF CifTerms
    <2>. QED BY <2>1 DEF CifDigit
  <1>6. Len(s) = 9 /\ s[1] = base[1] /\ \A i \in 2..8 : s[i] \in Digits
    BY <1>0, <1>4
  <1>. QED BY <1>0, <1>1, <1>3, <1>4, <1>5, <1>6 DEF Cif, Kinds

(* What Validate asks of each type that has a check digit.                    *)
LEMMA ValidIs ==
    ASSUME NEW type \in Checked, NEW s
    PROVE  /\ (Validate(type, s) = "valid") = ValidTaxId(type, s)
           /\ type = "cnpj" => ValidTaxId(type, s) = Cnpj(s)
           /\ type = "cpf" => ValidTaxId(type, s) = Cpf(s)
           /\ type = "nif" => ValidTaxId(type, s) = Nif(s)
           /\ type = "nie" => ValidTaxId(type, s) = Nie(s)
           /\ type = "cif" => ValidTaxId(type, s) = Cif(s)
  <1>1. /\ type = "cnpj" => ValidTaxId(type, s) = Cnpj(s)
        /\ type = "cpf" => ValidTaxId(type, s) = Cpf(s)
        /\ type = "nif" => ValidTaxId(type, s) = Nif(s)
        /\ type = "nie" => ValidTaxId(type, s) = Nie(s)
        /\ type = "cif" => ValidTaxId(type, s) = Cif(s)
    BY DEF ValidTaxId
  <1>2. ValidTaxId(type, s) \in BOOLEAN
    BY <1>1 DEF Checked, Cnpj, Cpf, Nif, Nie, Cif
  <1>3. (Validate(type, s) = "valid") = ValidTaxId(type, s)
    BY <1>2 DEF Validate
  <1>. QED BY <1>1, <1>3

(* A function on 1..n is a sequence.                                          *)
LEMMA AsSequence ==
    ASSUME NEW T, T \subseteq Places, NEW n \in Nat, NEW s \in [1..n -> T]
    PROVE  s \in Seq(Places)
  OBVIOUS

\* What SlipIsSeen says of a completed identifier.
Seen(type, s) ==
    /\ ValidTaxId(type, s)
    /\ \A slip \in Slips(type, s) \ {s} : ValidTaxId(type, slip) => Blind(type, s, slip)

(* SlipIsSeen, said of the completed identifier.                              *)
LEMMA SeenIs ==
    ASSUME NEW type \in Checked, NEW base, NEW s, s = Completed(type, base),
           (type \in {"cnpj", "cpf"} /\ Same(s)) \/ (type = "nif" /\ s[1] \in {0, 4}) \/ Seen(type, s)
    PROVE  SlipIsSeen(type, base)
  BY ValidIs DEF SlipIsSeen, Seen

(* The slips of every cnpj are seen, where they can be.                       *)
LEMMA CnpjSlips == ASSUME NEW base \in Bases("cnpj") PROVE SlipIsSeen("cnpj", base)
  <1>1. PICK s : s = Completed("cnpj", base)
    OBVIOUS
  <1>2. s \in [1..14 -> Digits] /\ (Same(s) \/ Cnpj(s))
    BY <1>1, CnpjCompleted DEF Bases
  <1>3. s \in Seq(Places)
    <2>1. PICK n, T : n \in Nat /\ n = 14 /\ T = Digits
      OBVIOUS
    <2>2. n \in Nat /\ T \subseteq Places /\ s \in [1..n -> T]
      BY <1>2, <2>1 DEF Places, Digits
    <2>. QED BY <2>2, AsSequence
  <1>4. Cnpj(s) => Seen("cnpj", s)
    <2>. SUFFICES ASSUME Cnpj(s) PROVE Seen("cnpj", s)
      OBVIOUS
    <2>1. ASSUME NEW slip \in Slips("cnpj", s) \ {s}, ValidTaxId("cnpj", slip) PROVE Blind("cnpj", s, slip)
      <3>1. Cnpj(slip)
        BY <2>1, ValidIs DEF Checked
      <3>2. s[13] = 0
        BY <1>3, <2>1, <3>1, CnpjSeen
      <3>. QED BY <3>2 DEF Blind, CheckPlace
    <2>. QED BY <2>1, ValidIs DEF Seen, Checked
  <1>. QED BY <1>1, <1>2, <1>4, SeenIs DEF Checked

(* The slips of every cpf are seen, where they can be.                        *)
LEMMA CpfSlips == ASSUME NEW base \in Bases("cpf") PROVE SlipIsSeen("cpf", base)
  <1>1. PICK s : s = Completed("cpf", base)
    OBVIOUS
  <1>2. s \in [1..11 -> Digits] /\ (Same(s) \/ Cpf(s))
    BY <1>1, CpfCompleted DEF Bases
  <1>3. s \in Seq(Places)
    <2>1. PICK n, T : n \in Nat /\ n = 11 /\ T = Digits
      OBVIOUS
    <2>2. n \in Nat /\ T \subseteq Places /\ s \in [1..n -> T]
      BY <1>2, <2>1 DEF Places, Digits
    <2>. QED BY <2>2, AsSequence
  <1>4. Cpf(s) => Seen("cpf", s)
    <2>. SUFFICES ASSUME Cpf(s) PROVE Seen("cpf", s)
      OBVIOUS
    <2>1. ASSUME NEW slip \in Slips("cpf", s) \ {s}, ValidTaxId("cpf", slip) PROVE Blind("cpf", s, slip)
      <3>1. Cpf(slip)
        BY <2>1, ValidIs DEF Checked
      <3>2. s[10] = 0
        BY <1>3, <2>1, <3>1, CpfSeen
      <3>. QED BY <3>2 DEF Blind, CheckPlace
    <2>. QED BY <2>1, ValidIs DEF Seen, Checked
  <1>. QED BY <1>1, <1>2, <1>4, SeenIs DEF Checked

(* The slips of every nif are seen, where they can be.                        *)
LEMMA NifSlips == ASSUME NEW base \in Bases("nif") PROVE SlipIsSeen("nif", base)
  <1>1. PICK s : s = Completed("nif", base)
    OBVIOUS
  <1>2. s \in [1..9 -> Digits] /\ (s[1] \in {0, 4} \/ Nif(s))
    BY <1>1, NifCompleted DEF Bases
  <1>3. s \in Seq(Places)
    <2>1. PICK n, T : n \in Nat /\ n = 9 /\ T = Digits
      OBVIOUS
    <2>2. n \in Nat /\ T \subseteq Places /\ s \in [1..n -> T]
      BY <1>2, <2>1 DEF Places, Digits
    <2>. QED BY <2>2, AsSequence
  <1>4. Nif(s) => Seen("nif", s)
    <2>. SUFFICES ASSUME Nif(s) PROVE Seen("nif", s)
      OBVIOUS
    <2>1. ASSUME NEW slip \in Slips("nif", s) \ {s}, ValidTaxId("nif", slip) PROVE Blind("nif", s, slip)
      <3>1. Nif(slip)
        BY <2>1, ValidIs DEF Checked
      <3>2. s[9] = 0
        BY <1>3, <2>1, <3>1, NifSeen
      <3>. QED BY <3>2 DEF Blind, CheckPlace
    <2>. QED BY <2>1, ValidIs DEF Seen, Checked
  <1>. QED BY <1>1, <1>2, <1>4, SeenIs DEF Checked

(* The slips of every nie are seen.                                           *)
LEMMA NieSlips == ASSUME NEW base \in Bases("nie") PROVE SlipIsSeen("nie", base)
  <1>1. PICK s : s = Completed("nie", base)
    OBVIOUS
  <1>2. s \in [1..9 -> Int] /\ Nie(s)
    BY <1>1, NieCompleted DEF Bases
  <1>3. s \in Seq(Places)
    <2>1. PICK n, T : n \in Nat /\ n = 9 /\ T = Int
      OBVIOUS
    <2>2. n \in Nat /\ T \subseteq Places /\ s \in [1..n -> T]
      BY <1>2, <2>1 DEF Places
    <2>. QED BY <2>2, AsSequence
  <1>4. Seen("nie", s)
    <2>1. ASSUME NEW slip \in Slips("nie", s) \ {s}, ValidTaxId("nie", slip) PROVE Blind("nie", s, slip)
      <3>1. Nie(slip)
        BY <2>1, ValidIs DEF Checked
      <3>. QED BY <1>2, <1>3, <2>1, <3>1, NieSeen
    <2>. QED BY <1>2, <2>1, ValidIs DEF Seen, Checked
  <1>. QED BY <1>1, <1>4, SeenIs DEF Checked

(* The slips of every cif are seen, where they can be.                        *)
LEMMA CifSlips == ASSUME NEW base \in Bases("cif") PROVE SlipIsSeen("cif", base)
  <1>1. PICK s : s = Completed("cif", base)
    OBVIOUS
  <1>2. s \in [1..9 -> Places] /\ Cif(s)
    BY <1>1, CifCompleted
  <1>3. s \in Seq(Places)
    <2>1. PICK n, T : n \in Nat /\ n = 9 /\ T = Places
      OBVIOUS
    <2>2. n \in Nat /\ T \subseteq Places /\ s \in [1..n -> T]
      BY <1>2, <2>1
    <2>. QED BY <2>2, AsSequence
  <1>4. Seen("cif", s)
    <2>1. ASSUME NEW slip \in Slips("cif", s) \ {s}, ValidTaxId("cif", slip) PROVE Blind("cif", s, slip)
      <3>1. Cif(slip)
        BY <2>1, ValidIs DEF Checked
      <3>2. \E i \in 2..7 : {s[i], s[i + 1]} = {0, 9} /\ slip[i] = s[i + 1] /\ slip[i + 1] = s[i]
        BY <1>2, <1>3, <2>1, <3>1, CifSeen
      <3>. QED BY <3>2 DEF Blind
    <2>. QED BY <1>2, <2>1, ValidIs DEF Seen, Checked
  <1>. QED BY <1>1, <1>4, SeenIs DEF Checked

(***************************************************************************)
(* Every identifier of a checked type, whatever its digits, is accepted    *)
(* with the check digits that belong to it (unless all its digits are the  *)
(* same, or a nif begins with 0 or 4), and no other digit and no exchange  *)
(* of neighbours in it is: but for a check digit 0, which stands for two   *)
(* remainders of 11, and 09 for 90 in a cif (tax-id.validator.ts:60-177).  *)
(***************************************************************************)
THEOREM SlipsAreSeen == \A type \in Checked : \A base \in Bases(type) : SlipIsSeen(type, base)
  BY CnpjSlips, CpfSlips, NifSlips, NieSlips, CifSlips DEF Checked

--------------------------------------------------------------------------------
\* Part 7. The registry among the other desks.

(* The identifiers the desk of check digits generates are of the shape of     *)
(* their type.                                                                *)
LEMMA BasesAre ==
    ASSUME NEW type \in Checked, NEW x \in 0..9, NEW y \in 0..9, NEW z \in 0..9
    PROVE  Base(type, x, y, z) \in Bases(type)
  <1>1. \A n \in Nat : [i \in 1..n |-> (x + y * i + z * i * i) % 10] \in [1..n -> Digits]
    <2>. SUFFICES ASSUME NEW n \in Nat, NEW i \in 1..n PROVE (x + y * i + z * i * i) % 10 \in Digits
      OBVIOUS
    <2>1. PICK k \in Int : k = x + y * i + z * i * i
      OBVIOUS
    <2>2. k % 10 \in 0..9
      OBVIOUS
    <2>. QED BY <2>1, <2>2 DEF Digits
  <1>2. PICK g : g = Generated(type, x, y, z)
    OBVIOUS
  <1>3. CASE type = "cnpj"
    <2>1. g = [i \in 1..12 |-> (x + y * i + z * i * i) % 10]
      BY <1>2, <1>3 DEF Generated
    <2>2. g \in [1..12 -> Digits]
      BY <1>1, <2>1
    <2>. QED BY <1>2, <1>3, <2>2 DEF Base, Bases
  <1>4. CASE type = "cpf"
    <2>1. g = [i \in 1..9 |-> (x + y * i + z * i * i) % 10]
      BY <1>2, <1>4 DEF Generated
    <2>2. g \in [1..9 -> Digits]
      BY <1>1, <2>1
    <2>. QED BY <1>2, <1>4, <2>2 DEF Base, Bases
  <1>5. CASE type \in {"nif", "nie", "cif"}
    <2>1. g = [i \in 1..8 |-> (x + y * i + z * i * i) % 10]
      BY <1>2, <1>5 DEF Generated
    <2>2. g \in [1..8 -> Digits]
      BY <1>1, <2>1
    <2>3. g[1] % 3 \in 0..2 /\ g[1] % 3 \in Digits
      BY <2>2 DEF Digits
    <2>4. CASE type = "nif"
      BY <1>2, <2>2, <2>4 DEF Base, Bases
    <2>5. CASE type = "nie"
      <3>1. Base(type, x, y, z) = [g EXCEPT ![1] = g[1] % 3]
        BY <1>2, <2>5 DEF Base
      <3>. QED BY <2>2, <2>3, <2>5, <3>1 DEF Bases
    <2>6. CASE type = "cif"
      <3>1. PICK k \in 0..2 : k = g[1] % 3
        BY <2>3
      <3>2. PICK kind \in Kinds : kind = <<"letter", "digit", "either">>[1 + k]
        BY <3>1 DEF Kinds
      <3>3. Base(type, x, y, z) = [g EXCEPT ![1] = kind]
        BY <1>2, <2>6, <3>1, <3>2 DEF Base
      <3>. QED BY <2>2, <2>6, <3>2, <3>3 DEF Bases
    <2>. QED BY <1>5, <2>4, <2>5, <2>6
  <1>. QED BY <1>3, <1>4, <1>5 DEF Checked

DigitsAreBases == desk = "digits" => digits.type \in Checked /\ digits.base \in Bases(digits.type)

CollectionsInv == RegistryInv /\ CreditInv /\ ChaseInv /\ DigitsAreBases

(***************************************************************************)
(* Whatever the desks do: rows, documents, accounts and rules have their   *)
(* types, a customer marked valid has a number and a type that validate    *)
(* together, an account loses its partner to a race alone, and a clerk's   *)
(* slip is seen as the scheme of the identifier promises                   *)
(* (customers.service.ts:226-289, tax-id.validator.ts:60-177).             *)
(***************************************************************************)
THEOREM RegistryAlwaysHolds == CollectionsSpec => []RegistryHolds
  <1>1. MCInit => CollectionsInv
    <2>. SUFFICES ASSUME MCInit PROVE CollectionsInv
      OBVIOUS
    <2>1. PartnersInit /\ CreditInit /\ DunningInit
      BY DEF MCInit
    <2>2. DigitsAreBases
      <3>. SUFFICES ASSUME desk = "digits" PROVE digits.type \in Checked /\ digits.base \in Bases(digits.type)
        BY DEF DigitsAreBases
      <3>1. PICK type \in Checked, x, y, z \in 0..9 : digits = [type |-> type, base |-> Base(type, x, y, z)]
        BY DEF MCInit
      <3>2. digits.type = type /\ digits.base = Base(type, x, y, z)
        BY <3>1
      <3>. QED BY <3>2, BasesAre
    <2>. QED BY <2>1, <2>2, RegistryBegins, CreditBegins, ChaseStart DEF CollectionsInv
  <1>2. CollectionsInv /\ [MCNext]_<<otherVars, partnerVars, creditVars, dunningVars, desk, digits>> => CollectionsInv'
    <2>. SUFFICES ASSUME CollectionsInv, [MCNext]_<<otherVars, partnerVars, creditVars, dunningVars, desk, digits>>
                  PROVE  CollectionsInv'
      OBVIOUS
    <2>1. /\ [Register]_partnerVars /\ [Sell \/ Reward]_creditVars /\ [Chase]_dunningVars
          /\ UNCHANGED <<desk, digits>>
      BY DEF MCNext, resting
    <2>2. RegistryInv' /\ CreditInv' /\ ChaseInv'
      BY <2>1, RegistryMoves, CreditMoves, ChaseMoves DEF CollectionsInv
    <2>3. DigitsAreBases'
      BY <2>1 DEF CollectionsInv, DigitsAreBases
    <2>. QED BY <2>2, <2>3 DEF CollectionsInv
  <1>3. CollectionsInv => RegistryHolds
    <2>. SUFFICES ASSUME CollectionsInv PROVE RegistryHolds
      OBVIOUS
    <2>1. CollectionsTypeOK
      BY DEF CollectionsInv, RegistryInv, CreditInv, CreditShape, ChaseInv, ChaseTyped, CollectionsTypeOK
    <2>2. CheckDigitsSee
      BY SlipsAreSeen DEF CollectionsInv, DigitsAreBases, CheckDigitsSee
    <2>. QED BY <2>1, <2>2 DEF CollectionsInv, RegistryInv, RegistryHolds
  <1>. QED BY <1>1, <1>2, <1>3, PTL DEF CollectionsSpec

================================================================================
