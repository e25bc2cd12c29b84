------------------------------- MODULE Partners -------------------------------
(* The registry of customers and suppliers (src/modules/finance/customers,     *)
(* src/modules/finance/suppliers) and the accounts that name them. A removal   *)
(* looks for accounts and then deletes, in one transaction but two statements: *)
(* accounts raised in between lose their partner (ON DELETE SET NULL), while a *)
(* sales or purchase document prevents the deletion (RESTRICT). Names,         *)
(* addresses and bank data are left out.                                       *)
EXTENDS TaxIds

CONSTANTS
    Customers, Suppliers,    \* identities of rows
    Codes,                  \* what may be written as the internal code
    Numbers,                \* what may be written as the tax number: digits without punctuation
    Types,                  \* what may be written as its type
    Accounts,               \* receivables and payables
    Nobody, None, Keep      \* no partner any more; an empty field; a field the request does not give

Partners == Customers \cup Suppliers
Kind(p) == IF p \in Customers THEN Customers ELSE Suppliers

NoRow == [state |-> "absent"]
ASSUME NobodyAssumption == Nobody \notin Partners \cup {NoRow}
PartnerRow == [state : {"kept"}, code : Codes \cup {None}, number : Numbers \cup {None},
        type : Types \cup {"none"}, mark : {"valid", "unknown"}, active : BOOLEAN]

VARIABLES
    row,        \* customers and suppliers
    partner,    \* accounts: customer_id or supplier_id, or NoRow while the account is not raised
    documents,  \* the partners that some sales or purchase document names
    removing,   \* removals that found no account and did not delete yet
    crossed     \* history: accounts raised while the removal of their partner was under way

partnerVars == <<row, partner, documents, removing, crossed>>

PartnersInit ==
    /\ row = [p \in Partners |-> NoRow] /\ partner = [i \in Accounts |-> NoRow]
    /\ documents = {} /\ removing = {} /\ crossed = {}

Known(p) == row[p] # NoRow
Others(p) == {q \in Kind(p) \ {p} : Known(q)}
Taken(p, code, number) ==
    \E q \in Others(p) : (code # None /\ row[q].code = code) \/ (number # None /\ row[q].number = number)

\* What validateTaxId makes of a number and a type; "invalid" is an exception.
Check(number, type) == IF number = None \/ type = "none" THEN "unknown" ELSE Validate(type, number)

\* The number of a supplier is not validated: its row has no mark.
Create(p, code, number, type) ==
    LET mark == IF p \in Customers THEN Check(number, type) ELSE "unknown"
    IN  /\ ~Known(p) /\ ~Taken(p, code, number) /\ mark # "invalid"
        /\ row' = [row EXCEPT ![p] = [state |-> "kept", code |-> code, number |-> number, type |-> type,
                                      mark |-> mark, active |-> TRUE]]
        /\ UNCHANGED <<partner, documents, removing, crossed>>

\* A field of the request that is not given keeps what the row has.
Field(given, old) == IF given = Keep THEN old ELSE given
\* The check sees what the request gives, never what the row has: one without the other is unknown.
Given(given, none) == IF given = Keep THEN none ELSE given
Mark(old, number, type) ==
    IF number = Keep /\ type = Keep THEN old ELSE Check(Given(number, None), Given(type, "none"))
Update(p, code, number, type, active) ==
    /\ Known(p)
    /\ ~Taken(p, Given(code, None), Given(number, None))
    /\ LET mark == IF p \in Customers THEN Mark(row[p].mark, number, type) ELSE "unknown"
       IN  /\ mark # "invalid"
           /\ row' = [row EXCEPT ![p] = [row[p] EXCEPT !.code = Field(code, @), !.number = Field(number, @),
                                                  !.type = Field(type, @), !.mark = mark, !.active = active]]
    /\ UNCHANGED <<partner, documents, removing, crossed>>

AccountsOf(p) == {i \in Accounts : partner[i] = p}

\* Faulty variant: nobody looks for accounts.
FindAccountsNever(p) == {}
FindAccounts(p) == AccountsOf(p)
BeginRemoval(p) ==
    /\ Known(p) /\ p \notin removing
    /\ IF FindAccounts(p) # {}
       THEN row' = [row EXCEPT ![p].active = FALSE] /\ UNCHANGED removing
       ELSE removing' = removing \cup {p} /\ UNCHANGED row
    /\ UNCHANGED <<partner, documents, crossed>>

Delete(p) ==
    /\ p \in removing
    /\ removing' = removing \ {p}
    /\ IF p \in documents
       THEN UNCHANGED <<row, partner>>
       ELSE /\ row' = [row EXCEPT ![p] = NoRow]
            /\ partner' = [i \in Accounts |-> IF partner[i] = p THEN Nobody ELSE partner[i]]
    /\ UNCHANGED <<documents, crossed>>

\* createReceivable, createPayable. That the partner is inactive or being removed does not matter.
Raise(i, p) ==
    /\ partner[i] = NoRow /\ Known(p)
    /\ partner' = [partner EXCEPT ![i] = p]
    /\ crossed' = crossed \cup {j \in {i} : p \in removing}
    /\ UNCHANGED <<row, documents, removing>>

WriteDocument(p) ==
    /\ Known(p) /\ p \notin documents
    /\ documents' = documents \cup {p}
    /\ UNCHANGED <<row, partner, removing, crossed>>

Register ==
    \/ \E p \in Partners, code \in Codes \cup {None}, number \in Numbers \cup {None}, type \in Types \cup {"none"} :
          Create(p, code, number, type)
    \/ \E p \in Partners, code \in Codes \cup {None, Keep}, number \in Numbers \cup {None, Keep},
          type \in Types \cup {"none", Keep}, active \in BOOLEAN : Update(p, code, number, type, active)
    \/ \E p \in Partners : BeginRemoval(p) \/ Delete(p) \/ WriteDocument(p)
    \/ \E i \in Accounts, p \in Partners : Raise(i, p)

PartnersSpec == PartnersInit /\ [][Register]_partnerVars

--------------------------------------------------------------------------------
PartnersTypeOK ==
    /\ row \in [Partners -> PartnerRow \cup {NoRow}]
    /\ partner \in [Accounts -> Partners \cup {NoRow, Nobody}]
    /\ documents \subseteq Partners /\ removing \subseteq Partners /\ crossed \subseteq Accounts

(* A customer marked valid has, as they are stored now, a number and a type   *)
(* that validate together, whatever was changed since the mark was set        *)
(* (customers.service.ts:226-262).                                            *)
MarkedMeansValid ==
    \A p \in Customers : Known(p) /\ row[p].mark = "valid" => Check(row[p].number, row[p].type) = "valid"

(* An account loses its customer or supplier only when it was raised between  *)
(* the two statements of that partner's removal (customers.service.ts:279-289,*)
(* suppliers.service.ts:241-251): the link is never lost by a removal alone.  *)
LinkKept == \A i \in Accounts : partner[i] = Nobody => i \in crossed
================================================================================
