----------------------------- MODULE MCCollections -----------------------------
(* Instances of the modules this one extends. A run is                         *)
(* about one desk: the check digits of generated identifiers, the registry of  *)
(* customers, removals with accounts, the credit of one, the commissions on a  *)
(* document, the rules of chasing or overlapping runs, the approvals of a      *)
(* document, the default price list; the rest stays as it is.                  *)
EXTENDS Partners, CustomerCredit, Dunning, Approvals, PriceLists, TLC

CONSTANTS s2, k1, k2, u1, u2, r1, r2, d1, d2, v1, q2, p1, ann

VARIABLES desk, digits

\* The identifiers of the desk of check digits: a base that three parameters generate.
Generated(type, x, y, z) ==
    LET n == CASE type = "cnpj" -> 12 [] type = "cpf" -> 9 [] OTHER -> 8
    IN  [i \in 1..n |-> (x + y * i + z * i * i) % 10]
Base(type, x, y, z) ==
    LET g == Generated(type, x, y, z)
    IN  CASE type = "nie" -> [g EXCEPT ![1] = @ % 3] [] type = "cif" -> [g EXCEPT ![1] = <<"letter", "digit", "either">>[1 + (@ % 3)]] [] OTHER -> g

\* A CPF, the same with a slip, and a NIF.
MCNumbers == {<<1, 1, 1, 4, 4, 4, 7, 7, 7, 3, 5>>, <<1, 1, 1, 4, 4, 4, 7, 7, 7, 3, 6>>, <<5, 0, 1, 4, 4, 2, 6, 0, 0>>}
MCDefault == [k \in {k1, k2} |-> IF k = k1 THEN 0 ELSE 1]

\* Two sessions create, change and convert quotes, orders and invoices; or one does, and documents of
\* every type, and accounts by hand.
Plain(r) == r \notin {NotYet, Gone} => r.type \in {"quote", "order", "invoice"}
Estimates(s) == Creating(s)' => request'[s].preview = request'[s].total /\ request'[s].type \in {"order", "invoice"}
TwoSellers == limit' = limit /\ (owed' # owed => doc' # doc) /\ (\A s \in Sessions : Estimates(s)) 
              /\ \A d \in Docs : Plain(doc'[d]) /\ (doc'[d] \notin {NotYet, Gone} => doc'[d].got = 0)
Trading == UNCHANGED <<blocked, commission>> /\ IF desk = "credit" THEN TwoSellers ELSE request'[s2] = Nothing
OneDocument == doc[d2] = NotYet /\ owed[d2] = Nothing /\ \A s \in Sessions : request[s] # Nothing => request[s].id = d1
\* One document of one amount, an invoice or an order, whose credit is not at issue.
OneAmount == /\ UNCHANGED <<limit, blocked>> /\ waived' \subseteq {"raced"}
             /\ doc'[d1] \notin {NotYet, Gone} => Plain(doc'[d1]) /\ doc'[d1].total = 1
             /\ owed'[d1] # Nothing => owed'[d1].paid < 2
FewMails == \A r \in Receivables : Len(mails[r]) < 3
\* One run at a time and one account, while rules and due dates change.
OneRun == /\ edits' <= 2 /\ begun' <= 2 /\ run'[u2] = Nil /\ open' \subseteq {r1} /\ due'[r2] = 0
          /\ reachable' = reachable \/ (reachable' = {r1} /\ edits = 0)
\* Two runs at a time over two accounts, under rules that change once.
TwoRuns == edits' <= 1 /\ (rule' # rule => \A k \in Rules : rule'[k] # Unused) /\ day' <= 1 /\ due' = due /\ open' = open /\ reachable' = reachable

\* Rules with every operator, and rules with every choice of approvers.
MCWordings ==
    [state : {"kept"}, operator : Operators, value : {1, 2}, positions : {{"manager"}}, staff : {{}}, active : {TRUE}]
    \cup [state : {"kept"}, operator : {">="}, value : {1}, positions : {{}, {"manager"}}, staff : {{}, {ann}}, active : BOOLEAN]
SmallPolicies == /\ policy' # policy => paper[p1] \in {"unwritten", "pending"}
                 /\ policy'[q2] # NoPolicy => policy'[q2].operator = ">="

otherVars == <<approvalVars, priceVars>>
resting == <<partnerVars, creditVars, dunningVars>>

MCInit ==
    /\ desk \in {"digits", "registry", "removal", "credit", "accounts", "commission", "rules", "overlap", "approvals", "prices"}
    /\ digits \in IF desk # "digits" THEN {[type |-> "none"]}
                  ELSE {[type |-> type, base |-> Base(type, x, y, z)] : type \in Checked, x, y, z \in 0..9}
    /\ PartnersInit /\ CreditInit /\ DunningInit /\ ApprovalsInit /\ PriceListsInit
    /\ \A x \in Staff : position[x] = "sales"
    /\ (desk = "credit" => limit = 2) /\ (desk \notin {"credit", "accounts"} => limit = Unlimited)
    /\ desk # "rules" => open = Receivables /\ \A r \in Receivables : due[r] = 0
    /\ desk = "rules" => open = {r1} /\ reachable \subseteq {r1} /\ due[r2] = 0
    /\ desk \notin {"rules", "overlap"} => reachable = {}
    /\ desk = "overlap" => reachable = Receivables

MCNext ==
    /\ UNCHANGED <<desk, digits>>
    /\ desk \notin {"approvals", "prices"} => UNCHANGED otherVars
    /\ \/ /\ desk = "registry" /\ Register /\ UNCHANGED <<creditVars, dunningVars>>
          /\ row'[v1] = NoRow /\ UNCHANGED <<partner, documents, removing>>
       \/ /\ desk = "removal" /\ Register /\ UNCHANGED <<creditVars, dunningVars>>
          /\ \A p \in Partners : row'[p] # NoRow => {row'[p].code, row'[p].number} = {None} /\ row'[p].type = "none"
       \/ desk \in {"credit", "accounts"} /\ Sell /\ waived' = {} /\ Trading /\ UNCHANGED <<partnerVars, dunningVars>>
       \/ desk = "commission" /\ OneDocument /\ (Sell \/ Reward) /\ OneAmount /\ UNCHANGED <<partnerVars, dunningVars>>
       \/ /\ desk \in {"rules", "overlap"} /\ FewMails /\ Chase /\ UNCHANGED <<partnerVars, creditVars>>
          /\ IF desk = "rules" THEN OneRun ELSE TwoRuns
       \/ desk = "approvals" /\ Approve /\ SmallPolicies /\ UNCHANGED <<resting, priceVars>>
       \/ desk = "prices" /\ Tariff /\ UNCHANGED <<resting, approvalVars>>

CollectionsSpec == MCInit /\ [][MCNext]_<<otherVars, partnerVars, creditVars, dunningVars, desk, digits>>

CollectionsTypeOK == PartnersTypeOK /\ CreditTypeOK /\ DunningTypeOK

(* An identifier with one digit mistyped, or two neighbours swapped, is seen   *)
(* as the scheme of its kind promises; a customer marked valid is; accounts    *)
(* lose their customer or supplier to a race alone (tax-id.validator.ts,       *)
(* customers.service.ts:226-289).                                              *)
CheckDigitsSee == desk = "digits" => SlipIsSeen(digits.type, digits.base)
RegistryHolds == CollectionsTypeOK /\ CheckDigitsSee /\ MarkedMeansValid /\ LinkKept
================================================================================
