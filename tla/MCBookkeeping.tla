----------------------------- MODULE MCBookkeeping -----------------------------
(* Instances of Bookkeeping. A run is about one desk: the daybook (entries in  *)
(* a journal that is edited and removed), the rules (documents posted and      *)
(* cancelled while the rule changes), or the closing of years. The desks write *)
(* entries of their own kinds, and each checks every property.                 *)
EXTENDS Bookkeeping, Desks

CONSTANTS j1, d1

Account(kind, normal, cash, flow) ==
    [kind |-> kind, normal |-> normal, level |-> 2, cash |-> cash, flow |-> flow]
SmallChart ==
    [cash |-> Account("asset", "debit", TRUE, "operating"),
     depreciation |-> Account("asset", "credit", FALSE, "investing"),
     tax |-> Account("liability", "credit", FALSE, "operating"),
     sales |-> Account("revenue", "credit", FALSE, "operating"),
     costs |-> Account("expense", "debit", FALSE, "operating"),
     summary |-> Account("equity", "credit", FALSE, "financing"),
     retained |-> Account("equity", "credit", FALSE, "financing")]

Posting(debit, credit, amount) ==
    [a \in Accounts |-> IF a = debit THEN amount ELSE IF a = credit THEN -amount ELSE 0]
SmallPostings == {Posting("cash", "sales", 2), Posting("costs", "depreciation", 1)}

\* A document as the rule of sales invoices expects it, one a cent off by rounding, and
\* one with a discount, whose subtotal is before it.
SmallBills ==
    {[total |-> 3, subtotal |-> 2, tax |-> 1], [total |-> 3, subtotal |-> 2, tax |-> 0],
     [total |-> 2, subtotal |-> 4, tax |-> 0]}
RuleLine(type, account, source) == [type |-> type, account |-> account, source |-> source]
SmallTemplates ==
    {{RuleLine("debit", "cash", "total"), RuleLine("credit", "sales", "subtotal"), RuleLine("credit", a, "tax")} :
        a \in {"tax", Unmapped}}

\* Bound: these desks make fewer entries than the closing, which adds up to four at a time.
FewEntries == Len(entries) < 3

Daybook(u) ==
    \/ FewEntries /\ BeginEntry(u, Posting("costs", "depreciation", 1), thisYear, FALSE, j1, journals[j1].paper = "active")
    \/ \E mode \in {"continuous", "monthly"} : BeginEditJournal(u, j1, TRUE, mode)
    \/ BeginRemoveJournal(u, j1) \/ BeginRemoveDocument(u, j1) \/ Insert(u) \/ WriteJournal(u) \/ Abandon(u)

Rules(u) ==
    \/ FewEntries /\ \E bill \in Bills : BeginGenerate(u, d1, bill)
    \/ FewEntries /\ \E i \in Ids : BeginReversal(u, i)
    \/ Insert(u) \/ ReverseEntry(u) \/ Abandon(u)

\* Bounds: two entries are made and one is reversed by hand.
YearEnd(u) ==
    \/ /\ Len(entries) < 2
       /\ \/ BeginEntry(u, Posting("cash", "sales", 2), thisYear, FALSE, NoJournal, FALSE)
          \/ BeginEntry(u, Posting("costs", "cash", 2), thisYear, FALSE, NoJournal, FALSE)
          \/ BeginEntry(u, Posting("cash", "sales", 2), thisYear, TRUE, NoJournal, FALSE)
    \/ (~\E i \in Ids : entries[i].kind = "reversal") /\ \E i \in Ids : BeginReversal(u, i)
    \/ BeginClose(u, thisYear)
    \/ Insert(u) \/ ReverseEntry(u) \/ Close(u) \/ Abandon(u)

MCBookDesk == desk \in {"daybook", "rules", "closing"}
MCBookNext ==
    /\ desk' = desk
    /\ \/ /\ desk = "daybook"
          /\ (entries = <<>> /\ SaveDocument(j1, "active")) \/ \E u \in Clerks : Daybook(u)
       \/ /\ desk = "rules"
          /\ \/ \E u \in Clerks : Rules(u)
             \/ FewEntries /\ ReverseForReference(d1)
             \/ SwitchAccount("cash") \/ RemoveAccount("tax")
             \/ \E lines \in Templates : SeedRule(lines) \/ \E on, post \in BOOLEAN : SaveRule(lines, on, post)
       \/ /\ desk = "closing"
          /\ \/ \E u \in Clerks : YearEnd(u)
             \/ \E y \in Years : Reopen(y)
             \/ NewYear
================================================================================
