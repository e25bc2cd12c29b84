------------------------------- MODULE MCFinance -------------------------------
(* The books and the treasury: the desks of MCBookkeeping, and three of        *)
(* Treasury while the books are as they were. Those are accounts (movements,   *)
(* transfers and removals), statements (imports, reconciliation, payments of   *)
(* lines) and rates. Each desk checks every property.                          *)
EXTENDS MCBookkeeping, Treasury

CONSTANTS b1, b2

\* Amounts as banks write them, to the cent: 1.234,56 - 1,234.56 - 1234.56 and 1234,56.
Text(negative, digits, dots, commas, last) ==
    [negative |-> negative, digits |-> digits, dots |-> dots, commas |-> commas, last |-> last, tail |-> 2]
Line(worth, dots, commas, last) ==
    [worth |-> worth, text |-> Text(worth < 0, IF worth < 0 THEN -worth ELSE worth, dots, commas, last)]

\* Three statements of the same day, of which an account keeps one; a line of one is no number: 1234,567,89.
SmallFiles ==
    [sent |-> [account |-> b1, day |-> 1,
               lines |-> [in |-> Line(123456, 1, 1, "comma"), out |-> Line(-123456789, 2, 1, "comma")]],
     read |-> [account |-> b1, day |-> 1,
               lines |-> [in |-> Line(123456, 1, 0, "dot"), out |-> Line(-123456, 0, 1, "comma")]],
     abroad |-> [account |-> b1, day |-> 1,
                 lines |-> [in |-> Line(123456, 1, 1, "dot"), bad |-> Line(123456789, 0, 2, "comma")]]]

KeepAccounts ==
    \/ CreateAccount(b1, 1, "AOA", TRUE) \/ CreateAccount(b2, 0, "AOA", TRUE)
    \/ \E a \in BankIds, c \in Currencies, active \in BOOLEAN :
          (active \/ c = "AOA") /\ EditAccount(a, c, active)
    \/ \E u \in Cashiers : AccountStep(u) \/ LetGo(u)

\* Bounds: decisions that match, or give up matching; two or three requests one after another,
\* two imports, two payments.
Decide(u, f) ==
    /\ f = "sent" /\ HasStatement(f) /\ \A d \in decided : d.n < 2
    /\ \E lines \in SUBSET StatementLines(f) \ {{}}, status \in {"matched", "unmatched"} :
        BeginReconcile(u, f, [l \in lines |-> status])

Statements ==
    \/ CreateAccount(b1, 0, "AOA", TRUE)
    \/ \E f \in DOMAIN Files : (LastImport < 2 /\ ImportStatement(f, f = "sent")) \/ DeleteStatement(f)
    \/ \E u \in Cashiers :
        \/ \E f \in DOMAIN Files : Decide(u, f)
        \/ \E f \in DOMAIN Files : f = "sent" /\ HasStatement(f) /\ Len(settled) < 1 /\ \E l \in StatementLines(f) : BeginConfirm(u, f, l)
        \/ DecideLines(u) \/ Reconcile(u) \/ PayMatch(u) \/ MarkMatched(u)
        \/ BeginRemoval(u, b1) \/ FinishRemoval(u) \/ LetGo(u)

TreasuryDesk == desk \in {"accounts", "statements", "rates"}
TreasuryDesks ==
    \/ desk = "accounts" /\ KeepAccounts
    \/ desk = "statements" /\ Statements
    \/ desk = "rates" /\ ManageRates

FinanceInit == BookInit /\ TreasuryInit /\ (MCBookDesk \/ TreasuryDesk)
FinanceNext ==
    \/ MCBookNext /\ UNCHANGED treasuryVars
    \/ TreasuryDesks /\ UNCHANGED <<bookVars, desk>>

FinanceSpec == FinanceInit /\ [][FinanceNext]_<<bookVars, treasuryVars, desk>>
================================================================================
