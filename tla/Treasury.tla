-------------------------------- MODULE Treasury --------------------------------
(* Bank accounts and their movements, the statements of the banks and their    *)
(* reconciliation, and exchange rates (src/modules/finance: treasury,          *)
(* bank-reconciliation, bank-import, exchange-rates). A transaction takes its  *)
(* row locks and reads at its first steps and writes when it commits. Money is *)
(* in whole units; dates other than those of statements and rates are left out.*)
EXTENDS Sums, FiniteSets, Sequences

CONSTANTS
    Cashiers,          \* requests that may be under way at once
    BankIds,           \* ids of bank_accounts
    Currencies, Days,
    Amounts,           \* of openings, movements and transfers
    Files,             \* statements: file -> [account, day, lines: line -> [worth, text]]
    MaxRows            \* bound: rows of finance_transactions, imports, reconciliations, payments

ASSUME TreasuryAssumption ==
    /\ Days \subseteq Nat /\ Amounts \subseteq Nat \ {0} /\ MaxRows \in Nat
    /\ \A f \in DOMAIN Files : Files[f].account \in BankIds /\ Files[f].day \in Days

VARIABLES
    bank,        \* bank_accounts
    moves,       \* finance_transactions of the treasury, in the order of commit
    statement,   \* bank_statements with bank_statement_lines, per file
    decided,     \* bank_reconciliations
    settled,     \* payments of entries made by confirmMatch
    rates,       \* exchange_rates: (from, to, day) -> rate
    cashier      \* per request: what it holds, and what it read

treasuryVars == <<bank, moves, statement, decided, settled, rates, cashier>>
bookOfBank == <<bank, moves>>
bookOfStatements == <<statement, decided, settled>>

NoAccount == [state |-> "none"]
GoneAccount == [state |-> "gone"]
BankRow == [state: {"kept"}, isActive: BOOLEAN, currency: Currencies, balance: Int]
HasAccount(a) == bank[a].state = "kept"

\* account and the sign of amount are not stored: reference_id is the account of openings and
\* movements, and of the two rows of a transfer a number of its own.
MoveRow ==
    [type: {"bank_account_opening", "treasury_movement", "treasury_transfer_out", "treasury_transfer_in"},
     account: BankIds, amount: Int]

StatementLines(f) == DOMAIN statement[f].line
AllLines == UNION {DOMAIN Files[f].lines : f \in DOMAIN Files}
NoStatement == [id |-> 0]
LineRow == [amount: Int, reconciled: BOOLEAN, matched: {"none", "transaction", "entry"}]
IsStatementRow(f, row) ==
    /\ row.id \in 1..MaxRows /\ row.status \in {"uploaded", "reconciled"}
    /\ DOMAIN row.line \subseteq DOMAIN Files[f].lines /\ \A l \in DOMAIN row.line : row.line[l] \in LineRow
    \* bank_statement_imports: none for a file read by bank-import
    /\ row.import \in {"none", "imported", "reconciled"} /\ row.matched \in Nat
HasStatement(f) == statement[f] # NoStatement
MatchStatuses == {"matched", "pending", "discrepancy", "unmatched"}
Decision == [n: 1..MaxRows, of: 1..MaxRows, line: AllLines, status: MatchStatuses]

NoRate == 0
Waiting == [op |-> "rest"]

Take(u, work) == cashier[u] = Waiting /\ cashier' = [cashier EXCEPT ![u] = work]
Leave(u) == cashier' = [cashier EXCEPT ![u] = Waiting]

TreasuryInit ==
    /\ bank = [a \in BankIds |-> NoAccount] /\ moves = <<>>
    /\ statement = [f \in DOMAIN Files |-> NoStatement] /\ decided = {} /\ settled = <<>>
    /\ rates = [p \in (Currencies \X Currencies) \X Days |-> NoRate]
    /\ cashier = [u \in Cashiers |-> Waiting]

--------------------------------------------------------------------------------
\* Bank accounts, their movements and transfers.

\* Rows of bank_accounts locked by a request.
HeldBy(u) == IF cashier[u].op \in {"move", "transfer"} THEN DOMAIN cashier[u].read ELSE {}
\* Faulty variant: recordMovement and recordTransfer read without FOR UPDATE.
LockedNever(a) == FALSE
Locked(a) == \E u \in Cashiers : a \in HeldBy(u)

Move(type, a, amount) == [type |-> type, account |-> a, amount |-> amount]

CreateAccount(a, initial, currency, active) ==
    /\ bank[a] = NoAccount /\ Len(moves) < MaxRows
    /\ bank' = [bank EXCEPT ![a] =
          [state |-> "kept", isActive |-> active, currency |-> currency, balance |-> initial]]
    /\ moves' = IF initial > 0 THEN Append(moves, Move("bank_account_opening", a, initial)) ELSE moves
    /\ UNCHANGED <<bookOfStatements, rates, cashier>>

\* The patch of updateBankAccount; a currency may change under a balance.
EditAccount(a, currency, active) ==
    /\ HasAccount(a) /\ ~Locked(a)
    /\ bank' = [bank EXCEPT ![a].currency = currency, ![a].isActive = active]
    /\ UNCHANGED <<moves, bookOfStatements, rates, cashier>>

\* Only treasury_movement rows count as history, and neither read is locked.
HasHistory(a) == (\E i \in DOMAIN moves : moves[i].type = "treasury_movement" /\ moves[i].account = a)
            \/ bank[a].balance # 0

BeginRemoval(u, a) ==
    /\ HasAccount(a) /\ Take(u, [op |-> "remove", account |-> a, used |-> HasHistory(a)])
    /\ UNCHANGED <<bookOfBank, bookOfStatements, rates>>

\* What an account has goes with it (ON DELETE CASCADE); an insert that refers to the row holds it.
FinishRemoval(u) ==
    /\ cashier[u].op = "remove"
    /\ LET a == cashier[u].account
           mine == {f \in DOMAIN Files : Files[f].account = a /\ HasStatement(f)}
       IN  /\ ~Locked(a)
           /\ IF ~HasAccount(a) THEN UNCHANGED <<bank, statement, decided>>
              ELSE IF cashier[u].used THEN
                   bank' = [bank EXCEPT ![a].isActive = FALSE] /\ UNCHANGED <<statement, decided>>
              ELSE /\ \A f \in mine, v \in Cashiers : cashier[v].op = "decided" => cashier[v].file # f
                   /\ bank' = [bank EXCEPT ![a] = GoneAccount]
                   /\ statement' = [f \in DOMAIN Files |-> IF f \in mine THEN NoStatement ELSE statement[f]]
                   /\ decided' = {d \in decided : \A f \in mine : d.of # statement[f].id}
    /\ Leave(u)
    /\ UNCHANGED <<moves, settled, rates>>

BeginMovement(u, a, amount) ==
    /\ HasAccount(a) /\ ~Locked(a)
    /\ Take(u, [op |-> "move", amount |-> amount, read |-> [x \in {a} |-> bank[x]]])
    /\ UNCHANGED <<bookOfBank, bookOfStatements, rates>>

RecordMovement(u) ==
    /\ cashier[u].op = "move" /\ Len(moves) < MaxRows
    /\ LET a == CHOOSE x \in HeldBy(u) : TRUE
           row == cashier[u].read[a]
           balance == row.balance + cashier[u].amount
       IN  /\ row.isActive /\ balance >= 0
           /\ bank' = [bank EXCEPT ![a] = IF HasAccount(a) THEN [@ EXCEPT !.balance = balance] ELSE @]
           /\ moves' = Append(moves, Move("treasury_movement", a, cashier[u].amount))
    /\ Leave(u)
    /\ UNCHANGED <<bookOfStatements, rates>>

\* SELECT ... WHERE id IN (from, to) FOR UPDATE locks the rows in the order it meets them,
\* which the sorting of the two ids does not decide.
BeginTransfer(u, from, to, amount) ==
    /\ from # to /\ HasAccount(from) /\ HasAccount(to)
    /\ \E a \in {from, to} :
        /\ ~Locked(a)
        /\ Take(u, [op |-> "transfer", from |-> from, to |-> to, amount |-> amount,
                    read |-> [x \in {a} |-> bank[x]]])
    /\ UNCHANGED <<bookOfBank, bookOfStatements, rates>>

LockOther(u) ==
    /\ cashier[u].op = "transfer"
    /\ \E a \in {cashier[u].from, cashier[u].to} \ HeldBy(u) :
        /\ HasAccount(a) /\ ~Locked(a)
        /\ cashier' = [cashier EXCEPT ![u].read = [x \in HeldBy(u) \cup {a} |-> IF x = a THEN bank[a] ELSE @[x]]]
    /\ UNCHANGED <<bookOfBank, bookOfStatements, rates>>

Covers(row, amount) == row.balance - amount >= 0

RecordTransfer(u) ==
    /\ cashier[u].op = "transfer" /\ Cardinality(HeldBy(u)) = 2 /\ Len(moves) + 2 <= MaxRows
    /\ LET t == cashier[u]
           from == t.read[t.from]
           to == t.read[t.to]
       IN  /\ from.isActive /\ to.isActive /\ from.currency = to.currency /\ Covers(from, t.amount)
           /\ bank' = [bank EXCEPT ![t.from].balance = from.balance - t.amount,
                                   ![t.to].balance = to.balance + t.amount]
           /\ moves' = moves \o <<Move("treasury_transfer_out", t.from, -t.amount),
                                  Move("treasury_transfer_in", t.to, t.amount)>>
    /\ Leave(u)
    /\ UNCHANGED <<bookOfStatements, rates>>

--------------------------------------------------------------------------------
\* Statements of a bank and their reconciliation.

Imports == {statement[f].id : f \in DOMAIN Files} \cup {d.of : d \in decided} \cup {settled[i].of : i \in DOMAIN settled}
LastImport == Max(Imports \cup {0})

\* What a file says of an amount, in hundredths: its digits, its separators, and how many
\* digits stand after the last one. The last separator is read as the decimal one; a text
\* that has it twice is no number, and reads as zero.
Hundredths(text) ==
    LET n == IF text.negative THEN -text.digits ELSE text.digits IN
    IF text.tail <= 2 THEN n * 10^(2 - text.tail)
    ELSE (n + 5 * 10^(text.tail - 3)) \div 10^(text.tail - 2)

ReadAmount(text) ==
    LET decimals == IF text.last = "comma" THEN text.commas ELSE text.dots
    IN  IF decimals > 1 THEN 0 ELSE Hundredths(text)

\* Files are finite; what a line is worth and what is read of it are whole numbers of hundredths.
ASSUME LinesAssumption ==
    /\ IsFiniteSet(AllLines)
    /\ \A f \in DOMAIN Files : \A l \in DOMAIN Files[f].lines :
          Files[f].lines[l].worth \in Int /\ ReadAmount(Files[f].lines[l].text) \in Int

\* The amounts of the lines kept: parseCsv skips what reads as zero.
AmountsOf(f, tracked) ==
    LET lines == Files[f].lines
        kept == {l \in DOMAIN lines : tracked \/ ReadAmount(lines[l].text) # 0}
    IN  [l \in kept |-> IF tracked THEN lines[l].worth ELSE ReadAmount(lines[l].text)]

\* unique(account, statement_date); tracked when the lines are sent one by one
\* (bank-reconciliation), not when a file is read (bank-import).
ImportStatement(f, tracked) ==
    /\ HasAccount(Files[f].account) /\ LastImport < MaxRows
    /\ \A g \in DOMAIN Files :
          HasStatement(g) => Files[g].account # Files[f].account \/ Files[g].day # Files[f].day
    /\ LET amount == AmountsOf(f, tracked) IN
        /\ DOMAIN amount # {}
        /\ statement' = [statement EXCEPT ![f] =
              [id |-> LastImport + 1, status |-> "uploaded", matched |-> 0,
               line |-> [l \in DOMAIN amount |->
                            [amount |-> amount[l], reconciled |-> FALSE, matched |-> "none"]],
               import |-> IF tracked THEN "imported" ELSE "none"]]
    /\ UNCHANGED <<bookOfBank, decided, settled, rates, cashier>>

\* Rows of bank_statement_lines locked by reconcile, from their update to its commit.
LinesHeldBy(u) ==
    IF cashier[u].op = "decided" THEN {<<cashier[u].id, l>> : l \in DOMAIN cashier[u].decisions} ELSE {}
LineLocked(id, l) == \E u \in Cashiers : <<id, l>> \in LinesHeldBy(u)

DecisionsOn(id, l) == {d \in decided : d.of = id /\ d.line = l}

\* reconcile deletes the decisions it sees on its lines ...
BeginReconcile(u, f, decisions) ==
    /\ HasStatement(f) /\ DOMAIN decisions \subseteq StatementLines(f)
    /\ LET id == statement[f].id IN
        Take(u, [op |-> "reconcile", file |-> f, id |-> id, decisions |-> decisions,
                 doomed |-> UNION {DecisionsOn(id, l) : l \in DOMAIN decisions}])
    /\ UNCHANGED <<bookOfBank, bookOfStatements, rates>>

\* Faulty variant: the lines are done when the batch is.
UndecidedInBatch(f, id, decisions, rows) == {}
\* Lines without a row of bank_reconciliations, the batch's own included.
Undecided(f, id, decisions, rows) ==
    {l \in StatementLines(f) \ DOMAIN decisions : ~\E d \in rows : d.of = id /\ d.line = l}

\* ... inserts its own, marks the lines and looks for lines that no decision it sees is on.
DecideLines(u) ==
    /\ cashier[u].op = "reconcile"
    /\ LET r == cashier[u] IN
        /\ statement[r.file].id = r.id
        /\ \A l \in DOMAIN r.decisions : ~LineLocked(r.id, l)
        /\ cashier' = [cashier EXCEPT ![u] =
              [op |-> "decided", file |-> r.file, id |-> r.id, decisions |-> r.decisions, doomed |-> r.doomed,
               allDone |-> Undecided(r.file, r.id, r.decisions, decided \ r.doomed) = {}]]
    /\ UNCHANGED <<bookOfBank, bookOfStatements, rates>>

IsMatched(status) == status = "matched"

\* What is written of a line, and of the statement of a batch.
Marked(line, reconciled, by) == [line EXCEPT !.reconciled = reconciled, !.matched = by]

Reconciled(row, r) ==
    LET done(s) == IF r.allDone THEN "reconciled" ELSE s
        matched(l) == r.decisions[l] = "matched"
        lines == DOMAIN r.decisions
    IN  [row EXCEPT
          !.status = done(row.status),
          !.import = IF row.import = "none" THEN "none" ELSE done("imported"),
          !.matched = IF row.import = "none" THEN row.matched ELSE Cardinality({l \in lines : matched(l)}),
          !.line = [l \in DOMAIN row.line |->
              IF l \in lines
              THEN Marked(row.line[l], IsMatched(r.decisions[l]), IF matched(l) THEN "transaction" ELSE "none")
              ELSE row.line[l]]]

Reconcile(u) ==
    /\ cashier[u].op = "decided"
    /\ LET r == cashier[u]
           last == Max({d.n : d \in decided} \cup {0})
       IN  /\ last < MaxRows
           /\ decided' = (decided \ r.doomed)
                 \cup {[n |-> last + 1, of |-> r.id, line |-> l, status |-> r.decisions[l]] : l \in DOMAIN r.decisions}
           /\ statement' = [statement EXCEPT ![r.file] = Reconciled(statement[r.file], r)]
    /\ Leave(u)
    /\ UNCHANGED <<bookOfBank, settled, rates>>

DeleteStatement(f) ==
    /\ HasStatement(f) /\ \A u \in Cashiers : cashier[u].op = "decided" => cashier[u].file # f
    /\ statement' = [statement EXCEPT ![f] = NoStatement]
    /\ decided' = {d \in decided : d.of # statement[f].id}
    /\ UNCHANGED <<bookOfBank, settled, rates, cashier>>

\* confirmMatch reads the line, pays the entry in a transaction of recordPayment's own ...
BeginConfirm(u, f, l) ==
    /\ HasStatement(f) /\ ~statement[f].line[l].reconciled
    /\ Take(u, [op |-> "confirm", file |-> f, id |-> statement[f].id, line |-> l])
    /\ UNCHANGED <<bookOfBank, bookOfStatements, rates>>

PayMatch(u) ==
    /\ cashier[u].op = "confirm" /\ Len(settled) < MaxRows
    /\ settled' = Append(settled, [file |-> cashier[u].file, of |-> cashier[u].id, line |-> cashier[u].line])
    /\ cashier' = [cashier EXCEPT ![u].op = "paid"]
    /\ UNCHANGED <<bookOfBank, statement, decided, rates>>

\* ... and marks the line in a statement of its own.
MarkMatched(u) ==
    /\ cashier[u].op = "paid"
    /\ LET c == cashier[u]
           row == statement[c.file]
       IN  /\ ~LineLocked(c.id, c.line)
           /\ statement' = IF row.id # c.id THEN statement ELSE
                 [statement EXCEPT ![c.file].line = [row.line EXCEPT ![c.line] = Marked(row.line[c.line], TRUE, "entry")]]
    /\ Leave(u)
    /\ UNCHANGED <<bookOfBank, decided, settled, rates>>

--------------------------------------------------------------------------------
\* Exchange rates. Upsert: a unique index stands behind the check.

SaveRate(from, to, day, rate) ==
    /\ from # to /\ rate # NoRate
    /\ rates' = [rates EXCEPT ![<<<<from, to>>, day>>] = rate]
    /\ UNCHANGED <<bookOfBank, bookOfStatements, cashier>>

RemoveRate(from, to, day) ==
    /\ rates[<<<<from, to>>, day>>] # NoRate
    /\ rates' = [rates EXCEPT ![<<<<from, to>>, day>>] = NoRate]
    /\ UNCHANGED <<bookOfBank, bookOfStatements, cashier>>

\* Days on which a pair has a rate, up to a day.
\* Faulty variant: the latest rate, whatever its day.
QuotedEver(from, to, day) == {d \in Days : rates[<<<<from, to>>, d>>] # NoRate}
Quoted(from, to, day) == {d \in Days : d <= day /\ rates[<<<<from, to>>, d>>] # NoRate}

\* The latest direct rate, else the inverse of the latest inverse one: numerator and denominator.
LookupRate(from, to, day) ==
    LET latest(x, y) == rates[<<<<x, y>>, Max(Quoted(x, y, day))>>] IN
    IF from = to THEN <<1, 1>>
    ELSE IF Quoted(from, to, day) # {} THEN <<latest(from, to), 1>>
    ELSE IF Quoted(to, from, day) # {} THEN <<1, latest(to, from)>>
    ELSE <<0, 1>>

--------------------------------------------------------------------------------
\* A check fails, the process dies, or PostgreSQL picks the request as a deadlock's victim.
LetGo(u) == cashier[u] # Waiting /\ Leave(u) /\ UNCHANGED <<bookOfBank, bookOfStatements, rates>>

AccountStep(u) ==
    \/ \E a \in BankIds :
        \/ BeginRemoval(u, a)
        \/ \E amount \in Amounts : BeginMovement(u, a, amount) \/ BeginMovement(u, a, -amount)
        \/ \E b \in BankIds, amount \in Amounts : BeginTransfer(u, a, b, amount)
    \/ FinishRemoval(u) \/ RecordMovement(u) \/ LockOther(u) \/ RecordTransfer(u)

StatementStep(u) ==
    \/ \E f \in {g \in DOMAIN Files : HasStatement(g)} :
        \/ \E lines \in SUBSET StatementLines(f) \ {{}}, status \in MatchStatuses :
              BeginReconcile(u, f, [l \in lines |-> status])
        \/ \E l \in StatementLines(f) : BeginConfirm(u, f, l)
    \/ DecideLines(u) \/ Reconcile(u) \/ PayMatch(u) \/ MarkMatched(u)

ManageAccounts ==
    \E a \in BankIds, c \in Currencies, active \in BOOLEAN :
        EditAccount(a, c, active) \/ \E initial \in Amounts \cup {0} : CreateAccount(a, initial, c, active)
ManageStatements == \E f \in DOMAIN Files, tracked \in BOOLEAN : ImportStatement(f, tracked) \/ DeleteStatement(f)
ManageRates ==
    \E from, to \in Currencies, day \in Days :
        RemoveRate(from, to, day) \/ \E rate \in 1..2 : SaveRate(from, to, day, rate)

TreasuryNext ==
    \/ ManageAccounts \/ ManageStatements \/ ManageRates
    \/ \E u \in Cashiers : AccountStep(u) \/ StatementStep(u) \/ LetGo(u)

TreasurySpec == TreasuryInit /\ [][TreasuryNext]_treasuryVars

--------------------------------------------------------------------------------
(* Rows are well formed, and a decision is about a line of a statement there is. *)
TreasuryTypeOK ==
    /\ bank \in [BankIds -> BankRow \cup {NoAccount, GoneAccount}]
    /\ moves \in Seq(MoveRow)
    /\ \A f \in DOMAIN Files : HasStatement(f) => IsStatementRow(f, statement[f])
    /\ decided \subseteq Decision
    /\ \A d \in decided : \E f \in DOMAIN Files : statement[f].id = d.of
    /\ rates \in [(Currencies \X Currencies) \X Days -> Nat]

MovedOn(a) == SumOver([i \in DOMAIN moves |-> IF moves[i].account = a THEN moves[i].amount ELSE 0], DOMAIN moves)

(* current_balance, which every screen reads instead of adding up movements    *)
(* (treasury.service.ts:41), is what was opened, moved and transferred, and is *)
(* never below zero, whoever else is moving or transferring at the time.       *)
BalanceIsMovements ==
    \A a \in BankIds : HasAccount(a) =>
        /\ bank[a].balance >= 0
        /\ bank[a].balance = MovedOn(a)

(* A line is reconciled because somebody matched it or a payment was recorded  *)
(* for it, also when two requests decide on it at once or one dies half way    *)
(* (bank-reconciliation.service.ts:299, bank-import.service.ts:313).           *)
ReconciledHasReason ==
    \A f \in DOMAIN Files : HasStatement(f) => \A l \in StatementLines(f) :
        statement[f].line[l].reconciled =>
            \/ \E d \in DecisionsOn(statement[f].id, l) : d.status = "matched"
            \/ \E i \in DOMAIN settled : settled[i].of = statement[f].id /\ settled[i].line = l

(* A statement is reconciled only when each of its lines has a decision, and   *)
(* stays so while decisions are replaced (bank-reconciliation.service.ts:307). *)
ReconciledIsDecided ==
    \A f \in DOMAIN Files : HasStatement(f) /\ statement[f].status = "reconciled" =>
        \A l \in StatementLines(f) : DecisionsOn(statement[f].id, l) # {}

\* Written the Brazilian, the American or the plain way, to the cent: the last separator is there once.
WrittenToTheCent(line) ==
    LET text == line.text
        digits == IF text.negative THEN -text.digits ELSE text.digits
    IN  /\ text.tail <= 2 /\ line.worth = digits * 10^(2 - text.tail) /\ line.worth # 0
        /\ (IF text.last = "comma" THEN text.commas ELSE text.dots) \in {0, 1}

(* An amount written so is read as it was written and stays so, and its line   *)
(* is not lost, whatever the other lines of the file are ("formato BR          *)
(* (1.234,56), US (1,234.56) ou simples", statement-parser.ts:30).             *)
AmountsAsWritten ==
    \A f \in DOMAIN Files : HasStatement(f) =>
        \A l \in DOMAIN Files[f].lines : WrittenToTheCent(Files[f].lines[l]) =>
            l \in StatementLines(f) /\ statement[f].line[l].amount = Files[f].lines[l].worth

\* What a statement says of its lines rests on the file and on the decisions there are.
StatementsAreBacked == TreasuryTypeOK /\ AmountsAsWritten /\ ReconciledHasReason /\ ReconciledIsDecided

(* What is entered or removed for a day never changes what was converted by an *)
(* earlier day's rate, nor another pair's rate (lookupRate).                   *)
RatesLookForward ==
    [][\A from, to \in Currencies, day \in Days :
          LookupRate(from, to, day)' # LookupRate(from, to, day) =>
              \E d \in Days, p \in {<<from, to>>, <<to, from>>} : d <= day /\ rates'[<<p, d>>] # rates[<<p, d>>]]_treasuryVars

================================================================================
