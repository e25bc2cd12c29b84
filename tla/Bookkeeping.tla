------------------------------ MODULE Bookkeeping ------------------------------
(* The general ledger (src/modules/accounting): entries made by hand and by    *)
(* the rules of an event, numbering inside a journal, reversals, the closing   *)
(* of a year and its reopening, and the reports, which are read off the posted *)
(* entries. A transaction reads at its first step and writes when it commits.  *)
EXTENDS Sums, FiniteSets, SequencesExt

CONSTANTS
    Clerks,
    Chart,            \* accounting_chart_accounts: account -> [kind, normal, level, cash]
    Summary, Retained,
    Journals, Refs,
    Postings,         \* entries made by hand: balanced functions of Chart, debit positive
    Bills,            \* amounts of a document, by amount_source
    Templates,        \* lines a rule may have: [type, account, source]
    Years,
    MaxEntries        \* bound: no entry is begun beyond it

Accounts == DOMAIN Chart
Unmapped == "unmapped"
Net(lines) == SumOver(lines, Accounts)

AccountRow ==
    [kind: {"asset", "liability", "equity", "revenue", "expense"}, normal: {"debit", "credit"}, level: Nat,
     cash: BOOLEAN, flow: {"operating", "investing", "financing"}]
Sources == UNION {DOMAIN b : b \in Bills}
RuleLines == [type: {"debit", "credit"}, account: Accounts \cup {Unmapped}, source: Sources]

ASSUME BookkeepingAssumption ==
    /\ {Summary, Retained} \subseteq Accounts /\ Unmapped \notin Accounts
    /\ \A p \in Postings : p \in [Accounts -> Int] /\ Net(p) = 0
    /\ Years \subseteq Nat /\ Years # {}
\* The result is gathered and kept in two accounts of the balance sheet, as closings expect
\* (create_fiscal_year_closing.ts:11-15 marks them by name; only the second is checked to be equity).
ASSUME ChartAssumption ==
    /\ IsFiniteSet(Accounts) /\ Chart \in [Accounts -> AccountRow]
    /\ Summary # Retained
    /\ \A a \in {Summary, Retained} : Chart[a].kind \notin {"revenue", "expense"}
\* A rule's lines name a side, an account or none yet, and an amount every document has.
ASSUME RulesAssumption ==
    /\ Bills \subseteq [Sources -> Int]
    /\ \A t \in Templates : t \subseteq RuleLines /\ IsFiniteSet(t)

VARIABLES
    thisYear,
    entries,     \* accounting_journal_entries with their lines, in the order of commit
    accounts,    \* is_active of accounting_chart_accounts, or deleted
    journals,    \* accounting_journals
    rule,        \* accounting_journal_rules, of the one event modelled
    closings,    \* fiscal_year_closings
    clerk        \* per user: the transaction under way, with what it read

bookVars == <<thisYear, entries, accounts, journals, rule, closings, clerk>>

Active == {a \in Accounts : accounts[a] = "active"}
Zero == [a \in Accounts |-> 0]
NoJournal == "none"
NoRef == "none"
Kinds == {"manual", "auto", "closing", "transfer", "reversal", "reopening"}
EntryRow ==
    [status: {"draft", "posted", "reversed"}, kind: Kinds, year: Years, evening: BOOLEAN,
     lines: [Accounts -> Int], journal: Journals \cup {NoJournal}, period: {"free", "continuous", "monthly"},
     number: Nat, paper: BOOLEAN, of: Nat, ref: Refs \cup {NoRef}, warned: BOOLEAN]
JournalRow == [exists: BOOLEAN, isActive: BOOLEAN, mode: {"continuous", "monthly"},
               paper: {"none", "active", "inactive"}]    \* its one accounting_journal_documents row
NoRule == [exists |-> FALSE, isActive |-> FALSE, autoPost |-> FALSE, lines |-> {}]
ClosingRow == [status: {"none", "closed", "reopened"}, closing: Nat, transfer: Nat]
Rest == [op |-> "rest"]

\* An entry not in a journal, not of a document, not a reversal.
Plain(kind, y, lines) ==
    [status |-> "posted", kind |-> kind, year |-> y, evening |-> FALSE, lines |-> lines,
     journal |-> NoJournal, period |-> "free", number |-> 0, paper |-> FALSE, of |-> 0, ref |-> NoRef,
     warned |-> FALSE]

Ids == 1..Len(entries)
Posted == {i \in Ids : entries[i].status = "posted"}
SumOf(ids, a) == SumOver([i \in ids |-> entries[i].lines[a]], ids)

\* entry_date is a timestamp and a period ends at midnight of its last day: what is dated
\* later on that day (evening) is outside.
InYear(i, y) == entries[i].year = y /\ ~entries[i].evening

BookInit ==
    /\ thisYear = CHOOSE y \in Years : \A z \in Years : y <= z
    /\ entries = <<>>
    /\ accounts = [a \in Accounts |-> "active"]
    /\ journals = [j \in Journals |-> [exists |-> TRUE, isActive |-> TRUE, mode |-> "continuous",
                                       paper |-> "none"]]
    /\ rule = NoRule
    /\ closings = [y \in Years |-> [status |-> "none", closing |-> 0, transfer |-> 0]]
    /\ clerk = [u \in Clerks |-> Rest]

Begin(u, work) ==
    /\ clerk[u] = Rest
    /\ clerk' = [clerk EXCEPT ![u] = work]
    /\ UNCHANGED <<thisYear, entries, accounts, journals, rule, closings>>

Finish(u) == clerk' = [clerk EXCEPT ![u] = Rest]

Room == Len(entries) < MaxEntries

--------------------------------------------------------------------------------
\* Entries made by hand.

\* Faulty variant: the last number of the journal, whatever the period.
LastNumberOfJournal(j, period, y) == Max({entries[i].number : i \in {k \in Ids : entries[k].journal = j}} \cup {0})

\* MAX(journal_number) in the journal and period. Bound: months of a year are one period.
LastNumber(j, period, y) ==
    Max({entries[i].number : i \in {k \in Ids : /\ entries[k].journal = j
                                                /\ entries[k].period = period /\ entries[k].year = y}} \cup {0})

\* The journal and the number the entry is to have; an inactive journal is refused.
InJournal(row, j) ==
    IF j = NoJournal THEN row
    ELSE [row EXCEPT !.journal = j, !.period = journals[j].mode,
                     !.number = LastNumber(j, journals[j].mode, row.year) + 1]

MayPostTo(lines) == \A a \in Accounts : lines[a] # 0 => a \in Active

BeginEntry(u, lines, y, evening, j, paper) ==
    /\ Room /\ MayPostTo(lines)
    /\ j # NoJournal => journals[j].exists /\ journals[j].isActive
    /\ paper => j # NoJournal /\ journals[j].paper = "active"
    /\ Begin(u, [op |-> "insert",
                 row |-> InJournal([Plain("manual", y, lines) EXCEPT !.evening = evening,
                                                                     !.paper = paper], j)])

\* What was deleted meanwhile, an account, the journal or its document, fails a foreign key.
KeysHold(row) ==
    /\ \A a \in Accounts : row.lines[a] # 0 => accounts[a] # "deleted"
    /\ row.journal # NoJournal => journals[row.journal].exists
    /\ row.paper => journals[row.journal].paper # "none"

Insert(u) ==
    /\ clerk[u].op = "insert" /\ KeysHold(clerk[u].row)
    /\ entries' = Append(entries, clerk[u].row)
    /\ Finish(u)
    /\ UNCHANGED <<thisYear, accounts, journals, rule, closings>>

Abandon(u) ==
    /\ clerk[u] # Rest /\ Finish(u)
    /\ UNCHANGED <<thisYear, entries, accounts, journals, rule, closings>>

--------------------------------------------------------------------------------
\* Entries a rule makes of a document, inside the document's transaction.

\* Lines of amount zero are left out.
Built(bill) == {l \in rule.lines : bill[l.source] # 0}
OnSide(ls, bill, side) == SumOver([l \in ls |-> IF l.type = side THEN bill[l.source] ELSE 0], ls)
Signed(l, bill) == IF l.type = "debit" THEN bill[l.source] ELSE -bill[l.source]
LinesOf(ls, bill) ==
    [a \in Accounts |-> SumOver([l \in ls |-> Signed(l, bill)], {l \in ls : l.account = a})]

\* Faulty variant: an entry whose sides differ is posted.
WarningLost(ls, bill) == \E l \in ls : l.account = Unmapped

\* An unmapped account (its line is not inserted), or sides that differ by more than a cent.
Warning(ls, bill) ==
    \/ \E l \in ls : l.account = Unmapped
    \/ LET off == OnSide(ls, bill, "debit") - OnSide(ls, bill, "credit") IN off > 1 \/ off < -1

Generated(ref) == {i \in Ids : entries[i].ref = ref}

\* No active rule, an entry of the rule already there, or less than two lines: skipped.
BeginGenerate(u, ref, bill) ==
    LET ls == Built(bill) IN
    /\ Room
    /\ rule.exists /\ rule.isActive /\ Generated(ref) = {} /\ Cardinality(ls) >= 2
    /\ Begin(u, [op |-> "insert",
                 row |-> [Plain("auto", thisYear, LinesOf(ls, bill)) EXCEPT
                             !.ref = ref, !.warned = Warning(ls, bill),
                             !.status = IF rule.autoPost /\ ~Warning(ls, bill)
                                        THEN "posted" ELSE "draft"]])

Mirror(i, kind) ==
    [Plain(kind, thisYear, [a \in Accounts |-> -entries[i].lines[a]]) EXCEPT
        !.of = i, !.ref = entries[i].ref]

\* Entries of a cancelled document, drafts too, get a posted mirror; one without lines is left.
Reversible(ref) ==
    {i \in Ids : /\ entries[i].ref = ref /\ entries[i].kind = "auto"
                 /\ entries[i].status \in {"posted", "draft"} /\ entries[i].lines # Zero}

MarkReversed(es, ids) == [i \in 1..Len(es) |-> IF i \in ids THEN [es[i] EXCEPT !.status = "reversed"] ELSE es[i]]

ReverseForReference(ref) ==
    LET ids == SetToSeq(Reversible(ref)) IN
    /\ Room /\ ids # <<>>
    /\ entries' = MarkReversed(entries, Reversible(ref)) \o [n \in DOMAIN ids |-> Mirror(ids[n], "reversal")]
    /\ UNCHANGED <<thisYear, accounts, journals, rule, closings, clerk>>

\* upsert: the rule with its lines replaced.
SaveRule(lines, on, autoPost) ==
    /\ rule' = [exists |-> TRUE, isActive |-> on, autoPost |-> autoPost, lines |-> lines]
    /\ UNCHANGED <<thisYear, entries, accounts, journals, closings, clerk>>

\* seedDefaults: only an event without a rule gets one.
SeedRule(lines) == ~rule.exists /\ SaveRule(lines, TRUE, TRUE)

--------------------------------------------------------------------------------
\* Reversal of one entry, by hand.

BeginReversal(u, i) ==
    /\ Room /\ i \in Posted
    /\ Begin(u, [op |-> "reverse", entry |-> i])

ReverseEntry(u) ==
    /\ clerk[u].op = "reverse"
    /\ LET i == clerk[u].entry IN
       entries' = Append(MarkReversed(entries, {i}), [Mirror(i, "reversal") EXCEPT !.ref = NoRef])
    /\ Finish(u)
    /\ UNCHANGED <<thisYear, accounts, journals, rule, closings>>

--------------------------------------------------------------------------------
\* Closing a year.

\* computeResultBalances, in the sign of the account's type.
ResultBalance(a, y) ==
    LET net == SumOf({i \in Posted : InYear(i, y)}, a) IN
    IF Chart[a].kind = "revenue" THEN -net ELSE net
ToClose(y, kind) == {a \in Accounts : Chart[a].kind = kind /\ ResultBalance(a, y) > 0}
Total(y, kind) == SumOver([a \in Accounts |-> ResultBalance(a, y)], ToClose(y, kind))

ClosingLines(y) ==
    [a \in Accounts |->
        IF a \in ToClose(y, "revenue") THEN ResultBalance(a, y)
        ELSE IF a \in ToClose(y, "expense") THEN -ResultBalance(a, y)
        ELSE IF a = Summary THEN Total(y, "expense") - Total(y, "revenue")
        ELSE 0]

TransferLines(y) ==
    LET result == Total(y, "revenue") - Total(y, "expense") IN
    [a \in Accounts |-> IF a = Summary THEN result ELSE IF a = Retained THEN -result ELSE 0]

BeginClose(u, y) ==
    /\ Room
    /\ closings[y].status # "closed"
    /\ ~\E i \in Ids : entries[i].status = "draft" /\ InYear(i, y)
    /\ {Summary, Retained} \subseteq Active
    /\ ToClose(y, "revenue") \cup ToClose(y, "expense") # {}
    /\ Begin(u, [op |-> "close", year |-> y, fresh |-> closings[y].status = "none",
                 closing |-> ClosingLines(y), transfer |-> TransferLines(y)])

\* Faulty variant: without UNIQUE (organization_id, year).
RowMayBeWrittenTwice(u) == TRUE

\* The row is inserted, or the reopened one updated; a second insert fails on the unique index.
RowMayBeWritten(u) == clerk[u].fresh => closings[clerk[u].year].status = "none"

\* The closing's row, of a pair of entries appended to n others.
Named(n, pair) ==
    [status |-> "closed", closing |-> n + 1, transfer |-> IF Len(pair) = 2 THEN n + 2 ELSE 0]

\* The second entry only when there is a result to transfer.
Close(u) ==
    LET y == clerk[u].year
        pair == <<Plain("closing", y, clerk[u].closing)>>
                \o (IF clerk[u].transfer = Zero THEN <<>> ELSE <<Plain("transfer", y, clerk[u].transfer)>>) IN
    /\ clerk[u].op = "close" /\ RowMayBeWritten(u)
    /\ entries' = entries \o pair
    /\ closings' = [closings EXCEPT ![y] = Named(Len(entries), pair)]
    /\ Finish(u)
    /\ UNCHANGED <<thisYear, accounts, journals, rule>>

\* reopen: under the lock of the closing's row, both entries get a mirror, dated today,
\* whatever their status.
Reopen(y) ==
    LET c == closings[y]
        ids == {c.closing, c.transfer} \ {0} IN
    /\ Room /\ c.status = "closed"
    /\ entries' = MarkReversed(entries, ids)
                      \o (IF c.transfer = 0 THEN <<>> ELSE <<Mirror(c.transfer, "reopening")>>)
                      \o <<Mirror(c.closing, "reopening")>>
    /\ closings' = [closings EXCEPT ![y].status = "reopened"]
    /\ UNCHANGED <<thisYear, accounts, journals, rule, clerk>>

--------------------------------------------------------------------------------
\* Journals and accounts.

InUse(j) == \E i \in Ids : entries[i].journal = j

\* updateJournal: the mode only changes while no entry is seen in the journal.
BeginEditJournal(u, j, on, mode) ==
    /\ journals[j].exists
    /\ mode # journals[j].mode => ~InUse(j)
    /\ Begin(u, [op |-> "journal", journal |-> j,
                 row |-> [journals[j] EXCEPT !.isActive = on, !.mode = mode]])

\* removeJournal: inactive when an entry is seen in it, deleted otherwise, with its document.
BeginRemoveJournal(u, j) ==
    /\ journals[j].exists
    /\ Begin(u, [op |-> "journal", journal |-> j,
                 row |-> IF InUse(j) THEN [journals[j] EXCEPT !.isActive = FALSE]
                         ELSE [journals[j] EXCEPT !.exists = FALSE, !.paper = "none"]])

\* createDocument and updateDocument, which turns it on and off. (Default accounts are suggestions.)
SaveDocument(j, state) ==
    /\ journals[j].exists /\ state # "none"
    /\ journals[j].paper = "none" => journals[j].isActive
    /\ journals' = [journals EXCEPT ![j].paper = state]
    /\ UNCHANGED <<thisYear, entries, accounts, rule, closings, clerk>>

\* removeDocument: inactive when an entry is seen that names it, deleted otherwise.
BeginRemoveDocument(u, j) ==
    /\ journals[j].paper # "none"
    /\ Begin(u, [op |-> "document", journal |-> j,
                 state |-> IF \E i \in Ids : entries[i].journal = j /\ entries[i].paper
                           THEN "inactive" ELSE "none"])

\* A deletion empties journal_id and document_id of entries made meanwhile; they keep
\* their number.
Unlinked(row, j) ==
    IF row.journal # j THEN row
    ELSE [row EXCEPT !.journal = IF journals'[j].exists THEN j ELSE NoJournal,
                     !.paper = @ /\ journals'[j].paper # "none"]

WriteJournal(u) ==
    LET j == clerk[u].journal IN
    /\ clerk[u].op \in {"journal", "document"} /\ journals[j].exists
    /\ journals' = [journals EXCEPT ![j] =
           IF clerk[u].op = "document" THEN [@ EXCEPT !.paper = clerk[u].state]
           ELSE [clerk[u].row EXCEPT !.paper = IF clerk[u].row.exists THEN journals[j].paper ELSE "none"]]
    /\ entries' = [i \in Ids |-> Unlinked(entries[i], j)]
    /\ Finish(u)
    /\ UNCHANGED <<thisYear, accounts, rule, closings>>

\* Accounts of the chart: is_active by update.
SwitchAccount(a) ==
    /\ accounts[a] # "deleted"
    /\ accounts' = [accounts EXCEPT ![a] = IF @ = "active" THEN "inactive" ELSE "active"]
    /\ UNCHANGED <<thisYear, entries, journals, rule, closings, clerk>>

\* remove: an account with lines is deactivated; another is deleted, and the lines of rules
\* that name it become unmapped.
RemoveAccount(a) ==
    /\ accounts[a] # "deleted"
    /\ IF \E i \in Ids : entries[i].lines[a] # 0
       THEN accounts' = [accounts EXCEPT ![a] = "inactive"] /\ UNCHANGED rule
       ELSE /\ accounts' = [accounts EXCEPT ![a] = "deleted"]
            /\ rule' = [rule EXCEPT !.lines =
                   {[l EXCEPT !.account = IF @ = a THEN Unmapped ELSE @] : l \in rule.lines}]
    /\ UNCHANGED <<thisYear, entries, journals, closings, clerk>>

NewYear ==
    /\ thisYear + 1 \in Years /\ thisYear' = thisYear + 1
    /\ UNCHANGED <<entries, accounts, journals, rule, closings, clerk>>

--------------------------------------------------------------------------------
\* The reports, over the posted entries.

ThroughYear(i, y) == entries[i].year < y \/ InYear(i, y)
Balance(a, ids) == IF Chart[a].normal = "debit" THEN SumOf(ids, a) ELSE -SumOf(ids, a)

\* balancete: its totals are of the active accounts.
TrialDifference(y) ==
    LET ids == {i \in Posted : InYear(i, y)} IN SumOver([a \in Accounts |-> SumOf(ids, a)], Active)

\* Accounts of a kind, and revenue less expense (dre, over the entries of a period).
GroupTotal(kind, ids, as) ==
    SumOver([a \in Accounts |-> Balance(a, ids)], {a \in as : Chart[a].kind = kind})
NetIncome(ids, as) == GroupTotal("revenue", ids, as) - GroupTotal("expense", ids, as)

\* balanco: active accounts below the first level, accumulated to the end of the year.
SheetDifference(y) ==
    LET ids == {i \in Posted : ThroughYear(i, y)}
        as == {a \in Active : Chart[a].level >= 2} IN
    GroupTotal("asset", ids, as)
        - (GroupTotal("liability", ids, as) + GroupTotal("equity", ids, as) + NetIncome(ids, as))

\* dfc: entries of the period that touch cash, their other lines by category.
Cash == {a \in Active : Chart[a].cash}
CashOf(ids) == SumOver([a \in Accounts |-> SumOf(ids, a)], Cash)
\* Faulty variant: the opening balance takes in the period.
OpeningWithPeriod(y) == CashOf({i \in Posted : entries[i].year <= y})
OpeningCash(y) == CashOf({i \in Posted : entries[i].year < y})
ClosingCash(y) == CashOf({i \in Posted : ThroughYear(i, y)})
Touching(y) == {i \in Posted : InYear(i, y) /\ \E a \in Cash : entries[i].lines[a] # 0}
Flow(category, ids) ==
    -SumOver([a \in Accounts |-> SumOf(ids, a)], {a \in Accounts \ Cash : Chart[a].flow = category})
ComputedClosing(y) ==
    LET ids == Touching(y)
    IN  OpeningCash(y) + Flow("operating", ids) + Flow("investing", ids) + Flow("financing", ids)

--------------------------------------------------------------------------------
ClerkNext(u) ==
    \/ \E lines \in Postings, y \in Years, evening \in BOOLEAN, j \in Journals \cup {NoJournal}, paper \in BOOLEAN :
           BeginEntry(u, lines, y, evening, j, paper)
    \/ \E ref \in Refs, bill \in Bills : BeginGenerate(u, ref, bill)
    \/ \E i \in Ids : BeginReversal(u, i)
    \/ \E y \in Years : BeginClose(u, y)
    \/ \E j \in Journals, on \in BOOLEAN, mode \in {"continuous", "monthly"} : BeginEditJournal(u, j, on, mode)
    \/ \E j \in Journals : BeginRemoveJournal(u, j) \/ BeginRemoveDocument(u, j)
    \/ Insert(u) \/ ReverseEntry(u) \/ Close(u) \/ WriteJournal(u) \/ Abandon(u)

BookNext ==
    \/ \E u \in Clerks : ClerkNext(u)
    \/ \E ref \in Refs : ReverseForReference(ref)
    \/ \E lines \in Templates : SeedRule(lines) \/ \E on, autoPost \in BOOLEAN : SaveRule(lines, on, autoPost)
    \/ \E y \in Years : Reopen(y)
    \/ \E j \in Journals, state \in {"active", "inactive"} : SaveDocument(j, state)
    \/ \E a \in Accounts : SwitchAccount(a) \/ RemoveAccount(a)
    \/ NewYear

BookSpec == BookInit /\ [][BookNext]_bookVars

--------------------------------------------------------------------------------
BookTypeOK ==
    /\ thisYear \in Years /\ accounts \in [Accounts -> {"active", "inactive", "deleted"}]
    /\ \A i \in Ids : entries[i] \in EntryRow /\ entries[i].of < i
    /\ journals \in [Journals -> JournalRow]
    /\ closings \in [Years -> ClosingRow]
    /\ \A y \in Years : {closings[y].closing, closings[y].transfer} \subseteq 0..Len(entries)

Balanced(i) == Net(entries[i].lines) = 0

\* The entry a chain of reversals starts from.
Origin(i) == LET origin[n \in Ids] == IF entries[n].of = 0 THEN n ELSE origin[entries[n].of] IN origin[i]

\* Whatever the rules and the amounts of documents, the trial balance is off by no more
\* than a cent for each entry of a rule, unless a draft with a warning was reversed into
\* it (generate's tolerance, reverseForReference's posted mirror of a draft).
TrialBalanceIsOffByCents ==
    \A y \in Years :
        (Active = Accounts /\ ~\E i \in Posted : InYear(i, y) /\ entries[Origin(i)].warned) =>
            LET cents == Cardinality({i \in Posted : InYear(i, y) /\ entries[Origin(i)].kind = "auto"}) IN
            TrialDifference(y) <= cents /\ -TrialDifference(y) <= cents

\* A closing and its reopening leave nothing on the income summary, two closings of a
\* reopened year included, as long as nobody reverses their entries one by one.
SummaryIsCleared ==
    \A c \in {i \in Ids : entries[i].kind = "closing"} :
        LET pair == {c} \cup {i \in Ids : i = c + 1 /\ entries[i].kind = "transfer"}
            family == {i \in Ids : Origin(i) \in pair} IN
        (~\E i \in family : entries[i].kind = "reversal") => SumOf(family \cap Posted, Summary) = 0

\* A year that was never reopened was closed once, by the entries its row names, though two
\* users close it at the same time.
ClosedOnce ==
    \A y \in Years :
        LET closed == {i \in Ids : entries[i].kind = "closing" /\ entries[i].year = y} IN
        (~\E i \in Ids : entries[i].kind = "reopening" /\ entries[i].of \in closed) =>
            closed = (IF closings[y].status = "none" THEN {} ELSE {closings[y].closing})

\* Years are closed once and leave nothing on the income summary.
YearsCloseOnce == SummaryIsCleared /\ ClosedOnce

\* The numbers of a journal and period have no gap: concurrent entries, rollbacks, a change
\* of numbering mode and a removal leave every number below a given one in use.
NumbersHaveNoGaps ==
    \A i \in Ids : entries[i].journal # NoJournal =>
        \A n \in 1..(entries[i].number - 1) :
            \E k \in Ids : /\ entries[k].journal = entries[i].journal /\ entries[k].number = n
                           /\ entries[k].period = entries[i].period /\ entries[k].year = entries[i].year

\* Rows are well formed, and entries numbered without a gap.
BooksAreNumbered == BookTypeOK /\ NumbersHaveNoGaps

\* The years that have a posted entry.
Booked == {entries[i].year : i \in Posted}

\* The cash flow statement reconciles: opening balance and the flows of the year make the
\* closing balance, whichever accounts are active, when the entries of the year that
\* touch cash balance.
CashFlowReconciles ==
    \A y \in Booked : (\A i \in Touching(y) : Balanced(i)) => ComputedClosing(y) = ClosingCash(y)

\* Accounts the balance sheet takes as it should: not of the first level, and with the
\* normal side of their kind, which accumulated depreciation has not.
OnSheet == {a \in Accounts : /\ Chart[a].level >= 2
                             /\ (Chart[a].normal = "debit") <=> (Chart[a].kind \in {"asset", "expense"})}

\* The balance sheet balances before and after a closing, as long as its entries do and
\* what it leaves out or counts with the other sign is nothing: accounts that are inactive,
\* of the first level, or contra ("Ativo == Passivo + PL + Resultado", reports.service.ts:369).
SheetBalances ==
    \A y \in Booked :
        LET ids == {i \in Posted : ThroughYear(i, y)} IN
        (\A a \in Accounts \ (OnSheet \cap Active) : SumOf(ids, a) = 0) /\ (\A i \in ids : Balanced(i))
            => SheetDifference(y) = 0

\* The cash flow and the balance sheet come out even.
StatementsReconcile == CashFlowReconciles /\ SheetBalances

================================================================================
