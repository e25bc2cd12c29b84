# Verification of the OnClickWise CRM/ERP API

TLA+ models of the OnClickWise API (NestJS, knex, PostgreSQL), the TLC runs that check them
on small instances, and TLAPS proofs of what matters most for every instance. Every
definition translates code under `src/`; `PROJECT.json` says, for each one, which lines.

Contents:
1. [The system](#1-the-system)
2. [Inventory of components](#2-inventory-of-components)
3. [How the models are built](#3-how-the-models-are-built)
4. [Modules](#4-modules)
5. [Runs, bounds and fairness](#5-runs-bounds-and-fairness)
6. [Proofs](#6-proofs)
7. [Where the code and its documentation disagree](#7-where-the-code-and-its-documentation-disagree)
8. [Not modelled, and the plan](#8-not-modelled-and-the-plan)

## 1. The system

One Node process per instance serves HTTP requests; a request is an async handler of a
service class. State lives in PostgreSQL. Three facts about the platform shape every model:

- **Isolation.** No code sets an isolation level, so every transaction runs at READ
  COMMITTED: each statement sees what was committed when it started, plus its own writes.
  A plain `SELECT` takes no lock. `UPDATE`, `DELETE` and `SELECT ... FOR UPDATE` lock the
  row until the transaction ends. Between two `await`ed statements any other request may run.
- **Transactions.** Most handlers that write do so inside `knex.transaction`; an exception
  or the death of the process rolls the transaction back. Some read and decide *before* they
  begin it, and a few call repositories that query the pool instead of the transaction.
- **Uniqueness.** Unique indexes (balance per product and warehouse, document number, entry
  per document) are the last line of defence; a duplicate aborts the transaction.

The repository has no automated tests: what the code promises stands in its comments
(mostly Portuguese), in its error messages and in the headers of its migrations. Those are
what the properties below quote.

How the parts of the core interact:

```
 sales documents --accept--> fulfillments --reserve/release/consume--> reservations
   |   |   |   |                  |  (pick, pack, ship, cancel)
   |   |   |   +--approval requests (created with the document, decided by people)
   |   |   +------automatic journal (generate / reverseForReference)
   |   +----------accounts receivable, commissions <--- payments, synchronisation
   |                              |
   +--invoice/guide/return--> inventory engine (applyMovement) <-- transfers, counts,
                                  ^                                 adjustments
 purchase documents --receive-----+
   +--accounts payable <--- payments, synchronisation, allocations
   +--approval requests, automatic journal
```

Everything under one arrow happens inside the caller's transaction, except payments
(Section 4, `Accounts`) and the initial read of most handlers. Around this core stand parts that
touch it through few calls:

```
 series, counters --numbers--> documents, billing invoices        (Numbering, Billing)
 billing run --once a day--> subscription invoices                (Billing)
 automatic journal --> entries, journals --> closings, reports    (Bookkeeping)
 bank statements --> lines --match, pay--> treasury, receivables  (Treasury)
 customers, suppliers, credit, dunning, rules, price lists        (Partners ... PriceLists)
 prospecting: credits --> people --> sequences; triggers, scores  (Prospects, Cadences, Signals)
 chat service and its websocket gateway                           (Chat, Presence)
```

## 2. Inventory of components

For each: the state it keeps, its operations, what is hard about it and what makes it
correct. `PROJECT.json` has the same list with sources and status.

### Modelled

**Inventory engine** (`modules/inventory/movements`). State: `stock_warehouse_balances`
(one row per product and warehouse), `stock_movements` (append-only ledger),
`sales_products.stock_qty` (an aggregate). Operation: `applyMovement`, called by
adjustments, confirmed transfers, shipped fulfillments, invoiced documents, received
purchases, closed counts. Hard: callers overlap on the same rows; the row may not exist
yet; several movements are one transaction; opposite lock orders deadlock. Correct when
every balance is the end of its chain of movements, transactions are atomic, and nobody
waits for ever. Modules `StockLedger`, `StockEngine`, `StockEngineProofs`.

**Picking floor and reservations** (`modules/sales/fulfillments`, `modules/sales/stock`).
State: `sales_fulfillments` with items, `sales_stock_reservations`. Operations:
`createForOrder`, `assign`, `startPicking`, `recordPick`, `pack`, `ship`, `cancel`. Hard: every
handler decides on an unlocked read, and `recordPick` counts the other pickers' items while
they are uncommitted. Correct when a fulfillment closes once, what leaves is what was
picked, reservations last exactly as long as somebody can still pick. Modules `Shipments`,
`Fulfillments`, `SalesProofs`.

**Sales documents** (`modules/sales/documents`). State: `sales_documents` with lines, and
through hooks the receivable, commission, journal entries and approval requests of each.
Operations: `create`, `duplicate`, `update`, `remove`, `convert`, `changeStatus`. Hard: long
sequences of legal calls (quote, order, guide, invoice, credit note, in any order, with
edits and cancellations between), stock that may leave at four different points guarded by
one flag, approval in between. Correct when status, receivable, entries, reservations and
flag stay in step. Module `SalesDocuments`, composed with `Fulfillments`, and `SalesProofs`.

**Sales payments, approvals, automatic journal** — as hooks of the two document modules.

**Transfers and counts** (`movements.service.ts`, `modules/inventory/counts`). State:
`stock_transfers`, `stock_inventory_counts` with items. Operations: create, add item,
confirm; create, record, close, cancel. Hard: some handlers lock the job, others do not.
Correct when a transfer moves once and whole and a count corrects exactly the differences
it recorded. Modules `WarehouseJobs`, `WarehouseJobsProofs`.

**Accounts receivable and payable, allocations, payment synchronisation** (`modules/finance/accounts-*`,
`modules/finance/allocations`, the payments services of sales and purchases). State: entries,
payments, allocations, status and amount paid of the mirrored document. Hard: `recordPayment`
commits statement by statement. Correct when nothing counts as paid that was not. Module
`Accounts`.

**Purchase documents** (`modules/purchases/documents`). As sales, with goods entering. Module
`Purchases`.

**Numbering** (`sales/series`, and the older counters of guides and billing). State: series and
counters with their last number, documents with theirs. Operations: `nextNumber`, create, update
and remove a series. Hard: two sources print the same numbers under one unique index; a series
can be removed and made again. Correct when no counter falls behind a number given out. Module
`Numbering`.

**Billing** (`billing/*`). State: plans, subscriptions, invoices of periods. Operations: subscribe,
change plan, pause, resume, cancel, daily run, run by hand, a run for one subscription. Hard: a run
works for minutes through rows read once, beside other runs and users' changes, and may die between
two invoices. Correct when periods follow each other, none is skipped or invoiced twice, and what
is due is treated. Modules `Billing`, `BillingProofs`.

**Accounting** (`accounting/*`: entries, journals, rules, fiscal years, reports). State: entries with
their lines, journals, closings, rules. Operations: create, change, post, reverse, remove; generate
from a rule; close and reopen a year; trial balance, balance sheet, cash flow. Hard: entries come
from several hands while a year is closed; amounts converted and rounded; a report is a sum of
everything. Correct when posted rows stay, reports add up to what rounding allows, and a year is
closed once. Module `Bookkeeping`.

**Treasury, statements, exchange rates** (`finance/treasury`, `bank-import`, `exchange-rates`). State:
accounts with a balance, movements, imported lines with their match, rates. Hard: two rows per
transfer, two commits per confirmed match, decimal separators of three countries. Correct when
balances are their movements and a reconciled line has its reason. Module `Treasury`.

**Customers and suppliers** (`finance/customers`, `suppliers`, `shared/tax-validation`). State: rows with
identifier and mark, accounts naming them. Hard: check digits of five countries; a removal in two
statements. Modules `TaxIds`, `Partners`.

**Customer credit and commissions** (`sales/credit`, `sales/commissions`). State: limit and block,
documents, what is owed, commissions. Hard: the check and the insertion are apart; a payment
passes while a commission is created. Module `CustomerCredit`.

**Dunning** (`finance/dunning`). State: rules, log. Hard: runs of minutes overlap and rules change
under them. Module `Dunning`.

**Approvals** (`approvals`). State: rules, requests with the approvers found at the time, roles of
users. Hard: all of it changes between request and answer. Module `Approvals`
(and, for what a decision does to a document, `SalesDocuments`).

**Price lists** (`sales/price-lists`). State: lists, one of them marked. Hard: two transactions mark.
Module `PriceLists`.

**Prospecting** (`prospecting/*`). State: credits of a month, cached and stored people and companies,
imports; sequences with steps, enrolments, tasks; triggers with events, profiles with scores, lists.
Hard: an external call between check and charge; steps inserted and removed under the people in
them; counters read at the start of a check and written at its end. Modules `Prospects`, `Cadences`,
`Signals`.

**Chat** (`modules/chat`). State: channels, members, messages, reactions, polls, read marks, calls; in
memory, who is in a room and who types. Hard: no transaction and no foreign key anywhere; a socket's
handlers interleave at their awaits. Modules `Chat`, `Presence`, proofs in `RequestsProofs`.

Proofs are grouped by what they need, in eight modules (Section 6): `LedgersProofs` for purchases,
treasury and the general ledger, `CollectionsProofs` for customers, credit, dunning, commissions, approvals and price lists,
`RequestsProofs` for payments, prospecting, presence and chat, `SumsProofs` for sums.

### Not modelled

**With logic**: the warehouse registry (a default flag, as in `PriceLists`); average cost; the cache
and the connection pool (`shared`); resolution of a price; the remaining reports (income statement,
ledger, ageing: sums over rows that `Bookkeeping` already keeps). See Section 8.

**Left out on purpose**: authentication (library calls on tokens and passwords), organizations and
users, leads, pipelines, boards, lists, cards, projects, goals, landing pages, chart of accounts,
cost centres, tax rates and the older use-case layer (data entry: one row, one statement, no
protocol), investors, portfolios, dividends, contributions, financial flows and investments
(single-row records and sums), WhatsApp, e-mail, exports and uploads (calls to external services and
files), audit log, compliance and sales reports (append-only or read-only).

## 3. How the models are built

- **A handler is cut where others can get in.** A handler that reads without a lock and
  writes later is two actions: a *Read* action, which stores what the JavaScript holds in its
  locals in `session[s]`, and a *Write* action that does everything from the first locking
  write to the commit. One step is right for the second half, because the row it wrote stays
  locked and nothing else it reads can change under it; where something can (the item count
  of `recordPick`, the sum of `applyMovement`, the three statements of `recordPayment`), there
  is a step of its own.
- **Sessions bound concurrency, not behaviour.** `Sessions` (or `Clerks`, `Users`, `Tabs`, ...) is the
  number of requests in flight. Some properties hold while requests do not overlap and fail when
  they do, because the code decides on unlocked reads. Such a property names the overlap: either the
  run has one session, or a history variable (`overlapped`, `together`, `crossed`, `raced`,
  `disturbed`, ...) records which rows two requests held at once, and the property speaks of the
  others. Section 7 says what goes wrong in the overlap.
- **History variables** are read by properties; no action of the code depends on one. Each is
  marked "history" where it is declared. Where an instance stops exploring what a property no
  longer speaks of, that bound is in its MC module.
- **Aborts.** Any session may abort in the middle, which stands for an exception and for
  a crash. What was committed before stays; the rest is as if it had not been.
- **Data.** Ids, products and warehouses are model values; quantities are small naturals; a
  document's amount is a number of pieces (`Purchases`) or left out (`SalesDocuments`). Names,
  wording, currencies and costs are left out where no property is about them; numbers,
  days, digits, cents and limits are in the modules whose subject they are (`Numbering`, `Billing`,
  `Cadences`, `TaxIds`, `Bookkeeping`, `CustomerCredit`).
- **Faulty variants.** A definition commented "Faulty variant" is not part of any
  specification. It is the definition after it with a plausible bug, and shows that the
  property listed with it in `PROJECT.json` notices.

## 4. Modules

### `StockLedger` — what the inventory engine promises
State: `balance` (quantity per product and warehouse), `movements` (the ledger, one sequence
per balance). One action, `Post`: each balance gets a batch of new rows, usually none, that
continues its chain. It knows no locks and no statements.

### `StockEngine` — `applyMovement`, statement by statement
| model | code (`inventory/movements/movements.service.ts`) |
| --- | --- |
| `Programs`: `Adjustment`, `Transfer`, `Issue`, `Receipt`, `CountDifference` | the callers, as lists of calls in the order they make them |
| `SelectForUpdate` | the locked read of the balance row; locks nothing if there is none |
| `UpsertBalance` / `Throw` | the refusals, update or insert of the balance, insert of the movement |
| `SumBalances` | the sum over warehouses, unlocked |
| `UpdateProduct` | the write of `stock_qty`, waiting for the product row |
| `Commit`, `Rollback`, `DeadlockVictim` | the end of the caller's transaction; PostgreSQL's detector |
| `EditProduct` | the product form, which writes `stock_qty` itself |

Uncommitted rows are in `pending`, visible to their session only. `DuplicateRow` is the unique
index. `found`, `currentQty` and `total` are JavaScript locals. `LedgerSpec` is the property
that the engine implements `StockLedger`; both share `balance` and `movements`, so the
refinement mapping is the identity.

### `Shipments`, `Fulfillments` — the picking floor
`Shipments` is the abstract promise: a fulfillment opens once, closes once, goods leave in
the step that ships and are the basket. `Fulfillments` has the handlers: a `ReadTask` or
`ReadPick` action checks the status, `Assign`, `StartPicking`, `Pack`, `Ship`, `Cancel` write.
`recordPick` is three steps (`ReadPick`, `WritePick`, `CommitPick`), because it counts pending
items while its own update is not committed. `CreateForOrder` is called by the acceptance of
an order. The mapping (`Phase`, `Basket`, `out`) is at the end of the module. `update` edits
labels only and is left out.

### `SalesDocuments` — quote to credit note
`EXTENDS Fulfillments` and shares `docs`, `fulfillments`, `reserved` and `out` with it, so that
document handlers and floor handlers interleave. `changeStatus` is `ReadForStatus` followed by
one of `ChangeOnly`, `AcceptOrder`, `Invoice`, `Pay`, `CancelDocument`, chosen by `Effect` from
the row as it was read. The JavaScript tables are `CONVERSION_MAP` and `Allowed`. `Decide` is
the decision of an approver. `overlapped` is a history variable: two requests were under way at once
since the start. `EmptyShipment` is the one exception of `CommittedMeansMoved` (Section 7).

### `WarehouseJobs` — transfers and counts
`LockTransfer`/`ConfirmTransfer` and `LockCount`/`CloseCount` hold the job's row between their
two steps; the other handlers read and write separately. `posted` sums the movements that name
the job; that a job's movements take effect together is what `StockEngine` shows. `Adjust` is
everything else that moves stock.

### `Accounts` — who has paid what
`InsertPayment` and `SettleEntry` are the separate commits of `recordPayment`, whose repository
queries the pool and not the service's transaction. `ReadForSync`/`SyncDocument` is
`syncDocumentPayments` of sales and of purchases, which differ in `StatusFromPayment`.
`ReadForAllocation`, `DeleteOld`, `InsertNew` are the statements of `allocate`; `doomed` are the
rows its uncommitted `DELETE` holds.

### `Purchases` — request to credit note
As `SalesDocuments`. `EntryOf` is what a line enters with: what was received of it, or all of it
when nothing was. `SyncDocument` is here too, because a synchronisation changes a document's
status as no transition rule allows.

### `Numbering` — series and counters
`Draw` and `DrawFresh` are the locked read (or the insert) of the row of a series or counter, `IssueNumber`
the insert of the document and the commit; in between the row is held (`Locked`). `DrawFromGiven`
and `DrawFromDefault` are the two branches of `nextNumber`, `DrawFromCounter` the older counter.
`DocNumber` is the point where both sources print the same: series `A` and the counter are one space
under the unique index. Series are created, edited and removed meanwhile; a removal is two
statements.

### `Billing` — subscriptions and the run that invoices them
`EXTENDS Numbering`, from whose counter invoices draw. `run[r]` is the list of rows a run read at
its start and works through: `CronStep`, `BeginInvoice`, `CommitInvoice`, `FailInvoice` per
subscription, and `Crash`, after which the next run begins anew. `RequestNext` are the handlers of
users, which read a subscription and write it later.

### `Bookkeeping` — the general ledger
A transaction reads at its first step (`clerk[u]`) and writes when it commits. Entries are written by
hand, by `generate` from the rule of an event (with its tolerance of a cent, its warnings, its
unmapped accounts) and by reversals. `Close` and `Reopen` are those of `fiscal-year.service.ts`; the
reports are operators on the posted entries, which is what they are in the code. The chart is a
constant; amounts are cents.

### `Treasury` — accounts, statements, rates
Transactions hold the rows they locked in `cashier[u]`. `confirmMatch` is two actions, `PayMatch`
and `MarkMatched`, because the payment commits on its own. The parser of amounts is modelled on the
signs a bank writes: which separator comes last, how many there are. `LookupRate` looks back day by
day and tries the inverse pair.

### `TaxIds`, `Partners` — customers and suppliers
`TaxIds` is the check-digit arithmetic of `tax-id.validator.ts`, one operator per scheme (`Cnpj`, `Cpf`,
`Nif`, `Nie`, `Cif`) on sequences of digits. `Partners` keeps the rows, the mark `tax_id_valid`, and the
accounts that lose or keep their partner: a removal looks for accounts and then deletes.

### `CustomerCredit` — ceiling, block and commissions
The check reads the exposure before the transaction that inserts the document (`creating`). Documents
go through the steps that change exposure or make a commission eligible; the overdue job blocks.
`waived` collects the reasons for which exposure may exceed the ceiling although no check failed.

### `Dunning` — the chasing of overdue accounts
A run reads accounts and rules, and then, per account, looks at the log, sends, and logs, with an
await between each. Runs overlap, rules change, a customer may have no address, the server may
refuse, the run may break off on the unique index of the log.

### `Approvals` — rules, requests, decisions
Rules compare one number of the document, and name roles and people; a request keeps the approvers
found when the document was created. `SalesDocuments` has what a decision does to a document.

### `PriceLists` — the default list
A transaction takes the mark from the lists it sees and sets its own when it commits; under READ
COMMITTED it does not see the mark another is about to set.

### `Prospects`, `Cadences`, `Signals` — prospecting
`Prospects`: credits of the month (read, ensure, charge, refund as separate statements), the cache in
front of the data source, what is stored, and the import of a person as a lead. `Cadences`: the
steps of one sequence with their order, enrolments and tasks; concluding a task locks it (`Claim`)
and commits (`Advance`), with working days. `Signals`: a trigger with its counter of events, profiles
with the scores they give, a list.

### `Chat`, `Presence` — the internal chat
`Chat`: every statement is a step, because nothing has a transaction, and a request may be lost
(`LoseRequest`) after any of them. Columns that are read, changed and written whole (the reactions of a
message) are separate reads and writes. `Presence`: the gateway, whose handlers interleave at their
awaits, and the disconnection, which socket.io reports after it has emptied the rooms.

### `Sums` — totals
`SumOver(f, S)`, the sum of a function over a set, by the library's fold; `Accounts`, `CustomerCredit`,
`Treasury`, `StockEngine`, `Purchases`, `Bookkeeping` and `Signals` state their totals with it. `SumsProofs` has its laws.

### Instances
`MC*` modules give TLC model values, programs, bounds and symmetry; no cfg replaces a definition.
`MCFinance`, `MCTeam` and `MCCollections` put small modules that share no state into one run: a
behaviour picks a *desk* at the start and stays there (`Desks`), so that the state spaces add up
instead of multiplying.

## 5. Runs, bounds and fairness

| run | distinct states | question |
| --- | --- | --- |
| `StockEngine` | 76 k | Can an interleaving of transactions over two warehouses break the ledger, lose or make goods, commit something that is no step of `StockLedger`, or leave a transaction waiting for ever? No. |
| `StockEngine_race` | (violation) | Is `stock_qty` the sum of the balances? No. |
| `Fulfillments` | 27 k | Does the floor implement `Shipments`, is picking over exactly when no item is pending, and is a shipped order committed, with nothing left reserved? Yes, one request at a time (the last, proved, for any number). |
| `SalesDocuments` | 1.7 M | Do status, receivable, commission, entries, reservations, requests and stock flag stay in step? Yes while requests do not overlap; what was shipped is known to its order even when they do. |
| `WarehouseJobs` | 277 k | Does a transfer move once and whole, and does a count correct its differences exactly, under overlapping requests, aborts and other movements? Yes. |
| `Accounts` | 528 k | Does anything ever count as paid that was not? No, with a crash between any two statements. |
| `Purchases` | 5.7 M | Do status, payable, entries, requests and stock flag stay in step? Yes, one request at a time. |
| `Purchases_twice` | (violation) | Do goods enter once, by the receipt or by its invoice? No. |
| `Billing` | 224 k | Can a number go back, a period be skipped or invoiced twice? No. Is what is due treated in the end? Yes, as long as the number the counter comes to is free. |
| `Finance` | 489 k | Do the reports add up to what rounding allows, are years closed once, are balances their movements, does a reconciled line have its reason, do rates change only what comes after them? Yes. |
| `Team` | 3.1 M | Are credits charged for what was bought, do people go through the steps in order and in time, are counts and scores of what was noted, are votes and reactions kept, channels whole, the room counted? Yes, but for the rows that requests crossed on. |
| `Collections` | 3.3 M | Are slips in identifiers seen, exposure within the ceiling, commissions eligible, reminders more and more pressing, waiting documents answerable, default lists one? Yes, but for what the properties name. |

What each property says is in the comment above it. For every property of a passing run
`PROJECT.json` lists a bug (a mutant) that makes that run fail.

**Bounds and why they are enough.**
- `StockEngine`: one product, two warehouses, two sessions, ledgers of up to `MaxMovements` rows
  before a transaction begins. Two sessions are what a lost update, a duplicate insert and a
  deadlock need; two warehouses are what the aggregate and opposite transfers need; the stock
  of 1 puts every exit next to its refusal. The proofs remove the bounds for the ledger.
- `Fulfillments`: one order of two products with quantities up to 2: one item done and one
  pending, and short, exact and excess picks. The proofs remove the bounds.
- `SalesDocuments`: two documents (a source and what it is converted to), one fulfillment, one
  rule, one product of quantity 1, stock for two issues, two sessions. Requests overlap over one
  document that nobody has to approve (`SmallOverlap`): an overlap is about who reads the row before
  whom, and a second document or a decision adds no reader.
- `WarehouseJobs`: one transfer and one count that touch the same balance, two sessions, one of
  which also works on counts; quantities up to 2, so that a count differs in both directions
  and an exit can be refused.
- `Accounts`: one entry with or without a document, two payments, two batches of allocations, an
  amount of 2 (partial, exact and excess payments), two sessions, one of which also allocates.
- `Purchases`: two documents, quantities up to 2, so that a receipt can be of none, a part or all of
  a line; one session.
- `Billing`: numbers up to 2 with two issuers and a removal (a series made again from zero while the
  other draws); one subscription, cycles of one and two days, two days, the cron and a manual run.
- `Finance`: six entries in two years are a year closed, reopened and closed again with an entry by
  hand, one by rule and a reversal; two accounts, two cashiers and four movements are opposite
  transfers with a movement between.
- `Team`: three steps (one before, one after, one inserted), waits that end before, on and after a
  week-end; three tabs of two users; one message, one poll; two sockets of one user.
- `Collections`: every identifier that a quadratic of its position generates, with all slips of one
  digit and all neighbours swapped; two documents and a ceiling both fill; two rules with
  offsets that can be equal, two runs, three days; two policies, two people, two positions; two lists.

`CHECK_DEADLOCK FALSE` is set where the model may run out of ids, rows or days, or everything may
end up shipped or cancelled. `Symmetry` permutes people, sessions or documents, and never in a run
with a liveness property.

**Fairness** is used where something must happen.
- `StockEngine` (`TransactionsEnd`): strong fairness for a session's statements, since Node awaits
  every query and PostgreSQL grants a row lock to its waiters in turn, so that a statement that can
  run again and again does run. Weak fairness for commit and for the exception of a refused
  movement, which nothing blocks, and for the deadlock victim (`deadlock_timeout`). Nothing forces a
  caller to begin, to fail or to edit.
- `Billing` (`DueIsTreated`): the day passes; the scheduler fires the daily run and goes through its
  rows (`CronFairness`); an invoice that was begun commits or fails; the cron run's attempts succeed
  if they can again and again. Nothing is assumed of users, of manual runs or of crashes.

The other modules have safety properties only.

## 6. Proofs

The theorems hold for any products, documents, people, sessions and amounts, from the assumptions
named in the modules, which TLC evaluates in the runs. They say little: quantities and amounts are
natural numbers, ids of different kinds differ (and none is "none"), the sets of sessions are nested, what is added up
is finite. Some need a word. `ProductsAssumption` (`Purchases`): a document has lines, since the
code refuses one without ("Documento sem linhas", `purchases/documents/documents.service.ts:328`).
`PairsAssumption` (`StockEngine`): in the list of calls of a transaction each `transfer_out` stands
next to its `transfer_in`; `TransferIsInPairs` proves it of `confirmTransfer`'s list, and the other
callers make neither kind. `WarehousesAssumption`, `TablesAssumption`, `CadencesAssumption` and their like: a table of
warehouses, payments, documents or people is finite. `NothingAssumption`, `NobodyAssumption`, `NoneAssumption`:
the value that stands for no row is no row.
`ChartAssumption` (`Bookkeeping`): accounts are of the five types and two sides of the table; the income
summary and the retained result are different accounts, neither of them revenue or expense. The migration that marks them
goes by name and checks only that the second is equity (`create_fiscal_year_closing.ts:31-50`); the
closing is written for an account that gathers the result and is not itself closed, and of any other chart
`YearsCloseOnce` is not claimed. `RulesAssumption`: the lines of a rule name a side, an account or
none yet, and an amount every document has (`auto-journal-rules.service.ts:25-30`). `LinesAssumption` (`Treasury`):
a file has finitely many lines, and what a line is worth and what is read of it are whole numbers of
hundredths (the rounding of `statement-parser.ts:47`); that the two are equal is proved, not assumed.

A hypothesis in a theorem (`OneAtATime`, `OneCounter`, `OneAllocates`, `[]Alone`) is a restriction the
code does not impose and the property needs; what happens without it is in Section 7.

### `SumsProofs` — sums
`SumOver(f, S)` is the sum of the library's fold, and what a recursive definition computes needs
induction. The provers cannot instantiate an induction theorem that takes an operator, but they can
use one about sets: a property of finite sets that fails somewhere has a smallest set in which it
fails (`MinimalSubset`, from the well-foundedness of strict inclusion). Every law is proved by taking an
element out of that set. `SumRemove` (any element may be taken out, whatever the order of the fold) is
the one that needs thought; from it follow `SumAdd`, `SumChange` (a function changed at one place),
`SumPlus`, `SumMonotone`, `SumOne`, `SumUnion`, `SumFilter`, `SumSplit` and `SumSwap` (a table added up by rows or by
columns), and `SumAppend` and `SumConcat` for sequences.

### `StockEngineProofs`
- `EngineIsSafe`: `Spec => [](RowsTypeOK /\ SessionsTypeOK /\ EngineInv)`.
- `LedgerAlwaysExplainsBalance`: every balance is what its chain of movements settles to.
- `EngineImplementsLedger`: `Spec => LedgerSpec`.
- `TransfersAlwaysConserve`: `Spec => []TransfersConserve`.

*The invariant.* That balances follow from movements says nothing of uncommitted work, so it
is not inductive. `EngineInv` adds what makes a commit right: row locks are exclusive
(`LocksExclusive`); uncommitted movements are on locked rows and continue the chain from the
committed balance (`PendingContinuesBalance`); what was read before the write is still what
the row holds, or the row was absent and this session wrote nothing to it (`ReadStillCurrent`).
The case that needs thought is the absent row, which `FOR UPDATE` cannot lock: there the unique
index turns a stale read into a rollback (`DuplicateRow`). The lemmas of the first part
(`ExplainsAppend`, `ExplainsConcat`) are about chains: a row that follows extends a chain, and a
chain that continues another joins it. The refinement follows because a commit appends, per
key, a batch that the invariant says continues the chain.

*Transfers.* What is lost between the two halves of a transfer is uncommitted, so the invariant
(`HalvesMatch`) is about each transaction: what its pending rows took out, summed over warehouses, is
what they put in, except between the two calls of a pair, where the difference is the call just made. A
commit happens after the last call, hence between pairs.

### `SalesProofs`
*The floor alone.*
- `FloorIsSettled`: `Spec => []ShippedIsSettled`, for any number of requests at once. Strengthened by
  `OrdersExist`: a fulfillment that can still be picked has its order, so that the write of a shipment
  finds the document it marks.
- `PickingEndsComplete` and `FloorImplementsShipments`, under `OneAtATime`: while requests do not
  overlap, the status of a fulfillment says whether anything is left to pick, and every step is a
  step of `Shipments` or a stutter. `SerialInv` adds to the floor's invariant that a picked
  fulfillment has no pending item (`PickedWhenComplete`), that what the one session read is what the
  rows still hold (`ReadsStand`), and that goods are out exactly when a shipment is
  (`GoodsLeaveShipped`). With two sessions both are false (Section 7).

*Documents and the floor together.*
- `SalesStayConsistent`: `SalesSpec => []DocumentsAgree`; `OrdersStayBacked`: `SalesSpec => []OrdersAreBacked`;
  `DocumentsMoveOnce`: `SalesSpec => DocumentMovesOnce`. No hypothesis: overlaps are in the properties.

`SalesInv` has two halves. The first (`SalesBase`, Part 4) holds however many requests overlap: types, `OrdersExist`,
the flag of an order that was shipped, and that nothing left for a fulfillment that was not opened. Every
handler keeps it because no handler takes a flag back, and `Remove` takes the fulfillments of a row with the row.
The second (`SalesSerial`, Part 5) holds until two requests overlap. It is stated per row, so that a step needs to be looked at where it writes only:
`SoundAt` says what a document's status implies about its receivable, entries, commission, requests, reservations and
movements (the clause that a document not yet issued, or of a kind that is never owed for, *never had* a receivable or an entry, is
the strengthening without which an issue could find an old cancelled one and leave it so); `Related` what
it implies about other rows (a guide, the conversion that moved a pending document on, and that lines are
not empty, without which an issue would move nothing and set the flag); `TaskStands` what a fulfillment says of its order; and
`RequestStands` that what the one request under way has read is what is there. An acceptance opens a
fulfillment only when all of the order's were cancelled, which with `TaskStands` is why nothing is reserved again for an
order that was shipped. The two facts about data that the proof found missing are in Section 7.

### `WarehouseJobsProofs`
- `JobsTypeCorrect`: `Spec => []TypeOK`.
- `TransfersAreWhole`: `Spec => []TransferIsWhole`.
- `TransfersMoveOnce`: `Spec => TransferMovesOnce`.
- `CountsSettleOnce`, under `OneCounter`: `Spec => []CountSettlesOnce`.

*The invariant.* Types are proved first, with `JobsExist` (a request works on a job that was
created), without which a row's fields could not be typed. `TransferIsWhole` is not inductive:
confirming acts on what the session read when it locked. `JobsInv` adds that a held transfer is a
draft that has items (`HeldIsDraft`), that one session holds it (`HeldByOne`), and that its two
warehouses differ. Two lemmas then carry the argument, `StepOfTransfer` (a step keeps a
transfer, creates it, or confirms it) and `StepOfSession` (a session comes to hold a transfer
only by locking it); `TransferMovesOnce` is a corollary of the first. `Transfers` and `Counts` have
to be disjoint, since both are keys of `posted`. A count settles once if what the session read of it
still stands when it writes; that is where one session on counts is needed, and only there: any
number of others may move the goods that are counted.

### `BillingProofs`
- `NumbersNeverGoBack`: `Spec => []CountersCoverNumbers`; `DrawnNumbersAreNext`.
- `PeriodsAlwaysFollow`: `Spec => []PeriodsFollow`.

*Numbers.* `NumbersInv` says what the row lock of `nextNumber` gives: a row is held by one
transaction (`OneHolder`), and what it drew is the row's next number (`DrawnFollows`). Without them a
commit could write a number below the last. The theorems are of `Billing`'s specification, of which
`Numbering`'s steps are a part.

*Periods.* Runs hold rows they read long ago, users change plans beside them, and a run may die after any
commit. So the invariant (`PeriodsInv`) is not about a subscription's row alone but about every row anybody
may still write from: each row a run holds and each invoice begins where the subscription began or one
of its lengths after an invoice (`Stands`, `Follows`), and invoices of one length are whole lengths from the first (`InStep`), so that two of
them coincide or are apart. An earlier form of `PeriodsDisjoint`, that no two periods of a subscription
overlap at all, held in the run and failed in the proof: a run that goes on with a row from before a change of
plan writes the pointer back (Section 7). The property now speaks of periods of one length.

### `LedgersProofs`
- `PurchasesStayConsistent`: `Spec /\ []Alone => []DocumentsAgree`;
  `GoodsEnterOncePerDocument`: `Spec /\ []Alone => DocumentEntersOnce`.
- `BalancesAreMovements`, `StatementsStayBacked`: `TreasurySpec => []BalanceIsMovements`,
  `TreasurySpec => []StatementsAreBacked`.
- `RatesOfTheDayStand`: `TreasurySpec => RatesLookForward`.
- `YearsAreClosedOnce`, `TrialIsOffByCents`, `StatementsAddUp`: `BookSpec => []YearsCloseOnce`,
  `[]TrialBalanceIsOffByCents`, `[]StatementsReconcile`; `BooksStayNumbered`: `BookSpec => []BooksAreNumbered`.

*Purchases.* `Alone` says that no two sessions are under way on one document. TLC checks the run with
one session; the theorem allows any number of them, on documents of their own. The invariant is a statement
per row (`RowSafe`: status, flag, payable, entries, requests of one document) and one per reading
(`ReadingsStand`: what a session has read of its document is what the row still says), and every action
touches one row and one reading.

*Treasury.* Nothing is assumed of the sessions. `LocksHold` says that a row is held by one transaction and that
what was read `FOR UPDATE` is still so, in whatever order the locks came. That a balance is the sum of its
movements then needs `SumAppend`. For statements, `PapersStand` says what a batch of decisions and a payment may
still count on when they commit: the statement is there, the lines outside the batch that made it complete are
still decided, and a line paid and not yet marked has the payment. `RowsStand` says that a statement's lines are
those of its file with the amounts `RowWritten` finds in them: the one separator that is there splits off the decimals, and a line that
is written otherwise is kept or left out without moving the others.

*The general ledger.* `BookSpec` has every handler of the accounting services, with any number of users at once.
The entries only grow: a step marks some as reversed and adds others behind them (`Writes`, `Grows`), and
the lemmas about growing carry what is true of the old rows to the new ones. `BooksInv` has four parts.
`History` says what an entry has to do with the one it reverses: it comes later and has every side swapped, a
closing and its transfer are reopened together and once, and together they put nothing on the summary. From it
`YearsCloseOnce` follows, by showing that the family of a closing is made of it, its transfer and their
mirrors. `YearStands` relates the row of a year to the closings among the entries. `NoGaps` is about numbers. `ClerksStand` is what a transaction under way relies on, long
after it read it: the number it drew follows those in use as long as its journal is there, what it closes balances, and a row it found
reopened is one a reopening stands for. It is not claimed that the balances a closing read are those at its commit: they may not be,
and none of the properties needs it. `Even` says what each entry may be off by, by the
entry its chain of reversals starts from; `Origin` is a recursive function on entries, and that
it has the values its equation says (`RootsExist`, `RootsAgree`) is shown by a smallest counterexample. The two statements are pure
algebra: each report adds up the same table of entries and accounts in another order.

### `CollectionsProofs`
- *Customers* — `RegistryIsTrue`: marks are of the number and type a customer has now, and accounts lose
  their partner to a race alone. Strengthened by `RemovalsCross`: whatever names a partner since its
  removal looked is noted as crossed.
- *Check digits* — `SlipsAreSeen`: for every identifier of the five checked types, not only those TLC
  generates. A slip shifts the weighted sum by a product (`SlipShifts`): of a weight, or the difference of two neighbouring
  weights, and a difference of digits. Modulo 11 and modulo 23 no such product is zero (`Prime11`, `Prime23`), so the
  remainder changes, and with it the check digit unless that is the 0 that stands for two remainders; the doubling of a cif tells all digits
  apart but 0 and 9 (`DoubledApart`).
- *The desks together* — `RegistryAlwaysHolds`: `CollectionsSpec => []RegistryHolds`, from `RegistryIsTrue`'s
  invariant, those of credit and dunning, `SlipsAreSeen`, and the types of documents and
  accounts (`CreditTyped`): what is open on an account is never more than its document comes to.
- *Commissions* — `PaidCommissionsAreEligible`; strengthened by the shape of the rows (`RowsShaped`), since
  an absent document has no status.
- *Approvals* — `WaitingCanBeAnswered`: `WaitingIsAnswerable`, inductive together with the types.
- *Price lists* — `DefaultsAreRaced`: two lists are both the default only if two transactions overlapped.
  `TariffInv` relates the transactions: those under way together are noted together; a list marked since a
  transaction took the marks it saw was marked by one it overlapped; the rows a transaction unmarked stay held.
- *Credit* — `CreditAlwaysHolds`: `CreditSpec => []CreditHolds`. What is at risk is a sum over documents
  (`Weights`), and each step changes it at one document. The invariant includes the documents that passed
  the check and are not inserted yet (`StillFits`): unless `waived` has a reason, what each was let through with
  still fits under the limit it was let through by.
- *Dunning* — `ChasingAlwaysEscalates`: `DunningSpec => []ChasingEscalates`. `ChaseInv` turns what the property says
  of e-mails already sent into what is true of a run that may still send one: alone, it reads the rules of now and a
  day no earlier than that of any e-mail sent under them, and its step is not in the log. An e-mail
  sent and not yet logged is the one case in between: no run that is alone sends another before it is logged.

### `RequestsProofs`
- *Presence* — `RoomIsCounted`: `PresenceIsRoom` always holds. The room is changed before the count, so the
  invariant says of each handler what it has done when it is half-way.
- *Payments* — `PaymentsStayBacked`: `Spec => [](TypeOK /\ PaidIsBacked)`; `SyncStaysBacked`; and
  `MoneyStaysBacked` under `OneAllocates`. `PaidIsBacked` says that an entry's paid amount is at most the sum of
  its payments, and `RequestIsBacked` the same of the amount each session read and will write: the sum only grows while the
  entry is there. That is why a stale write loses a payment and never invents one. Allocations
  (`AllocationsHold`, `SplitFits`) rest on what the one allocating session read.
- *Prospecting* — `ProspectsAlwaysAgree`: `ProspectsSpec => []ProspectsAgree`. `CreditsAgree` counts
  the requests that were charged and have nothing yet; `RequestIsSound` adds that a request that charges or refunds does
  so in a month that has a row, and that a row read earlier is one the organization had, so that no stale quota is above the
  highest there was. `ImportsInv` says of each request that whom it is about is stored, so that an import marks a row
  there is, in the statement that adds the link.
- *Chat* — `ClicksAlwaysKept`, `ChannelsStayWhole`: `ChatSpec => []ClicksAreKept`, `ChatSpec => []ChannelsAreWhole`.
  Neither property speaks of requests half-way; `ChatInv` does. Whoever is about to vote has no vote left in that
  poll (`VotesCleared`); whoever is about to write a message's metadata has read it as it is (`SawIsCurrent`); a deletion
  at its n-th statement has emptied the tables before it (`DropsStand`); and whatever a mark, a vote or a request names is there
  (`ReadsOfKept`, `VotesOfKept`, `WorkOfKept`). Each holds unless an overlap is noted, and `VotesOverlap` and
  `RacesNoted` say that an overlap is noted while it lasts: that is what lets a step of one tab leave the others' facts alone.
  The order of the seven statements of a deletion is used at each of them (`DeleteTableKeeps`).
- *Cadences* — `TasksStayInTime`, `StepsStayInOrder`: `CadencesSpec => []TasksInTime`,
  `CadencesSpec => StepsInOrder`. `Stands` says where a person is that nobody has disturbed: every task of theirs is of a
  step they have reached (`current_step_order`), the last one they reached has a task, at most one request works on
  them, on a task that is pending, and what it is about to write is the step that follows now (`NextFollows`), although it
  was read at the lock. It holds through every change of the steps, because a change that could break it puts the
  people it reaches into `disturbed`, and because a step that goes takes its tasks along (`StepsKeep`). The calendar is
  proved apart (`Scheduled`): the n-th working day after a day has exactly n working days behind it.
- *Triggers and scores* — `SignalsStayTrue`: `SignalsSpec => []SignalsAgree`. `total_events_fired` is a number read, added
  to and written back, so that it may forget events; it never invents one because what waits to be counted fits
  beside it (`Uncounted`): the total a check read, what the check made since, and the events noted by hand
  and not counted are together no more than the events there are. A score is what `ComputeScore` made of some facts
  (`ScoreMade`), and `MadeIsShare` says what that is: weights of zero do not count (`WeightyOnly`) and rounding is off by half
  a point (`RoundedShare`).

### What only TLC checks
- Liveness (`TransactionsEnd`, `DueIsTreated`): fairness and `ENABLED` are beyond the prover.

## 7. Where the code and its documentation disagree

Two disagreements are stated as properties that TLC refutes (`findings` in `PROJECT.json`):

1. `AggregateIsSum`. Two transactions on different warehouses of one product each sum the
   balances before the other commits; the second `UPDATE` wins and `stock_qty` misses a movement
   (`movements.service.ts:244`, comment at 242).
2. `GoodsEnterOnce`. The flag is per document, so a received receipt and the invoice made from it
   both enter the goods (`purchases/documents/documents.service.ts:617`, migration
   `20260519150000`, line 7).

Others were met while modelling. The models have them, unless it says otherwise: they are why a
property names overlaps, or an exception. No run states them.

*Stock and sales.*
- A cancellation that read the fulfillment before the shipment committed cancels a shipped
  fulfillment (`fulfillments.service.ts:797`, message at 798).
- `ship` does not look at `stock_committed`: an order invoiced directly and then shipped is
  decremented twice (`fulfillments.service.ts:544`, migration `20260518100000`, lines 18-20).
- Two operators who record the last two items at once each see the other's pending: picking
  never becomes `picked` (`fulfillments.service.ts:431-432` against 493).
- Invoicing a guide or an invoice converted from a shipped order decrements again; the flag is per
  document (`sales/documents/documents.service.ts:656-657` against 895).
- `convert` bypasses transitions and approval (733-739, 606-607 against 877, 934).
- Two overlapping `changeStatus` both invoice (658), and both enter a purchase's goods.
- A shipment of which nothing was found makes a guide without lines (`fulfillments.service.ts:721`), which no form
  could. A copy of that guide, issued, sets `stock_committed` and moves nothing (`documents.service.ts:658-664`);
  the flag is to say that stock moved (migration `20260518100000`, lines 18-20). `EmptyShipment` excepts it. It needs three
  documents, one more than the run has: the attempt to prove the invariant found it.
- A cancellation that read the fulfillment before a shipment, and an acceptance that read the order before it,
  together reserve goods again for an order that was shipped (`fulfillments.service.ts:813`, `createForOrder`). Hence
  `OrdersAreBacked` states the reservations for requests that do not overlap, and only the flag for those that
  do. It needs three sessions and two fulfillments; the proof found it too.
- `remove` deletes a draft that was sent in between (843-849).
- A late `recordItemCount` reopens a closed count, which can then be closed again
  (`counts.service.ts:248` against 276).
- The product form writes `stock_qty` behind the ledger (`products.service.ts:196`).

*Approvals.*
- With several rules one approval frees the document (`approvals/requests/requests.service.ts:298`).
- `approvals_required` is stored and never read (migration `20260519100000:62`); an update may leave a
  rule without approvers, which creating refuses (line 58).
- A rejection says "Edite e re-submeta" (`documents.service.ts:625`); nothing re-submits.
- `decide` never updates a purchase document, so a pending one never advances
  (`requests.service.ts:296-307`).

*Money.*
- Two overlapping `allocate` calls both insert, and the payment is allocated twice
  (`allocations.service.ts:113`).
- Payments recorded at once lose one of them in `paid_amount`; an overpayment is accepted; a
  payment on a cancelled entry reopens it (`receivable.repository.ts:111-122`).
- A purchase `return` enters stock, where migration `20260519150000:16` says it leaves; a receipt of
  none of a line enters the full quantity ordered.
- The ceiling is checked when a document is created ("deve ser chamada ... antes de criar um documento
  de venda", `customer-credit.service.ts:51-54`); exposure passes it in the ways `CreditHolds` lists.
- `resolvePrice` looks at neither the activity nor the validity of a list (not modelled); two
  overlapping transactions leave two default lists (`price-lists.service.ts:151`).
- The comment of `customers.service.ts` says an invalid identifier does not prevent saving ("Não
  bloqueia salvar — apenas marca"); create and update throw.
- Overlapping runs send one step of dunning twice, and the second then stops on the unique index of
  the log (migration `20260519190000:10-12`, `:79`).

*Numbers and billing.*
- The counter and series `A` print the same `FAT-YYYY-NNNN`; whichever comes second is refused, and a
  subscription then waits until somebody moves the counter. Setting a default clears the flag for
  every year; an inactive default and an automatic `A` leave two defaults.
- A run that goes on with the rows it read before a change of plan writes the period pointer of the old plan
  back, and invoices of the old and the new length overlap (`billing-generation.service.ts:285-296`, called at 150;
  the row is the one `run` read). With one length the stale pointer is harmless.
- `addCycle` overflows at the end of a month (not modelled: cycles are days); `changePlan` leaves
  `current_period_end`; a cancellation at the end of a period precedes the invoice of the current
  one; a cancelled subscription can be revived (migration `20260520150000`, lines 76-82).

*Books and treasury.*
- Journal numbers are read and then written without a lock and can repeat
  (`accounting.service.ts:100-102`); hence the property counts gaps only.
- The balance sheet promises "Ativo == Passivo + PL + Resultado" (`reports.service.ts:369`), but leaves
  out inactive accounts and adds accounts of the contrary side (accumulated depreciation) to their
  group; hence the exceptions of `SheetBalances`.
- What decides whether an account has a history looks at one kind of movement
  (`treasury.service.ts:239`), so that an account with transfers and no balance is deleted.

*Prospecting and chat.*
- `sequences.service.ts:480`, `:550` and `triggers.service.ts:213` select columns `prospect_people` does
  not have (not modelled: those reads fail). `apollo-api.client.ts:283` has a fallback nothing reaches.
- Two searches that store the same person at once: one fails (`people.service.ts:354`). Two default
  profiles can be left (`icps.service.ts:128`).
- On disconnection the gateway cleans up the rooms of a socket (`chat.gateway.ts:125`), but socket.io
  has emptied them by then: count and typing stay. `PresenceIsRoom` speaks of connected sockets.

## 8. Not modelled, and the plan

Hazards without a property, and why:
- *Connection pool*: `recordPayment` holds a connection and waits for a second one; ten at once wait for
  ever (`accounts-receivable.service.ts:103`). It needs a model of the pool shared by all callers.
- *Swallowed error*: `generate` catches a database error in a transaction PostgreSQL has aborted
  (`auto-journal.service.ts:201`), so that the caller's commit rolls back silently. `Bookkeeping` has
  the errors `generate` raises itself.
- *Average cost* (`movements.service.ts:194`): a weighted average over decimals, which the models
  of quantities leave out.
- *Lock order of treasury transfers* (`treasury.service.ts:337-342`): the ids are sorted "to prevent
  deadlocks", but one statement locks both rows in the order the planner meets them. `Treasury` has
  either order, and the abort that ends the deadlock; that each transfer ends is shown for the
  engine's transfers only (`TransactionsEnd`).
- *Cache*: an entry computed before an invalidation may be stored after it, for its lifetime.

Left in the plan, in this order:

| step | what | why it is next |
| --- | --- | --- |
| 1 | `ConnectionPool`: callers, connections, the waiting of `recordPayment` | the one hazard of the system where everybody waits |
| 2 | the aborted-transaction state in `SalesDocuments` and `Bookkeeping` | document and entry then commit together or not at all |
| 3 | `Warehouses` (default flag), `AverageCost`, `Cache` | small, of a kind modelled elsewhere |
| 4 | leads, boards and cards | data entry with positions; little protocol |

Known gaps in what is modelled: reports of the inventory engine; approval by amount in
`SalesDocuments` (any set of rules may fire); rules of more than one event in `Bookkeeping` (one
event has one rule there); one conversation, one sequence, one trigger and one customer at a time;
attachments and labels everywhere.
