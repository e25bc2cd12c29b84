------------------------------- MODULE Numbering -------------------------------
(* Document numbers (sales/series/series.service.ts and the older counters of  *)
(* sales_document_numbering): a number is drawn under the lock of its series   *)
(* or counter inside the transaction that inserts the document. One document   *)
(* type; the series 'A' and the older counter print the same numbers.          *)
EXTENDS Integers, FiniteSets

CONSTANTS
    Issuers,     \* transactions that create a document through a series
    Runners,     \* transactions that draw from the older counter
    Admins,      \* requests that remove a series
    Years, Codes,
    MaxNumber    \* bound: no number above it is drawn

ASSUME NumberingAssumption ==
    /\ "A" \in Codes /\ {"none", "counter"} \cap Codes = {} /\ Years # {}
    /\ MaxNumber \in Nat /\ Issuers \cap Runners = {}

VARIABLES
    series,      \* sales_document_series: a function from the keys that have a row
    counters,    \* sales_document_numbering: last_number, NoRow when there is none
    numbered,    \* the numbered documents: number and series_id
    drawing,     \* per transaction: what it has locked and the number it computed
    removing     \* per admin: the series remove() found unused

numberingVars == <<series, counters, numbered, drawing, removing>>

Keys == [code: Codes, year: Years]
Row(last, default, active) == [last |-> last, isDefault |-> default, isActive |-> active]
NoRow == -1
NoSeries == [code |-> "none", year |-> 0]
Counter(y) == [code |-> "counter", year |-> y]
Idle == [from |-> NoSeries, n |-> 0, fresh |-> FALSE]
Transactions == Issuers \cup Runners

\* `PREFIX-YEAR-NNNN` for series 'A' and for the counter, with the code otherwise.
DocNumber(k, n) ==
    [code |-> IF k.code = "counter" THEN "A" ELSE k.code, year |-> k.year, n |-> n]
Taken(number) == \E d \in numbered : d.number = number
Locked(k) == \E t \in Transactions : drawing[t].from = k
Last(k) == IF k.code = "counter" THEN counters[k.year] ELSE series[k].last

NumberingInit ==
    /\ \/ series = <<>>
       \/ \E k \in Keys : series = [o \in {k} |-> Row(0, TRUE, TRUE)]
    /\ counters = [y \in Years |-> NoRow]
    /\ numbered = {}
    /\ drawing = [t \in Transactions |-> Idle]
    /\ removing = [a \in Admins |-> NoSeries]

\* Faulty variant: SELECT without FOR UPDATE.
DrawUnlocked(t, k) ==
    /\ Last(k) < MaxNumber
    /\ drawing' = [drawing EXCEPT ![t] = [from |-> k, n |-> Last(k) + 1, fresh |-> FALSE]]

\* SELECT ... FOR UPDATE of a row that exists (a locked row is waited for).
Draw(t, k) ==
    /\ ~Locked(k) /\ Last(k) < MaxNumber
    /\ drawing' = [drawing EXCEPT ![t] = [from |-> k, n |-> Last(k) + 1, fresh |-> FALSE]]

\* The row is inserted by this transaction; a second insert waits for the first.
DrawFresh(t, k) ==
    /\ ~Locked(k) /\ MaxNumber > 0
    /\ drawing' = [drawing EXCEPT ![t] = [from |-> k, n |-> 1, fresh |-> TRUE]]

Defaults(y) == {k \in DOMAIN series : k.year = y /\ series[k].isDefault /\ series[k].isActive}

\* nextNumber with a series id.
DrawFromGiven(t, k) ==
    /\ k \in DOMAIN series /\ series[k].isActive
    /\ Draw(t, k)

\* nextNumber without one: the active default, or a series 'A' made on the spot. When an
\* 'A' exists that is no active default the insert fails and the document is not created.
DrawFromDefault(t, y) ==
    LET main == [code |-> "A", year |-> y] IN
    \/ \E k \in Defaults(y) : Draw(t, k)
    \/ Defaults(y) = {} /\ main \notin DOMAIN series /\ DrawFresh(t, main)

BeginDocument(t) ==
    /\ drawing[t] = Idle
    /\ \/ \E k \in DOMAIN series : DrawFromGiven(t, k)
       \/ \E y \in Years : DrawFromDefault(t, y)
    /\ UNCHANGED <<series, counters, numbered, removing>>

\* nextInvoiceNumber, _legacyNumber: the counter's row, or a new one.
DrawFromCounter(t, y) ==
    IF counters[y] = NoRow THEN DrawFresh(t, Counter(y)) ELSE Draw(t, Counter(y))

\* An INSERT of a row into sales_document_series.
WithRow(rows, k, row) == [o \in DOMAIN rows \cup {k} |-> IF o = k THEN row ELSE rows[o]]

\* The row is written back: UPDATE last_number, or the fresh row with its default flags.
StoreLast(d) ==
    IF d.from.code = "counter"
    THEN counters' = [counters EXCEPT ![d.from.year] = d.n] /\ UNCHANGED series
    ELSE /\ series' = IF d.fresh THEN WithRow(series, d.from, Row(d.n, TRUE, TRUE))
                      ELSE [series EXCEPT ![d.from].last = d.n]
         /\ UNCHANGED counters

\* Insert of the document and commit: refused when the number is taken.
IssueNumber(t) ==
    LET d == drawing[t] number == DocNumber(d.from, d.n) IN
    /\ ~Taken(number)
    /\ StoreLast(d)
    /\ numbered' = numbered \cup
           {[number |-> number, from |-> IF d.from.code = "counter" THEN NoSeries ELSE d.from]}
    /\ drawing' = [drawing EXCEPT ![t] = Idle]
    /\ UNCHANGED removing

CommitDocument(t) == drawing[t] # Idle /\ IssueNumber(t)

\* The unique index (organization_id, doc_number), or any other failure, rolls back.
AbortDrawing(t) ==
    /\ drawing[t] # Idle
    /\ drawing' = [drawing EXCEPT ![t] = Idle]
    /\ UNCHANGED <<series, counters, numbered, removing>>

\* documents.remove deletes a draft, number and all.
RemoveDraft ==
    /\ \E d \in numbered : numbered' = numbered \ {d}
    /\ UNCHANGED <<series, counters, drawing, removing>>

\* create: a new default takes the flag from the others of its type, whatever their year;
\* the UPDATE waits for the rows it changes.
ClearDefaults(rows, but) ==
    [k \in DOMAIN rows |-> IF k = but THEN rows[k] ELSE [rows[k] EXCEPT !.isDefault = FALSE]]

CreateSeries(k, default) ==
    /\ k \notin DOMAIN series /\ ~Locked(k)
    /\ default => \A o \in DOMAIN series : series[o].isDefault => ~Locked(o)
    /\ series' = WithRow(IF default THEN ClearDefaults(series, k) ELSE series, k,
                         Row(0, default, TRUE))
    /\ UNCHANGED <<counters, numbered, drawing, removing>>

UpdateSeries(k, default, active) ==
    /\ k \in DOMAIN series /\ ~Locked(k)
    /\ default => \A o \in DOMAIN series : series[o].isDefault => ~Locked(o)
    /\ series' = [(IF default THEN ClearDefaults(series, k) ELSE series)
                     EXCEPT ![k].isDefault = default, ![k].isActive = active]
    /\ UNCHANGED <<counters, numbered, drawing, removing>>

\* remove: a series that documents use is deactivated; otherwise it is deleted, in a
\* statement of its own, and the foreign key empties series_id of documents made meanwhile.
RemoveUsed(k) ==
    /\ k \in DOMAIN series /\ ~Locked(k) /\ \E d \in numbered : d.from = k
    /\ series' = [series EXCEPT ![k].isActive = FALSE]
    /\ UNCHANGED <<counters, numbered, drawing, removing>>

FindUnused(a, k) ==
    /\ removing[a] = NoSeries
    /\ k \in DOMAIN series /\ ~\E d \in numbered : d.from = k
    /\ removing' = [removing EXCEPT ![a] = k]
    /\ UNCHANGED <<series, counters, numbered, drawing>>

DeleteSeries(a) ==
    LET k == removing[a] IN
    /\ k # NoSeries /\ ~Locked(k)
    /\ series' = [o \in DOMAIN series \ {k} |-> series[o]]
    /\ numbered' = {[d EXCEPT !.from = IF @ = k THEN NoSeries ELSE @] : d \in numbered}
    /\ removing' = [removing EXCEPT ![a] = NoSeries]
    /\ UNCHANGED <<counters, drawing>>

NumberingNext ==
    \/ \E t \in Issuers : BeginDocument(t) \/ CommitDocument(t) \/ AbortDrawing(t)
    \/ RemoveDraft
    \/ \E k \in Keys, default, active \in BOOLEAN :
           CreateSeries(k, default) \/ UpdateSeries(k, default, active)
    \/ \E k \in Keys : RemoveUsed(k) \/ \E a \in Admins : FindUnused(a, k)
    \/ \E a \in Admins : DeleteSeries(a)

--------------------------------------------------------------------------------
NumberingTypeOK ==
    /\ DOMAIN series \subseteq Keys
    /\ \A k \in DOMAIN series :
           series[k] \in [last: Nat, isDefault: BOOLEAN, isActive: BOOLEAN]
    /\ counters \in [Years -> Nat \cup {NoRow}]
    /\ \A d \in numbered : d.number.code \in Codes /\ d.from \in Keys \cup {NoSeries}

\* No document of a series is numbered above the series, so that the next number is never
\* behind one given: two issuers, a removed draft in between, and a deletion that races
\* with both do not take a series back (nextNumber locks the row until its document is in).
CountersCoverNumbers ==
    \A d \in numbered : d.from # NoSeries =>
        /\ d.from \in DOMAIN series
        /\ d.number.n <= series[d.from].last
================================================================================
