----------------------------- MODULE BillingProofs -----------------------------
(***************************************************************************)
(* Part 1. Numbers of documents never go back, for any series, years,      *)
(* transactions that number documents, runs of the billing and             *)
(* subscriptions.  What makes CountersCoverNumbers inductive is what the   *)
(* row lock of nextNumber protects: one transaction holds a series, and    *)
(* the number it computed follows the last one stored.                     *)
(*                                                                         *)
(* Part 2. Every period of a subscription is invoiced, and once, for any   *)
(* runs at the same time.                                                  *)
(***************************************************************************)
EXTENDS Billing, TLAPS

Numbers == [code: Codes, year: Years, n: Nat]
Sources == Keys \cup {Counter(y) : y \in Years} \cup {NoSeries}

SeriesTyped ==
    /\ DOMAIN series \subseteq Keys
    /\ series = [k \in DOMAIN series |-> series[k]]
    /\ \A k \in DOMAIN series : series[k] \in [last: Nat, isDefault: BOOLEAN, isActive: BOOLEAN]

DocumentsTyped == numbered \subseteq [number: Numbers, from: Keys \cup {NoSeries}]

DrawingTyped ==
    /\ counters \in [Years -> Nat \cup {NoRow}]
    /\ drawing \in [Transactions -> [from: Sources, n: Nat, fresh: BOOLEAN]]

\* A transaction with nothing locked is idle.
IdleHoldsNothing == \A t \in Transactions : drawing[t].from = NoSeries => drawing[t] = Idle

\* The number that a transaction computed from the row it holds is the next one.
DrawnFollows ==
    \A t \in Transactions : drawing[t].from \in Keys =>
        IF drawing[t].fresh THEN drawing[t].from \notin DOMAIN series
        ELSE drawing[t].from \in DOMAIN series /\ drawing[t].n = series[drawing[t].from].last + 1

OneHolder ==
    \A t, u \in Transactions :
        drawing[t].from \in Keys /\ drawing[t].from = drawing[u].from => t = u

TypedNumbers == SeriesTyped /\ DocumentsTyped /\ DrawingTyped
NumbersInv == TypedNumbers /\ IdleHoldsNothing /\ DrawnFollows /\ OneHolder /\ CountersCoverNumbers

--------------------------------------------------------------------------------
(***************************************************************************)
(* Sentinels and rows.                                                     *)
(***************************************************************************)

\* A series, a counter and the absence of both are told apart.
LEMMA SourcesDiffer ==
    /\ NoSeries \notin Keys
    /\ \A y \in Years : Counter(y) \notin Keys /\ Counter(y) # NoSeries
    /\ \A k \in Keys : k.code # "counter" /\ k.code \in Codes /\ k.year \in Years
    /\ NoRow \notin Nat
  BY NumberingAssumption DEF Keys, NoSeries, Counter, NoRow

\* ClearDefaults changes flags only.
LEMMA ClearDefaultsKeepsLast ==
    ASSUME SeriesTyped, NEW k \in Keys, NEW rows, rows = ClearDefaults(series, k)
    PROVE  /\ DOMAIN rows = DOMAIN series
           /\ rows = [o \in DOMAIN rows |-> rows[o]]
           /\ \A o \in DOMAIN series :
                  /\ rows[o] \in [last: Nat, isDefault: BOOLEAN, isActive: BOOLEAN]
                  /\ rows[o].last = series[o].last
  BY DEF SeriesTyped, ClearDefaults

\* What changes flags of series and nothing else keeps the invariant.
LEMMA FlagsKeepNumbers ==
    ASSUME NumbersInv, UNCHANGED <<counters, numbered, drawing>>, SeriesTyped',
           DOMAIN series' = DOMAIN series,
           \A k \in DOMAIN series : series'[k].last = series[k].last
    PROVE  NumbersInv'
  BY DEF NumbersInv, TypedNumbers, DocumentsTyped, DrawingTyped, IdleHoldsNothing,
         DrawnFollows, OneHolder, CountersCoverNumbers, Numbers, Sources, Transactions

--------------------------------------------------------------------------------
(***************************************************************************)
(* Transactions that number documents.                                     *)
(***************************************************************************)

\* The first step of every transaction locks a row that nobody holds.
LEMMA DrawKeepsNumbers ==
    ASSUME NumbersInv, NEW t \in Transactions, drawing[t] = Idle,
           NEW k \in Sources, k # NoSeries, ~Locked(k), NEW n \in Nat, NEW fresh \in BOOLEAN,
           drawing' = [drawing EXCEPT ![t] = [from |-> k, n |-> n, fresh |-> fresh]],
           k \in Keys => IF fresh THEN k \notin DOMAIN series
                         ELSE k \in DOMAIN series /\ n = series[k].last + 1,
           UNCHANGED <<series, counters, numbered>>
    PROVE  NumbersInv'
  <1>1. DrawingTyped'
    BY DEF NumbersInv, TypedNumbers, DrawingTyped
  <1>2. \A u \in Transactions : drawing'[u] = IF u = t THEN [from |-> k, n |-> n, fresh |-> fresh] ELSE drawing[u]
    BY DEF NumbersInv, TypedNumbers, DrawingTyped
  <1>3. SeriesTyped' /\ DocumentsTyped' /\ CountersCoverNumbers'
    BY DEF NumbersInv, TypedNumbers, SeriesTyped, DocumentsTyped, CountersCoverNumbers, Numbers
  <1>4. IdleHoldsNothing' /\ DrawnFollows'
    BY <1>2 DEF NumbersInv, IdleHoldsNothing, DrawnFollows
  <1>5. OneHolder'
    BY <1>2 DEF NumbersInv, OneHolder, Locked
  <1>. QED
    BY <1>1, <1>3, <1>4, <1>5 DEF NumbersInv, TypedNumbers

\* SELECT FOR UPDATE of a row, and INSERT of a new one.
LEMMA SelectKeepsNumbers ==
    ASSUME NumbersInv, NEW t \in Transactions, drawing[t] = Idle,
           NEW k \in Sources, k # NoSeries,
           \/ Draw(t, k) /\ Last(k) \in Nat /\ (k \in Keys => k \in DOMAIN series)
           \/ DrawFresh(t, k) /\ (k \in Keys => k \notin DOMAIN series),
           UNCHANGED <<series, counters, numbered>>
    PROVE  NumbersInv'
  <1>1. CASE Draw(t, k) /\ Last(k) \in Nat /\ (k \in Keys => k \in DOMAIN series)
    <2>1. k \in Keys => Last(k) = series[k].last
      BY SourcesDiffer DEF Last
    <2>2. Last(k) + 1 \in Nat
      BY <1>1
    <2>. QED
      BY <1>1, <2>1, <2>2, DrawKeepsNumbers DEF Draw
  <1>2. CASE DrawFresh(t, k) /\ (k \in Keys => k \notin DOMAIN series)
    BY <1>2, DrawKeepsNumbers DEF DrawFresh
  <1>. QED
    BY <1>1, <1>2

(* A document is given the number of a series, or of a new series 'A'.        *)
LEMMA DocumentDraws ==
    ASSUME NumbersInv, NEW t \in Issuers, BeginDocument(t)
    PROVE  NumbersInv'
  <1>1. t \in Transactions /\ drawing[t] = Idle /\ UNCHANGED <<series, counters, numbered>>
    BY DEF BeginDocument, Transactions
  <1>2. \A k \in DOMAIN series : k \in Sources /\ k \in Keys /\ k # NoSeries /\ Last(k) \in Nat
    BY SourcesDiffer DEF NumbersInv, TypedNumbers, SeriesTyped, Sources, Last
  <1>3. CASE \E k \in DOMAIN series : DrawFromGiven(t, k)
    BY <1>1, <1>2, <1>3, SelectKeepsNumbers DEF DrawFromGiven
  <1>4. ASSUME NEW y \in Years, DrawFromDefault(t, y)
        PROVE  NumbersInv'
    <2>1. CASE \E k \in Defaults(y) : Draw(t, k)
      BY <2>1, <1>1, <1>2, SelectKeepsNumbers DEF Defaults
    <2>2. ASSUME NEW k, k = [code |-> "A", year |-> y], k \notin DOMAIN series, DrawFresh(t, k)
          PROVE  NumbersInv'
      <3>1. k \in Sources /\ k # NoSeries
        BY <2>2, NumberingAssumption, SourcesDiffer DEF Keys, Sources
      <3>. QED
        BY <2>2, <3>1, <1>1, SelectKeepsNumbers
    <2>. QED
      BY <1>4, <2>1, <2>2 DEF DrawFromDefault
  <1>. QED
    BY <1>3, <1>4 DEF BeginDocument

(* An invoice of a subscription is given the number of the older counter.     *)
LEMMA InvoiceDraws ==
    ASSUME NumbersInv, NEW r \in Runners, BeginInvoice(r)
    PROVE  NumbersInv'
  <1>1. r \in Transactions /\ drawing[r] = Idle /\ UNCHANGED <<series, counters, numbered>>
    BY DEF BeginInvoice, Transactions
  <1>2. PICK y \in Years : DrawFromCounter(r, y)
    BY NumberingAssumption DEF BeginInvoice, TheYear
  <1>3. Counter(y) \in Sources /\ Counter(y) \notin Keys /\ Counter(y) # NoSeries
    BY SourcesDiffer DEF Sources
  <1>4. CASE counters[y] = NoRow
    BY <1>1, <1>2, <1>3, <1>4, SelectKeepsNumbers DEF DrawFromCounter
  <1>5. CASE counters[y] # NoRow
    <2>1. Last(Counter(y)) \in Nat
      BY <1>5 DEF NumbersInv, TypedNumbers, DrawingTyped, Last, Counter
    <2>. QED
      BY <1>1, <1>2, <1>3, <1>5, <2>1, SelectKeepsNumbers DEF DrawFromCounter
  <1>. QED
    BY <1>4, <1>5

\* A transaction that ends without its document gives its lock back.
LEMMA AbortKeepsNumbers ==
    ASSUME NumbersInv, UNCHANGED <<series, counters, numbered>>, NEW T \in SUBSET Transactions,
           drawing' = [t \in Transactions |-> IF t \in T THEN Idle ELSE drawing[t]]
    PROVE  NumbersInv'
  <1>1. Idle \in [from: Sources, n: Nat, fresh: BOOLEAN] /\ Idle.from = NoSeries /\ NoSeries \notin Keys
    BY SourcesDiffer DEF Idle, Sources
  <1>2. DrawingTyped'
    BY <1>1 DEF NumbersInv, TypedNumbers, DrawingTyped
  <1>3. SeriesTyped' /\ DocumentsTyped' /\ CountersCoverNumbers'
    BY DEF NumbersInv, TypedNumbers, SeriesTyped, DocumentsTyped, CountersCoverNumbers, Numbers
  <1>4. IdleHoldsNothing' /\ DrawnFollows' /\ OneHolder'
    BY <1>1 DEF NumbersInv, IdleHoldsNothing, DrawnFollows, OneHolder
  <1>. QED
    BY <1>2, <1>3, <1>4 DEF NumbersInv, TypedNumbers

(* One transaction that ends without its document.                            *)
LEMMA AbortOneKeepsNumbers ==
    ASSUME NumbersInv, UNCHANGED <<series, counters, numbered>>, NEW t \in Transactions,
           drawing' = [drawing EXCEPT ![t] = Idle]
    PROVE  NumbersInv'
  <1>1. drawing' = [u \in Transactions |-> IF u \in {t} THEN Idle ELSE drawing[u]]
    BY DEF NumbersInv, TypedNumbers, DrawingTyped
  <1>. QED
    BY <1>1, AbortKeepsNumbers

\* The number goes into the row and into the document, and the row is free again.
LEMMA IssueKeepsNumbers ==
    ASSUME NumbersInv, NEW t \in Transactions, drawing[t] # Idle, IssueNumber(t)
    PROVE  NumbersInv'
  <1>. DEFINE d == drawing[t]
  <1>1. /\ d.from \in Sources /\ d.n \in Nat /\ d.from # NoSeries
        /\ Idle \in [from: Sources, n: Nat, fresh: BOOLEAN] /\ Idle.from = NoSeries
    BY SourcesDiffer DEF NumbersInv, TypedNumbers, DrawingTyped, IdleHoldsNothing, Idle, Sources
  <1>2. \A u \in Transactions : drawing'[u] = IF u = t THEN Idle ELSE drawing[u]
    BY DEF IssueNumber, NumbersInv, TypedNumbers, DrawingTyped
  <1>3. drawing' \in [Transactions -> [from: Sources, n: Nat, fresh: BOOLEAN]]
    BY <1>1 DEF IssueNumber, NumbersInv, TypedNumbers, DrawingTyped
  <1>4. IdleHoldsNothing' /\ OneHolder'
    BY <1>1, <1>2, SourcesDiffer DEF NumbersInv, IdleHoldsNothing, OneHolder
  <1>5. CASE d.from \in Keys
    <2>1. d.from.code # "counter"
      BY <1>5, SourcesDiffer
    <2>2. /\ series' = IF d.fresh THEN WithRow(series, d.from, Row(d.n, TRUE, TRUE))
                       ELSE [series EXCEPT ![d.from].last = d.n]
          /\ UNCHANGED counters
          /\ numbered' = numbered \cup {[number |-> DocNumber(d.from, d.n), from |-> d.from]}
      BY <2>1 DEF IssueNumber, StoreLast
    <2>3. IF d.fresh THEN d.from \notin DOMAIN series
          ELSE d.from \in DOMAIN series /\ d.n = series[d.from].last + 1
      BY <1>5 DEF NumbersInv, DrawnFollows
    <2>4. DOMAIN series' = DOMAIN series \cup {d.from} /\ series' = [k \in DOMAIN series' |-> series'[k]]
      BY <2>2, <2>3 DEF WithRow
    <2>5. \A k \in DOMAIN series' :
              IF k = d.from THEN series'[k] \in [last: {d.n}, isDefault: BOOLEAN, isActive: BOOLEAN]
              ELSE series'[k] = series[k]
      BY <2>2, <2>3, <2>4 DEF WithRow, Row, NumbersInv, TypedNumbers, SeriesTyped
    <2>6. SeriesTyped'
      BY <1>1, <1>5, <2>4, <2>5 DEF NumbersInv, TypedNumbers, SeriesTyped
    <2>7. DocNumber(d.from, d.n) \in Numbers /\ DocNumber(d.from, d.n).n = d.n
      BY <1>1, <1>5, <2>1, SourcesDiffer DEF DocNumber, Numbers
    <2>8. DocumentsTyped'
      BY <1>5, <2>2, <2>7 DEF NumbersInv, TypedNumbers, DocumentsTyped
    <2>9. DrawnFollows'
      BY <1>1, <1>2, <1>5, <2>4, <2>5, SourcesDiffer DEF NumbersInv, DrawnFollows, OneHolder
    <2>10. CountersCoverNumbers'
      <3>. SUFFICES ASSUME NEW x \in numbered', x.from # NoSeries
                    PROVE  x.from \in DOMAIN series' /\ x.number.n <= series'[x.from].last
        BY DEF CountersCoverNumbers
      <3>1. CASE x \in numbered
        <4>1. /\ x.from \in DOMAIN series /\ x.number.n <= series[x.from].last /\ x.number.n \in Nat
              /\ series[x.from].last \in Nat
          BY <3>1 DEF NumbersInv, CountersCoverNumbers, TypedNumbers, DocumentsTyped, SeriesTyped, Numbers
        <4>2. CASE x.from = d.from
          BY <4>1, <4>2, <2>3, <2>4, <2>5, <1>1
        <4>. QED
          BY <4>1, <4>2, <2>4, <2>5
      <3>2. CASE x = [number |-> DocNumber(d.from, d.n), from |-> d.from]
        BY <3>2, <1>1, <2>4, <2>5, <2>7
      <3>. QED
        BY <2>2, <3>1, <3>2
    <2>. QED
      BY <1>3, <1>4, <2>2, <2>6, <2>8, <2>9, <2>10
         DEF NumbersInv, TypedNumbers, DrawingTyped
  <1>6. CASE d.from \notin Keys
    <2>1. PICK y \in Years : d.from = Counter(y)
      BY <1>1, <1>6 DEF Sources
    <2>2. /\ counters' = [counters EXCEPT ![y] = d.n] /\ UNCHANGED series
          /\ numbered' = numbered \cup {[number |-> DocNumber(d.from, d.n), from |-> NoSeries]}
      BY <2>1 DEF IssueNumber, StoreLast, Counter
    <2>3. DocNumber(d.from, d.n) \in Numbers
      BY <1>1, <2>1, NumberingAssumption DEF DocNumber, Numbers, Counter
    <2>4. SeriesTyped' /\ DocumentsTyped' /\ DrawingTyped'
      BY <1>1, <1>3, <2>2, <2>3
         DEF NumbersInv, TypedNumbers, SeriesTyped, DocumentsTyped, DrawingTyped
    <2>5. DrawnFollows'
      BY <1>1, <1>2, <2>2, SourcesDiffer DEF NumbersInv, DrawnFollows
    <2>6. CountersCoverNumbers'
      BY <2>2 DEF NumbersInv, CountersCoverNumbers
    <2>. QED
      BY <1>4, <2>4, <2>5, <2>6 DEF NumbersInv, TypedNumbers
  <1>. QED
    BY <1>5, <1>6

--------------------------------------------------------------------------------
(***************************************************************************)
(* Users: documents that are removed, and the series themselves.           *)
(***************************************************************************)

\* A draft that is deleted takes its number with it.
LEMMA RemovalKeepsNumbers ==
    ASSUME NumbersInv, RemoveDraft
    PROVE  NumbersInv'
  BY DEF NumbersInv, TypedNumbers, SeriesTyped, DocumentsTyped, DrawingTyped, IdleHoldsNothing,
         DrawnFollows, OneHolder, CountersCoverNumbers, RemoveDraft, Numbers

(* A new series has given out nothing.                                        *)
LEMMA NewSeriesKeepsNumbers ==
    ASSUME NumbersInv, NEW k \in Keys, NEW default \in BOOLEAN, CreateSeries(k, default)
    PROVE  NumbersInv'
  <1>. DEFINE rows == IF default THEN ClearDefaults(series, k) ELSE series
  <1>1. /\ DOMAIN rows = DOMAIN series
        /\ \A o \in DOMAIN series :
               /\ rows[o] \in [last: Nat, isDefault: BOOLEAN, isActive: BOOLEAN]
               /\ rows[o].last = series[o].last
    BY ClearDefaultsKeepsLast DEF NumbersInv, TypedNumbers, SeriesTyped
  <1>2. series' = WithRow(rows, k, Row(0, default, TRUE)) /\ k \notin DOMAIN series /\ ~Locked(k)
    BY DEF CreateSeries
  <1>3. /\ DOMAIN series' = DOMAIN series \cup {k} /\ series' = [o \in DOMAIN series' |-> series'[o]]
        /\ series'[k] = Row(0, default, TRUE)
        /\ \A o \in DOMAIN series : series'[o] = rows[o]
    BY <1>1, <1>2 DEF WithRow
  <1>. HIDE DEF rows
  <1>4. SeriesTyped'
    <2>1. Row(0, default, TRUE) \in [last: Nat, isDefault: BOOLEAN, isActive: BOOLEAN]
      BY DEF Row
    <2>2. DOMAIN series' \subseteq Keys
      BY <1>3 DEF NumbersInv, TypedNumbers, SeriesTyped
    <2>. QED
      BY <1>1, <1>3, <2>1, <2>2 DEF SeriesTyped
  <1>5. DrawnFollows'
    BY <1>1, <1>2, <1>3 DEF CreateSeries, NumbersInv, DrawnFollows, Locked
  <1>6. CountersCoverNumbers'
    BY <1>1, <1>2, <1>3 DEF CreateSeries, NumbersInv, CountersCoverNumbers
  <1>. QED
    BY <1>4, <1>5, <1>6 DEF CreateSeries, NumbersInv, TypedNumbers, DocumentsTyped, DrawingTyped,
         IdleHoldsNothing, OneHolder, Numbers

(* An edit of a series changes flags, of the others too if it becomes the     *)
(* default.                                                                   *)
LEMMA EditKeepsNumbers ==
    ASSUME NumbersInv, NEW k \in Keys, NEW default \in BOOLEAN, NEW active \in BOOLEAN,
           UpdateSeries(k, default, active)
    PROVE  NumbersInv'
  <1>. DEFINE rows == IF default THEN ClearDefaults(series, k) ELSE series
  <1>1. /\ DOMAIN rows = DOMAIN series /\ rows = [o \in DOMAIN rows |-> rows[o]]
        /\ \A o \in DOMAIN series :
               /\ rows[o] \in [last: Nat, isDefault: BOOLEAN, isActive: BOOLEAN]
               /\ rows[o].last = series[o].last
    BY ClearDefaultsKeepsLast DEF NumbersInv, TypedNumbers, SeriesTyped
  <1>2. /\ series' = [rows EXCEPT ![k].isDefault = default, ![k].isActive = active]
        /\ k \in DOMAIN series /\ UNCHANGED <<counters, numbered, drawing>>
    BY DEF UpdateSeries
  <1>. HIDE DEF rows
  <1>3. /\ SeriesTyped' /\ DOMAIN series' = DOMAIN series
        /\ \A o \in DOMAIN series : series'[o].last = series[o].last
    BY <1>1, <1>2 DEF NumbersInv, TypedNumbers, SeriesTyped
  <1>. QED
    BY <1>2, <1>3, FlagsKeepNumbers

(* A series in use is deactivated.                                            *)
LEMMA RetirementKeepsNumbers ==
    ASSUME NumbersInv, NEW k \in Keys, RemoveUsed(k)
    PROVE  NumbersInv'
  <1>1. /\ SeriesTyped' /\ DOMAIN series' = DOMAIN series
        /\ \A o \in DOMAIN series : series'[o].last = series[o].last
    BY DEF RemoveUsed, NumbersInv, TypedNumbers, SeriesTyped
  <1>. QED
    BY <1>1, FlagsKeepNumbers DEF RemoveUsed

\* The documents of a series that is deleted lose their series with it.
LEMMA DeletionKeepsNumbers ==
    ASSUME NumbersInv, NEW a \in Admins, DeleteSeries(a)
    PROVE  NumbersInv'
  <1>. DEFINE k == removing[a]
  <1>1. ~Locked(k) /\ series' = [o \in DOMAIN series \ {k} |-> series[o]] /\ UNCHANGED <<counters, drawing>>
    BY DEF DeleteSeries
  <1>2. numbered' = {[d EXCEPT !.from = IF @ = k THEN NoSeries ELSE @] : d \in numbered}
    BY DEF DeleteSeries
  <1>3. \A x \in numbered' : \E d \in numbered :
            x.number = d.number /\ x.from = (IF d.from = k THEN NoSeries ELSE d.from)
            /\ x \in [number: Numbers, from: Keys \cup {NoSeries}]
    BY <1>2 DEF NumbersInv, TypedNumbers, DocumentsTyped
  <1>4. SeriesTyped' /\ DocumentsTyped'
    BY <1>1, <1>3 DEF NumbersInv, TypedNumbers, SeriesTyped, DocumentsTyped, Numbers
  <1>5. DrawnFollows'
    BY <1>1 DEF NumbersInv, DrawnFollows, Locked
  <1>6. CountersCoverNumbers'
    BY <1>1, <1>3 DEF NumbersInv, CountersCoverNumbers
  <1>. QED
    BY <1>1, <1>4, <1>5, <1>6 DEF NumbersInv, TypedNumbers, DrawingTyped, IdleHoldsNothing, OneHolder

--------------------------------------------------------------------------------
(* No number has been given at the start.                                     *)
LEMMA NumbersBegin ==
    ASSUME Init
    PROVE  NumbersInv
  <1>1. /\ counters = [y \in Years |-> NoRow] /\ numbered = {} /\ drawing = [t \in Transactions |-> Idle]
        /\ series = <<>> \/ \E k \in Keys : series = [o \in {k} |-> Row(0, TRUE, TRUE)]
    BY DEF Init, NumberingInit
  <1>2. SeriesTyped
    <2>1. CASE series = <<>>
      BY <2>1 DEF SeriesTyped
    <2>2. CASE \E k \in Keys : series = [o \in {k} |-> Row(0, TRUE, TRUE)]
      BY <2>2 DEF SeriesTyped, Row
    <2>. QED
      BY <1>1, <2>1, <2>2
  <1>3. Idle \in [from: Sources, n: Nat, fresh: BOOLEAN] /\ Idle.from \notin Keys
    BY SourcesDiffer DEF Idle, Sources
  <1>. QED
    BY <1>1, <1>2, <1>3 DEF NumbersInv, TypedNumbers, DocumentsTyped, DrawingTyped, IdleHoldsNothing,
         DrawnFollows, OneHolder, CountersCoverNumbers

(* What has nothing to do with numbers.                                       *)
LEMMA UntouchedKeepsNumbers ==
    ASSUME NumbersInv, UNCHANGED <<series, counters, numbered, drawing>>
    PROVE  NumbersInv'
  BY DEF NumbersInv, TypedNumbers, SeriesTyped, DocumentsTyped, DrawingTyped, IdleHoldsNothing,
         DrawnFollows, OneHolder, CountersCoverNumbers, Numbers

(* The steps of documents and of their series.                                *)
LEMMA UsersKeepNumbers ==
    ASSUME NumbersInv, NumberingNext
    PROVE  NumbersInv'
  <1>1. ASSUME NEW t \in Issuers, BeginDocument(t) \/ CommitDocument(t) \/ AbortDrawing(t)
        PROVE  NumbersInv'
    BY <1>1, DocumentDraws, IssueKeepsNumbers, AbortOneKeepsNumbers
       DEF CommitDocument, AbortDrawing, Transactions
  <1>2. ASSUME NEW k \in Keys, NEW default \in BOOLEAN, NEW active \in BOOLEAN,
               CreateSeries(k, default) \/ UpdateSeries(k, default, active)
        PROVE  NumbersInv'
    BY <1>2, NewSeriesKeepsNumbers, EditKeepsNumbers
  <1>3. ASSUME NEW k \in Keys, RemoveUsed(k) \/ \E a \in Admins : FindUnused(a, k)
        PROVE  NumbersInv'
    BY <1>3, RetirementKeepsNumbers, UntouchedKeepsNumbers DEF FindUnused
  <1>4. ASSUME NEW a \in Admins, DeleteSeries(a)
        PROVE  NumbersInv'
    BY <1>4, DeletionKeepsNumbers
  <1>. QED
    BY <1>1, <1>2, <1>3, <1>4, RemovalKeepsNumbers DEF NumberingNext

(* The steps of runs.                                                         *)
LEMMA RunsKeepNumbers ==
    ASSUME NumbersInv, NEW r \in Runners,
           \/ StartRun(r) \/ \E s \in Subs : Treat(r, s)
           \/ AdvanceOnly(r) \/ BeginInvoice(r) \/ CommitInvoice(r) \/ FailInvoice(r)
    PROVE  NumbersInv'
  <1>1. CASE StartRun(r) \/ (\E s \in Subs : Treat(r, s)) \/ AdvanceOnly(r)
    BY <1>1, UntouchedKeepsNumbers DEF StartRun, Treat, AdvanceOnly, numberingVars
  <1>2. CASE BeginInvoice(r)
    BY <1>2, InvoiceDraws
  <1>3. CASE CommitInvoice(r)
    BY <1>3, IssueKeepsNumbers DEF CommitInvoice, Transactions
  <1>4. CASE FailInvoice(r)
    BY <1>4, AbortOneKeepsNumbers DEF FailInvoice, Transactions
  <1>. QED
    BY <1>1, <1>2, <1>3, <1>4

(* Every step keeps the invariant of the numbers.                             *)
LEMMA StepKeepsNumbers ==
    ASSUME NumbersInv, [Next]_vars
    PROVE  NumbersInv'
  <1>1. CASE NextDay \/ PlanNext \/ RequestNext \/ UNCHANGED vars
    BY <1>1, UntouchedKeepsNumbers
       DEF NextDay, PlanNext, SavePlan, RemovePlan, RequestNext, Read, CreateSubscription, ChangePlan,
           ChangeStatus, CancelNow, CancelAtPeriodEnd, Refuse, Write, vars, numberingVars
  <1>2. CASE RunNext
    BY <1>2, RunsKeepNumbers DEF RunNext
  <1>3. CASE Crash
    BY <1>3, AbortKeepsNumbers DEF Crash
  <1>4. CASE NumberingNext
    BY <1>4, UsersKeepNumbers
  <1>. QED
    BY <1>1, <1>2, <1>3, <1>4 DEF Next

\* The row lock of a series or counter is exclusive, and the number drawn under it stays the
\* next one until the document is in (series.service.ts nextNumber).
THEOREM DrawnNumbersAreNext == Spec => [](DrawnFollows /\ OneHolder)
  <1>1. NumbersInv => DrawnFollows /\ OneHolder
    BY DEF NumbersInv
  <1>. QED
    BY <1>1, NumbersBegin, StepKeepsNumbers, PTL DEF Spec

\* No document of a series is numbered above the series: what is numbered next is never
\* behind a number given, whatever documents and series are removed meanwhile.
THEOREM NumbersNeverGoBack == Spec => []CountersCoverNumbers
  <1>1. NumbersInv => CountersCoverNumbers
    BY DEF NumbersInv
  <1>. QED
    BY <1>1, NumbersBegin, StepKeepsNumbers, PTL DEF Spec
--------------------------------------------------------------------------------
(***************************************************************************)
(* Part 2. Periods. What makes PeriodsFollow inductive is that every copy  *)
(* of a subscription that somebody may write back, stale or not, stands:   *)
(* its period is the first one or follows an invoiced one.                 *)
(***************************************************************************)
Exists(s) == subs[s].status # "none"

Stands(s, row) ==
    /\ row \in SubscriptionRow /\ row.status # "none"
    /\ row.first = subs[s].first /\ LengthOf(row) >= 1
    /\ Follows(s, row)

SubsStand == \A s \in Subs : subs[s] = NoSub \/ Stands(s, subs[s])

RunStands(w) ==
    /\ w = [rows |-> w.rows, at |-> w.at, step |-> w.step] /\ DOMAIN w.rows \subseteq Subs
    /\ w.step = "generate" <=> w.at \in DOMAIN w.rows
    /\ \A s \in DOMAIN w.rows : Exists(s) /\ Stands(s, w.rows[s])

RunsStand == DOMAIN run = Runners /\ \A r \in Runners : RunStands(run[r])

RequestStands(q) ==
    /\ q \in [sub: Subs \cup {None}, status: Statuses, end: Days]
    /\ q.status # "none" => q.sub \in Subs /\ Exists(q.sub)

RequestsStand == DOMAIN request = Users /\ \A u \in Users : RequestStands(request[u])

InvoiceStands(i) == i \in InvoiceRow /\ Exists(i.sub) /\ LengthOf(i) >= 1 /\ Follows(i.sub, i)

InvoicesStand == \A i \in invoices : InvoiceStands(i)

\* Periods of one length are whole lengths away from the first.
InStep(s) ==
    (\A i, j \in InvoicesOf(s) : LengthOf(i) = LengthOf(j)) =>
        \A i \in InvoicesOf(s) : \E k \in Nat : i.start = subs[s].first + k * LengthOf(i)

PlansStand ==
    /\ plans \in [Plans -> PlanRow]
    /\ \A p \in Plans : plans[p] = NoPlan \/ plans[p].shape \in Shapes

PeriodsInv ==
    /\ subs \in [Subs -> SubscriptionRow] /\ today \in Nat /\ PlansStand
    /\ SubsStand /\ RunsStand /\ RequestsStand /\ InvoicesStand /\ InvoicedOnce
    /\ \A s \in Subs : InStep(s)

\* What a step never takes away: subscriptions, where they began, and invoices.
Later ==
    /\ \A s \in Subs : Exists(s) => Exists(s)' /\ subs'[s].first = subs[s].first
    /\ invoices \subseteq invoices'

\* A row that stands goes on standing.
LEMMA StandsLater ==
    ASSUME Later, NEW s \in Subs, Exists(s), NEW row, Stands(s, row)
    PROVE  Stands(s, row)'
  BY DEF Later, Stands, Follows, InvoicesOf

\* So do the rows of a run, ...
LEMMA RunLater ==
    ASSUME Later, NEW w, RunStands(w)
    PROVE  RunStands(w)'
  <1>1. ASSUME NEW s \in DOMAIN w.rows
        PROVE  Exists(s)' /\ Stands(s, w.rows[s])'
    <2>1. s \in Subs /\ Exists(s) /\ Stands(s, w.rows[s])
      BY DEF RunStands
    <2>2. PICK row : row = w.rows[s]
      OBVIOUS
    <2>3. Stands(s, row)'
      BY <2>1, <2>2, StandsLater
    <2>. QED
      BY <2>1, <2>2, <2>3 DEF Later
  <1>. QED
    BY <1>1 DEF RunStands

\* ... requests, ...
LEMMA RequestLater ==
    ASSUME Later, NEW q, RequestStands(q)
    PROVE  RequestStands(q)'
  BY DEF Later, RequestStands

\* ... and invoices.
LEMMA InvoiceLater ==
    ASSUME Later, NEW i, InvoiceStands(i)
    PROVE  InvoiceStands(i)'
  <1>1. i.sub \in Subs
    BY DEF InvoiceStands, InvoiceRow
  <1>. QED
    BY <1>1 DEF Later, InvoiceStands, Follows, InvoicesOf

\* A run that is done with a row has the others left.
LEMMA AfterStands ==
    ASSUME NEW r \in Runners, RunStands(run[r]), NEW s
    PROVE  RunStands(After(r, s))
  <1> DEFINE left == Without(run[r].rows, s)
  <1>1. DOMAIN left \subseteq DOMAIN run[r].rows /\ \A o \in DOMAIN left : left[o] = run[r].rows[o]
    BY DEF Without
  <1>2. None \notin DOMAIN left
    BY <1>1, BillingAssumption DEF RunStands
  <1>3. RunStands(Resting)
    BY DEF RunStands, Resting
  <1>4. RunStands([rows |-> left, at |-> None, step |-> "next"])
    BY <1>1, <1>2 DEF RunStands
  <1>. QED
    BY <1>3, <1>4 DEF After

\* A step that invoices nothing keeps the invariant, if what it writes stands.
LEMMA NothingInvoiced ==
    ASSUME PeriodsInv, Later, invoices' = invoices,
           subs' \in [Subs -> SubscriptionRow], today' \in Nat, PlansStand',
           \A s \in Subs : subs'[s] = subs[s] \/ \E row : row = subs'[s] /\ Stands(s, row)',
           DOMAIN run' = Runners,
           \A r \in Runners : \E w : w = run'[r] /\ RunStands(w),
           DOMAIN request' = Users,
           \A u \in Users : \E q : q = request'[u] /\ RequestStands(q)
    PROVE  PeriodsInv'
  <1>1. ASSUME NEW s \in Subs
        PROVE  (subs[s] = NoSub \/ Stands(s, subs[s]))'
    <2>1. CASE subs'[s] = subs[s]
      <3>1. PICK row : row = subs[s]
        OBVIOUS
      <3>2. row = NoSub \/ (Exists(s) /\ Stands(s, row))
        BY <3>1 DEF PeriodsInv, SubsStand, Stands, Exists
      <3>3. row = NoSub \/ Stands(s, row)'
        BY <3>2, StandsLater
      <3>. QED
        BY <2>1, <3>1, <3>3 DEF NoSub
    <2>2. CASE \E row : row = subs'[s] /\ Stands(s, row)'
      BY <2>2
    <2>. QED
      BY <2>1, <2>2
  <1>2. SubsStand'
    BY <1>1 DEF SubsStand
  <1>3. RunsStand'
    <2>1. ASSUME NEW r \in Runners
          PROVE  RunStands(run[r])'
      BY RunLater
    <2>. QED
      BY <2>1 DEF RunsStand
  <1>4. RequestsStand'
    <2>1. ASSUME NEW u \in Users
          PROVE  RequestStands(request[u])'
      BY RequestLater
    <2>. QED
      BY <2>1 DEF RequestsStand
  <1>5. InvoicesStand'
    <2>1. \A i \in invoices : InvoiceStands(i)
      BY DEF PeriodsInv, InvoicesStand
    <2>. QED
      BY <2>1, InvoiceLater DEF InvoicesStand
  <1>6. InvoicedOnce'
    BY DEF PeriodsInv, InvoicedOnce
  <1>7. ASSUME NEW s \in Subs
        PROVE  InStep(s)'
    <2>1. InStep(s)
      BY DEF PeriodsInv
    <2>2. InvoicesOf(s)' = InvoicesOf(s)
      BY DEF InvoicesOf
    <2>3. InvoicesOf(s) # {} => subs'[s].first = subs[s].first
      BY DEF PeriodsInv, InvoicesStand, InvoiceStands, InvoicesOf, Later
    <2>. QED
      BY <2>1, <2>2, <2>3 DEF InStep
  <1>. QED
    BY <1>2, <1>3, <1>4, <1>5, <1>6, <1>7 DEF PeriodsInv

\* The cycle a row moves on by is a number of days.
LEMMA CyclesAreDays ==
    ASSUME NEW row \in SubscriptionRow
    PROVE  /\ CycleDays[row.cycle] \in Nat \ {0}
           /\ row.start \in Nat /\ row.end \in Nat /\ row.first \in Nat
           /\ \A day \in Nat : AddCycle(day, row.cycle) = day + CycleDays[row.cycle]
  BY BillingAssumption DEF SubscriptionRow, Days, AddCycle

\* The pointer moves on from a period that was invoiced, by the cycle of the row that was read.
LEMMA AdvancedStands ==
    ASSUME PeriodsInv, Later, NEW s \in Subs, NEW row, Stands(s, row), Exists(s),
           \E i \in invoices' : i.sub = s /\ i.start = row.start
    PROVE  /\ Advanced(subs[s], row) \in SubscriptionRow
           /\ Advanced(subs[s], row).status = subs[s].status
           /\ Advanced(subs[s], row).first = subs[s].first
           /\ \E new : new = Advanced(subs[s], row) /\ Stands(s, new)'
  <1> DEFINE days == CycleDays[row.cycle]
             begin == AddCycle(row.start, row.cycle)
             finish == AddCycle(begin, row.cycle) - 1
             new == Advanced(subs[s], row)
  <1>1. subs[s] \in SubscriptionRow /\ row \in SubscriptionRow
    BY DEF PeriodsInv, Stands
  <1>2. days \in Nat \ {0} /\ row.start \in Nat
    BY <1>1, CyclesAreDays
  <1>3. begin \in Nat /\ begin = row.start + days
    BY <1>1, <1>2, CyclesAreDays
  <1>4. finish \in Nat /\ finish = begin + days - 1
    BY <1>1, <1>2, <1>3, CyclesAreDays
  <1>5. /\ new \in SubscriptionRow /\ new.start = begin /\ new.end = finish
        /\ new.status = subs[s].status /\ new.first = subs[s].first
    <2>1. new = [subs[s] EXCEPT !.start = begin, !.end = finish, !.next = begin]
      BY DEF Advanced
    <2> HIDE DEF begin, finish, new
    <2>. QED
      BY <1>1, <1>3, <1>4, <2>1 DEF SubscriptionRow, Days
  <1>6. PICK n : n = new
    OBVIOUS
  <1>7. LengthOf(n) = days
    BY <1>2, <1>3, <1>4, <1>5, <1>6 DEF LengthOf
  <1>8. Follows(s, n)'
    <2>1. PICK i \in invoices' : i.sub = s /\ i.start = row.start
      OBVIOUS
    <2>2. n.start = i.start + LengthOf(n)
      BY <1>3, <1>5, <1>6, <1>7, <2>1
    <2>. QED
      BY <2>1, <2>2 DEF Follows, InvoicesOf
  <1>9. n.status # "none" /\ n.first = subs'[s].first
    BY <1>5, <1>6 DEF Exists, Later
  <1>10. n \in SubscriptionRow /\ LengthOf(n) >= 1
    BY <1>2, <1>5, <1>6, <1>7
  <1>11. Stands(s, n)'
    BY <1>8, <1>9, <1>10 DEF Stands
  <1>. QED
    BY <1>5, <1>6, <1>11

\* The row a run works on stands.
LEMMA RowOfStands ==
    ASSUME PeriodsInv, NEW r \in Runners, run[r].step = "generate"
    PROVE  /\ run[r].at \in Subs /\ Exists(run[r].at) /\ Stands(run[r].at, RowOf(r))
           /\ subs[run[r].at] \in SubscriptionRow
  BY DEF PeriodsInv, RunsStand, RunStands, RowOf

\* The new invoice starts where no other does, and in step if all have one length.
LEMMA PeriodInvoiced ==
    ASSUME PeriodsInv, Later, NEW s \in Subs, NEW row, Stands(s, row), Exists(s),
           ~Invoiced(s, row.start),
           invoices' = invoices \cup {[sub |-> s, start |-> row.start, end |-> row.end]}
    PROVE  InvoicesStand' /\ InvoicedOnce' /\ \A o \in Subs : InStep(o)'
  <1> DEFINE new == [sub |-> s, start |-> row.start, end |-> row.end]
  <1>1. PICK i : i = new
    OBVIOUS
  <1>2. /\ i.sub = s /\ i.start = row.start /\ i.end = row.end /\ LengthOf(i) = LengthOf(row)
        /\ invoices' = invoices \cup {i}
    BY <1>1 DEF LengthOf
  <1> HIDE DEF new
  <1>3. row.start \in Nat /\ row.end \in Nat /\ LengthOf(i) \in Nat \ {0}
    BY <1>2, CyclesAreDays DEF Stands, LengthOf
  <1>4. InvoiceStands(i)
    <2>1. i \in InvoiceRow
      BY <1>1, <1>3 DEF InvoiceRow, Days, new
    <2>2. Follows(s, i)
      BY <1>2 DEF Stands, Follows
    <2>. QED
      BY <1>2, <1>3, <2>1, <2>2 DEF InvoiceStands
  <1>5. \A j \in invoices' : InvoiceStands(j)
    BY <1>2, <1>4 DEF PeriodsInv, InvoicesStand
  <1>6. InvoicesStand'
    BY <1>5, InvoiceLater DEF InvoicesStand
  <1>7. InvoicedOnce'
    BY <1>2 DEF PeriodsInv, InvoicedOnce, Invoiced
  <1>8. ASSUME NEW o \in Subs, \A a, b \in InvoicesOf(o)' : LengthOf(a) = LengthOf(b),
               NEW a \in InvoicesOf(o)'
        PROVE  \E k \in Nat : a.start = subs'[o].first + k * LengthOf(a)
    <2>1. InvoicesOf(o) \subseteq InvoicesOf(o)'
      BY <1>2 DEF InvoicesOf
    <2>2. InStep(o) /\ \A x, y \in InvoicesOf(o) : LengthOf(x) = LengthOf(y)
      BY <1>8, <2>1 DEF PeriodsInv
    <2>3. Exists(o) /\ subs'[o].first = subs[o].first
      BY <1>5, <1>8 DEF InvoicesOf, InvoiceStands, Later
    <2>4. CASE a \in InvoicesOf(o)
      BY <2>2, <2>3, <2>4 DEF InStep
    <2>5. CASE a \notin InvoicesOf(o)
      <3>1. a = i /\ o = s
        BY <1>2, <1>8, <2>5 DEF InvoicesOf
      <3>2. subs[s].first \in Nat
        BY CyclesAreDays DEF PeriodsInv
      <3>3. CASE row.start = subs[s].first
        <4>1. a.start = subs'[o].first + 0 * LengthOf(a)
          BY <1>2, <1>3, <2>3, <3>1, <3>2, <3>3
        <4>. QED
          BY <4>1
      <3>4. CASE row.start # subs[s].first
        <4>1. PICK j \in InvoicesOf(s) : row.start = j.start + LengthOf(row)
          BY <3>4 DEF Stands, Follows
        <4>2. LengthOf(j) = LengthOf(i)
          BY <1>8, <2>1, <3>1, <4>1
        <4>3. PICK k \in Nat : j.start = subs[s].first + k * LengthOf(j)
          BY <2>2, <3>1, <4>1 DEF InStep
        <4>4. i.start = subs[s].first + (k + 1) * LengthOf(i)
          BY <1>2, <1>3, <3>2, <4>1, <4>2, <4>3
        <4>. QED
          BY <2>3, <3>1, <4>4
      <3>. QED
        BY <3>3, <3>4
    <2>. QED
      BY <2>4, <2>5
  <1>9. \A o \in Subs : InStep(o)'
    BY <1>8 DEF InStep
  <1>. QED
    BY <1>6, <1>7, <1>9

\* What a step leaves for runs, requests, subscriptions and plans stands.
RunsLeft == DOMAIN run' = Runners /\ \A r \in Runners : \E w : w = run'[r] /\ RunStands(w)
RequestsLeft == DOMAIN request' = Users /\ \A u \in Users : \E q : q = request'[u] /\ RequestStands(q)
SubsLeft ==
    /\ subs' \in [Subs -> SubscriptionRow]
    /\ \A s \in Subs : subs'[s] = subs[s] \/ \E row : row = subs'[s] /\ Stands(s, row)'

(* Runs that a step does not touch.                                           *)
LEMMA RunsKept ==
    ASSUME PeriodsInv, run' = run
    PROVE  RunsLeft
  BY DEF PeriodsInv, RunsStand, RunsLeft

(* A step of one run.                                                         *)
LEMMA RunMoved ==
    ASSUME PeriodsInv, NEW r \in Runners, NEW w, RunStands(w), run' = [run EXCEPT ![r] = w]
    PROVE  RunsLeft
  <1>1. DOMAIN run = Runners /\ \A o \in Runners : RunStands(run[o])
    BY DEF PeriodsInv, RunsStand
  <1>2. DOMAIN run' = Runners /\ \A o \in Runners : run'[o] = IF o = r THEN w ELSE run[o]
    BY <1>1
  <1>. QED
    BY <1>1, <1>2 DEF RunsLeft

(* Requests that a step does not touch.                                       *)
LEMMA RequestsKept ==
    ASSUME PeriodsInv, request' = request
    PROVE  RequestsLeft
  BY DEF PeriodsInv, RequestsStand, RequestsLeft

(* A step of one request.                                                     *)
LEMMA RequestMoved ==
    ASSUME PeriodsInv, NEW u \in Users, NEW q, RequestStands(q), request' = [request EXCEPT ![u] = q]
    PROVE  RequestsLeft
  <1>1. DOMAIN request = Users /\ \A o \in Users : RequestStands(request[o])
    BY DEF PeriodsInv, RequestsStand
  <1>2. DOMAIN request' = Users /\ \A o \in Users : request'[o] = IF o = u THEN q ELSE request[o]
    BY <1>1
  <1>. QED
    BY <1>1, <1>2 DEF RequestsLeft

(* A user who asks for nothing.                                               *)
LEMMA NoRequestStands == RequestStands(NoRequest)
  BY DEF RequestStands, NoRequest, Statuses, Days, NoDate

(* Subscriptions that a step does not touch.                                  *)
LEMMA SubsKept ==
    ASSUME PeriodsInv, subs' = subs, invoices \subseteq invoices'
    PROVE  Later /\ SubsLeft
  BY DEF PeriodsInv, Later, SubsLeft, Exists

\* A row is written that keeps where the subscription began; whether it stands is seen
\* afterwards.
LEMMA SubMoved ==
    ASSUME PeriodsInv, NEW s \in Subs, NEW row \in SubscriptionRow, row.status # "none",
           Exists(s) => row.first = subs[s].first,
           subs' = [subs EXCEPT ![s] = row], invoices \subseteq invoices'
    PROVE  /\ Later /\ subs'[s] = row
           /\ Stands(s, row)' => SubsLeft
  <1>1. subs \in [Subs -> SubscriptionRow]
    BY DEF PeriodsInv
  <1>2. \A o \in Subs : subs'[o] = IF o = s THEN row ELSE subs[o]
    BY <1>1
  <1>3. subs' \in [Subs -> SubscriptionRow]
    BY <1>1
  <1>4. Later
    BY <1>2 DEF Later, Exists
  <1>. QED
    BY <1>2, <1>3, <1>4 DEF SubsLeft

(* A step that invoices nothing keeps the invariant, if what it leaves        *)
(* stands.                                                                    *)
LEMMA StepLeaves ==
    ASSUME PeriodsInv, Later, SubsLeft, RunsLeft, RequestsLeft, invoices' = invoices,
           today' \in Nat, PlansStand'
    PROVE  PeriodsInv'
  BY NothingInvoiced DEF SubsLeft, RunsLeft, RequestsLeft

\* A handler writes a row that keeps the period as it is, or the first one.
LEMMA WriteStands ==
    ASSUME PeriodsInv, NEW u \in Users, NEW row \in SubscriptionRow, Write(u, row),
           row.status # "none", LengthOf(row) >= 1,
           IF Exists(request[u].sub)
           THEN row.first = Current(u).first /\ row.start = Current(u).start /\ row.end = Current(u).end
           ELSE row.start = row.first
    PROVE  PeriodsInv'
  <1>1. PICK s \in Subs : s = request[u].sub
    BY DEF PeriodsInv, RequestsStand, RequestStands, Write
  <1>2. /\ subs' = [subs EXCEPT ![s] = row] /\ request' = [request EXCEPT ![u] = NoRequest]
        /\ UNCHANGED <<today, plans, invoices, run>>
    BY <1>1 DEF Write
  <1>3. Later /\ subs'[s] = row /\ (Stands(s, row)' => SubsLeft)
    <2>1. Exists(s) => row.first = subs[s].first
      BY <1>1 DEF Current
    <2>. QED
      BY <1>1, <1>2, <2>1, SubMoved
  <1>4. Follows(s, row)'
    <2>1. CASE Exists(s)
      <3>1. Stands(s, subs[s])
        BY <1>1, <2>1 DEF PeriodsInv, SubsStand, Exists, NoSub
      <3>2. Follows(s, row)
        BY <1>1, <2>1, <3>1 DEF Stands, Follows, Current, LengthOf
      <3>. QED
        BY <1>1, <1>2, <1>3, <2>1, <3>2 DEF Follows, InvoicesOf, Later
    <2>2. CASE ~Exists(s)
      BY <1>1, <1>3, <2>2 DEF Follows
    <2>. QED
      BY <2>1, <2>2
  <1>5. Stands(s, row)'
    BY <1>3, <1>4 DEF Stands
  <1>6. RunsLeft /\ RequestsLeft
    BY <1>2, RunsKept, RequestMoved, NoRequestStands
  <1>7. today' \in Nat /\ PlansStand'
    BY <1>2 DEF PeriodsInv, PlansStand
  <1>. QED
    BY <1>2, <1>3, <1>5, <1>6, <1>7, StepLeaves

\* A row that is edited is there, and the edit leaves its period.
LEMMA EditStands ==
    ASSUME PeriodsInv, NEW u \in Users, MayEdit(u), NEW row \in SubscriptionRow, Write(u, row),
           row.status # "none",
           row.first = Current(u).first, row.start = Current(u).start, row.end = Current(u).end
    PROVE  PeriodsInv'
  <1>1. request[u].sub \in Subs /\ Exists(request[u].sub)
    BY DEF PeriodsInv, RequestsStand, RequestStands, MayEdit
  <1>2. Stands(request[u].sub, subs[request[u].sub])
    BY <1>1 DEF PeriodsInv, SubsStand, Exists, NoSub
  <1>3. LengthOf(row) >= 1
    BY <1>2 DEF Stands, LengthOf, Current
  <1>. QED
    BY <1>1, <1>3, WriteStands

(* The handlers of users.                                                     *)
LEMMA RequestsFollow ==
    ASSUME PeriodsInv, RequestNext
    PROVE  PeriodsInv'
  <1>1. PICK u \in Users :
            \/ \E s \in Subs : Read(u, s)
            \/ \E p \in Plans : CreateSubscription(u, p) \/ ChangePlan(u, p)
            \/ \E status \in {"paused", "active"} : ChangeStatus(u, status)
            \/ CancelNow(u) \/ CancelAtPeriodEnd(u) \/ Refuse(u)
    BY DEF RequestNext
  <1> DEFINE current == Current(u)
  <1>2. subs \in [Subs -> SubscriptionRow] /\ today \in Nat /\ PlansStand /\ RequestStands(request[u])
    BY DEF PeriodsInv, RequestsStand
  <1>3. MayEdit(u) => current \in SubscriptionRow /\ current.status # "none" /\ request[u].end \in Nat
    BY <1>2 DEF RequestStands, MayEdit, Current, Exists, Days
  <1>4. ASSUME NEW s \in Subs, Read(u, s)
        PROVE  PeriodsInv'
    <2> DEFINE q == [sub |-> s, status |-> subs[s].status, end |-> subs[s].end]
    <2>1. RequestStands(q)
      BY <1>2 DEF RequestStands, Exists, SubscriptionRow
    <2>2. request' = [request EXCEPT ![u] = q] /\ UNCHANGED <<today, plans, subs, invoices, run>>
      BY <1>4 DEF Read
    <2> HIDE DEF q
    <2>3. RequestsLeft /\ RunsLeft /\ Later /\ SubsLeft
      BY <2>1, <2>2, RequestMoved, RunsKept, SubsKept
    <2>. QED
      BY <1>2, <2>2, <2>3, StepLeaves DEF PlansStand
  <1>5. ASSUME NEW p \in Plans, CreateSubscription(u, p)
        PROVE  PeriodsInv'
    <2> DEFINE terms == Terms[plans[p].shape]
               first == today + terms.trial
               end == AddCycle(first, terms.cycle) - 1
               row == [status |-> IF terms.trial > 0 THEN "trialing" ELSE "active",
                       trialEnd |-> IF terms.trial > 0 THEN first ELSE NoDate,
                       start |-> first, end |-> end, next |-> first,
                       cycle |-> terms.cycle, cancelAt |-> NoDate, plan |-> p, first |-> first]
    <2>1. Current(u) = NoSub /\ plans[p] # NoPlan /\ Write(u, row)
      BY <1>5 DEF CreateSubscription
    <2>2. terms.cycle \in Cycles /\ terms.trial \in Nat
      BY <1>2, <2>1, BillingAssumption DEF PlansStand
    <2>3. first \in Nat /\ CycleDays[terms.cycle] \in Nat \ {0}
      BY <1>2, <2>2, BillingAssumption
    <2>4. end \in Nat /\ end - first + 1 >= 1
      BY <2>3 DEF AddCycle
    <2>5. row \in SubscriptionRow /\ row.status # "none"
      BY <2>2, <2>3, <2>4 DEF SubscriptionRow, Statuses, Days, NoDate
    <2>6. LengthOf(row) >= 1 /\ row.start = row.first
      BY <2>4 DEF LengthOf
    <2>7. ~Exists(request[u].sub)
      BY <2>1 DEF Current, Exists, NoSub
    <2> HIDE DEF row
    <2>. QED
      BY <2>1, <2>5, <2>6, <2>7, WriteStands
  <1>6. ASSUME NEW p \in Plans, ChangePlan(u, p)
        PROVE  PeriodsInv'
    <2> DEFINE row == [current EXCEPT !.cycle = Terms[plans[p].shape].cycle, !.plan = p]
    <2>1. MayEdit(u) /\ Write(u, row) /\ plans[p] # NoPlan
      BY <1>6 DEF ChangePlan
    <2>2. Terms[plans[p].shape].cycle \in Cycles
      BY <1>2, <2>1, BillingAssumption DEF PlansStand
    <2>3. /\ row \in SubscriptionRow /\ row.status # "none"
          /\ row.first = current.first /\ row.start = current.start /\ row.end = current.end
      BY <1>3, <2>1, <2>2 DEF SubscriptionRow
    <2> HIDE DEF row
    <2>. QED
      BY <2>1, <2>3, EditStands
  <1>7. ASSUME NEW status \in {"paused", "active"}, ChangeStatus(u, status)
        PROVE  PeriodsInv'
    <2> DEFINE row == [current EXCEPT !.status = status]
    <2>1. MayEdit(u) /\ Write(u, row)
      BY <1>7 DEF ChangeStatus
    <2>2. /\ row \in SubscriptionRow /\ row.status # "none"
          /\ row.first = current.first /\ row.start = current.start /\ row.end = current.end
      BY <1>3, <2>1 DEF SubscriptionRow, Statuses
    <2> HIDE DEF row
    <2>. QED
      BY <2>1, <2>2, EditStands
  <1>8. ASSUME CancelNow(u)
        PROVE  PeriodsInv'
    <2> DEFINE row == [current EXCEPT !.status = "cancelled", !.cancelAt = today]
    <2>1. MayEdit(u) /\ Write(u, row)
      BY <1>8 DEF CancelNow
    <2>2. /\ row \in SubscriptionRow /\ row.status # "none"
          /\ row.first = current.first /\ row.start = current.start /\ row.end = current.end
      BY <1>2, <1>3, <2>1 DEF SubscriptionRow, Statuses, Days
    <2> HIDE DEF row
    <2>. QED
      BY <2>1, <2>2, EditStands
  <1>9. ASSUME CancelAtPeriodEnd(u)
        PROVE  PeriodsInv'
    <2> DEFINE row == [current EXCEPT !.cancelAt = request[u].end, !.next = request[u].end]
    <2>1. MayEdit(u) /\ Write(u, row)
      BY <1>9 DEF CancelAtPeriodEnd
    <2>2. /\ row \in SubscriptionRow /\ row.status # "none"
          /\ row.first = current.first /\ row.start = current.start /\ row.end = current.end
      BY <1>3, <2>1 DEF SubscriptionRow, Days
    <2> HIDE DEF row
    <2>. QED
      BY <2>1, <2>2, EditStands
  <1>10. ASSUME Refuse(u)
         PROVE  PeriodsInv'
    <2>1. request' = [request EXCEPT ![u] = NoRequest] /\ UNCHANGED <<today, plans, subs, invoices, run>>
      BY <1>10 DEF Refuse
    <2>2. RequestsLeft /\ RunsLeft /\ Later /\ SubsLeft
      BY <2>1, RequestMoved, NoRequestStands, RunsKept, SubsKept
    <2>. QED
      BY <1>2, <2>1, <2>2, StepLeaves DEF PlansStand
  <1>. QED
    BY <1>1, <1>4, <1>5, <1>6, <1>7, <1>8, <1>9, <1>10

(* The handlers of plans.                                                     *)
LEMMA PlansFollow ==
    ASSUME PeriodsInv, PlanNext
    PROVE  PeriodsInv'
  <1>1. PICK p \in Plans : RemovePlan(p) \/ \E shape \in Shapes, active \in BOOLEAN : SavePlan(p, shape, active)
    BY DEF PlanNext
  <1>2. UNCHANGED <<today, subs, invoices, run, request>>
    BY <1>1 DEF RemovePlan, SavePlan
  <1>3. PlansStand'
    <2>1. PlansStand
      BY DEF PeriodsInv
    <2>2. ASSUME NEW row, row \in PlanRow, row.shape \in Shapes \/ row = NoPlan,
                 plans' = [plans EXCEPT ![p] = row]
          PROVE  PlansStand'
      <3>1. DOMAIN plans' = Plans /\ \A o \in Plans : plans'[o] = IF o = p THEN row ELSE plans[o]
        BY <2>1, <2>2 DEF PlansStand
      <3>. QED
        BY <2>1, <2>2, <3>1 DEF PlansStand
    <2>3. ASSUME NEW shape \in Shapes, NEW active \in BOOLEAN, SavePlan(p, shape, active)
          PROVE  PlansStand'
      <3> DEFINE row == [shape |-> shape, isActive |-> active]
      <3>1. row \in PlanRow /\ row.shape \in Shapes
        BY DEF PlanRow
      <3>. QED
        BY <2>2, <2>3, <3>1 DEF SavePlan
    <2>4. ASSUME RemovePlan(p)
          PROVE  PlansStand'
      <3> DEFINE off == [plans[p] EXCEPT !.isActive = FALSE]
      <3>1. off \in PlanRow /\ off.shape \in Shapes
        BY <2>1, <2>4 DEF RemovePlan, PlansStand, PlanRow
      <3>2. NoPlan \in PlanRow
        BY DEF NoPlan, PlanRow
      <3>3. \/ plans' = [plans EXCEPT ![p] = off]
            \/ plans' = [plans EXCEPT ![p] = NoPlan]
        BY <2>4 DEF RemovePlan
      <3> HIDE DEF off
      <3>. QED
        BY <2>2, <3>1, <3>2, <3>3
    <2>. QED
      BY <1>1, <2>3, <2>4
  <1>4. RequestsLeft /\ RunsLeft /\ Later /\ SubsLeft
    BY <1>2, RequestsKept, RunsKept, SubsKept
  <1>5. today' \in Nat
    BY <1>2 DEF PeriodsInv
  <1>. QED
    BY <1>2, <1>3, <1>4, <1>5, StepLeaves

\* A run that leaves subscriptions and invoices alone.
LEMMA RunOnly ==
    ASSUME PeriodsInv, NEW r \in Runners, NEW w, RunStands(w), run' = [run EXCEPT ![r] = w],
           UNCHANGED <<today, plans, subs, invoices, request>>
    PROVE  PeriodsInv'
  <1>1. RequestsLeft /\ RunsLeft /\ Later /\ SubsLeft
    BY RequestsKept, RunMoved, SubsKept
  <1>2. today' \in Nat /\ PlansStand'
    BY DEF PeriodsInv, PlansStand
  <1>. QED
    BY <1>1, <1>2, StepLeaves

\* A run that changes the status of the subscription it treats.
LEMMA RunMarks ==
    ASSUME PeriodsInv, NEW r \in Runners, NEW w, RunStands(w), run' = [run EXCEPT ![r] = w],
           NEW s \in Subs, Exists(s), NEW status \in Statuses \ {"none"},
           subs' = [subs EXCEPT ![s].status = status],
           UNCHANGED <<today, plans, invoices, request>>
    PROVE  PeriodsInv'
  <1>1. subs[s] \in SubscriptionRow /\ Stands(s, subs[s])
    BY DEF PeriodsInv, SubsStand, Exists, NoSub
  <1>2. PICK row : row = [subs[s] EXCEPT !.status = status]
    OBVIOUS
  <1>3. /\ row \in SubscriptionRow /\ row.status # "none"
        /\ row.first = subs[s].first /\ row.start = subs[s].start /\ row.end = subs[s].end
    BY <1>1, <1>2 DEF SubscriptionRow
  <1>4. subs' = [subs EXCEPT ![s] = row]
    BY <1>2
  <1>5. Later /\ (Stands(s, row)' => SubsLeft)
    BY <1>3, <1>4, SubMoved
  <1>6. Stands(s, row)
    BY <1>1, <1>3 DEF Stands, Follows, LengthOf
  <1>7. Stands(s, row)'
    BY <1>5, <1>6, StandsLater
  <1>8. RequestsLeft /\ RunsLeft
    BY RequestsKept, RunMoved
  <1>9. today' \in Nat /\ PlansStand'
    BY DEF PeriodsInv, PlansStand
  <1>. QED
    BY <1>5, <1>7, <1>8, <1>9, StepLeaves

(* A run reads what is due.                                                   *)
LEMMA StartFollows ==
    ASSUME PeriodsInv, NEW r \in Runners, StartRun(r)
    PROVE  PeriodsInv'
  <1> DEFINE due == {s \in Subs : Due(subs[s])}
             w == [rows |-> [s \in due |-> subs[s]], at |-> None, step |-> "next"]
  <1>1. run' = [run EXCEPT ![r] = w] /\ UNCHANGED <<today, plans, subs, invoices, request>>
    BY DEF StartRun
  <1>2. ASSUME NEW s \in due
        PROVE  Exists(s) /\ Stands(s, subs[s])
    <2>1. Exists(s)
      BY DEF Due, Exists
    <2>. QED
      BY <2>1 DEF PeriodsInv, SubsStand, Exists, NoSub
  <1>3. None \notin due
    BY BillingAssumption
  <1>4. RunStands(w)
    BY <1>2, <1>3 DEF RunStands
  <1> HIDE DEF w
  <1>. QED
    BY <1>1, <1>4, RunOnly

(* A run ends, leaves or takes up a subscription.                             *)
LEMMA TreatFollows ==
    ASSUME PeriodsInv, NEW r \in Runners, NEW s \in Subs, Treat(r, s)
    PROVE  PeriodsInv'
  <1>1. /\ run[r].step = "next" /\ s \in DOMAIN run[r].rows
        /\ EndCancelled(r, s) \/ StillTrialing(r, s) \/ TakeUp(r, s)
        /\ UNCHANGED <<today, plans, invoices, request>>
    BY DEF Treat
  <1>2. RunStands(run[r]) /\ DOMAIN run = Runners
    BY DEF PeriodsInv, RunsStand
  <1>3. Exists(s)
    BY <1>1, <1>2 DEF RunStands
  <1>4. RunStands(After(r, s))
    BY <1>2, AfterStands
  <1>5. CASE EndCancelled(r, s)
    <2>1. /\ subs' = [subs EXCEPT ![s].status = "cancelled"]
          /\ run' = [run EXCEPT ![r] = After(r, s)]
      BY <1>5 DEF EndCancelled
    <2>2. "cancelled" \in Statuses \ {"none"}
      BY DEF Statuses
    <2>. QED
      BY <1>1, <1>3, <1>4, <2>1, <2>2, RunMarks
  <1>6. CASE StillTrialing(r, s)
    BY <1>1, <1>4, <1>6, RunOnly DEF StillTrialing
  <1>7. CASE TakeUp(r, s)
    <2>1. PICK w : w = [run[r] EXCEPT !.at = s, !.step = "generate"]
      OBVIOUS
    <2>2. run' = [run EXCEPT ![r] = w]
      BY <1>7, <2>1 DEF TakeUp
    <2>3. RunStands(w)
      <3>1. /\ w.rows = run[r].rows /\ w.at = s /\ w.step = "generate"
            /\ w = [rows |-> w.rows, at |-> w.at, step |-> w.step]
        BY <1>2, <2>1 DEF RunStands
      <3>. QED
        BY <1>1, <1>2, <3>1 DEF RunStands
    <2>4. CASE subs' = subs
      BY <1>1, <2>2, <2>3, <2>4, RunOnly
    <2>5. CASE subs' = [subs EXCEPT ![s].status = "active"]
      <3>1. "active" \in Statuses \ {"none"}
        BY DEF Statuses
      <3>. QED
        BY <1>1, <1>3, <2>2, <2>3, <2>5, <3>1, RunMarks
    <2>. QED
      BY <1>7, <2>4, <2>5 DEF TakeUp
  <1>. QED
    BY <1>1, <1>5, <1>6, <1>7

\* The pointer of the subscription a run works on moves on from a period that is invoiced.
LEMMA PointerMoves ==
    ASSUME PeriodsInv, NEW r \in Runners, run[r].step = "generate",
           subs' = [subs EXCEPT ![run[r].at] = Advanced(subs[run[r].at], RowOf(r))],
           run' = [run EXCEPT ![r] = After(r, run[r].at)],
           UNCHANGED request, invoices \subseteq invoices',
           \E i \in invoices' : i.sub = run[r].at /\ i.start = RowOf(r).start
    PROVE  Later /\ SubsLeft /\ RunsLeft /\ RequestsLeft
  <1>1. PICK s \in Subs : s = run[r].at /\ Exists(s) /\ Stands(s, RowOf(r)) /\ subs[s] \in SubscriptionRow
    BY RowOfStands
  <1>2. PICK row : row = RowOf(r)
    OBVIOUS
  <1>3. PICK new : new = Advanced(subs[s], row)
    OBVIOUS
  <1>4. subs' = [subs EXCEPT ![s] = new]
    BY <1>1, <1>2, <1>3
  <1>5. \E i \in invoices' : i.sub = s /\ i.start = row.start
    BY <1>1, <1>2
  <1>6. \A o \in Subs : subs'[o] = IF o = s THEN new ELSE subs[o]
    BY <1>4 DEF PeriodsInv
  <1>7. new.status = subs[s].status /\ new.first = subs[s].first
    BY <1>1, <1>3 DEF Advanced, SubscriptionRow
  <1>8. Later
    BY <1>6, <1>7 DEF Later, Exists
  <1>9. new \in SubscriptionRow /\ Stands(s, new)'
    BY <1>1, <1>2, <1>3, <1>5, <1>8, AdvancedStands
  <1>10. SubsLeft
    BY <1>4, <1>6, <1>9 DEF SubsLeft, PeriodsInv
  <1>11. RunStands(After(r, run[r].at))
    BY AfterStands DEF PeriodsInv, RunsStand
  <1>. QED
    BY <1>8, <1>10, <1>11, RunMoved, RequestsKept

(* A run invoices a period and moves the pointer on.                          *)
LEMMA CommitFollows ==
    ASSUME PeriodsInv, NEW r \in Runners, CommitInvoice(r)
    PROVE  PeriodsInv'
  <1>1. PICK s, row : s = run[r].at /\ row = RowOf(r)
    OBVIOUS
  <1>2. /\ run[r].step = "generate" /\ ~Invoiced(s, row.start)
        /\ invoices' = invoices \cup {[sub |-> s, start |-> row.start, end |-> row.end]}
        /\ subs' = [subs EXCEPT ![run[r].at] = Advanced(subs[run[r].at], RowOf(r))]
        /\ run' = [run EXCEPT ![r] = After(r, run[r].at)]
        /\ UNCHANGED <<today, plans, request>>
    BY <1>1 DEF CommitInvoice
  <1>3. s \in Subs /\ Exists(s) /\ Stands(s, row)
    BY <1>1, <1>2, RowOfStands
  <1>4. /\ invoices \subseteq invoices'
        /\ \E i \in invoices' : i.sub = run[r].at /\ i.start = RowOf(r).start
    <2> DEFINE new == [sub |-> s, start |-> row.start, end |-> row.end]
    <2>1. new \in invoices' /\ new.sub = s /\ new.start = row.start
      BY <1>2
    <2> HIDE DEF new
    <2>. QED
      BY <1>1, <1>2, <2>1
  <1>5. Later /\ SubsLeft /\ RunsLeft /\ RequestsLeft
    BY <1>2, <1>4, PointerMoves
  <1>6. InvoicesStand' /\ InvoicedOnce' /\ \A o \in Subs : InStep(o)'
    BY <1>2, <1>3, <1>5, PeriodInvoiced
  \* The rest is as in a step that invoices nothing.
  <1>7. ASSUME NEW o \in Subs
        PROVE  (subs[o] = NoSub \/ Stands(o, subs[o]))'
    <2>1. CASE subs'[o] = subs[o]
      <3>1. PICK old : old = subs[o]
        OBVIOUS
      <3>2. old = NoSub \/ (Exists(o) /\ Stands(o, old))
        BY <3>1 DEF PeriodsInv, SubsStand, Stands, Exists
      <3>3. old = NoSub \/ Stands(o, old)'
        BY <1>5, <3>2, StandsLater
      <3>. QED
        BY <2>1, <3>1, <3>3 DEF NoSub
    <2>2. CASE \E new : new = subs'[o] /\ Stands(o, new)'
      BY <2>2
    <2>. QED
      BY <1>5, <2>1, <2>2 DEF SubsLeft
  <1>8. SubsStand'
    BY <1>7 DEF SubsStand
  <1>9. RunsStand'
    BY <1>5, RunLater DEF RunsLeft, RunsStand
  <1>10. RequestsStand'
    BY <1>5, RequestLater DEF RequestsLeft, RequestsStand
  <1>11. subs' \in [Subs -> SubscriptionRow] /\ today' \in Nat /\ PlansStand'
    BY <1>2, <1>5 DEF SubsLeft, PeriodsInv, PlansStand
  <1>. QED
    BY <1>6, <1>8, <1>9, <1>10, <1>11 DEF PeriodsInv

(* Every step of a run.                                                       *)
LEMMA RunsFollow ==
    ASSUME PeriodsInv, RunNext
    PROVE  PeriodsInv'
  <1>1. PICK r \in Runners :
            \/ StartRun(r) \/ \E s \in Subs : Treat(r, s)
            \/ AdvanceOnly(r) \/ BeginInvoice(r) \/ CommitInvoice(r) \/ FailInvoice(r)
    BY DEF RunNext
  <1>2. CASE AdvanceOnly(r)
    <2>1. /\ run[r].step = "generate" /\ Invoiced(run[r].at, RowOf(r).start)
          /\ subs' = [subs EXCEPT ![run[r].at] = Advanced(subs[run[r].at], RowOf(r))]
          /\ run' = [run EXCEPT ![r] = After(r, run[r].at)]
          /\ UNCHANGED <<today, plans, invoices, request>>
      BY <1>2 DEF AdvanceOnly
    <2>2. Later /\ SubsLeft /\ RunsLeft /\ RequestsLeft
      BY <2>1, PointerMoves DEF Invoiced
    <2>3. today' \in Nat /\ PlansStand'
      BY <2>1 DEF PeriodsInv, PlansStand
    <2>. QED
      BY <2>1, <2>2, <2>3, StepLeaves
  <1>3. CASE FailInvoice(r)
    <2>1. RunStands(After(r, run[r].at))
      BY AfterStands DEF PeriodsInv, RunsStand
    <2>. QED
      BY <1>3, <2>1, RunOnly DEF FailInvoice
  <1>4. CASE BeginInvoice(r)
    <2>1. UNCHANGED <<today, plans, subs, invoices, run, request>>
      BY <1>4 DEF BeginInvoice, billingVars
    <2>2. RequestsLeft /\ RunsLeft /\ Later /\ SubsLeft
      BY <2>1, RequestsKept, RunsKept, SubsKept
    <2>. QED
      BY <2>1, <2>2, StepLeaves DEF PeriodsInv, PlansStand
  <1>. QED
    BY <1>1, <1>2, <1>3, <1>4, StartFollows, TreatFollows, CommitFollows

(* Every step keeps the invariant of the periods.                             *)
LEMMA StepFollows ==
    ASSUME PeriodsInv, [Next]_vars
    PROVE  PeriodsInv'
  <1>1. ASSUME today' \in Nat, UNCHANGED <<plans, subs, invoices, run, request>>
        PROVE  PeriodsInv'
    <2>1. RequestsLeft /\ RunsLeft /\ Later /\ SubsLeft
      BY <1>1, RequestsKept, RunsKept, SubsKept
    <2>. QED
      BY <1>1, <2>1, StepLeaves DEF PeriodsInv, PlansStand
  <1>2. today \in Nat
    BY DEF PeriodsInv
  <1>3. CASE NextDay
    BY <1>1, <1>2, <1>3 DEF NextDay
  <1>4. CASE NumberingNext /\ UNCHANGED billingVars
    BY <1>1, <1>2, <1>4 DEF billingVars
  <1>5. CASE UNCHANGED vars
    BY <1>1, <1>2, <1>5 DEF vars, billingVars
  <1>6. CASE Crash
    <2>1. /\ run' = [r \in Runners |-> Resting] /\ request' = [u \in Users |-> NoRequest]
          /\ UNCHANGED <<today, plans, subs, invoices>>
      BY <1>6 DEF Crash
    <2>2. RunStands(Resting)
      BY DEF RunStands, Resting
    <2>3. RequestsLeft /\ RunsLeft
      BY <2>1, <2>2, NoRequestStands DEF RequestsLeft, RunsLeft
    <2>4. Later /\ SubsLeft
      BY <2>1, SubsKept
    <2>. QED
      BY <2>1, <2>3, <2>4, StepLeaves DEF PeriodsInv, PlansStand
  <1>. QED
    BY <1>3, <1>4, <1>5, <1>6, PlansFollow, RequestsFollow, RunsFollow DEF Next

(* Nothing has been subscribed to at the start.                               *)
LEMMA PeriodsBegin ==
    ASSUME Init
    PROVE  PeriodsInv
  <1>1. /\ today = 1 /\ plans = [p \in Plans |-> NoPlan] /\ subs = [s \in Subs |-> NoSub]
        /\ invoices = {} /\ run = [r \in Runners |-> Resting] /\ request = [u \in Users |-> NoRequest]
    BY DEF Init
  <1>2. NoSub \in SubscriptionRow
    BY BillingAssumption DEF NoSub, SubscriptionRow, Statuses, Days, NoDate
  <1>3. PlansStand
    BY <1>1 DEF PlansStand, NoPlan, PlanRow
  <1>4. RunStands(Resting)
    BY DEF RunStands, Resting
  <1>5. RunsStand /\ RequestsStand
    BY <1>1, <1>4, NoRequestStands DEF RunsStand, RequestsStand
  <1>. QED
    BY <1>1, <1>2, <1>3, <1>5
       DEF PeriodsInv, SubsStand, InvoicesStand, InvoicedOnce, InStep, InvoicesOf

\* Whole lengths apart is apart.
LEMMA WholeLengthsApart ==
    ASSUME NEW first \in Nat, NEW length \in Nat \ {0}, NEW k \in Nat, NEW m \in Nat, k < m
    PROVE  first + k * length + length <= first + m * length
  <1>1. PICK d \in Nat : m = k + 1 + d
    <2>1. m - k - 1 \in Nat /\ m = k + 1 + (m - k - 1)
      OBVIOUS
    <2>. QED
      BY <2>1
  <1>2. d * length \in Nat
    OBVIOUS
  <1>3. m * length = k * length + length + d * length
    BY <1>1
  <1>. QED
    BY <1>2, <1>3

(* Periods in step that begin on different days have no day in common.        *)
LEMMA InStepIsDisjoint ==
    ASSUME PeriodsInv
    PROVE  PeriodsDisjoint
  <1> SUFFICES ASSUME NEW s \in Subs, \A i, j \in InvoicesOf(s) : LengthOf(i) = LengthOf(j),
                      NEW i \in InvoicesOf(s), NEW j \in InvoicesOf(s), i # j
               PROVE  i.end < j.start \/ j.end < i.start
    BY DEF PeriodsDisjoint
  <1>1. /\ i \in InvoiceRow /\ j \in InvoiceRow /\ i.sub = s /\ j.sub = s
        /\ LengthOf(i) = LengthOf(j) /\ LengthOf(i) >= 1
    BY DEF InvoicesOf, PeriodsInv, InvoicesStand, InvoiceStands
  <1>2. i.start # j.start
    BY <1>1 DEF PeriodsInv, InvoicedOnce, InvoicesOf
  <1>3. PICK k \in Nat : i.start = subs[s].first + k * LengthOf(i)
    BY DEF PeriodsInv, InStep
  <1>4. PICK m \in Nat : j.start = subs[s].first + m * LengthOf(j)
    BY DEF PeriodsInv, InStep
  <1>5. PICK first, length : first = subs[s].first /\ length = LengthOf(i)
    OBVIOUS
  <1>6. /\ first \in Nat /\ length \in Nat \ {0}
        /\ i.start \in Nat /\ i.end \in Nat /\ j.start \in Nat /\ j.end \in Nat
        /\ i.end = i.start + length - 1 /\ j.end = j.start + length - 1
    BY <1>1, <1>5 DEF PeriodsInv, SubscriptionRow, InvoiceRow, Days, LengthOf
  <1>7. i.start = first + k * length /\ j.start = first + m * length
    BY <1>1, <1>3, <1>4, <1>5
  <1>8. CASE k < m
    <2>1. i.start + length <= j.start
      BY <1>6, <1>7, <1>8, WholeLengthsApart
    <2>. QED
      BY <1>6, <2>1
  <1>9. CASE m < k
    <2>1. j.start + length <= i.start
      BY <1>6, <1>7, <1>9, WholeLengthsApart
    <2>. QED
      BY <1>6, <2>1
  <1>10. k # m
    BY <1>2, <1>7
  <1>. QED
    BY <1>8, <1>9, <1>10

\* Every period is invoiced, once, and the next begins where it ends: no run, however stale its
\* rows, skips one or invoices it again (advanceSubscription, generateInvoice).
THEOREM PeriodsAlwaysFollow == Spec => []PeriodsFollow
  <1>1. Init => NumbersInv /\ PeriodsInv
    BY NumbersBegin, PeriodsBegin
  <1>2. NumbersInv /\ PeriodsInv /\ [Next]_vars => (NumbersInv /\ PeriodsInv)'
    BY StepKeepsNumbers, StepFollows
  <1>3. ASSUME NumbersInv, PeriodsInv
        PROVE  PeriodsFollow
    <2>1. NumberingTypeOK
      BY <1>3 DEF NumberingTypeOK, NumbersInv, TypedNumbers, SeriesTyped, DocumentsTyped, DrawingTyped, Numbers
    <2>2. plans \in [Plans -> PlanRow]
      BY <1>3 DEF PeriodsInv, PlansStand
    <2>3. \A i \in invoices : i \in InvoiceRow /\ subs[i.sub] # NoSub /\ Follows(i.sub, i)
      BY <1>3 DEF PeriodsInv, InvoicesStand, InvoiceStands, Exists, NoSub
    <2>4. \A r \in Runners : /\ \A s \in DOMAIN run[r].rows : run[r].rows[s] \in SubscriptionRow
                             /\ run[r].step = "generate" <=> run[r].at \in DOMAIN run[r].rows
      BY <1>3 DEF PeriodsInv, RunsStand, RunStands, Stands
    <2>5. BillingTypeOK
      BY <1>3, <2>1, <2>2, <2>3, <2>4 DEF BillingTypeOK, PeriodsInv
    <2>6. \A s \in Subs : Follows(s, subs[s])
      BY <1>3 DEF PeriodsInv, SubsStand, Stands, Follows, NoSub
    <2>. QED
      BY <1>3, <2>3, <2>5, <2>6, InStepIsDisjoint DEF PeriodsFollow, NoPeriodSkipped, PeriodsInv
  <1>. QED
    BY <1>1, <1>2, <1>3, PTL DEF Spec

================================================================================
