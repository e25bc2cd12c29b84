-------------------------- MODULE WarehouseJobsProofs --------------------------
(***************************************************************************)
(* Transfers between warehouses and counts are safe for any number of      *)
(* products, warehouses, transfers, counts and overlapping requests: a     *)
(* confirmed transfer moved its goods whole and once, and a closed count   *)
(* has settled its differences once, unless it was closed over a request   *)
(* that the lock of close does not hold back.  The inductive invariants    *)
(* add to the properties what the locks guarantee: while a session holds a *)
(* transfer it stays a draft, and a count open, and nobody else holds it.  *)
(***************************************************************************)
EXTENDS WarehouseJobs, TLAPS

\* A request works on a job that was created.
JobsExist ==
    \A s \in Sessions :
        /\ session[s].op \in {"item", "confirm"} => transfers[session[s].job] # Absent
        /\ session[s].op \in {"count", "counting", "close", "cancel"} =>
              counts[session[s].job] # Absent

WarehousesDiffer ==
    \A t \in Transfers : transfers[t] # Absent => transfers[t].from # transfers[t].to

\* What the lock protects: the transfer is a draft that has items, held by one session.
HeldIsDraft ==
    \A s \in Sessions : session[s].op = "confirm" =>
        /\ transfers[session[s].job].status = "draft"
        /\ session[s].items # NoItems

HeldByOne ==
    \A s, u \in Sessions :
        session[s].op = "confirm" /\ session[u].op = "confirm"
            /\ session[s].job = session[u].job => s = u

TypedJobs == TypeOK /\ JobsExist

JobsInv == WarehousesDiffer /\ HeldIsDraft /\ HeldByOne /\ TransferIsWhole

-------------------------------------------------------------------------------
(***************************************************************************)
(* Requests and effects.                                                   *)
(***************************************************************************)

\* The operation of a request tells which fields it has.
LEMMA RequestKinds ==
    ASSUME TypeOK, NEW s \in Sessions
    PROVE  /\ session[s] \in Request \cup {Idle}
           /\ session[s].op \in {"item", "confirm"} => session[s].job \in Transfers
           /\ session[s].op \in {"count", "counting", "close", "cancel"} =>
                session[s].job \in Counts
           /\ session[s].op = "confirm" => session[s].items \in Items
           /\ session[s].op = "count" => session[s].opens \in BOOLEAN
           /\ session[s].op = "close" =>
                session[s].difference \in [Products -> Int \cup {None}]
  <1>1. session[s] \in Request \cup {Idle}
    BY DEF TypeOK
  <1>. QED
    BY <1>1 DEF Request, Idle

\* A session that ends or starts a request stays a session.
LEMMA IdleSession ==
    ASSUME TypeOK, NEW s \in Sessions, session' = [session EXCEPT ![s] = Idle]
    PROVE  session' \in [Sessions -> Request \cup {Idle}]
  BY DEF TypeOK

LEMMA StartedSession ==
    ASSUME TypeOK, NEW s \in Sessions, NEW r \in Request, Start(s, r)
    PROVE  session' \in [Sessions -> Request \cup {Idle}]
  BY DEF TypeOK, Start

\* The movements of a confirmed transfer are whole numbers ...
LEMMA TransferEffectTyped ==
    ASSUME NEW t \in Transfers, NEW items \in Items, transfers[t] \in Transfer
    PROVE  TransferEffect(t, items) \in [Keys -> Int]
  <1> DEFINE effect == TransferEffect(t, items)
  <1>1. ASSUME NEW k \in Keys
        PROVE  effect[k] \in Int
    <2>1. PICK p \in Products, w \in Warehouses : k = <<p, w>>
      BY DEF Keys
    <2>2. items[p] = None \/ items[p] \in Int
      BY MaxQuantityAssumption DEF Items
    <2>3. IF items[p] = None THEN effect[k] = 0
          ELSE effect[k] \in {0, items[p], -items[p]}
      BY <2>1 DEF TransferEffect
    <2>. QED
      BY <2>2, <2>3
  <1>. QED
    BY <1>1 DEF TransferEffect

\* ... as much out of one warehouse as into the other, and something, if a line has a
\* quantity.
LEMMA TransferEffectIsWhole ==
    ASSUME NEW t \in Transfers, NEW items \in Items, transfers[t] \in Transfer,
           transfers[t].from # transfers[t].to
    PROVE  /\ \A p \in Products :
                /\ TransferEffect(t, items)[<<p, transfers[t].from>>] =
                     -TransferEffect(t, items)[<<p, transfers[t].to>>]
                /\ \A w \in Warehouses \ {transfers[t].from, transfers[t].to} :
                     TransferEffect(t, items)[<<p, w>>] = 0
           /\ \A p \in Products : items[p] # None =>
                TransferEffect(t, items)[<<p, transfers[t].to>>] = items[p]
  <1> DEFINE effect == TransferEffect(t, items)
  <1>1. /\ transfers[t].from \in Warehouses
        /\ transfers[t].to \in Warehouses
    BY DEF Transfer
  <1>2. \A p \in Products : items[p] = None \/ items[p] \in Int
    BY MaxQuantityAssumption DEF Items
  <1>3. ASSUME NEW p \in Products, NEW w \in Warehouses
        PROVE  effect[<<p, w>>] =
                    IF items[p] = None THEN 0
                    ELSE IF w = transfers[t].from THEN -items[p]
                    ELSE IF w = transfers[t].to THEN items[p] ELSE 0
    BY DEF TransferEffect, Keys
  <1>4. ASSUME NEW p \in Products
        PROVE  /\ effect[<<p, transfers[t].from>>] = -effect[<<p, transfers[t].to>>]
               /\ \A w \in Warehouses \ {transfers[t].from, transfers[t].to} :
                    effect[<<p, w>>] = 0
               /\ items[p] # None => effect[<<p, transfers[t].to>>] = items[p]
    BY <1>1, <1>2, <1>3
  <1>. QED
    BY <1>4

-------------------------------------------------------------------------------
(***************************************************************************)
(* Types.                                                                  *)
(***************************************************************************)
\* The initial state.
LEMMA InitTyped == Init => TypedJobs
  <1> SUFFICES ASSUME Init PROVE TypedJobs
    OBVIOUS
  <1>1. balance \in [Keys -> Int]
    BY MaxQuantityAssumption DEF Init
  <1>2. posted \in [Transfers \cup Counts -> [Keys -> Int]]
    BY DEF Init, NoMovement
  <1>3. /\ transfers \in [Transfers -> Transfer \cup {Absent}]
        /\ counts \in [Counts -> Count \cup {Absent}]
        /\ session \in [Sessions -> Request \cup {Idle}]
    BY DEF Init
  <1>4. JobsExist
    BY DEF Init, JobsExist, Idle
  <1>5. crossed \subseteq Counts
    BY DEF Init
  <1>. QED
    BY <1>1, <1>2, <1>3, <1>4, <1>5 DEF TypedJobs, TypeOK

\* Posting the movements of a job keeps balances and totals whole numbers.
LEMMA PostAllTyped ==
    ASSUME TypeOK, NEW job \in Transfers \cup Counts, NEW effect \in [Keys -> Int],
           PostAll(job, effect)
    PROVE  /\ balance' \in [Keys -> Int]
           /\ posted' \in [Transfers \cup Counts -> [Keys -> Int]]
  <1>1. /\ balance \in [Keys -> Int]
        /\ posted \in [Transfers \cup Counts -> [Keys -> Int]]
    BY DEF TypeOK
  <1>2. balance' \in [Keys -> Int]
    BY <1>1 DEF PostAll
  <1>3. [k \in Keys |-> posted[job][k] + effect[k]] \in [Keys -> Int]
    BY <1>1
  <1>. QED
    BY <1>1, <1>2, <1>3 DEF PostAll

\* The steps of transfers.
LEMMA TransferStepTyped ==
    ASSUME TypedJobs, crossed' \subseteq Counts, NEW s \in Sessions, TransferStep(s)
    PROVE  TypedJobs'
  <1>1. TypeOK /\ JobsExist
    BY DEF TypedJobs
  <1>2. ASSUME NEW t \in Transfers, ReadForItem(s, t)
        PROVE  TypedJobs'
    <2> DEFINE r == [op |-> "item", job |-> t]
    <2>1. r \in Request
      BY DEF Request
    <2>2. /\ session' = [session EXCEPT ![s] = r]
          /\ transfers[t] # Absent
          /\ UNCHANGED <<balance, transfers, counts, posted>>
      BY <1>2 DEF ReadForItem, Start, Absent
    <2>3. session' \in [Sessions -> Request \cup {Idle}]
      BY <1>1, <2>1, <2>2 DEF TypeOK
    <2>4. TypeOK'
      BY <1>1, <2>2, <2>3 DEF TypeOK
    <2>5. JobsExist'
      BY <1>1, <2>2 DEF JobsExist, TypeOK
    <2>. QED
      BY <2>4, <2>5 DEF TypedJobs
  <1>3. ASSUME NEW t \in Transfers, LockTransfer(s, t)
        PROVE  TypedJobs'
    <2> DEFINE r == [op |-> "confirm", job |-> t, items |-> transfers[t].items]
    <2>1. transfers[t] \in Transfer
      BY <1>1, <1>3 DEF LockTransfer, TypeOK, Absent
    <2>2. r \in Request
      BY <2>1 DEF Request, Transfer
    <2>3. /\ session' = [session EXCEPT ![s] = r]
          /\ transfers[t] # Absent
          /\ UNCHANGED <<balance, transfers, counts, posted>>
      BY <1>3 DEF LockTransfer, Start, Absent
    <2>4. session' \in [Sessions -> Request \cup {Idle}]
      BY <1>1, <2>2, <2>3 DEF TypeOK
    <2>5. TypeOK'
      BY <1>1, <2>3, <2>4 DEF TypeOK
    <2>6. JobsExist'
      BY <1>1, <2>3 DEF JobsExist, TypeOK
    <2>. QED
      BY <2>5, <2>6 DEF TypedJobs
  <1>4. ASSUME AddTransferItem(s)
        PROVE  TypedJobs'
    <2> DEFINE t == session[s].job
    <2>1. PICK p \in Products, q \in 0..MaxQuantity :
             transfers' = [transfers EXCEPT ![t].items[p] = q]
      BY <1>4 DEF AddTransferItem
    <2>2. session[s].op = "item"
      BY <1>4 DEF AddTransferItem
    <2>3. t \in Transfers
      BY <1>1, <2>2, RequestKinds
    <2>4. transfers[t] \in Transfer
      BY <1>1, <2>2, <2>3 DEF TypeOK, JobsExist
    <2>5. [transfers[t].items EXCEPT ![p] = q] \in Items
      BY <2>4 DEF Transfer, Items
    <2>6. [transfers[t] EXCEPT !.items[p] = q] \in Transfer
      BY <2>4, <2>5 DEF Transfer
    <2>7. /\ transfers' = [transfers EXCEPT ![t] = [transfers[t] EXCEPT !.items[p] = q]]
          /\ transfers' \in [Transfers -> Transfer \cup {Absent}]
          /\ transfers'[t] # Absent
      BY <1>1, <2>1, <2>3, <2>6 DEF TypeOK, Transfer, Absent
    <2>8. /\ session' = [session EXCEPT ![s] = Idle]
          /\ UNCHANGED <<balance, counts, posted>>
      BY <1>4 DEF AddTransferItem, Done
    <2>9. TypeOK'
      BY <1>1, <2>7, <2>8, IdleSession DEF TypeOK
    <2>10. JobsExist'
      BY <1>1, <2>3, <2>7, <2>8, RequestKinds DEF JobsExist, TypeOK, Idle
    <2>. QED
      BY <2>9, <2>10 DEF TypedJobs
  <1>5. ASSUME ConfirmTransfer(s)
        PROVE  TypedJobs'
    <2> DEFINE t == session[s].job
               items == session[s].items
    <2>1. session[s].op = "confirm"
      BY <1>5 DEF ConfirmTransfer
    <2>2. t \in Transfers /\ items \in Items
      BY <1>1, <2>1, RequestKinds
    <2>3. transfers[t] \in Transfer
      BY <1>1, <2>1, <2>2 DEF TypeOK, JobsExist
    <2>4. /\ PostAll(t, TransferEffect(t, items))
          /\ transfers' = [transfers EXCEPT ![t].status = "confirmed"]
          /\ session' = [session EXCEPT ![s] = Idle]
          /\ UNCHANGED counts
      BY <1>5 DEF ConfirmTransfer, Done
    <2>5. TransferEffect(t, items) \in [Keys -> Int]
      BY <2>2, <2>3, TransferEffectTyped
    <2>6. /\ balance' \in [Keys -> Int]
          /\ posted' \in [Transfers \cup Counts -> [Keys -> Int]]
      BY <1>1, <2>2, <2>4, <2>5, PostAllTyped
    <2>7. /\ transfers' \in [Transfers -> Transfer \cup {Absent}]
          /\ transfers'[t] # Absent
      BY <1>1, <2>2, <2>3, <2>4 DEF TypeOK, Transfer, Absent
    <2>8. TypeOK'
      BY <1>1, <2>4, <2>6, <2>7, IdleSession DEF TypeOK
    <2>9. JobsExist'
      BY <1>1, <2>2, <2>4, <2>7, RequestKinds DEF JobsExist, TypeOK, Idle
    <2>. QED
      BY <2>8, <2>9 DEF TypedJobs
  <1>. QED
    BY <1>2, <1>3, <1>4, <1>5 DEF TransferStep

\* The steps of counts.
LEMMA CountStepTyped ==
    ASSUME TypedJobs, crossed' \subseteq Counts, NEW s \in Sessions, CountStep(s)
    PROVE  TypedJobs'
  <1>1. TypeOK /\ JobsExist
    BY DEF TypedJobs
  <1>2. ASSUME NEW c \in Counts, NEW r \in Request, counts[c] # Absent,
               r.op \in {"count", "close", "cancel"}, r.job = c, Start(s, r),
               UNCHANGED <<balance, transfers, counts, posted>>
        PROVE  TypedJobs'
    <2>1. session' = [session EXCEPT ![s] = r]
      BY <1>2 DEF Start
    <2>2. session' \in [Sessions -> Request \cup {Idle}]
      BY <1>1, <1>2, StartedSession
    <2>3. TypeOK'
      BY <1>1, <1>2, <2>2 DEF TypeOK
    <2>4. JobsExist'
      BY <1>1, <1>2, <2>1 DEF JobsExist, TypeOK
    <2>. QED
      BY <2>3, <2>4 DEF TypedJobs
  <1>3. ASSUME NEW c \in Counts, ReadForCounting(s, c)
        PROVE  TypedJobs'
    <2> DEFINE r == [op |-> "count", job |-> c, opens |-> counts[c].status = "open"]
    <2>1. r \in Request
      BY DEF Request
    <2>2. counts[c] # Absent /\ Start(s, r) /\ UNCHANGED <<balance, transfers, counts, posted>>
      BY <1>3 DEF ReadForCounting, Absent
    <2>. QED
      BY <1>2, <2>1, <2>2
  <1>4. ASSUME NEW c \in Counts, LockCount(s, c)
        PROVE  TypedJobs'
    <2> DEFINE r == [op |-> "close", job |-> c, difference |-> counts[c].difference]
    <2>1. counts[c] # Absent /\ Start(s, r) /\ UNCHANGED <<balance, transfers, counts, posted>>
      BY <1>4 DEF LockCount, Absent
    <2>2. counts[c] \in Count
      BY <1>1, <2>1 DEF TypeOK
    <2>3. r \in Request
      BY <2>2 DEF Request, Count
    <2>. QED
      BY <1>2, <2>1, <2>3
  <1>5. ASSUME NEW c \in Counts, ReadForCancel(s, c)
        PROVE  TypedJobs'
    <2> DEFINE r == [op |-> "cancel", job |-> c]
    <2>1. r \in Request
      BY DEF Request
    <2>2. counts[c] # Absent /\ Start(s, r) /\ UNCHANGED <<balance, transfers, counts, posted>>
      BY <1>5 DEF ReadForCancel, Absent
    <2>. QED
      BY <1>2, <2>1, <2>2
  \* The other steps write the count of the request and end the request or move it on.
  <1>6. ASSUME NEW count \in Count,
               session[s].op \in {"count", "counting", "close", "cancel"},
               counts' = [counts EXCEPT ![session[s].job] = count],
               UNCHANGED transfers,
               balance' \in [Keys -> Int],
               posted' \in [Transfers \cup Counts -> [Keys -> Int]],
               \/ session' = [session EXCEPT ![s] = Idle]
               \/ session' = [session EXCEPT ![s] = [op |-> "counting", job |-> session[s].job]]
        PROVE  TypedJobs'
    <2> DEFINE c == session[s].job
               r == [op |-> "counting", job |-> c]
    <2>1. c \in Counts
      BY <1>1, <1>6, RequestKinds
    <2>2. r \in Request
      BY <2>1 DEF Request
    <2>3. session' \in [Sessions -> Request \cup {Idle}]
      BY <1>1, <1>6, <2>2 DEF TypeOK
    <2>4. counts' \in [Counts -> Count \cup {Absent}] /\ count # Absent
      BY <1>1, <1>6, <2>1 DEF TypeOK, Count, CountStatuses, Absent
    <2>5. TypeOK'
      BY <1>1, <1>6, <2>3, <2>4 DEF TypeOK
    <2>6. ASSUME NEW u \in Sessions
          PROVE  /\ session'[u].op \in {"item", "confirm"} =>
                      transfers'[session'[u].job] # Absent
                 /\ session'[u].op \in {"count", "counting", "close", "cancel"} =>
                      counts'[session'[u].job] # Absent
      <3>1. session'[u] \in {session[u], Idle, r}
        BY <1>1, <1>6 DEF TypeOK
      <3>2. CASE session'[u] = session[u]
        <4>1. session[u].op \in {"count", "counting", "close", "cancel"} =>
                 session[u].job \in Counts
          BY <1>1, RequestKinds
        <4>. QED
          BY <1>1, <1>6, <2>1, <2>4, <3>2, <4>1 DEF TypeOK, JobsExist
      <3>3. CASE session'[u] = Idle
        BY <3>3 DEF Idle
      <3>4. CASE session'[u] = r
        <4>1. counts'[c] = count
          BY <1>1, <1>6, <2>1 DEF TypeOK
        <4>. QED
          BY <2>4, <3>4, <4>1
      <3>. QED
        BY <3>1, <3>2, <3>3, <3>4
    <2>7. JobsExist'
      BY <2>6 DEF JobsExist
    <2>. QED
      BY <2>5, <2>7 DEF TypedJobs
  <1> DEFINE c == session[s].job
  <1>7. ASSUME session[s].op \in {"count", "counting", "close", "cancel"}
        PROVE  /\ c \in Counts
               /\ counts[c] \in Count
               /\ balance \in [Keys -> Int]
               /\ posted \in [Transfers \cup Counts -> [Keys -> Int]]
    BY <1>1, <1>7, RequestKinds DEF TypeOK, JobsExist
  <1>8. ASSUME RecordItemCount(s)
        PROVE  TypedJobs'
    <2>1. session[s].op = "count"
      BY <1>8 DEF RecordItemCount
    <2>2. PICK p \in Products, counted \in 0..MaxQuantity :
             /\ counts[c].expected[p] # None
             /\ counts' = [counts EXCEPT ![c].difference[p] = counted - counts[c].expected[p]]
      BY <1>8 DEF RecordItemCount
    <2> DEFINE count == [counts[c] EXCEPT !.difference =
                           [@ EXCEPT ![p] = counted - counts[c].expected[p]]]
    <2>3. counts[c].expected[p] \in Int
      BY <1>7, <2>1, <2>2 DEF Count
    <2>4. counted - counts[c].expected[p] \in Int
      BY <2>3, MaxQuantityAssumption
    <2>5. count \in Count
      BY <1>7, <2>1, <2>4 DEF Count
    <2>6. counts' = [counts EXCEPT ![c] = count]
      BY <2>2
    <2>7. /\ UNCHANGED <<balance, transfers, posted>>
          /\ \/ session' = [session EXCEPT ![s] = Idle]
             \/ session' = [session EXCEPT ![s] = [op |-> "counting", job |-> c]]
      BY <1>8 DEF RecordItemCount, Done
    <2>. QED
      BY <1>6, <1>7, <2>1, <2>5, <2>6, <2>7
  <1>9. ASSUME StartCounting(s) \/ CancelCount(s)
        PROVE  TypedJobs'
    <2>1. PICK status \in {"counting", "cancelled"} :
             counts' = [counts EXCEPT ![c].status = status]
      BY <1>9 DEF StartCounting, CancelCount
    <2>2. /\ session[s].op \in {"counting", "cancel"}
          /\ session' = [session EXCEPT ![s] = Idle]
          /\ UNCHANGED <<balance, transfers, posted>>
      BY <1>9 DEF StartCounting, CancelCount, Done
    <2> DEFINE count == [counts[c] EXCEPT !.status = status]
    <2>3. count \in Count
      BY <1>7, <2>2 DEF Count, CountStatuses
    <2>4. counts' = [counts EXCEPT ![c] = count]
      BY <2>1
    <2>. QED
      BY <1>6, <1>7, <2>2, <2>3, <2>4
  <1>10. ASSUME CloseCount(s)
         PROVE  TypedJobs'
    <2>1. session[s].op = "close"
      BY <1>10 DEF CloseCount
    <2> DEFINE effect == CountEffect(c, session[s].difference)
               count == [counts[c] EXCEPT !.status = "closed"]
    <2>2. /\ PostAll(c, effect)
          /\ counts' = [counts EXCEPT ![c] = count]
          /\ session' = [session EXCEPT ![s] = Idle]
          /\ UNCHANGED transfers
      BY <1>10 DEF CloseCount, Done
    <2>3. effect \in [Keys -> Int]
      <3>1. session[s].difference \in [Products -> Int \cup {None}]
        BY <1>1, <2>1, RequestKinds
      <3>2. ASSUME NEW k \in Keys PROVE effect[k] \in Int
        <4>1. k[1] \in Products
          BY DEF Keys
        <4>. QED
          BY <3>1, <4>1 DEF CountEffect
      <3>. QED
        BY <3>2 DEF CountEffect
    <2>4. /\ balance' \in [Keys -> Int]
          /\ posted' \in [Transfers \cup Counts -> [Keys -> Int]]
      BY <1>1, <1>7, <2>1, <2>2, <2>3, PostAllTyped
    <2>5. count \in Count
      BY <1>7, <2>1 DEF Count, CountStatuses
    <2>. QED
      BY <1>6, <2>1, <2>2, <2>4, <2>5
  <1>. QED
    BY <1>3, <1>4, <1>5, <1>8, <1>9, <1>10 DEF CountStep

\* What is noted of a step is a count.
LEMMA CrossedTyped ==
    ASSUME TypedJobs, [Next]_vars
    PROVE  crossed' \subseteq Counts
  <1>1. TypeOK /\ crossed \subseteq Counts
    BY DEF TypedJobs, TypeOK
  <1>2. ASSUME NEW s \in Sessions, RecordItemCount(s)
        PROVE  crossed' \subseteq Counts
    <2>1. session[s].op = "count"
      BY <1>2 DEF RecordItemCount
    <2>2. session[s].job \in Counts
      BY <1>1, <2>1, RequestKinds
    <2>. QED
      BY <1>1, <1>2, <2>2 DEF RecordItemCount
  <1>3. ASSUME NEW s \in Sessions, CloseCount(s)
        PROVE  crossed' \subseteq Counts
    <2>1. session[s].op = "close"
      BY <1>3 DEF CloseCount
    <2>2. session[s].job \in Counts
      BY <1>1, <2>1, RequestKinds
    <2>. QED
      BY <1>1, <1>3, <2>2 DEF CloseCount
  <1>4. (UNCHANGED crossed) => crossed' \subseteq Counts
    BY <1>1
  <1>. QED
    BY <1>2, <1>3, <1>4 DEF Next, CountStep, vars

\* Every step.
LEMMA NextTyped ==
    ASSUME TypedJobs, [Next]_vars
    PROVE  TypedJobs'
  <1>1. TypeOK /\ JobsExist
    BY DEF TypedJobs
  <1> crossed' \subseteq Counts
    BY CrossedTyped
  <1>2. ASSUME NEW t \in Transfers, NEW from \in Warehouses, NEW to \in Warehouses,
               CreateTransfer(t, from, to)
        PROVE  TypedJobs'
    <2> DEFINE r == [status |-> "draft", from |-> from, to |-> to, items |-> NoItems]
    <2>1. /\ transfers' = [transfers EXCEPT ![t] = r]
          /\ UNCHANGED <<balance, counts, posted, session>>
      BY <1>2 DEF CreateTransfer
    <2>2. r \in Transfer /\ r # Absent
      BY DEF Transfer, Items, NoItems, Absent
    <2>3. TypeOK'
      BY <1>1, <2>1, <2>2 DEF TypeOK
    <2>4. JobsExist'
      BY <1>1, <2>1, <2>2, RequestKinds DEF JobsExist, TypeOK
    <2>. QED
      BY <2>3, <2>4 DEF TypedJobs
  <1>3. ASSUME NEW c \in Counts, NEW w \in Warehouses, NEW filtered \in SUBSET Products,
               CreateCount(c, w, filtered)
        PROVE  TypedJobs'
    <2> DEFINE expected == [p \in Products |-> IF p \in filtered THEN balance[<<p, w>>] ELSE None]
               r == [status |-> "open", warehouse |-> w, expected |-> expected,
                     difference |-> NoItems]
    <2>1. /\ counts' = [counts EXCEPT ![c] = r]
          /\ UNCHANGED <<balance, transfers, posted, session>>
      BY <1>3 DEF CreateCount
    <2>2. expected \in [Products -> Int \cup {None}]
      BY <1>1 DEF TypeOK, Keys
    <2>3. r \in Count /\ r # Absent
      BY <2>2 DEF Count, CountStatuses, NoItems, Absent
    <2>4. TypeOK'
      BY <1>1, <2>1, <2>3 DEF TypeOK
    <2>5. JobsExist'
      BY <1>1, <2>1, <2>3, RequestKinds DEF JobsExist, TypeOK
    <2>. QED
      BY <2>4, <2>5 DEF TypedJobs
  <1>4. ASSUME NEW s \in Sessions, Abort(s)
        PROVE  TypedJobs'
    <2>1. TypeOK'
      BY <1>1, <1>4, IdleSession DEF TypeOK, Abort, Done
    <2>2. JobsExist'
      BY <1>1, <1>4 DEF JobsExist, TypeOK, Abort, Done, Idle
    <2>. QED
      BY <2>1, <2>2 DEF TypedJobs
  <1>5. ASSUME NEW k \in Keys, NEW to \in 0..MaxQuantity, Adjust(k, to)
        PROVE  TypedJobs'
    <2>1. TypeOK'
      BY <1>1, <1>5, MaxQuantityAssumption DEF TypeOK, Adjust
    <2>2. JobsExist'
      BY <1>1, <1>5 DEF JobsExist, Adjust
    <2>. QED
      BY <2>1, <2>2 DEF TypedJobs
  <1>6. CASE UNCHANGED vars
    BY <1>1, <1>6 DEF TypedJobs, TypeOK, JobsExist, vars
  <1>. QED
    BY <1>2, <1>3, <1>4, <1>5, <1>6, TransferStepTyped, CountStepTyped DEF Next, Create

\* Rows and requests are always well formed, and a request works on a job that exists.
THEOREM JobsAreTyped == Spec => []TypedJobs
  <1>1. Init => TypedJobs
    BY InitTyped
  <1>2. TypedJobs /\ [Next]_vars => TypedJobs'
    BY NextTyped
  <1>. QED
    BY <1>1, <1>2, PTL DEF Spec

-------------------------------------------------------------------------------
(***************************************************************************)
(* What a step does to one transfer and to one session.                    *)
(***************************************************************************)
Kept(t) ==
    /\ posted'[t] = posted[t]
    /\ transfers'[t].status = transfers[t].status
    /\ transfers[t] = Absent <=> transfers'[t] = Absent
    /\ transfers[t] # Absent =>
          transfers'[t].from = transfers[t].from /\ transfers'[t].to = transfers[t].to

Created(t) ==
    /\ posted'[t] = posted[t]
    /\ transfers[t] = Absent /\ transfers'[t] # Absent
    /\ transfers'[t].status = "draft" /\ transfers'[t].from # transfers'[t].to

\* A step keeps a transfer, creates it, or confirms it.
LEMMA StepOfTransfer ==
    ASSUME TypedJobs, [Next]_vars, NEW t \in Transfers
    PROVE  Kept(t) \/ Created(t) \/ \E s \in Sessions : ConfirmTransfer(s) /\ session[s].job = t
  <1>1. /\ TypeOK /\ JobsExist
        /\ transfers \in [Transfers -> Transfer \cup {Absent}]
        /\ posted \in [Transfers \cup Counts -> [Keys -> Int]]
    BY DEF TypedJobs, TypeOK
  <1>2. (UNCHANGED <<transfers, posted>>) => Kept(t)
    BY DEF Kept
  <1>3. ASSUME NEW u \in Transfers, NEW from \in Warehouses, NEW to \in Warehouses,
               CreateTransfer(u, from, to)
        PROVE  Kept(t) \/ Created(t)
    <2> DEFINE r == [status |-> "draft", from |-> from, to |-> to, items |-> NoItems]
    <2>1. /\ transfers[u] = Absent /\ from # to
          /\ transfers' = [transfers EXCEPT ![u] = r]
          /\ posted' = posted
      BY <1>3 DEF CreateTransfer
    <2>2. CASE u = t
      <3>1. transfers'[t] = r /\ r # Absent
        BY <1>1, <2>1, <2>2 DEF Absent
      <3>. QED
        BY <2>1, <2>2, <3>1 DEF Created
    <2>3. CASE u # t
      BY <1>1, <2>1, <2>3 DEF Kept
    <2>. QED
      BY <2>2, <2>3
  <1>4. ASSUME NEW s \in Sessions, AddTransferItem(s)
        PROVE  Kept(t)
    <2> DEFINE u == session[s].job
    <2>1. PICK p \in Products, q \in 0..MaxQuantity :
             transfers' = [transfers EXCEPT ![u].items[p] = q]
      BY <1>4 DEF AddTransferItem
    <2>2. posted' = posted /\ session[s].op = "item"
      BY <1>4 DEF AddTransferItem
    <2>3. u \in Transfers /\ transfers[u] # Absent
      BY <1>1, <2>2, RequestKinds DEF JobsExist
    <2>4. transfers[u] \in Transfer
      BY <1>1, <2>3
    <2>5. CASE u = t
      <3>1. /\ transfers'[t].status = transfers[t].status
            /\ transfers'[t].from = transfers[t].from
            /\ transfers'[t].to = transfers[t].to
        BY <1>1, <2>1, <2>4, <2>5 DEF Transfer
      <3>2. transfers[t].status # "absent"
        BY <2>4, <2>5 DEF Transfer
      <3>. QED
        BY <2>2, <2>3, <2>5, <3>1, <3>2 DEF Kept, Absent
    <2>6. CASE u # t
      BY <1>1, <2>1, <2>2, <2>6 DEF Kept
    <2>. QED
      BY <2>5, <2>6
  <1>5. ASSUME NEW s \in Sessions, ConfirmTransfer(s), session[s].job # t
        PROVE  Kept(t)
    <2> DEFINE u == session[s].job
    <2>1. session[s].op = "confirm"
      BY <1>5 DEF ConfirmTransfer
    <2>2. u \in Transfers
      BY <1>1, <2>1, RequestKinds
    <2>3. transfers' = [transfers EXCEPT ![u].status = "confirmed"]
      BY <1>5 DEF ConfirmTransfer
    <2>4. posted'[t] = posted[t]
      BY <1>1, <1>5, <2>2 DEF ConfirmTransfer, PostAll
    <2>. QED
      BY <1>1, <1>5, <2>3, <2>4 DEF Kept
  <1>6. ASSUME NEW s \in Sessions, CloseCount(s)
        PROVE  Kept(t)
    <2>1. session[s].op = "close" /\ transfers' = transfers
      BY <1>6 DEF CloseCount
    <2>2. session[s].job \in Counts
      BY <1>1, <2>1, RequestKinds
    <2>3. session[s].job # t
      BY <2>2, JobsAssumption
    <2>4. posted'[t] = posted[t]
      BY <1>1, <1>6, <2>3 DEF CloseCount, PostAll
    <2>. QED
      BY <2>1, <2>4 DEF Kept
  <1>7. ASSUME NEW s \in Sessions, TransferStep(s)
        PROVE  Kept(t) \/ \E u \in Sessions : ConfirmTransfer(u) /\ session[u].job = t
    BY <1>2, <1>4, <1>5, <1>7 DEF TransferStep, ReadForItem, LockTransfer
  <1>8. ASSUME NEW s \in Sessions, CountStep(s)
        PROVE  Kept(t)
    BY <1>2, <1>6, <1>8
       DEF CountStep, ReadForCounting, LockCount, ReadForCancel, RecordItemCount,
           StartCounting, CancelCount
  <1>9. ASSUME NEW c \in Counts, NEW w \in Warehouses, NEW filtered \in SUBSET Products,
               CreateCount(c, w, filtered)
        PROVE  Kept(t)
    BY <1>2, <1>9 DEF CreateCount
  <1>10. ASSUME NEW s \in Sessions, Abort(s)
         PROVE  Kept(t)
    BY <1>2, <1>10 DEF Abort
  <1>11. ASSUME NEW k \in Keys, NEW to \in 0..MaxQuantity, Adjust(k, to)
         PROVE  Kept(t)
    BY <1>2, <1>11 DEF Adjust
  <1>12. CASE UNCHANGED vars
    BY <1>2, <1>12 DEF vars
  <1>. QED
    BY <1>3, <1>7, <1>8, <1>9, <1>10, <1>11, <1>12 DEF Next, Create

\* A step changes the request of at most one session, and a session comes to hold a
\* transfer by locking it.
LEMMA StepOfSession ==
    ASSUME TypeOK, [Next]_vars, NEW s \in Sessions
    PROVE  \/ session'[s] = session[s]
           \/ /\ \A u \in Sessions \ {s} : session'[u] = session[u]
              /\ session'[s].op # "confirm" \/ \E t \in Transfers : LockTransfer(s, t)
  <1> DEFINE Goal == \/ session'[s] = session[s]
                     \/ /\ \A u \in Sessions \ {s} : session'[u] = session[u]
                        /\ session'[s].op # "confirm" \/ \E t \in Transfers : LockTransfer(s, t)
  <1>1. session \in [Sessions -> Request \cup {Idle}]
    BY DEF TypeOK
  <1>2. ASSUME NEW u \in Sessions, NEW r, session' = [session EXCEPT ![u] = r],
               r.op # "confirm" \/ \E t \in Transfers : LockTransfer(u, t)
        PROVE  Goal
    BY <1>1, <1>2
  <1>3. session' = session => Goal
    OBVIOUS
  <1>4. ASSUME NEW u \in Sessions, session' = [session EXCEPT ![u] = Idle]
        PROVE  Goal
    BY <1>2, <1>4 DEF Idle
  <1>5. ASSUME NEW u \in Sessions, TransferStep(u)
        PROVE  Goal
    <2>1. ASSUME NEW t \in Transfers, ReadForItem(u, t)
          PROVE  Goal
      <3> DEFINE r == [op |-> "item", job |-> t]
      <3>1. session' = [session EXCEPT ![u] = r] /\ r.op # "confirm"
        BY <2>1 DEF ReadForItem, Start
      <3>. QED
        BY <1>2, <3>1
    <2>2. ASSUME NEW t \in Transfers, LockTransfer(u, t)
          PROVE  Goal
      <3> DEFINE r == [op |-> "confirm", job |-> t, items |-> transfers[t].items]
      <3>1. session' = [session EXCEPT ![u] = r]
        BY <2>2 DEF LockTransfer, Start
      <3>. QED
        BY <1>2, <2>2, <3>1
    <2>3. ASSUME AddTransferItem(u) \/ ConfirmTransfer(u)
          PROVE  Goal
      BY <1>4, <2>3 DEF AddTransferItem, ConfirmTransfer, Done
    <2>. QED
      BY <1>5, <2>1, <2>2, <2>3 DEF TransferStep
  <1>6. ASSUME NEW u \in Sessions, CountStep(u)
        PROVE  Goal
    <2>1. ASSUME NEW c \in Counts, ReadForCounting(u, c)
          PROVE  Goal
      <3> DEFINE r == [op |-> "count", job |-> c, opens |-> counts[c].status = "open"]
      <3>1. session' = [session EXCEPT ![u] = r] /\ r.op # "confirm"
        BY <2>1 DEF ReadForCounting, Start
      <3>. QED
        BY <1>2, <3>1
    <2>2. ASSUME NEW c \in Counts, LockCount(u, c)
          PROVE  Goal
      <3> DEFINE r == [op |-> "close", job |-> c, difference |-> counts[c].difference]
      <3>1. session' = [session EXCEPT ![u] = r] /\ r.op # "confirm"
        BY <2>2 DEF LockCount, Start
      <3>. QED
        BY <1>2, <3>1
    <2>3. ASSUME NEW c \in Counts, ReadForCancel(u, c)
          PROVE  Goal
      <3> DEFINE r == [op |-> "cancel", job |-> c]
      <3>1. session' = [session EXCEPT ![u] = r] /\ r.op # "confirm"
        BY <2>3 DEF ReadForCancel, Start
      <3>. QED
        BY <1>2, <3>1
    <2>4. ASSUME RecordItemCount(u)
          PROVE  Goal
      <3> DEFINE r == [op |-> "counting", job |-> session[u].job]
      <3>1. \/ session' = [session EXCEPT ![u] = r]
            \/ session' = [session EXCEPT ![u] = Idle]
        BY <2>4 DEF RecordItemCount, Done
      <3>2. r.op # "confirm"
        OBVIOUS
      <3>. QED
        BY <1>2, <1>4, <3>1, <3>2
    <2>5. ASSUME StartCounting(u) \/ CloseCount(u) \/ CancelCount(u)
          PROVE  Goal
      BY <1>4, <2>5 DEF StartCounting, CloseCount, CancelCount, Done
    <2>. QED
      BY <1>6, <2>1, <2>2, <2>3, <2>4, <2>5 DEF CountStep
  <1>7. ASSUME NEW u \in Sessions, Abort(u)
        PROVE  Goal
    BY <1>4, <1>7 DEF Abort, Done
  <1>8. ASSUME NEW t \in Transfers, NEW from \in Warehouses, NEW to \in Warehouses,
               CreateTransfer(t, from, to)
        PROVE  Goal
    BY <1>3, <1>8 DEF CreateTransfer
  <1>9. ASSUME NEW c \in Counts, NEW w \in Warehouses, NEW filtered \in SUBSET Products,
               CreateCount(c, w, filtered)
        PROVE  Goal
    BY <1>3, <1>9 DEF CreateCount
  <1>10. ASSUME NEW k \in Keys, NEW to \in 0..MaxQuantity, Adjust(k, to)
         PROVE  Goal
    BY <1>3, <1>10 DEF Adjust
  <1>11. CASE UNCHANGED vars
    BY <1>3, <1>11 DEF vars
  <1>. QED
    BY <1>5, <1>6, <1>7, <1>8, <1>9, <1>10, <1>11 DEF Next, Create

-------------------------------------------------------------------------------
(***************************************************************************)
(* The invariant.                                                          *)
(***************************************************************************)
\* A system without transfers satisfies it.
LEMMA InitSafe == Init => JobsInv
  <1> SUFFICES ASSUME Init PROVE JobsInv
    OBVIOUS
  <1>1. \A t \in Transfers : transfers[t] = Absent
    BY DEF Init
  <1>2. \A s \in Sessions : session[s].op = "idle"
    BY DEF Init, Idle
  <1>3. \A t \in Transfers : posted[t] = NoMovement
    BY DEF Init
  <1>4. TransferIsWhole
    BY <1>1, <1>3 DEF TransferIsWhole, Absent
  <1>. QED
    BY <1>1, <1>2, <1>4 DEF JobsInv, WarehousesDiffer, HeldIsDraft, HeldByOne

\* What confirming a transfer does to it and to its movements: it was a draft that had moved
\* nothing.
LEMMA Confirmed ==
    ASSUME TypedJobs, JobsInv, NEW s \in Sessions, ConfirmTransfer(s)
    PROVE  LET t == session[s].job
               effect == TransferEffect(t, session[s].items)
           IN  /\ t \in Transfers /\ transfers[t] \in Transfer
               /\ session[s].items \in Items /\ session[s].items # NoItems
               /\ transfers[t].status = "draft" /\ transfers'[t].status = "confirmed"
               /\ transfers'[t].from = transfers[t].from /\ transfers'[t].to = transfers[t].to
               /\ posted[t] = NoMovement /\ posted'[t] = effect
               /\ session'[s] = Idle
  <1> DEFINE t == session[s].job
             effect == TransferEffect(t, session[s].items)
  <1>1. TypeOK /\ JobsExist /\ session[s].op = "confirm"
    BY DEF TypedJobs, ConfirmTransfer
  <1>2. t \in Transfers /\ session[s].items \in Items
    BY <1>1, RequestKinds
  <1>3. transfers[t] \in Transfer
    BY <1>1, <1>2 DEF TypeOK, JobsExist
  <1>4. transfers[t].status = "draft" /\ session[s].items # NoItems
    BY <1>1 DEF JobsInv, HeldIsDraft
  <1>5. posted[t] = NoMovement
    BY <1>2, <1>4 DEF JobsInv, TransferIsWhole
  <1>6. /\ transfers'[t].status = "confirmed"
        /\ transfers'[t].from = transfers[t].from /\ transfers'[t].to = transfers[t].to
    BY <1>1, <1>2, <1>3 DEF ConfirmTransfer, TypeOK, Transfer
  <1>7. posted'[t] = effect
    <2>1. posted'[t] = [k \in Keys |-> NoMovement[k] + effect[k]]
      BY <1>1, <1>2, <1>5 DEF ConfirmTransfer, PostAll, TypeOK
    <2>2. effect \in [Keys -> Int]
      BY <1>2, <1>3, TransferEffectTyped
    <2>3. \A k \in Keys : NoMovement[k] + effect[k] = effect[k]
      BY <2>2 DEF NoMovement
    <2>. QED
      BY <2>1, <2>2, <2>3
  <1>8. session'[s] = Idle
    BY <1>1 DEF ConfirmTransfer, Done, TypeOK
  <1>. QED
    BY <1>2, <1>3, <1>4, <1>5, <1>6, <1>7, <1>8

\* Every step preserves it.
LEMMA NextSafe ==
    ASSUME TypedJobs, JobsInv, [Next]_vars
    PROVE  JobsInv'
  <1>1. /\ TypeOK /\ JobsExist
        /\ WarehousesDiffer /\ HeldIsDraft /\ HeldByOne /\ TransferIsWhole
    BY DEF TypedJobs, JobsInv
  <1>2. ASSUME NEW t \in Transfers, transfers'[t] # Absent
        PROVE  transfers'[t].from # transfers'[t].to
    <2>1. CASE Kept(t)
      BY <1>1, <1>2, <2>1 DEF Kept, WarehousesDiffer
    <2>2. CASE Created(t)
      BY <2>2 DEF Created
    <2>3. ASSUME NEW s \in Sessions, ConfirmTransfer(s), session[s].job = t
          PROVE  transfers'[t].from # transfers'[t].to
      <3>1. /\ transfers[t] \in Transfer
            /\ transfers'[t].from = transfers[t].from /\ transfers'[t].to = transfers[t].to
        BY <2>3, Confirmed
      <3>2. transfers[t] # Absent
        BY <3>1 DEF Transfer, Absent
      <3>. QED
        BY <1>1, <3>1, <3>2 DEF WarehousesDiffer
    <2>. QED
      BY <2>1, <2>2, <2>3, StepOfTransfer
  \* A session that holds a transfer after the step held it before, and nobody confirmed it
  \* meanwhile, or has just locked it.
  <1>3. ASSUME NEW s \in Sessions, session'[s].op = "confirm"
        PROVE  /\ transfers'[session'[s].job].status = "draft"
               /\ session'[s].items # NoItems
    <2>1. CASE session'[s] = session[s]
      <3> DEFINE t == session[s].job
      <3>1. /\ t \in Transfers
            /\ transfers[t].status = "draft" /\ session[s].items # NoItems
        BY <1>1, <1>3, <2>1, RequestKinds DEF HeldIsDraft
      <3>2. CASE Kept(t)
        BY <2>1, <3>1, <3>2 DEF Kept
      <3>3. CASE Created(t)
        BY <2>1, <3>1, <3>3 DEF Created
      <3>4. ASSUME NEW u \in Sessions, ConfirmTransfer(u), session[u].job = t
            PROVE  FALSE
        <4>1. session[u].op = "confirm" /\ session'[u] = Idle
          BY <3>4, Confirmed DEF ConfirmTransfer
        <4>2. u = s
          BY <1>1, <1>3, <2>1, <3>4, <4>1 DEF HeldByOne
        <4>. QED
          BY <1>3, <4>1, <4>2 DEF Idle
      <3>. QED
        BY <2>1, <3>1, <3>2, <3>3, <3>4, StepOfTransfer
    <2>2. ASSUME NEW t \in Transfers, LockTransfer(s, t)
          PROVE  /\ transfers'[session'[s].job].status = "draft"
                 /\ session'[s].items # NoItems
      BY <1>1, <2>2 DEF LockTransfer, Start, TypeOK
    <2>. QED
      BY <1>1, <1>3, <2>1, <2>2, StepOfSession
  <1>4. ASSUME NEW s \in Sessions, NEW u \in Sessions,
               session'[s].op = "confirm", session'[u].op = "confirm",
               session'[s].job = session'[u].job
        PROVE  s = u
    <2>1. ASSUME NEW v \in Sessions, NEW w \in Sessions, v # w,
                 NEW t \in Transfers, LockTransfer(v, t),
                 session'[w] = session[w], session'[w].op = "confirm",
                 session'[w].job = session'[v].job
          PROVE  FALSE
      <3>1. session'[v].job = t
        BY <1>1, <2>1 DEF LockTransfer, Start, TypeOK
      <3>. QED
        BY <2>1, <3>1 DEF LockTransfer, RowFree
    <2>2. CASE session'[s] = session[s] /\ session'[u] = session[u]
      BY <1>1, <1>4, <2>2 DEF HeldByOne
    <2>3. CASE session'[s] # session[s]
      BY <1>1, <1>4, <2>1, <2>3, StepOfSession
    <2>4. CASE session'[u] # session[u]
      BY <1>1, <1>4, <2>1, <2>4, StepOfSession
    <2>. QED
      BY <2>2, <2>3, <2>4
  <1>5. ASSUME NEW t \in Transfers
        PROVE  /\ (posted'[t] # NoMovement) <=> (transfers'[t].status = "confirmed")
               /\ transfers'[t] # Absent => \A p \in Products :
                     /\ posted'[t][<<p, transfers'[t].from>>] =
                          -posted'[t][<<p, transfers'[t].to>>]
                     /\ \A w \in Warehouses \ {transfers'[t].from, transfers'[t].to} :
                           posted'[t][<<p, w>>] = 0
    <2>1. CASE Kept(t)
      BY <1>1, <2>1 DEF Kept, TransferIsWhole
    <2>2. CASE Created(t)
      <3>1. posted'[t] = NoMovement
        BY <1>1, <2>2 DEF Created, TransferIsWhole, Absent
      <3>2. transfers'[t] \in Transfer
        BY <1>1, <2>2, NextTyped DEF TypedJobs, TypeOK, Created
      <3>3. \A p \in Products, w \in Warehouses : posted'[t][<<p, w>>] = 0
        BY <3>1 DEF NoMovement, Keys
      <3>. QED
        BY <2>2, <3>1, <3>2, <3>3 DEF Created, Transfer
    <2>3. ASSUME NEW s \in Sessions, ConfirmTransfer(s), session[s].job = t
          PROVE  /\ (posted'[t] # NoMovement) <=> (transfers'[t].status = "confirmed")
                 /\ transfers'[t] # Absent => \A p \in Products :
                       /\ posted'[t][<<p, transfers'[t].from>>] =
                            -posted'[t][<<p, transfers'[t].to>>]
                       /\ \A w \in Warehouses \ {transfers'[t].from, transfers'[t].to} :
                             posted'[t][<<p, w>>] = 0
      <3> DEFINE items == session[s].items
                 effect == TransferEffect(t, items)
      <3>1. /\ transfers[t] \in Transfer /\ items \in Items /\ items # NoItems
            /\ transfers'[t].status = "confirmed"
            /\ transfers'[t].from = transfers[t].from /\ transfers'[t].to = transfers[t].to
            /\ posted'[t] = effect
        BY <2>3, Confirmed
      <3>2. transfers[t].from # transfers[t].to /\ transfers[t].to \in Warehouses
        BY <1>1, <3>1 DEF WarehousesDiffer, Transfer, Absent
      <3>3. PICK p \in Products : items[p] # None
        BY <3>1 DEF Items, NoItems
      <3>4. items[p] > 0
        BY <2>3, <3>3 DEF ConfirmTransfer
      <3>5. effect[<<p, transfers[t].to>>] = items[p]
        BY <3>1, <3>2, <3>3, TransferEffectIsWhole
      <3>6. NoMovement[<<p, transfers[t].to>>] = 0
        BY <3>2 DEF NoMovement, Keys
      <3>7. posted'[t] # NoMovement
        BY <3>1, <3>4, <3>5, <3>6
      <3>. QED
        BY <3>1, <3>2, <3>7, TransferEffectIsWhole
    <2>. QED
      BY <2>1, <2>2, <2>3, StepOfTransfer
  <1>6. WarehousesDiffer'
    BY <1>2 DEF WarehousesDiffer
  <1>7. HeldIsDraft' /\ HeldByOne'
    BY <1>3, <1>4 DEF HeldIsDraft, HeldByOne
  <1>8. TransferIsWhole'
    BY <1>5 DEF TransferIsWhole
  <1>. QED
    BY <1>6, <1>7, <1>8 DEF JobsInv

\* The types and the invariant hold in every execution.
THEOREM JobsAreSafe == Spec => [](TypedJobs /\ JobsInv)
  <1>1. Init => TypedJobs /\ JobsInv
    BY InitTyped, InitSafe
  <1>2. TypedJobs /\ JobsInv /\ [Next]_vars => (TypedJobs /\ JobsInv)'
    BY NextTyped, NextSafe
  <1>. QED
    BY <1>1, <1>2, PTL DEF Spec

-------------------------------------------------------------------------------
\* Rows and requests are well formed in every execution of transfers and counts.
THEOREM JobsTypeCorrect == Spec => []TypeOK
  <1>1. TypedJobs => TypeOK
    BY DEF TypedJobs
  <1>. QED
    BY <1>1, JobsAreTyped, PTL

\* A transfer is confirmed exactly if it moved something, and what it took from its origin it
\* put into its destination, whatever requests overlap (confirmTransfer,
\* movements.service.ts).
THEOREM TransfersAreWhole == Spec => []TransferIsWhole
  <1>1. TypedJobs /\ JobsInv => TransferIsWhole
    BY DEF JobsInv
  <1>. QED
    BY <1>1, JobsAreSafe, PTL

\* The movements of a transfer are written once, by the step that confirms the draft
\* (confirmTransfer, movements.service.ts).
THEOREM TransfersMoveOnce == Spec => TransferMovesOnce
  <1>1. TypedJobs /\ JobsInv /\ [Next]_vars =>
           [\A t \in Transfers : posted'[t] # posted[t] =>
               transfers[t].status = "draft" /\ transfers'[t].status = "confirmed"]_vars
    <2> SUFFICES ASSUME TypedJobs, JobsInv, [Next]_vars, NEW t \in Transfers,
                        posted'[t] # posted[t]
                 PROVE  transfers[t].status = "draft" /\ transfers'[t].status = "confirmed"
      OBVIOUS
    <2>1. PICK s \in Sessions : ConfirmTransfer(s) /\ session[s].job = t
      BY StepOfTransfer DEF Kept, Created
    <2>. QED
      BY <2>1, Confirmed
  <1>. QED
    BY <1>1, JobsAreSafe, PTL DEF Spec, TransferMovesOnce

-------------------------------------------------------------------------------
(***************************************************************************)
(* Counts, however many sessions work on them.  The inductive invariant    *)
(* says what the lock of close guarantees of any count, that it stays open *)
(* and has one session closing it, and what is known of a count that was   *)
(* not closed over a request under way: whoever works on it finds it not   *)
(* closed, and what is being posted is what its items say.                 *)
(***************************************************************************)
OnCounts == {"count", "counting", "close", "cancel"}
StillOpen == {"open", "counting"}

\* Only listed items have a difference.
Listed(difference, row) == \A p \in Products : difference[p] # None => row.expected[p] # None

\* What a request finds of its count, noted or not as closed over another request.
Stands(request, row, noted) ==
    /\ noted \/ row.status # "closed"
    /\ request.op = "close" =>
          /\ row.status \in StillOpen
          /\ Listed(request.difference, row)
          /\ noted \/ request.difference = row.difference

\* Movements that are the differences of the count if it is closed, and none otherwise ...
Settled(row, moved) ==
    \A p \in Products, w \in Warehouses :
        moved[<<p, w>>] =
            IF row.status = "closed" /\ w = row.warehouse /\ row.difference[p] # None
            THEN row.difference[p] ELSE 0

\* ... and movements of listed products in the warehouse of the count.
Within(row, moved) ==
    \A p \in Products, w \in Warehouses :
        moved[<<p, w>>] # 0 => w = row.warehouse /\ row.expected[p] # None

CountReadsStand ==
    \A s \in Sessions : session[s].op \in OnCounts =>
        Stands(session[s], counts[session[s].job], session[s].job \in crossed)

ClosedByOne ==
    \A s, u \in Sessions :
        session[s].op = "close" /\ session[u].op = "close"
            /\ session[s].job = session[u].job => s = u

\* What is said of the row of a count and its movements.
RowIsSettled(row, moved, noted) ==
    /\ Listed(row.difference, row)
    /\ Within(row, moved)
    /\ noted \/ Settled(row, moved)

CountIsSettled(c) ==
    IF counts[c] = Absent THEN posted[c] = NoMovement
    ELSE RowIsSettled(counts[c], posted[c], c \in crossed)

CountsInv == CountReadsStand /\ ClosedByOne /\ \A c \in Counts : CountIsSettled(c)

\* A system without counts has corrected nothing.
LEMMA InitCounts == Init => CountsInv
  <1> SUFFICES ASSUME Init PROVE CountsInv
    OBVIOUS
  <1>1. \A s \in Sessions : session[s].op = "idle"
    BY DEF Init, Idle
  <1>2. CountReadsStand /\ ClosedByOne
    BY <1>1 DEF CountReadsStand, ClosedByOne, OnCounts
  <1>3. \A c \in Counts : CountIsSettled(c)
    BY DEF Init, CountIsSettled
  <1>. QED
    BY <1>2, <1>3 DEF CountsInv

\* A step that writes no count and notes none keeps what is said of them, if the request it
\* begins read its count as it is, and locks it only if nobody else holds it.
LEMMA CountsUntouched ==
    ASSUME TypeOK, CountsInv, NEW s \in Sessions, NEW r, session' = [session EXCEPT ![s] = r],
           r.op \in OnCounts => Stands(r, counts[r.job], r.job \in crossed),
           r.op = "close" => RowFree(s, r.job),
           counts' = counts, crossed' = crossed, \A c \in Counts : posted'[c] = posted[c]
    PROVE  CountsInv'
  <1>1. session \in [Sessions -> Request \cup {Idle}]
    BY DEF TypeOK
  <1>2. \A u \in Sessions : session'[u] = IF u = s THEN r ELSE session[u]
    BY <1>1
  <1>3. CountReadsStand'
    <2>1. ASSUME NEW u \in Sessions, session'[u].op \in OnCounts
          PROVE  Stands(session'[u], counts'[session'[u].job], session'[u].job \in crossed')
      <3>1. CASE u = s
        BY <1>2, <2>1, <3>1
      <3>2. CASE u # s
        BY <1>2, <2>1, <3>2 DEF CountsInv, CountReadsStand
      <3>. QED
        BY <3>1, <3>2
    <2>. QED
      BY <2>1 DEF CountReadsStand
  <1>4. ClosedByOne'
    <2>1. ASSUME NEW u \in Sessions, NEW v \in Sessions,
                 session'[u].op = "close", session'[v].op = "close",
                 session'[u].job = session'[v].job
          PROVE  u = v
      <3>1. CASE u # s /\ v # s
        BY <1>2, <2>1, <3>1 DEF CountsInv, ClosedByOne
      <3>2. CASE u = s /\ v # s
        BY <1>2, <2>1, <3>2 DEF RowFree
      <3>3. CASE u # s /\ v = s
        BY <1>2, <2>1, <3>3 DEF RowFree
      <3>. QED
        BY <3>1, <3>2, <3>3
    <2>. QED
      BY <2>1 DEF ClosedByOne
  <1>5. \A c \in Counts : CountIsSettled(c)'
    BY DEF CountsInv, CountIsSettled
  <1>. QED
    BY <1>3, <1>4, <1>5 DEF CountsInv

\* A step that writes one count keeps what is said of all, if those at work on that count
\* still stand and its movements are those of the row it leaves.
LEMMA CountWritten ==
    ASSUME TypeOK, CountsInv, NEW s \in Sessions, NEW r, session' = [session EXCEPT ![s] = r],
           NEW c \in Counts, NEW row \in Count, counts' = [counts EXCEPT ![c] = row],
           \A b \in Counts \ {c} : b \in crossed' <=> b \in crossed,
           r = Idle \/ (r.op = "counting" /\ r.job = c /\ Stands(r, row, c \in crossed')),
           \A u \in Sessions \ {s} : session[u].op \in OnCounts /\ session[u].job = c =>
               Stands(session[u], row, c \in crossed'),
           RowIsSettled(row, posted'[c], c \in crossed'),
           \A b \in Counts \ {c} : posted'[b] = posted[b]
    PROVE  CountsInv'
  <1>1. session \in [Sessions -> Request \cup {Idle}] /\ counts \in [Counts -> Count \cup {Absent}]
    BY DEF TypeOK
  <1>2. \A u \in Sessions : session'[u] = IF u = s THEN r ELSE session[u]
    BY <1>1
  <1>3. \A b \in Counts : counts'[b] = IF b = c THEN row ELSE counts[b]
    BY <1>1
  <1>4. row # Absent
    BY DEF Count, CountStatuses, Absent
  <1>5. r.op # "close"
    BY DEF Idle
  <1>6. ASSUME NEW u \in Sessions, session'[u].op \in OnCounts
        PROVE  Stands(session'[u], counts'[session'[u].job], session'[u].job \in crossed')
    <2>1. CASE u = s
      <3>1. session'[u] = r
        BY <1>2, <2>1
      <3>2. r # Idle
        BY <1>6, <3>1 DEF Idle, OnCounts
      <3>. QED
        BY <1>3, <3>1, <3>2
    <2>2. CASE u # s
      <3>1. session'[u] = session[u]
        BY <1>2, <2>2
      <3>2. session[u].job \in Counts
        BY <1>6, <3>1, RequestKinds DEF OnCounts
      <3>3. CASE session[u].job = c
        BY <1>3, <1>6, <2>2, <3>1, <3>3
      <3>4. CASE session[u].job # c
        <4>1. Stands(session[u], counts[session[u].job], session[u].job \in crossed)
          BY <1>6, <3>1 DEF CountsInv, CountReadsStand
        <4>2. counts'[session[u].job] = counts[session[u].job]
          BY <1>3, <3>2, <3>4
        <4>3. (session[u].job \in crossed') = (session[u].job \in crossed)
          BY <3>2, <3>4
        <4>. QED
          BY <3>1, <4>1, <4>2, <4>3
      <3>. QED
        BY <3>3, <3>4
    <2>. QED
      BY <2>1, <2>2
  <1>7. CountReadsStand'
    BY <1>6 DEF CountReadsStand
  <1>8. ClosedByOne'
    <2>1. ASSUME NEW u \in Sessions, NEW v \in Sessions,
                 session'[u].op = "close", session'[v].op = "close",
                 session'[u].job = session'[v].job
          PROVE  u = v
      <3>1. u # s /\ v # s
        BY <1>2, <1>5, <2>1
      <3>. QED
        BY <1>2, <2>1, <3>1 DEF CountsInv, ClosedByOne
    <2>. QED
      BY <2>1 DEF ClosedByOne
  <1>9. ASSUME NEW b \in Counts
        PROVE  CountIsSettled(b)'
    <2>1. CASE b = c
      BY <1>3, <1>4, <2>1 DEF CountIsSettled
    <2>2. CASE b # c
      <3>1. (b \in crossed') = (b \in crossed)
        BY <2>2
      <3>. QED
        BY <1>3, <2>2, <3>1 DEF CountsInv, CountIsSettled
    <2>. QED
      BY <2>1, <2>2
  <1>. QED
    BY <1>7, <1>8, <1>9 DEF CountsInv

\* A handler that read its count finds it there.
LEMMA CountAtHand ==
    ASSUME TypedJobs, CountsInv, NEW s \in Sessions, session[s].op \in OnCounts
    PROVE  LET c == session[s].job
           IN  /\ c \in Counts /\ counts[c] \in Count
               /\ Stands(session[s], counts[c], c \in crossed)
               /\ RowIsSettled(counts[c], posted[c], c \in crossed)
  <1> DEFINE c == session[s].job
  <1>1. TypeOK /\ JobsExist
    BY DEF TypedJobs
  <1>2. c \in Counts /\ counts[c] # Absent
    BY <1>1, RequestKinds DEF OnCounts, JobsExist
  <1>3. counts[c] \in Count
    BY <1>1, <1>2 DEF TypeOK
  <1>4. Stands(session[s], counts[c], c \in crossed)
    BY DEF CountsInv, CountReadsStand
  <1>5. RowIsSettled(counts[c], posted[c], c \in crossed)
    BY <1>2 DEF CountsInv, CountIsSettled
  <1>. QED
    BY <1>2, <1>3, <1>4, <1>5

\* recordItemCount writes a difference of a listed item.  While the count is being closed it
\* is noted; otherwise nobody is about to post what it changes.
LEMMA RecordingSettles ==
    ASSUME TypedJobs, CountsInv, NEW s \in Sessions, RecordItemCount(s)
    PROVE  CountsInv'
  <1>. SUFFICES ASSUME NEW c, c = session[s].job
                PROVE  CountsInv'
    OBVIOUS
  <1> DEFINE row == counts[c]
  <1>1. TypeOK /\ session[s].op = "count" /\ session[s].op \in OnCounts
    BY DEF TypedJobs, RecordItemCount, OnCounts
  <1>2. /\ c \in Counts /\ row \in Count
        /\ Stands(session[s], row, c \in crossed)
        /\ RowIsSettled(row, posted[c], c \in crossed)
    BY <1>1, CountAtHand
  <1>3. PICK p \in Products, counted \in 0..MaxQuantity :
           /\ row.expected[p] # None
           /\ counts' = [counts EXCEPT ![c].difference[p] = counted - row.expected[p]]
    BY DEF RecordItemCount
  <1> DEFINE d == counted - row.expected[p]
             after == [row EXCEPT !.difference[p] = d]
             r == [op |-> "counting", job |-> c]
  <1>4. /\ posted' = posted
        /\ session' = [session EXCEPT ![s] = r] \/ session' = [session EXCEPT ![s] = Idle]
        /\ crossed' = IF RowFree(s, c) THEN crossed ELSE crossed \cup {c}
    BY DEF RecordItemCount, Done
  <1>5. row.expected[p] \in Int /\ counted \in Int
    BY <1>2, <1>3, MaxQuantityAssumption DEF Count
  <1>6. d \in Int
    BY <1>5
  <1>7. /\ counts' = [counts EXCEPT ![c] = after] /\ after \in Count
        /\ after.status = row.status /\ after.warehouse = row.warehouse
        /\ after.expected = row.expected
        /\ \A q \in Products \ {p} : after.difference[q] = row.difference[q]
    BY <1>2, <1>3, <1>6 DEF Count
  <1>8. c \in crossed \/ row.status # "closed"
    BY <1>2 DEF Stands
  <1>9. c \in crossed => c \in crossed'
    BY <1>4
  <1> HIDE DEF after
  <1>10. RowIsSettled(after, posted'[c], c \in crossed')
    <2>1. Listed(after.difference, after)
      BY <1>2, <1>3, <1>7 DEF RowIsSettled, Listed
    <2>2. Within(after, posted'[c])
      BY <1>2, <1>4, <1>7 DEF RowIsSettled, Within
    <2>3. c \in crossed' \/ Settled(after, posted'[c])
      BY <1>2, <1>4, <1>7, <1>8, <1>9 DEF RowIsSettled, Settled
    <2>. QED
      BY <2>1, <2>2, <2>3 DEF RowIsSettled
  <1>11. ASSUME NEW u \in Sessions \ {s}, session[u].op \in OnCounts, session[u].job = c
         PROVE  Stands(session[u], after, c \in crossed')
    <2>1. Stands(session[u], row, c \in crossed)
      BY <1>11 DEF CountsInv, CountReadsStand
    <2>2. CASE session[u].op = "close"
      <3>1. ~RowFree(s, c)
        BY <1>11, <2>2 DEF RowFree
      <3>2. c \in crossed'
        BY <1>4, <3>1
      <3>3. row.status \in StillOpen /\ Listed(session[u].difference, row)
        BY <2>1, <2>2 DEF Stands
      <3>4. Listed(session[u].difference, after)
        BY <1>7, <3>3 DEF Listed
      <3>. QED
        BY <1>7, <3>2, <3>3, <3>4 DEF Stands
    <2>3. CASE session[u].op # "close"
      BY <1>7, <1>8, <1>9, <2>3 DEF Stands
    <2>. QED
      BY <2>2, <2>3
  <1>12. r.op = "counting" /\ r.job = c /\ Stands(r, after, c \in crossed')
    BY <1>7, <1>8, <1>9 DEF Stands
  <1>13. \A b \in Counts \ {c} : (b \in crossed' <=> b \in crossed) /\ posted'[b] = posted[b]
    BY <1>4
  <1> HIDE DEF r
  <1>14. \A u \in Sessions \ {s} : session[u].op \in OnCounts /\ session[u].job = c =>
             Stands(session[u], after, c \in crossed')
    BY <1>11
  <1>15. /\ \A b \in Counts \ {c} : b \in crossed' <=> b \in crossed
         /\ \A b \in Counts \ {c} : posted'[b] = posted[b]
    BY <1>13
  <1>16. /\ TypeOK /\ c \in Counts /\ after \in Count
         /\ counts' = [counts EXCEPT ![c] = after]
    BY <1>1, <1>2, <1>7
  <1>17. CASE session' = [session EXCEPT ![s] = r]
    BY <1>10, <1>12, <1>14, <1>15, <1>16, <1>17, CountWritten
  <1>18. CASE session' = [session EXCEPT ![s] = Idle]
    BY <1>10, <1>14, <1>15, <1>16, <1>18, CountWritten
  <1>. QED
    BY <1>4, <1>17, <1>18

\* The statements that set the status to counting or cancelled wait for the lock of close, and
\* find a count that is not closed unless it is noted.
LEMMA StatusWritten ==
    ASSUME TypedJobs, CountsInv, crossed' = crossed, NEW s \in Sessions,
           StartCounting(s) \/ CancelCount(s)
    PROVE  CountsInv'
  <1>. SUFFICES ASSUME NEW c, c = session[s].job
                PROVE  CountsInv'
    OBVIOUS
  <1> DEFINE row == counts[c]
  <1>1. TypeOK /\ session[s].op \in OnCounts
    BY DEF TypedJobs, StartCounting, CancelCount, OnCounts
  <1>2. /\ c \in Counts /\ row \in Count
        /\ Stands(session[s], row, c \in crossed)
        /\ RowIsSettled(row, posted[c], c \in crossed)
    BY <1>1, CountAtHand
  <1>3. PICK status \in {"counting", "cancelled"} :
           counts' = [counts EXCEPT ![c].status = status]
    BY DEF StartCounting, CancelCount
  <1> DEFINE after == [row EXCEPT !.status = status]
  <1>4. /\ posted' = posted /\ RowFree(s, c)
        /\ session' = [session EXCEPT ![s] = Idle]
    BY DEF StartCounting, CancelCount, Done
  <1>5. crossed' = crossed
    OBVIOUS
  <1>6. /\ counts' = [counts EXCEPT ![c] = after] /\ after \in Count
        /\ after.status # "closed" /\ after.warehouse = row.warehouse
        /\ after.expected = row.expected /\ after.difference = row.difference
    BY <1>2, <1>3 DEF Count, CountStatuses
  <1>7. c \in crossed \/ row.status # "closed"
    BY <1>2 DEF Stands
  <1> HIDE DEF after
  <1>8. RowIsSettled(after, posted'[c], c \in crossed')
    <2>1. Listed(after.difference, after)
      BY <1>2, <1>6 DEF RowIsSettled, Listed
    <2>2. Within(after, posted'[c])
      BY <1>2, <1>4, <1>6 DEF RowIsSettled, Within
    <2>3. c \in crossed' \/ Settled(after, posted'[c])
      BY <1>2, <1>4, <1>5, <1>6, <1>7 DEF RowIsSettled, Settled
    <2>. QED
      BY <2>1, <2>2, <2>3 DEF RowIsSettled
  <1>9. ASSUME NEW u \in Sessions \ {s}, session[u].op \in OnCounts, session[u].job = c
        PROVE  Stands(session[u], after, c \in crossed')
    <2>1. session[u].op # "close"
      BY <1>4, <1>9 DEF RowFree
    <2>. QED
      BY <1>6, <2>1 DEF Stands
  <1>10. \A b \in Counts \ {c} : (b \in crossed' <=> b \in crossed) /\ posted'[b] = posted[b]
    BY <1>4, <1>5
  <1>. QED
    BY <1>1, <1>2, <1>4, <1>6, <1>8, <1>9, <1>10, CountWritten

\* close posts the differences it read when it locked the count, once: whoever is still at
\* work on the count then has it noted.
LEMMA ClosingSettles ==
    ASSUME TypedJobs, CountsInv, NEW s \in Sessions, CloseCount(s)
    PROVE  CountsInv'
  <1>. SUFFICES ASSUME NEW c, c = session[s].job
                PROVE  CountsInv'
    OBVIOUS
  <1> DEFINE row == counts[c]
             after == [row EXCEPT !.status = "closed"]
             difference == session[s].difference
             effect == CountEffect(c, difference)
  <1>1. TypeOK /\ session[s].op = "close" /\ session[s].op \in OnCounts
    BY DEF TypedJobs, CloseCount, OnCounts
  <1>2. /\ c \in Counts /\ row \in Count
        /\ Stands(session[s], row, c \in crossed)
        /\ RowIsSettled(row, posted[c], c \in crossed)
    BY <1>1, CountAtHand
  <1>3. /\ PostAll(c, effect)
        /\ session' = [session EXCEPT ![s] = Idle]
        /\ counts' = [counts EXCEPT ![c] = after]
        /\ crossed' = IF Unfinished(c) THEN crossed \cup {c} ELSE crossed
    BY DEF CloseCount, Done
  <1>4. /\ row.status \in StillOpen /\ Listed(difference, row)
        /\ c \in crossed \/ difference = row.difference
    BY <1>1, <1>2 DEF Stands
  <1>5. difference \in [Products -> Int \cup {None}]
    BY <1>1, RequestKinds
  <1>6. /\ after \in Count /\ after.status = "closed" /\ after.warehouse = row.warehouse
        /\ after.expected = row.expected /\ after.difference = row.difference
    BY <1>2 DEF Count, CountStatuses
  <1>7. posted \in [Transfers \cup Counts -> [Keys -> Int]]
    BY <1>1 DEF TypeOK
  <1>8. /\ posted'[c] = [k \in Keys |-> posted[c][k] + effect[k]]
        /\ \A b \in Counts \ {c} : posted'[b] = posted[b]
    BY <1>2, <1>3, <1>7 DEF PostAll
  <1>9. ASSUME NEW p \in Products, NEW w \in Warehouses
        PROVE  LET moves == w = row.warehouse /\ difference[p] # None
               IN  /\ posted'[c][<<p, w>>] =
                        posted[c][<<p, w>>] + IF moves THEN difference[p] ELSE 0
                   /\ moves => difference[p] \in Int
                   /\ posted[c][<<p, w>>] \in Int
    <2>1. <<p, w>> \in Keys
      BY DEF Keys
    <2>2. effect[<<p, w>>] = IF w = row.warehouse /\ difference[p] # None
                             THEN difference[p] ELSE 0
      BY <2>1 DEF CountEffect
    <2>3. posted'[c][<<p, w>>] = posted[c][<<p, w>>] + effect[<<p, w>>]
      BY <1>8, <2>1
    <2>4. posted[c][<<p, w>>] \in Int
      BY <1>2, <1>7, <2>1
    <2>. QED
      BY <1>5, <2>2, <2>3, <2>4
  <1> HIDE DEF after, effect, difference
  <1>10. RowIsSettled(after, posted'[c], c \in crossed')
    <2>1. Listed(after.difference, after)
      BY <1>2, <1>6 DEF RowIsSettled, Listed
    <2>2. ASSUME NEW p \in Products, NEW w \in Warehouses, posted'[c][<<p, w>>] # 0
          PROVE  w = after.warehouse /\ after.expected[p] # None
      <3>1. CASE posted[c][<<p, w>>] # 0
        BY <1>2, <1>6, <3>1 DEF RowIsSettled, Within
      <3>2. CASE posted[c][<<p, w>>] = 0
        <4>1. w = row.warehouse /\ difference[p] # None
          BY <1>9, <2>2, <3>2
        <4>. QED
          BY <1>4, <1>6, <4>1 DEF Listed
      <3>. QED
        BY <3>1, <3>2
    <2>3. ASSUME c \notin crossed', NEW p \in Products, NEW w \in Warehouses
          PROVE  posted'[c][<<p, w>>] =
                    IF w = row.warehouse /\ row.difference[p] # None
                    THEN row.difference[p] ELSE 0
      <3>1. c \notin crossed
        BY <1>3, <2>3
      <3>2. posted[c][<<p, w>>] = 0
        BY <1>2, <1>4, <3>1 DEF RowIsSettled, Settled, StillOpen
      <3>3. difference = row.difference
        BY <1>4, <3>1
      <3>. QED
        BY <1>9, <3>2, <3>3
    <2>4. Within(after, posted'[c])
      BY <2>2 DEF Within
    <2>5. c \in crossed' \/ Settled(after, posted'[c])
      BY <1>6, <2>3 DEF Settled
    <2>. QED
      BY <2>1, <2>4, <2>5 DEF RowIsSettled
  <1>11. ASSUME NEW u \in Sessions \ {s}, session[u].op \in OnCounts, session[u].job = c
         PROVE  Stands(session[u], after, c \in crossed')
    <2>1. session[u].op # "close"
      BY <1>1, <1>11 DEF CountsInv, ClosedByOne
    <2>2. Unfinished(c)
      BY <1>11, <2>1 DEF Unfinished, OnCounts
    <2>. QED
      BY <1>3, <2>1, <2>2 DEF Stands
  <1>12. \A b \in Counts \ {c} : b \in crossed' <=> b \in crossed
    BY <1>3
  <1>13. \A u \in Sessions \ {s} : session[u].op \in OnCounts /\ session[u].job = c =>
             Stands(session[u], after, c \in crossed')
    BY <1>11
  <1>14. /\ TypeOK /\ c \in Counts /\ after \in Count
         /\ counts' = [counts EXCEPT ![c] = after]
         /\ session' = [session EXCEPT ![s] = Idle]
         /\ \A b \in Counts \ {c} : posted'[b] = posted[b]
    BY <1>1, <1>2, <1>3, <1>6, <1>8
  <1>. QED
    BY <1>10, <1>12, <1>13, <1>14, CountWritten

\* The handlers of counts.
LEMMA CountStepSettles ==
    ASSUME TypedJobs, CountsInv, NEW s \in Sessions, CountStep(s)
    PROVE  CountsInv'
  <1>1. TypeOK
    BY DEF TypedJobs
  <1>2. ASSUME NEW b \in Counts, NEW r, Start(s, r), r.job = b,
               Stands(r, counts[b], b \in crossed), r.op = "close" => RowFree(s, b),
               UNCHANGED <<balance, transfers, counts, posted, crossed>>
        PROVE  CountsInv'
    <2>1. session' = [session EXCEPT ![s] = r]
      BY <1>2 DEF Start
    <2>. QED
      BY <1>1, <1>2, <2>1, CountsUntouched
  <1>3. ASSUME NEW b \in Counts, ReadForCounting(s, b), crossed' = crossed
        PROVE  CountsInv'
    <2> DEFINE r == [op |-> "count", job |-> b, opens |-> counts[b].status = "open"]
    <2>1. r.job = b /\ r.op # "close" /\ Stands(r, counts[b], b \in crossed)
      BY <1>3 DEF ReadForCounting, Stands
    <2>2. Start(s, r) /\ UNCHANGED <<balance, transfers, counts, posted, crossed>>
      BY <1>3 DEF ReadForCounting
    <2> HIDE DEF r
    <2>. QED
      BY <1>2, <2>1, <2>2
  <1>4. ASSUME NEW b \in Counts, LockCount(s, b), crossed' = crossed
        PROVE  CountsInv'
    <2> DEFINE r == [op |-> "close", job |-> b, difference |-> counts[b].difference]
    <2>1. counts[b].status \in StillOpen /\ RowFree(s, b)
      BY <1>4 DEF LockCount, StillOpen
    <2>2. Listed(counts[b].difference, counts[b])
      BY <2>1 DEF CountsInv, CountIsSettled, RowIsSettled, Absent, StillOpen
    <2>3. r.job = b /\ Stands(r, counts[b], b \in crossed)
      BY <2>1, <2>2 DEF Stands, StillOpen
    <2>4. Start(s, r) /\ UNCHANGED <<balance, transfers, counts, posted, crossed>>
      BY <1>4 DEF LockCount
    <2> HIDE DEF r
    <2>. QED
      BY <1>2, <2>1, <2>3, <2>4
  <1>5. ASSUME NEW b \in Counts, ReadForCancel(s, b), crossed' = crossed
        PROVE  CountsInv'
    <2> DEFINE r == [op |-> "cancel", job |-> b]
    <2>1. r.job = b /\ r.op # "close" /\ Stands(r, counts[b], b \in crossed)
      BY <1>5 DEF ReadForCancel, Stands
    <2>2. Start(s, r) /\ UNCHANGED <<balance, transfers, counts, posted, crossed>>
      BY <1>5 DEF ReadForCancel
    <2> HIDE DEF r
    <2>. QED
      BY <1>2, <2>1, <2>2
  <1>. QED
    BY <1>3, <1>4, <1>5, RecordingSettles, StatusWritten, ClosingSettles DEF CountStep

\* Every step: transfers leave the counts and their movements alone.
LEMMA NextCounts ==
    ASSUME TypedJobs, CountsInv, [Next]_vars
    PROVE  CountsInv'
  <1>1. TypeOK /\ JobsExist
    BY DEF TypedJobs
  <1>2. posted \in [Transfers \cup Counts -> [Keys -> Int]]
    BY <1>1 DEF TypeOK
  <1>3. (UNCHANGED <<counts, posted, session, crossed>>) => CountsInv'
    BY DEF CountsInv, CountReadsStand, ClosedByOne, CountIsSettled
  <1>4. ASSUME NEW s \in Sessions, NEW r, session' = [session EXCEPT ![s] = r],
               r.op \notin OnCounts, UNCHANGED <<counts, crossed>>,
               \A c \in Counts : posted'[c] = posted[c]
        PROVE  CountsInv'
    <2>1. r.op # "close"
      BY <1>4 DEF OnCounts
    <2>. QED
      BY <1>1, <1>4, <2>1, CountsUntouched
  <1>5. ASSUME NEW s \in Sessions, session' = [session EXCEPT ![s] = Idle],
               UNCHANGED <<counts, crossed>>, \A c \in Counts : posted'[c] = posted[c]
        PROVE  CountsInv'
    BY <1>4, <1>5 DEF Idle, OnCounts
  <1>6. ASSUME NEW s \in Sessions, TransferStep(s), crossed' = crossed
        PROVE  CountsInv'
    <2>1. ASSUME NEW t \in Transfers, ReadForItem(s, t)
          PROVE  CountsInv'
      <3> DEFINE r == [op |-> "item", job |-> t]
      <3>1. session' = [session EXCEPT ![s] = r] /\ r.op \notin OnCounts
        BY <2>1 DEF ReadForItem, Start, OnCounts
      <3>2. counts' = counts /\ posted' = posted
        BY <2>1 DEF ReadForItem
      <3> HIDE DEF r
      <3>. QED
        BY <1>4, <1>6, <3>1, <3>2
    <2>2. ASSUME NEW t \in Transfers, LockTransfer(s, t)
          PROVE  CountsInv'
      <3> DEFINE r == [op |-> "confirm", job |-> t, items |-> transfers[t].items]
      <3>1. session' = [session EXCEPT ![s] = r] /\ r.op \notin OnCounts
        BY <2>2 DEF LockTransfer, Start, OnCounts
      <3>2. counts' = counts /\ posted' = posted
        BY <2>2 DEF LockTransfer
      <3> HIDE DEF r
      <3>. QED
        BY <1>4, <1>6, <3>1, <3>2
    <2>3. ASSUME AddTransferItem(s)
          PROVE  CountsInv'
      BY <1>5, <1>6, <2>3 DEF AddTransferItem, Done
    <2>4. ASSUME ConfirmTransfer(s)
          PROVE  CountsInv'
      <3>1. session[s].op = "confirm"
        BY <2>4 DEF ConfirmTransfer
      <3>2. session[s].job \in Transfers
        BY <1>1, <3>1, RequestKinds
      <3>3. \A c \in Counts : c # session[s].job
        BY <3>2, JobsAssumption
      <3>4. \A c \in Counts : posted'[c] = posted[c]
        BY <1>2, <2>4, <3>3 DEF ConfirmTransfer, PostAll
      <3>. QED
        BY <1>5, <1>6, <2>4, <3>4 DEF ConfirmTransfer, Done
    <2>. QED
      BY <1>6, <2>1, <2>2, <2>3, <2>4 DEF TransferStep
  <1>7. ASSUME NEW c \in Counts, NEW w \in Warehouses, NEW filtered \in SUBSET Products,
               CreateCount(c, w, filtered), crossed' = crossed
        PROVE  CountsInv'
    <2> DEFINE row == [status |-> "open", warehouse |-> w,
                       expected |-> [p \in Products |-> IF p \in filtered THEN balance[<<p, w>>]
                                                        ELSE None],
                       difference |-> NoItems]
    <2>1. /\ counts[c] = Absent /\ counts' = [counts EXCEPT ![c] = row]
          /\ session' = session /\ posted' = posted
      BY <1>7 DEF CreateCount
    <2>2. \A b \in Counts : counts'[b] = IF b = c THEN row ELSE counts[b]
      BY <1>1, <2>1 DEF TypeOK
    <2>3. ASSUME NEW b \in Counts
          PROVE  CountIsSettled(b)'
      <3>1. CASE b = c
        <4>1. posted'[c] = NoMovement
          BY <2>1 DEF CountsInv, CountIsSettled
        <4>2. Settled(row, NoMovement) /\ Within(row, NoMovement) /\ Listed(row.difference, row)
          BY DEF Settled, Within, Listed, NoMovement, NoItems, Keys
        <4>3. row # Absent
          BY DEF Absent
        <4>. QED
          BY <2>2, <3>1, <4>1, <4>2, <4>3 DEF CountIsSettled, RowIsSettled
      <3>2. CASE b # c
        BY <1>7, <2>1, <2>2, <3>2 DEF CountsInv, CountIsSettled
      <3>. QED
        BY <3>1, <3>2
    <2>4. ASSUME NEW s \in Sessions, session'[s].op \in OnCounts
          PROVE  Stands(session'[s], counts'[session'[s].job], session'[s].job \in crossed')
      <3>1. session'[s] = session[s]
        BY <2>1
      <3>2. session[s].job \in Counts /\ counts[session[s].job] # Absent
        BY <1>1, <2>4, <3>1, RequestKinds DEF OnCounts, JobsExist
      <3>3. counts'[session[s].job] = counts[session[s].job]
        BY <2>1, <2>2, <3>2
      <3>. QED
        BY <1>7, <2>4, <3>1, <3>3 DEF CountsInv, CountReadsStand
    <2>5. CountReadsStand'
      BY <2>4 DEF CountReadsStand
    <2>6. ClosedByOne'
      BY <2>1 DEF CountsInv, ClosedByOne
    <2>. QED
      BY <2>3, <2>5, <2>6 DEF CountsInv
  <1>8. ASSUME NEW s \in Sessions, Abort(s), crossed' = crossed
        PROVE  CountsInv'
    BY <1>5, <1>8 DEF Abort, Done
  <1>9. ASSUME NEW t \in Transfers, NEW from \in Warehouses, NEW to \in Warehouses,
               CreateTransfer(t, from, to), crossed' = crossed
        PROVE  CountsInv'
    BY <1>3, <1>9 DEF CreateTransfer
  <1>10. ASSUME NEW k \in Keys, NEW to \in 0..MaxQuantity, Adjust(k, to), crossed' = crossed
         PROVE  CountsInv'
    BY <1>3, <1>10 DEF Adjust
  <1>11. CASE UNCHANGED vars
    BY <1>3, <1>11 DEF vars
  <1>. QED
    BY <1>6, <1>7, <1>8, <1>9, <1>10, <1>11, CountStepSettles DEF Next, Create

\* However many sessions count, cancel and close, and whatever transfers and adjustments
\* happen meanwhile, a closed count has corrected each item by exactly its recorded difference
\* and any other count nothing, unless it was closed over a recording or a cancellation still
\* under way; and no count ever corrects another warehouse or a product it does not list
\* (close, counts.service.ts).
THEOREM CountsSettleOnce == Spec => []CountSettlesOnce
  <1>1. Init => TypedJobs /\ CountsInv
    BY InitTyped, InitCounts
  <1>2. TypedJobs /\ CountsInv /\ [Next]_vars => (TypedJobs /\ CountsInv)'
    BY NextTyped, NextCounts
  <1>3. TypedJobs /\ CountsInv => CountSettlesOnce
    BY DEF CountsInv, CountIsSettled, RowIsSettled, CountSettlesOnce, Settled, Within
  <1>. QED
    BY <1>1, <1>2, <1>3, PTL DEF Spec
================================================================================
