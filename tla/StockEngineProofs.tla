--------------------------- MODULE StockEngineProofs ---------------------------
(***************************************************************************)
(* The engine's ledger is right for every number of sessions, products and *)
(* warehouses and every set of callers' programs: each balance is explained*)
(* by its movements, and every step of the engine is a step of StockLedger *)
(* or leaves the ledger alone; and transfers conserve what they move.      *)
(***************************************************************************)
EXTENDS StockEngine, SequenceTheorems, SumsProofs, TLAPS

TypedState == RowsTypeOK /\ SessionsTypeOK

-------------------------------------------------------------------------------
(***************************************************************************)
(* Chains of ledger rows.                                                  *)
(***************************************************************************)

\* What a chain settles to is a quantity (Settles models the balance a ledger leaves).
LEMMA SettlesType ==
    ASSUME NEW b \in Int, NEW s \in Seq(Movement)
    PROVE  Settles(b, s) \in Int
  <1>1. CASE s = <<>>
    BY <1>1 DEF Settles
  <1>2. CASE s # <<>>
    <2>1. Len(s) \in 1..Len(s)
      BY <1>2, EmptySeq, LenProperties
    <2>2. s[Len(s)] \in Movement
      BY <2>1, ElementOfSeq
    <2>. QED
      BY <1>2, <2>2 DEF Settles, Movement
  <1>. QED
    BY <1>1, <1>2

\* A row that follows from where a chain ends extends the chain: this is what one
\* applyMovement call does to the rows its transaction has written.
LEMMA ExplainsAppend ==
    ASSUME NEW b \in Int, NEW s \in Seq(Movement), NEW m \in Movement,
           Explains(b, s), Follows(Settles(b, s), m)
    PROVE  /\ Append(s, m) \in Seq(Movement)
           /\ Append(s, m) # <<>>
           /\ Explains(b, Append(s, m))
           /\ Settles(b, Append(s, m)) = m.balanceAfter
  <1> DEFINE r == Append(s, m)
  <1>1. /\ r \in Seq(Movement)
        /\ Len(r) = Len(s) + 1
        /\ Len(s) \in Nat
        /\ r[Len(s) + 1] = m
        /\ \A i \in 1..Len(s) : r[i] = s[i]
    BY LenProperties
  <1>2. r # <<>>
    BY <1>1, EmptySeq
  <1>3. ASSUME NEW i \in 1..Len(r)
        PROVE  Follows(IF i = 1 THEN b ELSE r[i - 1].balanceAfter, r[i])
    <2>1. CASE i \in 1..Len(s)
      <3>1. i # 1 => i - 1 \in 1..Len(s)
        BY <2>1, <1>1
      <3>2. Follows(IF i = 1 THEN b ELSE s[i - 1].balanceAfter, s[i])
        BY <2>1 DEF Explains
      <3>3. (IF i = 1 THEN b ELSE r[i - 1].balanceAfter)
              = (IF i = 1 THEN b ELSE s[i - 1].balanceAfter)
        BY <3>1, <1>1
      <3>. QED
        BY <2>1, <3>2, <3>3, <1>1
    <2>2. CASE i = Len(s) + 1
      <3>1. CASE s = <<>>
        <4>1. i = 1
          BY <2>2, <3>1
        <4>2. Settles(b, s) = b
          BY <3>1 DEF Settles
        <4>. QED
          BY <4>1, <4>2, <2>2, <1>1
      <3>2. CASE s # <<>>
        <4>1. i # 1 /\ i - 1 = Len(s) /\ Len(s) \in 1..Len(s)
          BY <3>2, <2>2, EmptySeq, LenProperties
        <4>2. Settles(b, s) = r[i - 1].balanceAfter
          BY <3>2, <4>1, <1>1 DEF Settles
        <4>. QED
          BY <4>1, <4>2, <2>2, <1>1
      <3>. QED
        BY <3>1, <3>2
    <2>. QED
      BY <2>1, <2>2, <1>1
  <1>4. Explains(b, r)
    BY <1>3 DEF Explains
  <1>5. Settles(b, r) = m.balanceAfter
    BY <1>1, <1>2 DEF Settles
  <1>. QED
    BY <1>1, <1>2, <1>4, <1>5

\* Two chains, the second from where the first ends, make one chain: this is what a
\* commit does to the ledger.
LEMMA ExplainsConcat ==
    ASSUME NEW b \in Int, NEW s \in Seq(Movement), NEW u \in Seq(Movement),
           Explains(b, s), Explains(Settles(b, s), u)
    PROVE  /\ s \o u \in Seq(Movement)
           /\ Explains(b, s \o u)
           /\ Settles(b, s \o u) = Settles(Settles(b, s), u)
  <1> DEFINE r == s \o u
  <1>1. /\ r \in Seq(Movement)
        /\ Len(r) = Len(s) + Len(u)
        /\ Len(s) \in Nat
        /\ Len(u) \in Nat
        /\ \A i \in 1..Len(s) + Len(u) : r[i] = IF i <= Len(s) THEN s[i] ELSE u[i - Len(s)]
    BY ConcatProperties, LenProperties
  <1>2. ASSUME NEW i \in 1..Len(r)
        PROVE  Follows(IF i = 1 THEN b ELSE r[i - 1].balanceAfter, r[i])
    <2>1. CASE i <= Len(s)
      <3>1. i \in 1..Len(s) /\ (i # 1 => i - 1 \in 1..Len(s) + Len(u) /\ i - 1 <= Len(s))
        BY <2>1, <1>1
      <3>2. Follows(IF i = 1 THEN b ELSE s[i - 1].balanceAfter, s[i])
        BY <3>1 DEF Explains
      <3>3. (IF i = 1 THEN b ELSE r[i - 1].balanceAfter)
              = (IF i = 1 THEN b ELSE s[i - 1].balanceAfter)
        BY <3>1, <1>1
      <3>. QED
        BY <2>1, <3>2, <3>3, <1>1
    <2>2. CASE i > Len(s)
      <3> DEFINE j == i - Len(s)
      <3>1. j \in 1..Len(u) /\ r[i] = u[j]
        BY <2>2, <1>1
      <3>2. Follows(IF j = 1 THEN Settles(b, s) ELSE u[j - 1].balanceAfter, u[j])
        BY <3>1 DEF Explains
      <3>3. (IF i = 1 THEN b ELSE r[i - 1].balanceAfter)
              = (IF j = 1 THEN Settles(b, s) ELSE u[j - 1].balanceAfter)
        <4>1. CASE j # 1
          <5>1. /\ i # 1
                /\ i - 1 \in 1..Len(s) + Len(u)
                /\ ~(i - 1 <= Len(s))
                /\ i - 1 - Len(s) = j - 1
            BY <4>1, <3>1, <1>1
          <5>. QED
            BY <5>1, <4>1, <1>1
        <4>2. CASE j = 1 /\ s = <<>>
          <5>1. Len(s) = 0
            BY <4>2, EmptySeq
          <5>. QED
            BY <5>1, <4>2, <1>1 DEF Settles
        <4>3. CASE j = 1 /\ s # <<>>
          <5>1. Len(s) \in Nat \ {0}
            BY <4>3, EmptySeq
          <5>2. i # 1 /\ i - 1 = Len(s) /\ i - 1 \in 1..Len(s) + Len(u) /\ i - 1 <= Len(s)
            BY <5>1, <4>3, <1>1
          <5>. QED
            BY <5>2, <4>3, <1>1 DEF Settles
        <4>. QED
          BY <4>1, <4>2, <4>3
      <3>. QED
        BY <3>1, <3>2, <3>3
    <2>. QED
      BY <2>1, <2>2, <1>1
  <1>3. Explains(b, r)
    BY <1>2 DEF Explains
  <1>4. Settles(b, r) = Settles(Settles(b, s), u)
    <2>1. CASE u = <<>>
      BY <2>1, ConcatEmptySeq DEF Settles
    <2>2. CASE u # <<>>
      <3>1. Len(u) \in Nat \ {0}
        BY <2>2, EmptySeq
      <3>2. r # <<>> /\ r[Len(r)] = u[Len(u)]
        BY <3>1, <1>1, EmptySeq
      <3>. QED
        BY <2>2, <3>2 DEF Settles
    <2>. QED
      BY <2>1, <2>2
  <1>. QED
    BY <1>1, <1>3, <1>4

\* The rows a commit appends are found again at the end of the new ledger.
LEMMA AppendedRows ==
    ASSUME NEW s \in Seq(Movement), NEW u \in Seq(Movement)
    PROVE  SubSeq(s \o u, Len(s) + 1, Len(s \o u)) = u
  <1> DEFINE r == s \o u
             v == SubSeq(r, Len(s) + 1, Len(r))
  <1>1. /\ r \in Seq(Movement)
        /\ Len(r) = Len(s) + Len(u)
        /\ Len(s) \in Nat
        /\ Len(u) \in Nat
        /\ \A i \in 1..Len(s) + Len(u) : r[i] = IF i <= Len(s) THEN s[i] ELSE u[i - Len(s)]
    BY ConcatProperties, LenProperties
  <1>2. \A i \in (Len(s) + 1)..Len(r) : r[i] \in Movement
    <2>1. \A i \in (Len(s) + 1)..Len(r) : i \in 1..Len(r)
      BY <1>1
    <2>. QED
      BY <2>1, <1>1, ElementOfSeq
  <1>3. /\ v \in Seq(Movement)
        /\ Len(v) = IF Len(s) + 1 <= Len(r) THEN Len(r) - (Len(s) + 1) + 1 ELSE 0
        /\ \A i \in 1..Len(r) - (Len(s) + 1) + 1 : v[i] = r[(Len(s) + 1) + i - 1]
    BY <1>1, <1>2, SubSeqProperties
  <1>4. Len(v) = Len(u)
    BY <1>1, <1>3
  <1>5. ASSUME NEW i \in 1..Len(v) PROVE v[i] = u[i]
    <2>1. v[i] = r[Len(s) + i]
      BY <1>1, <1>3, <1>4
    <2>2. Len(s) + i \in 1..Len(s) + Len(u) /\ ~(Len(s) + i <= Len(s))
      BY <1>1, <1>4
    <2>3. Len(s) + i - Len(s) = i
      BY <1>1
    <2>. QED
      BY <1>1, <2>1, <2>2, <2>3
  <1>. QED
    BY <1>3, <1>4, <1>5, SeqEqual

-------------------------------------------------------------------------------
(***************************************************************************)
(* Types.                                                                  *)
(***************************************************************************)

\* The session's current call names a key and a type of the ledger.
LEMMA CallType ==
    ASSUME TypedState, NEW t \in Txns, program[t] # <<>>
    PROVE  /\ Head(program[t]) \in Request
           /\ Tail(program[t]) \in Seq(Request)
           /\ Key(t) \in Keys
  <1>1. program[t] \in Seq(Request)
    BY DEF TypedState, SessionsTypeOK
  <1>2. Head(program[t]) \in Request /\ Tail(program[t]) \in Seq(Request)
    BY <1>1, HeadTailProperties
  <1>. QED
    BY <1>2 DEF Key, Keys, Request

\* What a session sees of a balance is a quantity.
LEMMA ViewType ==
    ASSUME TypedState, NEW t \in Txns, NEW k \in Keys
    PROVE  View(t, k) \in Int
  <1>1. balance[k] \in Int /\ pending[t][k] \in Seq(Movement)
    BY DEF TypedState, RowsTypeOK, SessionsTypeOK
  <1>. QED
    BY <1>1, SettlesType DEF View

\* The movement UpsertBalance records is a ledger row that follows from the quantity
\* the session read (the checks of applyMovement, movements.service.ts:168-190).
LEMMA RecordedMovement ==
    ASSUME TypedState, NEW t \in Txns, program[t] # <<>>, ~Refused(t)
    PROVE  LET r == Head(program[t])
               m == [type |-> r.type, quantity |-> r.quantity, balanceAfter |-> NewQty(t)]
           IN  m \in Movement /\ Follows(currentQty[t], m)
  <1> DEFINE r == Head(program[t])
             m == [type |-> r.type, quantity |-> r.quantity, balanceAfter |-> NewQty(t)]
  <1>1. r \in Request
    BY CallType
  <1>2. currentQty[t] \in Int
    BY DEF TypedState, SessionsTypeOK
  <1>3. r.type \in MovementTypes /\ r.quantity \in Nat \ {0}
    BY <1>1 DEF Request, Refused
  <1>4. NewQty(t) \in {currentQty[t] + r.quantity, currentQty[t] - r.quantity}
    BY DEF NewQty
  <1>5. m \in Movement
    BY <1>2, <1>3, <1>4 DEF Movement
  <1>6. NewQty(t) < 0 => r.type \in MayGoNegative
    BY DEF Refused
  <1>7. r.type # "inventory_count" =>
          NewQty(t) = IF MOVEMENT_SIGN[r.type] = 1
                      THEN currentQty[t] + r.quantity ELSE currentQty[t] - r.quantity
    BY DEF NewQty, SignOf
  <1>8. Follows(currentQty[t], m)
    BY <1>4, <1>6, <1>7 DEF Follows
  <1>. QED
    BY <1>5, <1>8

\* Ending a transaction, by commit or by rollback, leaves the session well typed.
LEMMA EndTransactionType ==
    ASSUME SessionsTypeOK, NEW t \in Txns, EndTransaction(t)
    PROVE  SessionsTypeOK'
  <1>1. NoPending \in [Keys -> Seq(Movement)]
    BY EmptySeq DEF NoPending
  <1>2. <<>> \in Seq(Request)
    BY EmptySeq
  <1>. QED
    BY <1>1, <1>2 DEF SessionsTypeOK, EndTransaction

LEMMA TypedStep ==
    ASSUME TypedState, ProgramLeft, [Next]_vars
    PROVE  TypedState'
  <1> USE DEF TypedState
  <1>1. ASSUME NEW t \in Txns, Begin(t)
        PROVE  TypedState'
    BY <1>1, ProgramsAssumption DEF Begin, RowsTypeOK, SessionsTypeOK
  <1>2. ASSUME NEW t \in Txns, SelectForUpdate(t)
        PROVE  TypedState'
    <2>1. Key(t) \in Keys
      BY <1>2, CallType DEF SelectForUpdate, ProgramLeft
    <2>2. View(t, Key(t)) \in Int
      BY <2>1, ViewType
    <2>3. (Key(t) \in Visible(t)) \in BOOLEAN
      OBVIOUS
    <2>. QED
      BY <1>2, <2>1, <2>2, <2>3 DEF SelectForUpdate, RowsTypeOK, SessionsTypeOK
  <1>3. ASSUME NEW t \in Txns, UpsertBalance(t)
        PROVE  TypedState'
    <2> DEFINE r == Head(program[t])
               m == [type |-> r.type, quantity |-> r.quantity, balanceAfter |-> NewQty(t)]
    <2>1. program[t] # <<>> /\ Key(t) \in Keys
      BY <1>3, CallType DEF UpsertBalance, ProgramLeft
    <2>2. m \in Movement
      BY <1>3, <2>1, RecordedMovement DEF UpsertBalance
    <2>3. Append(pending[t][Key(t)], m) \in Seq(Movement)
      BY <2>1, <2>2 DEF SessionsTypeOK
    <2>. QED
      BY <1>3, <2>1, <2>3 DEF UpsertBalance, RowsTypeOK, SessionsTypeOK
  <1>4. ASSUME NEW t \in Txns, SumBalances(t)
        PROVE  TypedState'
    BY <1>4 DEF SumBalances, RowsTypeOK, SessionsTypeOK
  <1>5. ASSUME NEW t \in Txns, UpdateProduct(t)
        PROVE  TypedState'
    <2>1. Head(program[t]).product \in Products /\ Tail(program[t]) \in Seq(Request)
      BY <1>5, CallType DEF UpdateProduct, ProgramLeft, Request
    <2>. QED
      BY <1>5, <2>1 DEF UpdateProduct, RowsTypeOK, SessionsTypeOK
  <1>6. ASSUME NEW t \in Txns, Commit(t)
        PROVE  TypedState'
    <2>1. rows' \subseteq Keys
      BY <1>6 DEF Commit, Visible, RowsTypeOK
    <2>2. balance' \in [Keys -> Int]
      BY <1>6, ViewType DEF Commit
    <2>3. movements' \in [Keys -> Seq(Movement)]
      BY <1>6 DEF Commit, RowsTypeOK, SessionsTypeOK
    <2>. QED
      BY <1>6, <2>1, <2>2, <2>3, EndTransactionType DEF Commit, RowsTypeOK
  <1>7. ASSUME NEW t \in Txns, Throw(t) \/ Rollback(t) \/ DeadlockVictim(t)
        PROVE  TypedState'
    BY <1>7, EndTransactionType DEF Throw, Rollback, DeadlockVictim, RowsTypeOK
  <1>8. ASSUME NEW p \in Products, EditProduct(p)
        PROVE  TypedState'
    BY <1>8 DEF EditProduct, txnVars, RowsTypeOK, SessionsTypeOK
  <1>9. CASE UNCHANGED vars
    BY <1>9 DEF vars, txnVars, RowsTypeOK, SessionsTypeOK
  <1>. QED
    BY <1>1, <1>2, <1>3, <1>4, <1>5, <1>6, <1>7, <1>8, <1>9 DEF Next

-------------------------------------------------------------------------------
(***************************************************************************)
(* The inductive invariant.                                                *)
(***************************************************************************)

\* An opened balance and its 'opening' movement (the inventory migration's two INSERTs).
LEMMA OpeningRow ==
    ASSUME Init, NEW k \in Keys
    PROVE  /\ balance[k] \in Nat
           /\ movements[k] \in Seq(Movement)
           /\ Explains(0, movements[k])
           /\ balance[k] = Settles(0, movements[k])
           /\ k \notin rows => balance[k] = 0
  <1> DEFINE m == [type |-> "opening", quantity |-> balance[k], balanceAfter |-> balance[k]]
  <1>1. PICK opened \in SUBSET Keys, qty \in [Keys -> InitialStock] :
           /\ rows = opened
           /\ balance = [j \in Keys |-> IF j \in opened THEN qty[j] ELSE 0]
           /\ movements = [j \in Keys |->
                 IF balance[j] = 0 THEN <<>>
                 ELSE <<[type |-> "opening", quantity |-> balance[j],
                         balanceAfter |-> balance[j]]>>]
    BY DEF Init
  <1>2. balance[k] \in Nat /\ (k \notin rows => balance[k] = 0)
    BY <1>1, StockAssumption
  <1>3. CASE balance[k] = 0
    <2>1. movements[k] = <<>>
      BY <1>1, <1>3
    <2>. QED
      BY <1>2, <1>3, <2>1, EmptySeq DEF Explains, Settles
  <1>4. CASE balance[k] # 0
    <2>1. movements[k] = <<m>>
      BY <1>1, <1>4
    <2>2. m \in Movement
      BY <1>2, <1>4 DEF Movement, MovementTypes
    <2>3. <<m>> \in Seq(Movement)
      BY <2>2
    <2>4. Follows(0, m)
      BY <1>2 DEF Follows, MOVEMENT_SIGN, MovementTypes
    <2>5. Explains(0, <<m>>) /\ Settles(0, <<m>>) = balance[k]
      BY <2>4 DEF Explains, Settles
    <2>. QED
      BY <1>2, <2>1, <2>3, <2>5
  <1>. QED
    BY <1>3, <1>4

LEMMA InitTyped == Init => TypedState
  <1> SUFFICES ASSUME Init PROVE TypedState
    OBVIOUS
  <1>1. rows \subseteq Keys /\ balance \in [Keys -> Int] /\ movements \in [Keys -> Seq(Movement)]
    <2>1. /\ rows \subseteq Keys
          /\ balance = [k \in Keys |-> balance[k]]
          /\ movements = [k \in Keys |-> movements[k]]
      BY DEF Init
    <2>. QED
      BY <2>1, OpeningRow
  <1>2. SessionsTypeOK
    BY EmptySeq DEF Init, SessionsTypeOK, NoPending
  <1>. QED
    BY <1>1, <1>2 DEF TypedState, RowsTypeOK

LEMMA InitInv == Init => EngineInv
  <1> SUFFICES ASSUME Init PROVE EngineInv
    OBVIOUS
  <1>1. LedgerExplainsBalance /\ AbsentRowIsEmpty
    BY OpeningRow DEF LedgerExplainsBalance, AbsentRowIsEmpty
  <1>2. LocksExclusive /\ ProgramLeft /\ ReadStillCurrent
    BY DEF Init, LocksExclusive, ProgramLeft, ReadStillCurrent
  <1>3. PendingContinuesBalance
    BY DEF Init, PendingContinuesBalance, NoPending, Explains
  <1>. QED
    BY <1>1, <1>2, <1>3 DEF EngineInv

\* Two sessions never have uncommitted movements of one key.
LEMMA OneWriter ==
    ASSUME EngineInv, NEW t \in Txns, NEW u \in Txns, t # u,
           NEW k \in Keys, pending[t][k] # <<>>
    PROVE  k \notin rowLocks[u] /\ pending[u][k] = <<>>
  BY DEF EngineInv, LocksExclusive, PendingContinuesBalance

\* A session that ends frees its locks and forgets its rows; if the balances it had
\* locked are the only ones that change, the other sessions' views still hold.
LEMMA EndKeepsOthers ==
    ASSUME TypedState, EngineInv, NEW t \in Txns, EndTransaction(t),
           \A k \in Keys : pending[t][k] = <<>> => balance'[k] = balance[k]
    PROVE  /\ LocksExclusive'
           /\ PendingContinuesBalance'
           /\ ReadStillCurrent'
           /\ ProgramLeft'
  <1> USE DEF TypedState, SessionsTypeOK, EndTransaction, EngineInv
  <1>1. LocksExclusive'
    BY DEF LocksExclusive
  <1>2. PendingContinuesBalance'
    <2> SUFFICES ASSUME NEW u \in Txns, NEW k \in Keys
                 PROVE  /\ pending'[u][k] # <<>> => k \in rowLocks'[u]
                        /\ Explains(balance'[k], pending'[u][k])
      BY DEF PendingContinuesBalance
    <2>1. CASE u = t
      <3>1. pending'[u][k] = <<>>
        BY <2>1 DEF NoPending
      <3>. QED
        BY <3>1 DEF Explains
    <2>2. CASE u # t
      <3>1. pending'[u][k] = pending[u][k] /\ rowLocks'[u] = rowLocks[u]
        BY <2>2
      <3>2. CASE pending[u][k] = <<>>
        BY <3>1, <3>2 DEF Explains
      <3>3. CASE pending[u][k] # <<>>
        <4>1. pending[t][k] = <<>>
          BY <2>2, <3>3, OneWriter
        <4>. QED
          BY <3>1, <4>1 DEF PendingContinuesBalance
      <3>. QED
        BY <3>2, <3>3
    <2>. QED
      BY <2>1, <2>2
  <1>3. ReadStillCurrent'
    <2> SUFFICES ASSUME NEW u \in Txns, pc'[u] = "upsert"
                 PROVE  IF found'[u] THEN /\ Key(u)' \in rowLocks'[u]
                                          /\ currentQty'[u] = View(u, Key(u))'
                        ELSE currentQty'[u] = 0 /\ pending'[u][Key(u)'] = <<>>
      BY DEF ReadStillCurrent
    <2>1. u # t
      OBVIOUS
    <2>2. /\ pc[u] = "upsert" /\ program'[u] = program[u] /\ found'[u] = found[u]
          /\ currentQty'[u] = currentQty[u] /\ pending'[u] = pending[u]
          /\ rowLocks'[u] = rowLocks[u]
      BY <2>1
    <2>3. Key(u)' = Key(u)
      BY <2>2 DEF Key
    <2>4. Key(u) \in Keys
      BY <2>2, CallType DEF ProgramLeft
    <2>5. CASE found[u]
      <3>1. Key(u) \in rowLocks[u] /\ currentQty[u] = View(u, Key(u))
        BY <2>2, <2>5 DEF ReadStillCurrent
      <3>2. pending[t][Key(u)] = <<>>
        BY <2>1, <2>4, <3>1, OneWriter
      <3>3. balance'[Key(u)] = balance[Key(u)]
        BY <2>4, <3>2
      <3>4. View(u, Key(u))' = View(u, Key(u))
        BY <2>2, <2>3, <3>3 DEF View
      <3>. QED
        BY <2>2, <2>3, <2>5, <3>1, <3>4
    <2>6. CASE ~found[u]
      BY <2>2, <2>3, <2>6 DEF ReadStillCurrent
    <2>. QED
      BY <2>5, <2>6
  <1>4. ProgramLeft'
    BY DEF ProgramLeft
  <1>. QED
    BY <1>1, <1>2, <1>3, <1>4

\* A commit extends every chain it touched by the rows the session wrote.
LEMMA CommitPosts ==
    ASSUME TypedState, EngineInv, NEW t \in Txns, Commit(t)
    PROVE  /\ Post
           /\ LedgerExplainsBalance'
           /\ AbsentRowIsEmpty'
  <1> SUFFICES ASSUME NEW k \in Keys
               PROVE  /\ movements'[k] = movements[k] \o NewRows(k)
                      /\ Explains(balance[k], NewRows(k))
                      /\ balance'[k] = Settles(balance[k], NewRows(k))
                      /\ Explains(0, movements'[k])
                      /\ balance'[k] = Settles(0, movements'[k])
                      /\ k \notin rows' => balance'[k] = 0
    BY DEF Post, LedgerExplainsBalance, AbsentRowIsEmpty
  <1>1. /\ balance[k] \in Int
        /\ movements[k] \in Seq(Movement)
        /\ pending[t][k] \in Seq(Movement)
    BY DEF TypedState, RowsTypeOK, SessionsTypeOK
  <1>2. /\ balance'[k] = Settles(balance[k], pending[t][k])
        /\ movements'[k] = movements[k] \o pending[t][k]
        /\ rows' = rows \cup {j \in Keys : pending[t][j] # <<>>}
    BY DEF Commit, View, Visible
  <1>3. NewRows(k) = pending[t][k]
    BY <1>1, <1>2, AppendedRows DEF NewRows
  <1>4. Explains(balance[k], pending[t][k])
    BY DEF EngineInv, PendingContinuesBalance
  <1>5. Explains(0, movements[k]) /\ balance[k] = Settles(0, movements[k])
    BY DEF EngineInv, LedgerExplainsBalance
  <1>6. /\ Explains(0, movements'[k])
        /\ Settles(0, movements'[k]) = Settles(balance[k], pending[t][k])
    BY <1>1, <1>2, <1>4, <1>5, ExplainsConcat
  <1>7. k \notin rows' => balance'[k] = 0
    BY <1>2 DEF EngineInv, AbsentRowIsEmpty, Settles
  <1>. QED
    BY <1>2, <1>3, <1>4, <1>6, <1>7

\* Throw, Rollback and DeadlockVictim drop what the session wrote and nothing else.
LEMMA RollbackStep ==
    ASSUME TypedState, EngineInv, NEW t \in Txns, EndTransaction(t),
           UNCHANGED <<rows, balance, movements, stockQty>>
    PROVE  EngineInv'
  <1>1. LocksExclusive' /\ PendingContinuesBalance' /\ ReadStillCurrent' /\ ProgramLeft'
    BY EndKeepsOthers
  <1>2. AbsentRowIsEmpty' /\ LedgerExplainsBalance'
    BY DEF EngineInv, AbsentRowIsEmpty, LedgerExplainsBalance
  <1>. QED
    BY <1>1, <1>2 DEF EngineInv

LEMMA SelectStep ==
    ASSUME TypedState, EngineInv, NEW t \in Txns, SelectForUpdate(t)
    PROVE  EngineInv'
  <1> DEFINE k == Key(t)
  <1>1. program[t] # <<>> /\ k \in Keys
    BY CallType DEF EngineInv, ProgramLeft, SelectForUpdate
  <1>2. /\ UNCHANGED <<rows, balance, movements, program, pending>>
        /\ \A u \in Txns \ {t} : /\ pc'[u] = pc[u] /\ found'[u] = found[u]
                                 /\ currentQty'[u] = currentQty[u]
                                 /\ rowLocks'[u] = rowLocks[u]
    BY DEF TypedState, SessionsTypeOK, SelectForUpdate
  <1>3. \/ /\ k \in Visible(t) /\ RowFree(t, k) /\ found'[t]
           /\ rowLocks'[t] = rowLocks[t] \cup {k}
           /\ currentQty'[t] = View(t, k)
        \/ /\ k \notin Visible(t) /\ ~found'[t]
           /\ rowLocks'[t] = rowLocks[t]
           /\ currentQty'[t] = 0
    <2>1. CASE k \in Visible(t)
      BY <2>1 DEF TypedState, SessionsTypeOK, SelectForUpdate
    <2>2. CASE k \notin Visible(t)
      BY <2>2 DEF TypedState, SessionsTypeOK, SelectForUpdate
    <2>. QED
      BY <2>1, <2>2
  <1>4. \A u \in Txns : Key(u)' = Key(u) /\ View(u, Key(u))' = View(u, Key(u))
    BY <1>2 DEF Key, View
  <1>5. LocksExclusive'
    BY <1>1, <1>2, <1>3 DEF EngineInv, LocksExclusive, RowFree
  <1>6. PendingContinuesBalance'
    <2>1. \A u \in Txns : rowLocks[u] \subseteq rowLocks'[u]
      BY <1>2, <1>3
    <2>. QED
      BY <1>2, <2>1 DEF EngineInv, PendingContinuesBalance
  <1>7. ReadStillCurrent'
    <2> SUFFICES ASSUME NEW u \in Txns, pc'[u] = "upsert"
                 PROVE  IF found'[u] THEN /\ Key(u) \in rowLocks'[u]
                                          /\ currentQty'[u] = View(u, Key(u))
                        ELSE currentQty'[u] = 0 /\ pending'[u][Key(u)] = <<>>
      BY <1>4 DEF ReadStillCurrent
    <2>1. CASE u = t
      <3>1. k \notin Visible(t) => pending[t][k] = <<>>
        BY <1>1 DEF Visible
      <3>. QED
        BY <1>2, <1>3, <2>1, <3>1
    <2>2. CASE u # t
      BY <1>2, <2>2 DEF EngineInv, ReadStillCurrent
    <2>. QED
      BY <2>1, <2>2
  <1>8. ProgramLeft'
    BY <1>1, <1>2 DEF EngineInv, ProgramLeft
  <1>9. AbsentRowIsEmpty' /\ LedgerExplainsBalance'
    BY <1>2 DEF EngineInv, AbsentRowIsEmpty, LedgerExplainsBalance
  <1>. QED
    BY <1>5, <1>6, <1>7, <1>8, <1>9 DEF EngineInv

LEMMA UpsertStep ==
    ASSUME TypedState, EngineInv, NEW t \in Txns, UpsertBalance(t)
    PROVE  EngineInv'
  <1> DEFINE k == Key(t)
             r == Head(program[t])
             m == [type |-> r.type, quantity |-> r.quantity, balanceAfter |-> NewQty(t)]
  <1> USE DEF TypedState, SessionsTypeOK, UpsertBalance
  <1>1. program[t] # <<>> /\ k \in Keys
    BY CallType DEF EngineInv, ProgramLeft
  <1>2. m \in Movement /\ Follows(currentQty[t], m)
    BY <1>1, RecordedMovement
  <1>3. balance[k] \in Int /\ pending[t][k] \in Seq(Movement)
    BY <1>1 DEF RowsTypeOK
  <1>4. currentQty[t] = View(t, k)
    <2>1. CASE found[t]
      BY <2>1 DEF EngineInv, ReadStillCurrent
    <2>2. CASE ~found[t]
      <3>1. k \notin rows
        BY <2>2 DEF DuplicateRow
      <3>2. currentQty[t] = 0 /\ pending[t][k] = <<>> /\ balance[k] = 0
        BY <1>1, <2>2, <3>1 DEF EngineInv, ReadStillCurrent, AbsentRowIsEmpty
      <3>. QED
        BY <3>2 DEF View, Settles
    <2>. QED
      BY <2>1, <2>2
  <1>5. Explains(balance[k], Append(pending[t][k], m))
    <2>1. Explains(balance[k], pending[t][k])
      BY <1>1 DEF EngineInv, PendingContinuesBalance
    <2>. QED
      BY <1>2, <1>3, <1>4, <2>1, ExplainsAppend DEF View
  <1>6. \A u \in Txns : u # t => k \notin rowLocks[u]
    <2>1. CASE found[t]
      BY <2>1 DEF EngineInv, ReadStillCurrent, LocksExclusive
    <2>2. CASE ~found[t]
      BY <2>2 DEF RowFree
    <2>. QED
      BY <2>1, <2>2
  <1>7. LocksExclusive'
    BY <1>6 DEF EngineInv, LocksExclusive
  <1>8. PendingContinuesBalance'
    <2> SUFFICES ASSUME NEW u \in Txns, NEW j \in Keys
                 PROVE  /\ pending'[u][j] # <<>> => j \in rowLocks'[u]
                        /\ Explains(balance[j], pending'[u][j])
      BY DEF PendingContinuesBalance
    <2>1. CASE u = t /\ j = k
      BY <1>1, <1>5, <2>1
    <2>2. CASE ~(u = t /\ j = k)
      <3>1. pending'[u][j] = pending[u][j] /\ rowLocks[u] \subseteq rowLocks'[u]
        BY <2>2
      <3>. QED
        BY <3>1 DEF EngineInv, PendingContinuesBalance
    <2>. QED
      BY <2>1, <2>2
  <1>9. ReadStillCurrent'
    <2> SUFFICES ASSUME NEW u \in Txns, pc'[u] = "upsert"
                 PROVE  IF found'[u] THEN /\ Key(u)' \in rowLocks'[u]
                                          /\ currentQty'[u] = View(u, Key(u))'
                        ELSE currentQty'[u] = 0 /\ pending'[u][Key(u)'] = <<>>
      BY DEF ReadStillCurrent
    <2>1. /\ u # t
          /\ pc[u] = "upsert" /\ found'[u] = found[u] /\ rowLocks'[u] = rowLocks[u]
          /\ currentQty'[u] = currentQty[u] /\ pending'[u] = pending[u]
      OBVIOUS
    <2>2. Key(u)' = Key(u) /\ View(u, Key(u))' = View(u, Key(u))
      BY <2>1 DEF Key, View
    <2>. QED
      BY <2>1, <2>2 DEF EngineInv, ReadStillCurrent
  <1>10. ProgramLeft' /\ AbsentRowIsEmpty' /\ LedgerExplainsBalance'
    BY <1>1 DEF EngineInv, ProgramLeft, AbsentRowIsEmpty, LedgerExplainsBalance
  <1>. QED
    BY <1>7, <1>8, <1>9, <1>10 DEF EngineInv

\* The statements that touch neither balances nor their locks: the invariant only has to
\* follow the session from one statement to the next.
LEMMA OtherStatementStep ==
    ASSUME TypedState, EngineInv, NEW t \in Txns,
           Begin(t) \/ SumBalances(t) \/ UpdateProduct(t)
    PROVE  EngineInv'
  <1> USE DEF TypedState, SessionsTypeOK
  <1>1. UNCHANGED <<rows, balance, movements, found, currentQty, pending, rowLocks>>
    BY DEF Begin, SumBalances, UpdateProduct
  <1>2. /\ \A u \in Txns \ {t} : pc'[u] = pc[u] /\ program'[u] = program[u]
        /\ pc'[t] # "upsert"
        /\ pc'[t] \in {"select", "upsert", "sum", "product"} => program'[t] # <<>>
    <2>1. CASE Begin(t)
      BY <2>1, ProgramsAssumption DEF Begin
    <2>2. CASE SumBalances(t)
      BY <2>2 DEF SumBalances, EngineInv, ProgramLeft
    <2>3. CASE UpdateProduct(t)
      BY <2>3 DEF UpdateProduct
    <2>. QED
      BY <2>1, <2>2, <2>3
  <1>3. LocksExclusive' /\ PendingContinuesBalance' /\ AbsentRowIsEmpty'
        /\ LedgerExplainsBalance'
    BY <1>1 DEF EngineInv, LocksExclusive, PendingContinuesBalance, AbsentRowIsEmpty,
                LedgerExplainsBalance
  <1>4. ReadStillCurrent'
    <2> SUFFICES ASSUME NEW u \in Txns, pc'[u] = "upsert"
                 PROVE  IF found'[u] THEN /\ Key(u)' \in rowLocks'[u]
                                          /\ currentQty'[u] = View(u, Key(u))'
                        ELSE currentQty'[u] = 0 /\ pending'[u][Key(u)'] = <<>>
      BY DEF ReadStillCurrent
    <2>1. pc[u] = "upsert" /\ program'[u] = program[u]
      BY <1>2
    <2>2. Key(u)' = Key(u) /\ View(u, Key(u))' = View(u, Key(u))
      BY <1>1, <2>1 DEF Key, View
    <2>. QED
      BY <1>1, <2>1, <2>2 DEF EngineInv, ReadStillCurrent
  <1>5. ProgramLeft'
    BY <1>2 DEF EngineInv, ProgramLeft
  <1>. QED
    BY <1>3, <1>4, <1>5 DEF EngineInv

LEMMA IdleStep ==
    ASSUME EngineInv, UNCHANGED <<rows, balance, movements, txnVars>>
    PROVE  EngineInv'
  <1>1. LocksExclusive' /\ ProgramLeft' /\ AbsentRowIsEmpty' /\ LedgerExplainsBalance'
    BY DEF EngineInv, txnVars, LocksExclusive, ProgramLeft, AbsentRowIsEmpty,
           LedgerExplainsBalance
  <1>2. PendingContinuesBalance'
    BY DEF EngineInv, txnVars, PendingContinuesBalance
  <1>3. ReadStillCurrent'
    BY DEF EngineInv, txnVars, ReadStillCurrent, Key, View
  <1>. QED
    BY <1>1, <1>2, <1>3 DEF EngineInv

LEMMA InvStep == TypedState /\ EngineInv /\ [Next]_vars => EngineInv'
  <1> SUFFICES ASSUME TypedState, EngineInv, [Next]_vars PROVE EngineInv'
    OBVIOUS
  <1>1. ASSUME NEW t \in Txns, Begin(t) \/ SumBalances(t) \/ UpdateProduct(t)
        PROVE  EngineInv'
    BY <1>1, OtherStatementStep
  <1>2. ASSUME NEW t \in Txns, SelectForUpdate(t)
        PROVE  EngineInv'
    BY <1>2, SelectStep
  <1>3. ASSUME NEW t \in Txns, UpsertBalance(t)
        PROVE  EngineInv'
    BY <1>3, UpsertStep
  <1>4. ASSUME NEW t \in Txns, Commit(t)
        PROVE  EngineInv'
    <2>1. EndTransaction(t)
      BY <1>4 DEF Commit
    <2>2. \A k \in Keys : pending[t][k] = <<>> => balance'[k] = balance[k]
      BY <1>4 DEF Commit, View, Settles
    <2>3. LocksExclusive' /\ PendingContinuesBalance' /\ ReadStillCurrent' /\ ProgramLeft'
      BY <2>1, <2>2, EndKeepsOthers
    <2>4. AbsentRowIsEmpty' /\ LedgerExplainsBalance'
      BY <1>4, CommitPosts
    <2>. QED
      BY <2>3, <2>4 DEF EngineInv
  <1>5. ASSUME NEW t \in Txns, Throw(t) \/ Rollback(t) \/ DeadlockVictim(t)
        PROVE  EngineInv'
    BY <1>5, RollbackStep DEF Throw, Rollback, DeadlockVictim
  <1>6. ASSUME NEW p \in Products, EditProduct(p)
        PROVE  EngineInv'
    BY <1>6, IdleStep DEF EditProduct
  <1>7. CASE UNCHANGED vars
    BY <1>7, IdleStep DEF vars
  <1>. QED
    BY <1>1, <1>2, <1>3, <1>4, <1>5, <1>6, <1>7 DEF Next

-------------------------------------------------------------------------------
\* Type correctness of the committed rows and of the sessions, and the inductive
\* invariant: however many sessions run applyMovement at once, locks are exclusive, what
\* is uncommitted continues the ledger, and what was read FOR UPDATE is still current.
THEOREM EngineIsSafe == Spec => [](RowsTypeOK /\ SessionsTypeOK /\ EngineInv)
  <1>1. Init => TypedState /\ EngineInv
    BY InitTyped, InitInv
  <1>2. TypedState /\ EngineInv /\ [Next]_vars => (TypedState /\ EngineInv)'
    BY TypedStep, InvStep DEF EngineInv
  <1>3. TypedState /\ EngineInv => RowsTypeOK /\ SessionsTypeOK /\ EngineInv
    BY DEF TypedState
  <1>. QED
    BY <1>1, <1>2, <1>3, PTL DEF Spec

\* "Movimento imutável registrado em stock_movements; balanço atualizado": in every
\* committed state each balance is what its chain of movements settles to.
THEOREM LedgerAlwaysExplainsBalance == Spec => []LedgerExplainsBalance
  <1>1. EngineInv => LedgerExplainsBalance
    BY DEF EngineInv
  <1>. QED
    BY <1>1, EngineIsSafe, PTL

\* The engine implements the ledger: a commit is one Post of all the movements of its
\* transaction, and no other step, of any session, touches the ledger.
THEOREM EngineImplementsLedger == Spec => LedgerSpec
  <1>1. Init => LedgerInit
    BY OpeningRow DEF LedgerInit
  <1>2. TypedState /\ EngineInv /\ [Next]_vars => [Post]_ledgerVars
    <2> SUFFICES ASSUME TypedState, EngineInv, [Next]_vars,
                        ~UNCHANGED ledgerVars
                 PROVE  Post
      OBVIOUS
    <2>1. PICK t \in Txns : Commit(t)
      BY DEF Next, vars, ledgerVars, Begin, SelectForUpdate, UpsertBalance, SumBalances,
             UpdateProduct, Throw, Rollback, DeadlockVictim, EditProduct
    <2>. QED
      BY <2>1, CommitPosts
  <1>3. Spec => [](TypedState /\ EngineInv)
    BY EngineIsSafe DEF TypedState
  <1>. QED
    BY <1>1, <1>2, <1>3, PTL DEF Spec, LedgerSpec

-------------------------------------------------------------------------------
(***************************************************************************)
(* Transfers conserve.                                                     *)
(***************************************************************************)

\* What one balance's movements of a type amount to is a quantity.
LEMMA QuantityType ==
    ASSUME NEW s \in Seq(Movement), NEW type
    PROVE  QuantityOf(s, type) \in Int
  <1> DEFINE f == [i \in DOMAIN s |-> IF s[i].type = type THEN s[i].quantity ELSE 0]
  <1>1. DOMAIN s = 1..Len(s) /\ Len(s) \in Nat
    BY LenProperties
  <1>2. IsFiniteSet(DOMAIN s)
    BY <1>1, FS_Interval
  <1>3. \A i \in DOMAIN s : f[i] \in Int
    <2>1. \A i \in DOMAIN s : s[i] \in Movement
      BY <1>1, ElementOfSeq
    <2>. QED
      BY <2>1 DEF Movement
  <1> HIDE DEF f
  <1>4. SumOver(f, DOMAIN s) \in Int
    BY <1>2, <1>3, SumType
  <1>. QED
    BY <1>4 DEF QuantityOf, f

\* No movements amount to nothing.
LEMMA QuantityOfNone == ASSUME NEW type PROVE QuantityOf(<<>>, type) = 0
  <1>1. DOMAIN <<>> = {}
    OBVIOUS
  <1>. QED
    BY <1>1, SumEmpty DEF QuantityOf

\* One more movement adds its quantity to those of its type: this is what an
\* UpsertBalance does to the rows its transaction has written.
LEMMA QuantityAppend ==
    ASSUME NEW s \in Seq(Movement), NEW m \in Movement, NEW type
    PROVE  QuantityOf(Append(s, m), type)
             = QuantityOf(s, type) + (IF m.type = type THEN m.quantity ELSE 0)
  <1> DEFINE r == Append(s, m)
             n == Len(s)
             f == [i \in DOMAIN s |-> IF s[i].type = type THEN s[i].quantity ELSE 0]
             g == [i \in DOMAIN r |-> IF r[i].type = type THEN r[i].quantity ELSE 0]
  <1>1. n \in Nat /\ DOMAIN s = 1..n /\ DOMAIN r = 1..(n + 1) /\ r[n + 1] = m
        /\ \A i \in 1..n : r[i] = s[i] /\ s[i] \in Movement
    BY LenProperties, AppendProperties, ElementOfSeq
  <1>2. \A i \in 1..n : f[i] \in Int /\ g[i] = f[i]
    BY <1>1 DEF Movement
  <1>3. g[n + 1] = (IF m.type = type THEN m.quantity ELSE 0) /\ g[n + 1] \in Int
    BY <1>1 DEF Movement
  <1> HIDE DEF f, g
  <1>4. SumOver(g, 1..(n + 1)) = SumOver(f, 1..n) + g[n + 1]
    BY <1>1, <1>2, <1>3, SumAppend
  <1>5. QuantityOf(s, type) = SumOver(f, 1..n) /\ QuantityOf(r, type) = SumOver(g, 1..(n + 1))
    BY <1>1 DEF QuantityOf, f, g
  <1>. QED
    BY <1>3, <1>4, <1>5

\* Movements added behind movements amount to both: this is what a commit does.
LEMMA QuantityConcat ==
    ASSUME NEW s \in Seq(Movement), NEW u \in Seq(Movement), NEW type
    PROVE  QuantityOf(s \o u, type) = QuantityOf(s, type) + QuantityOf(u, type)
  <1> DEFINE r == s \o u
             n == Len(s)
             k == Len(u)
             f == [i \in DOMAIN s |-> IF s[i].type = type THEN s[i].quantity ELSE 0]
             g == [i \in DOMAIN u |-> IF u[i].type = type THEN u[i].quantity ELSE 0]
             h == [i \in DOMAIN r |-> IF r[i].type = type THEN r[i].quantity ELSE 0]
  <1>1. n \in Nat /\ k \in Nat /\ DOMAIN s = 1..n /\ DOMAIN u = 1..k /\ DOMAIN r = 1..(n + k)
    BY LenProperties, ConcatProperties
  <1>2. /\ \A i \in 1..n : r[i] = s[i] /\ s[i] \in Movement
        /\ \A i \in 1..k : r[n + i] = u[i] /\ u[i] \in Movement
    BY <1>1, ConcatProperties, ElementOfSeq
  <1>3. \A i \in 1..n : f[i] \in Int /\ h[i] = f[i]
    BY <1>1, <1>2 DEF Movement
  <1>4. \A i \in 1..k : g[i] \in Int /\ h[n + i] = g[i]
    BY <1>1, <1>2 DEF Movement
  <1> HIDE DEF f, g, h, n, k
  <1>5. SumOver(h, 1..(n + k)) = SumOver(f, 1..n) + SumOver(g, 1..k)
    <2>1. n \in Nat /\ k \in Nat
      BY <1>1
    <2>. QED
      BY <2>1, <1>3, <1>4, SumConcat, SMTT(60)
  <1>. QED
    BY <1>1, <1>5 DEF QuantityOf, f, g, h, n, k

\* ... and so is what the movements of a product amount to over all warehouses.
LEMMA MovedType ==
    ASSUME NEW L \in [Keys -> Seq(Movement)], NEW p \in Products, NEW type
    PROVE  MovedIn(L, p, type) \in Int
  <1> DEFINE f == [w \in Warehouses |-> QuantityOf(L[<<p, w>>], type)]
  <1>1. \A w \in Warehouses : f[w] \in Int
    BY QuantityType DEF Keys
  <1> HIDE DEF f
  <1>2. SumOver(f, Warehouses) \in Int
    BY <1>1, WarehousesAssumption, SumType
  <1>. QED
    BY <1>2 DEF MovedIn, f

\* A ledger whose balances amount to what those of two others do, moves what both do.
LEMMA MovedPlus ==
    ASSUME NEW L \in [Keys -> Seq(Movement)], NEW M \in [Keys -> Seq(Movement)], NEW N, NEW type,
           \A k \in Keys : QuantityOf(N[k], type) = QuantityOf(L[k], type) + QuantityOf(M[k], type),
           NEW p \in Products
    PROVE  MovedIn(N, p, type) = MovedIn(L, p, type) + MovedIn(M, p, type)
  <1> DEFINE f == [w \in Warehouses |-> QuantityOf(L[<<p, w>>], type)]
             g == [w \in Warehouses |-> QuantityOf(M[<<p, w>>], type)]
             h == [w \in Warehouses |-> QuantityOf(N[<<p, w>>], type)]
  <1>1. \A w \in Warehouses : <<p, w>> \in Keys
    BY DEF Keys
  <1>2. \A k \in Keys : QuantityOf(L[k], type) \in Int /\ QuantityOf(M[k], type) \in Int
    BY QuantityType
  <1>3. \A w \in Warehouses : f[w] \in Int /\ g[w] \in Int /\ h[w] = f[w] + g[w]
    BY <1>1, <1>2
  <1> HIDE DEF f, g, h
  <1>4. SumOver(h, Warehouses) = SumOver(f, Warehouses) + SumOver(g, Warehouses)
    BY <1>3, WarehousesAssumption, SumPlus
  <1>. QED
    BY <1>4 DEF MovedIn, f, g, h

\* One more movement in one balance counts for its product and its type.
LEMMA MovedAppend ==
    ASSUME NEW L \in [Keys -> Seq(Movement)], NEW m \in Movement, NEW key \in Keys, NEW N,
           \A k \in Keys : N[k] = IF k = key THEN Append(L[k], m) ELSE L[k],
           NEW p \in Products, NEW type
    PROVE  MovedIn(N, p, type)
             = MovedIn(L, p, type) + (IF key[1] = p /\ m.type = type THEN m.quantity ELSE 0)
  <1> DEFINE f == [w \in Warehouses |-> QuantityOf(L[<<p, w>>], type)]
             h == [w \in Warehouses |-> QuantityOf(N[<<p, w>>], type)]
             more == IF m.type = type THEN m.quantity ELSE 0
  <1>1. PICK p0 \in Products, w0 \in Warehouses : key = <<p0, w0>>
    BY DEF Keys
  <1>2. \A w \in Warehouses : f[w] \in Int
    BY QuantityType DEF Keys
  <1>3. more \in Int
    BY DEF Movement
  <1>4. SumOver(f, Warehouses) \in Int
    <2> HIDE DEF f
    <2>. QED
      BY <1>2, WarehousesAssumption, SumType
  <1>5. CASE p = p0
    <2>1. \A w \in Warehouses \ {w0} : h[w] = f[w]
      BY <1>1, <1>5 DEF Keys
    <2>2. h[w0] = f[w0] + more
      <3>1. <<p, w0>> = key /\ N[key] = Append(L[key], m) /\ L[key] \in Seq(Movement)
        BY <1>1, <1>5
      <3>2. QuantityOf(Append(L[key], m), type) = QuantityOf(L[key], type) + more
        BY <3>1, QuantityAppend
      <3>3. h[w0] = QuantityOf(N[key], type) /\ f[w0] = QuantityOf(L[key], type)
        BY <3>1
      <3>. QED
        BY <3>1, <3>2, <3>3
    <2>3. f[w0] \in Int
      BY <1>2
    <2> HIDE DEF f, h, more
    <2>4. SumOver(h, Warehouses) = SumOver(f, Warehouses) + (h[w0] - f[w0])
      <3>1. h[w0] \in Int
        BY <1>3, <2>2, <2>3
      <3>. QED
        BY <1>2, <2>1, <3>1, WarehousesAssumption, SumChange
    <2>5. SumOver(h, Warehouses) = SumOver(f, Warehouses) + more
      BY <2>2, <2>3, <2>4, <1>3, <1>4
    <2>. QED
      BY <2>5, <1>1, <1>5 DEF MovedIn, f, h, more
  <1>6. CASE p # p0
    <2>1. \A w \in Warehouses : h[w] = f[w]
      BY <1>1, <1>6 DEF Keys
    <2> HIDE DEF f, h
    <2>2. SumOver(h, Warehouses) = SumOver(f, Warehouses)
      BY <2>1, WarehousesAssumption, SumCongruent
    <2>. QED
      BY <2>2, <1>1, <1>4, <1>6 DEF MovedIn, f, h
  <1>. QED
    BY <1>5, <1>6

\* Where no movement is of a type, nothing of it has moved.
LEMMA MovedNone ==
    ASSUME NEW L, NEW p \in Products, NEW type, \A k \in Keys : QuantityOf(L[k], type) = 0
    PROVE  MovedIn(L, p, type) = 0
  <1> DEFINE f == [w \in Warehouses |-> QuantityOf(L[<<p, w>>], type)]
  <1>1. \A w \in Warehouses : f[w] = 0
    BY DEF Keys
  <1> HIDE DEF f
  <1>2. SumOver(f, Warehouses) = 0
    BY <1>1, WarehousesAssumption, SumZero
  <1>. QED
    BY <1>2 DEF MovedIn, f

\* A ledger that starts with 'opening' rows has moved nothing.
LEMMA OpeningMovesNothing ==
    ASSUME Init, NEW p \in Products, NEW type \in {"transfer_out", "transfer_in"}
    PROVE  Moved(p, type) = 0
  <1>1. \A k \in Keys : movements[k] = <<>> \/ movements[k] = <<[type |-> "opening", quantity |-> balance[k], balanceAfter |-> balance[k]]>>
    BY DEF Init
  <1>2. \A k \in Keys : QuantityOf(movements[k], type) = 0
    <2> SUFFICES ASSUME NEW k \in Keys PROVE QuantityOf(movements[k], type) = 0
      OBVIOUS
    <2> DEFINE s == movements[k]
               f == [i \in DOMAIN s |-> IF s[i].type = type THEN s[i].quantity ELSE 0]
    <2>1. CASE s = <<>>
      BY <2>1, QuantityOfNone
    <2>2. CASE s = <<[type |-> "opening", quantity |-> balance[k], balanceAfter |-> balance[k]]>>
      <3>1. DOMAIN s = 1..1 /\ s[1].type = "opening"
        BY <2>2
      <3>2. \A i \in DOMAIN s : f[i] = 0
        BY <3>1
      <3>3. IsFiniteSet(DOMAIN s)
        <4>1. IsFiniteSet({1})
          BY FS_Singleton
        <4>2. DOMAIN s = {1}
          BY <3>1
        <4>. QED
          BY <4>1, <4>2
      <3> HIDE DEF f
      <3>4. SumOver(f, DOMAIN s) = 0
        BY <3>2, <3>3, SumZero
      <3>. QED
        BY <3>4 DEF QuantityOf, f
    <2>. QED
      BY <1>1, <2>1, <2>2
  <1>. QED
    BY <1>2, MovedNone DEF Moved

\* Every list of calls confirmTransfer makes is in pairs, whatever is on the transfer.
LEMMA TransferIsInPairs ==
    ASSUME NEW items \in Seq([product : Products, quantity : Nat]),
           NEW from \in Warehouses, NEW to \in Warehouses
    PROVE  /\ InPairs(Transfer(items, from, to))
           /\ items # <<>> => Transfer(items, from, to)[1].type # "transfer_in"
  <1> DEFINE calls == Transfer(items, from, to)
             n == Len(items)
  <1>1. n \in Nat /\ DOMAIN calls = 1..2 * n
    BY LenProperties DEF Transfer
  <1>2. \A i \in DOMAIN calls : calls[i].type \in {"transfer_out", "transfer_in"} /\ (calls[i].type = "transfer_out" <=> i % 2 = 1)
    BY DEF Transfer, Call
  <1>3. ASSUME NEW i \in DOMAIN calls, i % 2 = 1
        PROVE  i + 1 \in DOMAIN calls /\ Halves(calls[i], calls[i + 1])
    <2>1. i \in 1..2 * n
      BY <1>1
    <2>2. i + 1 \in 1..2 * n /\ (i + 1) % 2 = 0 /\ (i + 2) \div 2 = (i + 1) \div 2
      BY <1>1, <1>3, <2>1
    <2>3. calls[i] = Call(items[(i + 1) \div 2].product, from, "transfer_out", items[(i + 1) \div 2].quantity, -1)
      BY <1>3 DEF Transfer
    <2>4. calls[i + 1] = Call(items[(i + 2) \div 2].product, to, "transfer_in", items[(i + 2) \div 2].quantity, 1)
      <3>1. ((i + 1) + 1) \div 2 = (i + 2) \div 2
        BY <2>1
      <3>2. i + 1 \in 1..2 * Len(items) /\ (i + 1) % 2 # 1
        BY <2>2
      <3>. QED
        BY <3>1, <3>2 DEF Transfer
    <2>. QED
      BY <1>1, <2>2, <2>3, <2>4 DEF Halves, Call
  <1>4. ASSUME NEW i \in DOMAIN calls, i % 2 # 1
        PROVE  i > 1 /\ Halves(calls[i - 1], calls[i])
    <2>1. i \in 1..2 * n
      BY <1>1
    <2>2. i - 1 \in 1..2 * n /\ (i - 1) % 2 = 1 /\ (i - 1) + 1 = i
      BY <1>1, <1>4, <2>1
    <2>3. Halves(calls[i - 1], calls[(i - 1) + 1])
      BY <1>1, <1>3, <2>2
    <2>. QED
      BY <2>1, <2>2, <2>3
  <1>5. InPairs(calls)
    BY <1>2, <1>3, <1>4 DEF InPairs
  <1>6. items # <<>> => 1 \in DOMAIN calls /\ 1 % 2 = 1
    BY <1>1, EmptySeq, LenProperties
  <1>. QED
    BY <1>2, <1>5, <1>6

\* Why transfers conserve: what a session wrote and did not commit differs between the two
\* types by the transfer it is in the middle of, and nothing is when it commits.
OnTheWay(t, p) ==
    LET r == Head(program[t])
        half == IF pc[t] \in {"select", "upsert"} THEN "transfer_in" ELSE "transfer_out"
    IN  IF pc[t] \notin {"idle", "commit"} /\ r.type = half /\ r.product = p THEN r.quantity ELSE 0

HalvesMatch(t) ==
    /\ InPairs(program[t])
    /\ \A p \in Products :
          MovedIn(pending[t], p, "transfer_out") = MovedIn(pending[t], p, "transfer_in") + OnTheWay(t, p)

ConserveInv == TransfersConserve /\ \A t \in Txns : HalvesMatch(t)

\* A session no statement of which ran is where it was.
LEMMA OthersMatch ==
    ASSUME NEW u \in Txns, HalvesMatch(u),
           pending'[u] = pending[u], program'[u] = program[u],
           \/ pc'[u] = pc[u]
           \/ pc[u] = "select" /\ pc'[u] = "upsert"
           \/ pc[u] = "sum" /\ pc'[u] = "product"
    PROVE  HalvesMatch(u)'
  <1>1. \A p \in Products : OnTheWay(u, p)' = OnTheWay(u, p)
    BY DEF OnTheWay
  <1>. QED
    BY <1>1 DEF HalvesMatch

\* A session that ends its transaction holds no half of a transfer.
LEMMA EndedMatches ==
    ASSUME SessionsTypeOK, NEW t \in Txns, EndTransaction(t)
    PROVE  HalvesMatch(t)'
  <1>1. pc'[t] = "idle" /\ program'[t] = <<>> /\ pending'[t] = NoPending
    BY DEF SessionsTypeOK, EndTransaction
  <1>2. InPairs(program'[t])
    BY <1>1 DEF InPairs
  <1>3. ASSUME NEW p \in Products, NEW type
        PROVE  MovedIn(pending'[t], p, type) = 0
    <2>1. \A k \in Keys : QuantityOf(NoPending[k], type) = 0
      BY QuantityOfNone DEF NoPending
    <2>. QED
      BY <1>1, <2>1, MovedNone
  <1>4. \A p \in Products : OnTheWay(t, p)' = 0
    BY <1>1 DEF OnTheWay
  <1>. QED
    BY <1>2, <1>3, <1>4 DEF HalvesMatch

\* What is left of a caller's list after its first call is in pairs, and begins with the
\* second half of a transfer exactly if the first call was its first half.
LEMMA TailInPairs ==
    ASSUME NEW calls \in Seq(Request), calls # <<>>, InPairs(calls)
    PROVE  /\ InPairs(Tail(calls))
           /\ Head(calls).type = "transfer_out" => Tail(calls) # <<>> /\ Halves(Head(calls), Head(Tail(calls)))
           /\ Tail(calls) # <<>> /\ Head(Tail(calls)).type = "transfer_in" => Head(calls).type = "transfer_out"
  <1> DEFINE rest == Tail(calls)
             n == Len(calls)
  <1>1. /\ n \in Nat \ {0} /\ DOMAIN calls = 1..n /\ Head(calls) = calls[1]
        /\ rest \in Seq(Request) /\ DOMAIN rest = 1..(n - 1) /\ Len(rest) = n - 1
        /\ \A i \in 1..(n - 1) : rest[i] = calls[i + 1]
    BY HeadTailProperties, EmptySeq, LenProperties
  <1>2. rest # <<>> => Head(rest) = calls[2] /\ 2 \in 1..n
    BY <1>1, HeadTailProperties, EmptySeq, LenProperties
  <1>3. InPairs(rest)
    <2> SUFFICES ASSUME NEW i \in 1..(n - 1)
                 PROVE  /\ rest[i].type = "transfer_out" => i + 1 \in 1..(n - 1) /\ Halves(rest[i], rest[i + 1])
                        /\ rest[i].type = "transfer_in" /\ i > 1 => Halves(rest[i - 1], rest[i])
      BY <1>1 DEF InPairs
    <2> DEFINE j == i + 1
    <2>1. j \in 1..n /\ j > 1 /\ rest[i] = calls[j] /\ j + 1 = (i + 1) + 1 /\ j - 1 = i
      BY <1>1
    <2>2. /\ calls[j].type = "transfer_out" => j + 1 \in 1..n /\ Halves(calls[j], calls[j + 1])
          /\ calls[j].type = "transfer_in" => Halves(calls[j - 1], calls[j])
      BY <1>1, <2>1 DEF InPairs
    <2>3. rest[i].type = "transfer_out" => i + 1 \in 1..(n - 1) /\ Halves(rest[i], rest[i + 1])
      <3> SUFFICES ASSUME rest[i].type = "transfer_out"
                   PROVE  i + 1 \in 1..(n - 1) /\ Halves(rest[i], rest[i + 1])
        OBVIOUS
      <3>1. i + 1 \in 1..(n - 1)
        BY <1>1, <2>1, <2>2
      <3>2. rest[i + 1] = calls[j + 1]
        BY <1>1, <3>1
      <3>. QED
        BY <3>1, <3>2, <2>1, <2>2
    <2>4. rest[i].type = "transfer_in" /\ i > 1 => Halves(rest[i - 1], rest[i])
      <3> SUFFICES ASSUME rest[i].type = "transfer_in", i > 1
                   PROVE  Halves(rest[i - 1], rest[i])
        OBVIOUS
      <3>1. i - 1 \in 1..(n - 1) /\ (i - 1) + 1 = j - 1
        BY <1>1
      <3>2. rest[i - 1] = calls[j - 1]
        BY <1>1, <3>1
      <3>. QED
        BY <3>2, <2>1, <2>2
    <2>. QED
      BY <2>3, <2>4
  <1>4. Head(calls).type = "transfer_out" => rest # <<>> /\ Halves(Head(calls), Head(rest))
    <2> SUFFICES ASSUME calls[1].type = "transfer_out"
                 PROVE  rest # <<>> /\ Halves(calls[1], Head(rest))
      BY <1>1
    <2>1. 1 \in DOMAIN calls
      BY <1>1
    <2>2. 1 + 1 \in DOMAIN calls /\ Halves(calls[1], calls[1 + 1])
      BY <2>1 DEF InPairs
    <2>3. rest # <<>>
      <3>1. 2 \in 1..n
        BY <1>1, <2>2
      <3>2. Len(rest) # 0
        BY <1>1, <3>1
      <3>. QED
        BY <1>1, <3>2, EmptySeq
    <2>. QED
      BY <1>2, <2>2, <2>3
  <1>5. rest # <<>> /\ Head(rest).type = "transfer_in" => Head(calls).type = "transfer_out"
    <2> SUFFICES ASSUME rest # <<>>, Head(rest).type = "transfer_in"
                 PROVE  calls[1].type = "transfer_out"
      BY <1>1
    <2>1. 2 \in DOMAIN calls /\ calls[2].type = "transfer_in" /\ 2 > 1 /\ 2 - 1 = 1
      BY <1>1, <1>2
    <2>2. Halves(calls[2 - 1], calls[2])
      BY <2>1 DEF InPairs
    <2>. QED
      BY <2>1, <2>2 DEF Halves
  <1>. QED
    BY <1>3, <1>4, <1>5

\* A session of which one statement runs: its first statement of all, ...
LEMMA BeginMatches ==
    ASSUME TypedState, NEW t \in Txns, HalvesMatch(t), Begin(t)
    PROVE  HalvesMatch(t)'
  <1>1. PICK calls \in Programs : program' = [program EXCEPT ![t] = calls]
    BY DEF Begin
  <1>2. calls \in Seq(Request) /\ calls # <<>> /\ InPairs(calls) /\ Head(calls).type # "transfer_in"
    BY ProgramsAssumption, PairsAssumption, HeadTailProperties
  <1>3. program'[t] = calls /\ pc'[t] = "select" /\ pc[t] = "idle" /\ pending'[t] = pending[t]
    BY <1>1 DEF Begin, TypedState, SessionsTypeOK
  <1>4. \A p \in Products : OnTheWay(t, p)' = 0 /\ OnTheWay(t, p) = 0
    BY <1>2, <1>3 DEF OnTheWay
  <1>. QED
    BY <1>2, <1>3, <1>4 DEF HalvesMatch

\* ... the write of a movement, by which one half of a transfer is made, ...
LEMMA UpsertMatches ==
    ASSUME TypedState, NEW t \in Txns, HalvesMatch(t), program[t] # <<>>, UpsertBalance(t)
    PROVE  HalvesMatch(t)'
  <1> DEFINE r == Head(program[t])
             m == [type |-> r.type, quantity |-> r.quantity, balanceAfter |-> NewQty(t)]
             key == Key(t)
  <1>1. pc[t] = "upsert" /\ pc'[t] = "sum" /\ program'[t] = program[t]
        /\ pending'[t] = [pending[t] EXCEPT ![key] = Append(@, m)]
    BY DEF UpsertBalance, TypedState, SessionsTypeOK
  <1>2. m \in Movement
    BY RecordedMovement DEF UpsertBalance
  <1>3. key \in Keys /\ key[1] = r.product /\ r \in Request
    BY CallType DEF Key
  <1>4. pending[t] \in [Keys -> Seq(Movement)]
    BY DEF TypedState, SessionsTypeOK
  <1> SUFFICES ASSUME NEW p \in Products
               PROVE  MovedIn(pending'[t], p, "transfer_out")
                        = MovedIn(pending'[t], p, "transfer_in") + OnTheWay(t, p)'
    BY <1>1 DEF HalvesMatch
  <1>5. \A k \in Keys : pending'[t][k] = IF k = key THEN Append(pending[t][k], m) ELSE pending[t][k]
    BY <1>1, <1>3, <1>4
  <1> DEFINE Part(type) == IF r.type = type /\ r.product = p THEN r.quantity ELSE 0
  <1>6. m.type = r.type /\ m.quantity = r.quantity
    OBVIOUS
  <1> HIDE DEF m, key
  <1>7. ASSUME NEW type
        PROVE  /\ MovedIn(pending[t], p, type) \in Int
               /\ MovedIn(pending'[t], p, type) = MovedIn(pending[t], p, type) + Part(type)
    <2>1. MovedIn(pending[t], p, type) \in Int
      BY <1>4, MovedType
    <2>2. MovedIn(pending'[t], p, type)
            = MovedIn(pending[t], p, type) + (IF key[1] = p /\ m.type = type THEN m.quantity ELSE 0)
      <3>1. PICK L, N : L = pending[t] /\ N = pending'[t]
        OBVIOUS
      <3>2. L \in [Keys -> Seq(Movement)]
        BY <3>1, <1>4
      <3>3. \A k \in Keys : N[k] = IF k = key THEN Append(L[k], m) ELSE L[k]
        BY <3>1, <1>5
      <3>4. key \in Keys
        BY <1>3
      <3>5. MovedIn(N, p, type) = MovedIn(L, p, type) + (IF key[1] = p /\ m.type = type THEN m.quantity ELSE 0)
        BY <3>2, <3>3, <3>4, <1>2, MovedAppend
      <3>. QED
        BY <3>1, <3>5
    <2>. QED
      BY <2>1, <2>2, <1>3, <1>6
  <1>8. OnTheWay(t, p) = Part("transfer_in") /\ OnTheWay(t, p)' = Part("transfer_out")
    BY <1>1 DEF OnTheWay
  <1>9. Part("transfer_in") \in Int /\ Part("transfer_out") \in Int
    BY <1>3 DEF Request
  <1>10. MovedIn(pending[t], p, "transfer_out")
           = MovedIn(pending[t], p, "transfer_in") + Part("transfer_in")
    BY <1>8 DEF HalvesMatch
  <1> HIDE DEF Part
  <1>. QED
    BY <1>7, <1>8, <1>9, <1>10

\* ... and the update of the product, after which the next call is due.
LEMMA ProductMatches ==
    ASSUME TypedState, NEW t \in Txns, HalvesMatch(t), program[t] # <<>>, UpdateProduct(t)
    PROVE  HalvesMatch(t)'
  <1> DEFINE calls == program[t]
  <1>1. /\ pc[t] = "product" /\ pending'[t] = pending[t] /\ program'[t] = Tail(calls)
        /\ pc'[t] = IF Tail(calls) = <<>> THEN "commit" ELSE "select"
    BY DEF UpdateProduct, TypedState, SessionsTypeOK
  <1>2. calls \in Seq(Request) /\ InPairs(calls)
    BY DEF TypedState, SessionsTypeOK, HalvesMatch
  <1>3. /\ InPairs(Tail(calls))
        /\ Head(calls).type = "transfer_out" => Tail(calls) # <<>> /\ Halves(Head(calls), Head(Tail(calls)))
        /\ Tail(calls) # <<>> /\ Head(Tail(calls)).type = "transfer_in" => Head(calls).type = "transfer_out"
    BY <1>2, TailInPairs
  <1>4. ASSUME NEW p \in Products
        PROVE  OnTheWay(t, p)' = OnTheWay(t, p)
    <2>1. OnTheWay(t, p) = IF Head(calls).type = "transfer_out" /\ Head(calls).product = p
                           THEN Head(calls).quantity ELSE 0
      BY <1>1 DEF OnTheWay
    <2>2. CASE Tail(calls) = <<>>
      <3>1. OnTheWay(t, p)' = 0
        BY <1>1, <2>2 DEF OnTheWay
      <3>. QED
        BY <3>1, <2>1, <2>2, <1>3
    <2>3. CASE Tail(calls) # <<>>
      <3>1. OnTheWay(t, p)' = IF Head(Tail(calls)).type = "transfer_in" /\ Head(Tail(calls)).product = p
                              THEN Head(Tail(calls)).quantity ELSE 0
        BY <1>1, <2>3 DEF OnTheWay
      <3>. QED
        BY <3>1, <2>1, <2>3, <1>3 DEF Halves
    <2>. QED
      BY <2>2, <2>3
  <1>. QED
    BY <1>1, <1>3, <1>4 DEF HalvesMatch

\* A commit adds to the ledger as much out as in: its session is in the middle of nothing.
LEMMA CommitConserves ==
    ASSUME TypedState, NEW t \in Txns, ConserveInv, Commit(t)
    PROVE  TransfersConserve'
  <1> SUFFICES ASSUME NEW p \in Products
               PROVE  Moved(p, "transfer_out")' = Moved(p, "transfer_in")'
    BY DEF TransfersConserve
  <1>1. movements \in [Keys -> Seq(Movement)] /\ pending[t] \in [Keys -> Seq(Movement)]
    BY DEF TypedState, RowsTypeOK, SessionsTypeOK
  <1>2. \A k \in Keys : movements'[k] = movements[k] \o pending[t][k]
    BY DEF Commit
  <1>3. ASSUME NEW type
        PROVE  /\ Moved(p, type) \in Int /\ MovedIn(pending[t], p, type) \in Int
               /\ Moved(p, type)' = Moved(p, type) + MovedIn(pending[t], p, type)
    <2>1. MovedIn(movements, p, type) \in Int /\ MovedIn(pending[t], p, type) \in Int
      BY <1>1, MovedType
    <2>2. MovedIn(movements', p, type) = MovedIn(movements, p, type) + MovedIn(pending[t], p, type)
      <3>1. PICK L, M, N : L = movements /\ M = pending[t] /\ N = movements'
        OBVIOUS
      <3>2. L \in [Keys -> Seq(Movement)] /\ M \in [Keys -> Seq(Movement)]
        BY <3>1, <1>1
      <3>3. \A k \in Keys : QuantityOf(N[k], type) = QuantityOf(L[k], type) + QuantityOf(M[k], type)
        <4> SUFFICES ASSUME NEW k \in Keys
                     PROVE  QuantityOf(N[k], type) = QuantityOf(L[k], type) + QuantityOf(M[k], type)
          OBVIOUS
        <4>1. N[k] = L[k] \o M[k]
          BY <3>1, <1>2, Zenon
        <4>2. L[k] \in Seq(Movement) /\ M[k] \in Seq(Movement)
          BY <3>2
        <4>3. QuantityOf(L[k] \o M[k], type) = QuantityOf(L[k], type) + QuantityOf(M[k], type)
          BY <4>2, QuantityConcat, Zenon
        <4>. QED
          BY <4>1, <4>3, Zenon
      <3>4. MovedIn(N, p, type) = MovedIn(L, p, type) + MovedIn(M, p, type)
        BY <3>2, <3>3, MovedPlus
      <3>. QED
        BY <3>1, <3>4
    <2>. QED
      BY <2>1, <2>2 DEF Moved
  <1>4. OnTheWay(t, p) = 0
    BY DEF OnTheWay, Commit
  <1>5. MovedIn(pending[t], p, "transfer_out") = MovedIn(pending[t], p, "transfer_in")
    BY <1>3, <1>4 DEF ConserveInv, HalvesMatch
  <1>6. Moved(p, "transfer_out") = Moved(p, "transfer_in")
    BY DEF ConserveInv, TransfersConserve
  <1>. QED
    BY <1>3, <1>5, <1>6

\* Nothing has moved, and no session is in the middle of a transfer, when the system starts.
LEMMA InitConserves == Init => ConserveInv
  <1> SUFFICES ASSUME Init PROVE ConserveInv
    OBVIOUS
  <1>1. TransfersConserve
    BY OpeningMovesNothing DEF TransfersConserve
  <1>2. ASSUME NEW t \in Txns PROVE HalvesMatch(t)
    <2>1. pc[t] = "idle" /\ program[t] = <<>> /\ pending[t] = NoPending
      BY DEF Init
    <2>2. InPairs(program[t])
      BY <2>1 DEF InPairs
    <2>3. ASSUME NEW p \in Products, NEW type
          PROVE  MovedIn(pending[t], p, type) = 0
      <3>1. \A k \in Keys : QuantityOf(NoPending[k], type) = 0
        BY QuantityOfNone DEF NoPending
      <3>. QED
        BY <2>1, <3>1, MovedNone
    <2>4. \A p \in Products : OnTheWay(t, p) = 0
      BY <2>1 DEF OnTheWay
    <2>. QED
      BY <2>2, <2>3, <2>4 DEF HalvesMatch
  <1>. QED
    BY <1>1, <1>2 DEF ConserveInv

\* The induction: one case for each statement of a session and one for the product form.
LEMMA ConserveStep == TypedState /\ EngineInv /\ ConserveInv /\ [Next]_vars => ConserveInv'
  <1> SUFFICES ASSUME TypedState, EngineInv, ConserveInv, [Next]_vars PROVE ConserveInv'
    OBVIOUS
  <1>0. \A u \in Txns : HalvesMatch(u)
    BY DEF ConserveInv
  <1>1. ASSUME movements' = movements PROVE TransfersConserve'
    BY <1>1 DEF ConserveInv, TransfersConserve, Moved
  <1>2. ASSUME NEW t \in Txns, Begin(t) PROVE ConserveInv'
    <2>1. \A u \in Txns \ {t} : pending'[u] = pending[u] /\ program'[u] = program[u] /\ pc'[u] = pc[u]
      BY <1>2 DEF Begin, TypedState, SessionsTypeOK
    <2>2. \A u \in Txns \ {t} : HalvesMatch(u)'
      BY <1>0, <2>1, OthersMatch
    <2>3. HalvesMatch(t)'
      BY <1>0, <1>2, BeginMatches
    <2>. QED
      BY <1>1, <1>2, <2>2, <2>3 DEF ConserveInv, Begin
  <1>3. ASSUME NEW t \in Txns, SelectForUpdate(t) \/ SumBalances(t) PROVE ConserveInv'
    <2>1. ASSUME NEW u \in Txns
          PROVE  /\ pending'[u] = pending[u] /\ program'[u] = program[u]
                 /\ \/ pc'[u] = pc[u]
                    \/ pc[u] = "select" /\ pc'[u] = "upsert"
                    \/ pc[u] = "sum" /\ pc'[u] = "product"
      BY <1>3 DEF SelectForUpdate, SumBalances, TypedState, SessionsTypeOK
    <2>2. \A u \in Txns : HalvesMatch(u)'
      BY <1>0, <2>1, OthersMatch
    <2>. QED
      BY <1>1, <1>3, <2>2 DEF ConserveInv, SelectForUpdate, SumBalances
  <1>4. ASSUME NEW t \in Txns, UpsertBalance(t) \/ UpdateProduct(t) PROVE ConserveInv'
    <2>1. \A u \in Txns \ {t} : pending'[u] = pending[u] /\ program'[u] = program[u] /\ pc'[u] = pc[u]
      BY <1>4 DEF UpsertBalance, UpdateProduct, TypedState, SessionsTypeOK
    <2>2. \A u \in Txns \ {t} : HalvesMatch(u)'
      BY <1>0, <2>1, OthersMatch
    <2>3. program[t] # <<>>
      BY <1>4 DEF UpsertBalance, UpdateProduct, EngineInv, ProgramLeft
    <2>4. HalvesMatch(t)'
      BY <1>0, <1>4, <2>3, UpsertMatches, ProductMatches
    <2>. QED
      BY <1>1, <1>4, <2>2, <2>4 DEF ConserveInv, UpsertBalance, UpdateProduct
  <1>5. ASSUME NEW t \in Txns, EndTransaction(t) PROVE \A u \in Txns : HalvesMatch(u)'
    <2>1. \A u \in Txns \ {t} : pending'[u] = pending[u] /\ program'[u] = program[u] /\ pc'[u] = pc[u]
      BY <1>5 DEF EndTransaction, TypedState, SessionsTypeOK
    <2>2. \A u \in Txns \ {t} : HalvesMatch(u)'
      BY <1>0, <2>1, OthersMatch
    <2>3. HalvesMatch(t)'
      BY <1>5, EndedMatches DEF TypedState
    <2>. QED
      BY <2>2, <2>3
  <1>6. ASSUME NEW t \in Txns, Commit(t) PROVE ConserveInv'
    BY <1>5, <1>6, CommitConserves DEF ConserveInv, Commit
  <1>7. ASSUME NEW t \in Txns, Throw(t) \/ Rollback(t) \/ DeadlockVictim(t) PROVE ConserveInv'
    BY <1>1, <1>5, <1>7 DEF ConserveInv, Throw, Rollback, DeadlockVictim
  <1>8. ASSUME UNCHANGED <<movements, txnVars>> PROVE ConserveInv'
    <2>1. \A u \in Txns : pending'[u] = pending[u] /\ program'[u] = program[u] /\ pc'[u] = pc[u]
      BY <1>8 DEF txnVars
    <2>2. \A u \in Txns : HalvesMatch(u)'
      BY <1>0, <2>1, OthersMatch
    <2>. QED
      BY <1>1, <1>8, <2>2 DEF ConserveInv
  <1>9. ASSUME NEW p \in Products, EditProduct(p) PROVE ConserveInv'
    BY <1>8, <1>9 DEF EditProduct
  <1>10. CASE UNCHANGED vars
    BY <1>8, <1>10 DEF vars
  <1>. QED
    BY <1>2, <1>3, <1>4, <1>6, <1>7, <1>9, <1>10 DEF Next

\* Nothing is made or lost by moving it, whatever interleaves, throws or rolls back between
\* the two halves of a transfer (confirmTransfer, movements.service.ts:442-521).
THEOREM TransfersAlwaysConserve == Spec => []TransfersConserve
  <1>1. Init => ConserveInv
    BY InitConserves
  <1>2. TypedState /\ EngineInv /\ ConserveInv /\ [Next]_vars => ConserveInv'
    BY ConserveStep
  <1>3. ConserveInv => TransfersConserve
    BY DEF ConserveInv
  <1>4. Spec => [](TypedState /\ EngineInv)
    BY EngineIsSafe DEF TypedState
  <1>. QED
    BY <1>1, <1>2, <1>3, <1>4, PTL DEF Spec
================================================================================
