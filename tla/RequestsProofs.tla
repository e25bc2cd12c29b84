---------------------------- MODULE RequestsProofs -----------------------------
(* What is proved of the parts whose requests run statement by statement over *)
(* one another, on rows nobody locks: for any requests under way at once.     *)
(*                                                                            *)
(* Part 1, presence. Who is counted in a room is who is in it, for a connected *)
(* socket whose joining and leaving never overlapped. The room is changed     *)
(* before the count, so the invariant says what a handler half-way has done to *)
(* the room already.                                                          *)
(*                                                                            *)
(* Part 2, receivables and payables. What an entry says was paid was paid, and *)
(* a document takes no more from it. The strengthening is RequestIsBacked: what *)
(* a request read, or wrote and did not yet tell the entry, is covered by the *)
(* payments there are. The allocations of a payment fit it while one session  *)
(* allocates: SplitFits says what a replacement half-way has still to delete. *)
(*                                                                            *)
(* Part 3, prospecting credits. What is used of a month is what was bought and *)
(* what is being bought. The strengthening is RequestIsSound: the row a request *)
(* read was one the organization had, so that writing it cannot raise a quota, *)
(* and no request paid in a month that is still to come. What is stored of    *)
(* people, and the imports, have an invariant of their own, ImportsInv.       *)
(*                                                                            *)
(* Part 4, the internal chat. Votes and reactions follow the clicks, and what *)
(* a deletion leaves behind was raced. The strengthening says what a request  *)
(* half-way stands on: whoever is about to vote has no vote left, whoever is  *)
(* about to write a column read of everybody's reaction what the clicks say,  *)
(* unless it was written meanwhile, a deletion at its n-th statement          *)
(* has emptied the tables before, and an overlap is noted while it lasts.     *)
(*                                                                            *)
(* Part 5, the cadence of prospecting. One task at a time, on a working day,  *)
(* and the steps in their order. The strengthening, Stands, says where a person *)
(* is: every task of theirs is of a step they have reached, the last one they *)
(* reached has a task, one request at most works on it, and what that request *)
(* is about to write is the step that follows. The calendar is a part of its  *)
(* own: the n-th working day after a day has n working days behind it.        *)
(*                                                                            *)
(* Part 6, triggers and scores. A trigger counts events that were noted: those *)
(* noted by hand and not counted yet, and those a check is about to count, fit *)
(* under the number of events beside the total (Uncounted). A score is the    *)
(* rounded share of the weights (ScoreMade), and weights of nothing do not    *)
(* count.                                                                     *)
EXTENDS Presence, Accounts, Prospects, Chat, Cadences, Signals, SumsProofs, FiniteSetTheorems

--------------------------------------------------------------------------------
\* Part 1. Presence.

HandlerSteps == Sockets \X Handlers

SocketsTyped == socket \in [Sockets -> {"new", "online", "offline"}]

\* A socket that did not connect yet has no handlers and is not counted.
NewIsOut ==
    \A k \in Sockets : socket[k] = "new" => k \notin presence /\ ~Under(k, Handlers, pending)

RoomIsOnline == room \subseteq Sockets /\ \A k \in room : Online(k)

\* An overlap of joining and leaving is noted while it lasts.
OverlapIsNoted == \A k \in Sockets \ crossed : ~Crossing(k, pending)

\* The room, half-way through a handler and between handlers.
RoomLeads ==
    \A k \in Sockets \ crossed : Online(k) =>
        /\ <<k, "joined">> \in pending => k \in room
        /\ <<k, "left">> \in pending => k \notin room
        /\ ~Under(k, {"joined", "left"}, pending) => (k \in presence <=> k \in room)

\* Sockets are counted, and their users shown as typing.
SocketsOnly == presence \subseteq Sockets /\ typing \subseteq Owners /\ crossed \subseteq Sockets

PresenceInv ==
    SocketsTyped /\ pending \subseteq HandlerSteps /\ NewIsOut /\ RoomIsOnline /\ OverlapIsNoted /\ RoomLeads

(* At first nobody is in the room or counted.                                 *)
LEMMA PresenceBegins ==
    ASSUME PresenceInit
    PROVE  PresenceInv
  BY DEF PresenceInit, PresenceInv, RoomIsOnline, OverlapIsNoted, RoomLeads, Online, Crossing, Under,
         SocketsTyped, NewIsOut

\* Between handlers the count is the room.
LEMMA RestingAgrees ==
    ASSUME PresenceInv, SocketsOnly
    PROVE  PresenceIsRoom
  <1>1. PresenceTypeOK
    BY DEF PresenceInv, SocketsOnly, PresenceTypeOK, RoomIsOnline, SocketsTyped, HandlerSteps
  <1>. QED
    BY <1>1 DEF PresenceInv, PresenceIsRoom, RoomIsOnline, RoomLeads, Under, Handlers

\* A handler of k going on: the others' steps stay, and an overlap is noted.
LEMMA MoveNotes ==
    ASSUME PresenceInv, NEW k \in Sockets, NEW from \in SUBSET Handlers, NEW to \in SUBSET Handlers,
           Move(k, from, to), socket[k] # "new", UNCHANGED socket, presence' \subseteq presence \cup {k}
    PROVE  /\ SocketsTyped' /\ NewIsOut' /\ pending' \subseteq HandlerSteps /\ OverlapIsNoted'
           /\ crossed \subseteq crossed'
           /\ \A j \in Sockets, h \in Handlers : j # k => (<<j, h>> \in pending' <=> <<j, h>> \in pending)
           /\ \A h \in Handlers : <<k, h>> \in pending' <=> (h \in to \/ (<<k, h>> \in pending /\ h \notin from))
  <1>1. pending' = (pending \ {<<k, h>> : h \in from}) \cup {<<k, h>> : h \in to}
    BY DEF Move
  <1>2. \A j \in Sockets, h \in Handlers : j # k => (<<j, h>> \in pending' <=> <<j, h>> \in pending)
    BY <1>1
  <1>3. \A h \in Handlers : <<k, h>> \in pending' <=> (h \in to \/ (<<k, h>> \in pending /\ h \notin from))
    BY <1>1
  <1>4. pending' \subseteq HandlerSteps
    BY <1>1 DEF PresenceInv, HandlerSteps
  <1>5. crossed' = IF Crossing(k, pending') THEN crossed \cup {k} ELSE crossed
    BY DEF Move
  <1>6. OverlapIsNoted'
    <2>. SUFFICES ASSUME NEW j \in Sockets, j \notin crossed'
                  PROVE  ~Crossing(j, pending')
      BY DEF OverlapIsNoted
    <2>1. CASE j = k
      BY <2>1, <1>5
    <2>2. CASE j # k
      <3>1. ~Crossing(j, pending)
        BY <1>5 DEF PresenceInv, OverlapIsNoted
      <3>2. {"join", "joined", "leave", "left"} \subseteq Handlers
        BY DEF Handlers
      <3>. QED
        BY <2>2, <3>1, <3>2, <1>2 DEF Crossing, Under
    <2>. QED
      BY <2>1, <2>2
  <1>7. SocketsTyped' /\ NewIsOut'
    BY <1>2 DEF PresenceInv, SocketsTyped, NewIsOut, Under
  <1>. QED
    BY <1>2, <1>3, <1>4, <1>5, <1>6, <1>7

\* A handler that touches neither the room nor the count.
LEMMA OtherHandlers ==
    ASSUME PresenceInv, NEW k \in Sockets, NEW from \in SUBSET {"join", "leave", "typing"}, NEW to \in SUBSET {"join", "leave", "typing"},
           Move(k, from, to), socket[k] # "new", UNCHANGED <<socket, room, presence>>
    PROVE  PresenceInv'
  <1>1. from \in SUBSET Handlers /\ to \in SUBSET Handlers /\ {"joined", "left"} \subseteq Handlers
    BY DEF Handlers
  <1>2. SocketsTyped' /\ NewIsOut' /\ pending' \subseteq HandlerSteps /\ OverlapIsNoted' /\ crossed \subseteq crossed'
    BY <1>1, MoveNotes
  <1>3. \A j \in Sockets, h \in {"joined", "left"} : <<j, h>> \in pending' <=> <<j, h>> \in pending
    BY <1>1, MoveNotes
  <1>4. RoomIsOnline' /\ RoomLeads'
    BY <1>2, <1>3 DEF PresenceInv, RoomIsOnline, RoomLeads, Online, Under
  <1>. QED
    BY <1>2, <1>4 DEF PresenceInv

(* Joining the room, before the count.                                        *)
LEMMA JoinKeeps ==
    ASSUME PresenceInv, NEW k \in Sockets, JoinRoom(k)
    PROVE  PresenceInv'
  <1>1. socket[k] # "new" /\ UNCHANGED socket /\ presence' \subseteq presence \cup {k}
    BY DEF JoinRoom, PresenceInv, NewIsOut, Under, Handlers
  <1>2. {"join"} \in SUBSET Handlers /\ {"joined"} \in SUBSET Handlers /\ {"join", "joined", "leave", "left"} \subseteq Handlers
    BY DEF Handlers
  <1>3. SocketsTyped' /\ NewIsOut' /\ pending' \subseteq HandlerSteps /\ OverlapIsNoted' /\ crossed \subseteq crossed'
    BY <1>2, <1>1, MoveNotes DEF JoinRoom
  <1>4. \A j \in Sockets, h \in Handlers : j # k => (<<j, h>> \in pending' <=> <<j, h>> \in pending)
    BY <1>2, <1>1, MoveNotes DEF JoinRoom
  <1>5. \A h \in Handlers : <<k, h>> \in pending' <=> (h \in {"joined"} \/ (<<k, h>> \in pending /\ h \notin {"join"}))
    BY <1>2, <1>1, MoveNotes DEF JoinRoom
  <1>6. <<k, "joined">> \in pending' /\ (<<k, "left">> \in pending' <=> <<k, "left">> \in pending)
    BY <1>5, <1>2
  <1>7. RoomIsOnline'
    BY DEF JoinRoom, PresenceInv, RoomIsOnline, Online
  <1>8. RoomLeads'
    <2>. SUFFICES ASSUME NEW j \in Sockets, j \notin crossed', Online(j)
                  PROVE  /\ <<j, "joined">> \in pending' => j \in room'
                         /\ <<j, "left">> \in pending' => j \notin room'
                         /\ ~Under(j, {"joined", "left"}, pending') => (j \in presence' <=> j \in room')
      BY DEF JoinRoom, RoomLeads, Online
    <2>1. CASE j = k
      <3>1. <<k, "left">> \notin pending'
        BY <2>1, <1>3, <1>4, <1>6 DEF OverlapIsNoted, Crossing, Under
      <3>. QED
        BY <2>1, <3>1, <1>4, <1>6 DEF JoinRoom, Under
    <2>2. CASE j # k
      BY <2>2, <1>2, <1>3, <1>4, <1>6 DEF JoinRoom, PresenceInv, RoomLeads, Under
    <2>. QED
      BY <2>1, <2>2
  <1>. QED
    BY <1>3, <1>7, <1>8 DEF PresenceInv

(* Being counted, after joining.                                              *)
LEMMA CountKeeps ==
    ASSUME PresenceInv, NEW k \in Sockets, Count(k)
    PROVE  PresenceInv'
  <1>1. socket[k] # "new" /\ UNCHANGED socket /\ presence' \subseteq presence \cup {k}
    BY DEF Count, PresenceInv, NewIsOut, Under, Handlers
  <1>2. {"joined"} \in SUBSET Handlers /\ {} \in SUBSET Handlers /\ {"joined", "left"} \subseteq Handlers
    BY DEF Handlers
  <1>3. SocketsTyped' /\ NewIsOut' /\ pending' \subseteq HandlerSteps /\ OverlapIsNoted' /\ crossed \subseteq crossed'
    BY <1>2, <1>1, MoveNotes DEF Count
  <1>4. \A j \in Sockets, h \in Handlers : j # k => (<<j, h>> \in pending' <=> <<j, h>> \in pending)
    BY <1>2, <1>1, MoveNotes DEF Count
  <1>5. \A h \in Handlers : <<k, h>> \in pending' <=> (<<k, h>> \in pending /\ h # "joined")
    BY DEF Count, Move
  <1>6. <<k, "joined">> \notin pending' /\ (<<k, "left">> \in pending' <=> <<k, "left">> \in pending)
    BY <1>5, <1>2
  <1>7. RoomIsOnline'
    BY DEF Count, PresenceInv, RoomIsOnline, Online
  <1>8. RoomLeads'
    <2>. SUFFICES ASSUME NEW j \in Sockets, j \notin crossed', Online(j)
                  PROVE  /\ <<j, "joined">> \in pending' => j \in room
                         /\ <<j, "left">> \in pending' => j \notin room
                         /\ ~Under(j, {"joined", "left"}, pending') => (j \in presence' <=> j \in room)
      BY DEF Count, RoomLeads, Online
    <2>1. CASE j = k
      BY <2>1, <1>3, <1>4, <1>6 DEF Count, PresenceInv, RoomLeads
    <2>2. CASE j # k
      BY <2>2, <1>2, <1>3, <1>4, <1>6 DEF Count, PresenceInv, RoomLeads, Under
    <2>. QED
      BY <2>1, <2>2
  <1>. QED
    BY <1>3, <1>7, <1>8 DEF PresenceInv

(* Leaving the room, before the count.                                        *)
LEMMA LeaveKeeps ==
    ASSUME PresenceInv, NEW k \in Sockets, LeaveRoom(k)
    PROVE  PresenceInv'
  <1>1. socket[k] # "new" /\ UNCHANGED socket /\ presence' \subseteq presence \cup {k}
    BY DEF LeaveRoom, PresenceInv, NewIsOut, Under, Handlers
  <1>2. {"leave"} \in SUBSET Handlers /\ {"left"} \in SUBSET Handlers /\ {"join", "joined", "leave", "left"} \subseteq Handlers
    BY DEF Handlers
  <1>3. SocketsTyped' /\ NewIsOut' /\ pending' \subseteq HandlerSteps /\ OverlapIsNoted' /\ crossed \subseteq crossed'
    BY <1>2, <1>1, MoveNotes DEF LeaveRoom
  <1>4. \A j \in Sockets, h \in Handlers : j # k => (<<j, h>> \in pending' <=> <<j, h>> \in pending)
    BY <1>2, <1>1, MoveNotes DEF LeaveRoom
  <1>5. \A h \in Handlers : <<k, h>> \in pending' <=> (h \in {"left"} \/ (<<k, h>> \in pending /\ h \notin {"leave"}))
    BY <1>2, <1>1, MoveNotes DEF LeaveRoom
  <1>6. <<k, "left">> \in pending'
    BY <1>5, <1>2
  <1>7. RoomIsOnline'
    BY DEF LeaveRoom, PresenceInv, RoomIsOnline, Online
  <1>8. RoomLeads'
    <2>. SUFFICES ASSUME NEW j \in Sockets, j \notin crossed', Online(j)
                  PROVE  /\ <<j, "joined">> \in pending' => j \in room'
                         /\ <<j, "left">> \in pending' => j \notin room'
                         /\ ~Under(j, {"joined", "left"}, pending') => (j \in presence <=> j \in room')
      BY DEF LeaveRoom, RoomLeads, Online
    <2>1. CASE j = k
      <3>1. <<k, "joined">> \notin pending'
        BY <2>1, <1>3, <1>4, <1>6 DEF OverlapIsNoted, Crossing, Under
      <3>. QED
        BY <2>1, <3>1, <1>4, <1>6 DEF LeaveRoom, Under
    <2>2. CASE j # k
      BY <2>2, <1>2, <1>3, <1>4, <1>6 DEF LeaveRoom, PresenceInv, RoomLeads, Under
    <2>. QED
      BY <2>1, <2>2
  <1>. QED
    BY <1>3, <1>7, <1>8 DEF PresenceInv

(* Not being counted any more, after leaving.                                 *)
LEMMA UncountKeeps ==
    ASSUME PresenceInv, NEW k \in Sockets, Uncount(k)
    PROVE  PresenceInv'
  <1>1. socket[k] # "new" /\ UNCHANGED socket /\ presence' \subseteq presence \cup {k}
    BY DEF Uncount, PresenceInv, NewIsOut, Under, Handlers
  <1>2. {"left"} \in SUBSET Handlers /\ {} \in SUBSET Handlers /\ {"joined", "left"} \subseteq Handlers
    BY DEF Handlers
  <1>3. SocketsTyped' /\ NewIsOut' /\ pending' \subseteq HandlerSteps /\ OverlapIsNoted' /\ crossed \subseteq crossed'
    BY <1>2, <1>1, MoveNotes DEF Uncount
  <1>4. \A j \in Sockets, h \in Handlers : j # k => (<<j, h>> \in pending' <=> <<j, h>> \in pending)
    BY <1>2, <1>1, MoveNotes DEF Uncount
  <1>5. \A h \in Handlers : <<k, h>> \in pending' <=> (<<k, h>> \in pending /\ h # "left")
    BY DEF Uncount, Move
  <1>6. <<k, "left">> \notin pending' /\ (<<k, "joined">> \in pending' <=> <<k, "joined">> \in pending)
    BY <1>5, <1>2
  <1>7. RoomIsOnline'
    BY DEF Uncount, PresenceInv, RoomIsOnline, Online
  <1>8. RoomLeads'
    <2>. SUFFICES ASSUME NEW j \in Sockets, j \notin crossed', Online(j)
                  PROVE  /\ <<j, "joined">> \in pending' => j \in room
                         /\ <<j, "left">> \in pending' => j \notin room
                         /\ ~Under(j, {"joined", "left"}, pending') => (j \in presence' <=> j \in room)
      BY DEF Uncount, RoomLeads, Online
    <2>1. CASE j = k
      BY <2>1, <1>3, <1>4, <1>6 DEF Uncount, PresenceInv, RoomLeads
    <2>2. CASE j # k
      BY <2>2, <1>2, <1>3, <1>4, <1>6 DEF Uncount, PresenceInv, RoomLeads, Under
    <2>. QED
      BY <2>1, <2>2
  <1>. QED
    BY <1>3, <1>7, <1>8 DEF PresenceInv

\* Nobody is in the room who was not connected before.
LEMMA ConnectKeeps ==
    ASSUME PresenceInv, NEW k \in Sockets, NEW valid \in BOOLEAN, Connect(k, valid)
    PROVE  PresenceInv'
  <1>1. /\ socket[k] = "new" /\ UNCHANGED <<room, presence, typing, pending, crossed>>
        /\ \A j \in Sockets : socket'[j] = IF j = k THEN (IF valid THEN "online" ELSE "offline") ELSE socket[j]
    BY DEF Connect, PresenceInv, SocketsTyped
  <1>2. k \notin presence /\ k \notin room /\ ~Under(k, Handlers, pending)
    BY <1>1 DEF PresenceInv, NewIsOut, RoomIsOnline, Online
  <1>3. SocketsTyped' /\ NewIsOut'
    BY <1>1 DEF Connect, PresenceInv, SocketsTyped, NewIsOut, Under
  <1>4. RoomIsOnline' /\ OverlapIsNoted'
    BY <1>1, <1>2 DEF PresenceInv, RoomIsOnline, OverlapIsNoted, Crossing, Under, Online
  <1>5. RoomLeads'
    BY <1>1, <1>2 DEF PresenceInv, RoomLeads, Under, Online, Handlers
  <1>. QED
    BY <1>1, <1>3, <1>4, <1>5 DEF PresenceInv

(* A socket that disconnects leaves the room at once.                         *)
LEMMA DisconnectKeeps ==
    ASSUME PresenceInv, NEW k \in Sockets, Disconnect(k)
    PROVE  PresenceInv'
  <1>1. /\ socket[k] = "online" /\ room' = room \ {k} /\ UNCHANGED <<presence, pending, crossed>>
        /\ \A j \in Sockets : socket'[j] = IF j = k THEN "offline" ELSE socket[j]
    BY DEF Disconnect, Online, RoomsAtDisconnect, PresenceInv, SocketsTyped
  <1>2. SocketsTyped' /\ NewIsOut'
    BY <1>1 DEF Disconnect, PresenceInv, SocketsTyped, NewIsOut, Under
  <1>3. RoomIsOnline' /\ OverlapIsNoted' /\ RoomLeads'
    BY <1>1 DEF PresenceInv, RoomIsOnline, OverlapIsNoted, RoomLeads, Crossing, Under, Online
  <1>. QED
    BY <1>1, <1>2, <1>3 DEF PresenceInv

(* Typing changes neither the room nor the count.                             *)
LEMMA TypingKeeps ==
    ASSUME PresenceInv, NEW k \in Sockets, NEW h \in {"join", "leave", "typing"}, NEW allowed \in BOOLEAN,
           Receive(k, h) \/ StartTyping(k, allowed) \/ StopTyping(k)
    PROVE  PresenceInv'
  <1>1. CASE Receive(k, h)
    BY <1>1, OtherHandlers DEF Receive, Online
  <1>2. CASE StartTyping(k, allowed)
    <2>1. socket[k] # "new"
      BY <1>2 DEF StartTyping, PresenceInv, NewIsOut, Under, Handlers
    <2>. QED
      BY <1>2, <2>1, OtherHandlers DEF StartTyping
  <1>3. CASE StopTyping(k)
    BY <1>3 DEF StopTyping, PresenceInv, SocketsTyped, NewIsOut, RoomIsOnline, OverlapIsNoted,
         RoomLeads, Crossing, Under, Online
  <1>. QED
    BY <1>1, <1>2, <1>3

(* Every step keeps the room and the count so.                                *)
LEMMA PresenceKeeps ==
    ASSUME PresenceInv, [Gateway]_presenceVars
    PROVE  PresenceInv'
  <1>1. CASE UNCHANGED presenceVars
    BY <1>1 DEF presenceVars, PresenceInv, SocketsTyped, NewIsOut, RoomIsOnline, OverlapIsNoted,
         RoomLeads, Crossing, Under, Online
  <1>2. CASE Gateway
    <2>1. PICK k \in Sockets :
              \/ \E valid \in BOOLEAN : Connect(k, valid)
              \/ \E h \in {"join", "leave", "typing"} : Receive(k, h)
              \/ JoinRoom(k) \/ Count(k) \/ LeaveRoom(k) \/ Uncount(k)
              \/ \E allowed \in BOOLEAN : StartTyping(k, allowed)
              \/ StopTyping(k) \/ Disconnect(k)
      BY <1>2 DEF Gateway
    <2>. QED
      BY <2>1, ConnectKeeps, JoinKeeps, CountKeeps, LeaveKeeps, UncountKeeps, DisconnectKeeps, TypingKeeps
  <1>. QED
    BY <1>1, <1>2

(* Only sockets are counted, and only their users are shown as typing.        *)
LEMMA OnlySockets ==
    ASSUME SocketsOnly, [Gateway]_presenceVars
    PROVE  SocketsOnly'
  <1>1. ASSUME NEW k \in Sockets, NEW from, NEW to, Move(k, from, to) PROVE crossed' \subseteq Sockets
    BY <1>1 DEF SocketsOnly, Move
  <1>2. \A k \in Sockets : OwnerOf[k] \in Owners
    BY PresenceAssumption
  <1>. QED
    BY <1>1, <1>2 DEF SocketsOnly, Gateway, presenceVars, Connect, Receive, JoinRoom, Count, LeaveRoom,
         Uncount, StartTyping, StopTyping, Disconnect

\* The room and its counter agree about every connected socket whose joining and leaving did
\* not overlap, and whoever is in the room is connected (chat.gateway.ts:167-260).
THEOREM RoomIsCounted == PresenceSpec => []PresenceIsRoom
  <1>1. PresenceInit => SocketsOnly
    BY DEF PresenceInit, SocketsOnly
  <1>. QED
    BY <1>1, PresenceBegins, PresenceKeeps, OnlySockets, RestingAgrees, PTL DEF PresenceSpec

--------------------------------------------------------------------------------
\* Part 2. Receivables and payables.

\* Rows and requests of the receivable side.

RequestsTyped ==
    \A s \in Sessions : session[s].op = "sync" => docs[session[s].doc] # Absent

Typed == TypeOK /\ RequestsTyped

(* A row that is there has its fields, and one that is not has none.          *)
LEMMA RowsOrNot ==
    /\ Absent \notin Entry /\ Removed \notin Entry /\ Absent # Removed
    /\ Absent \notin Doc /\ Absent \notin Payment /\ Removed \notin Payment /\ Absent \notin Batch
  <1>1. Absent.status = "absent" /\ Removed.status = "removed"
    BY DEF Absent, Removed
  <1>2. \A x \in Entry : x.status \notin {"absent", "removed"}
    BY DEF Entry, EntryStatuses
  <1>3. \A x \in Doc : x.status \notin {"absent", "removed"}
    BY DEF Doc, DocStatuses
  <1>4. \A x \in Payment : x \notin {Absent, Removed}
    <2> SUFFICES ASSUME NEW x \in Payment, x \in {Absent, Removed} PROVE FALSE
      OBVIOUS
    <2>1. DOMAIN x = {"entry", "amount"}
      BY DEF Payment
    <2>2. DOMAIN x = {"status"}
      BY DEF Absent, Removed
    <2> QED
      BY <2>1, <2>2
  <1>5. \A x \in Batch : x # Absent
    <2> SUFFICES ASSUME NEW x \in Batch, x = Absent PROVE FALSE
      OBVIOUS
    <2>1. DOMAIN x = {"payment", "split"}
      BY DEF Batch
    <2>2. DOMAIN x = {"status"}
      BY DEF Absent
    <2> QED
      BY <2>1, <2>2
  <1> QED
    BY <1>1, <1>2, <1>3, <1>4, <1>5

(* A request has the fields of its kind.                                      *)
LEMMA RequestFields ==
    ASSUME NEW r \in Request \cup {Idle}
    PROVE  /\ r.op = "update" => r.entry \in Entries /\ r.status \in EntryStatuses
           /\ r.op = "delete" => r.entry \in Entries
           /\ r.op \in {"pay", "paid"} => r.entry \in Entries /\ r.amount \in 1..Total /\ r.paid \in Nat
           /\ r.op = "sync" => r.doc \in Entries /\ r.paid \in Nat /\ r.status \in DocStatuses
           /\ r.op = "allocate" => r.payment \in Payments /\ r.split \in Split /\ r.seen \subseteq Batches
           /\ r.op = "deleted" => r.payment \in Payments /\ r.split \in Split /\ r.doomed \subseteq Batches
  BY DEF Request, Idle

(* A document given another status and amount is a document.                  *)
LEMMA DocFields ==
    ASSUME NEW r \in Doc, NEW status \in DocStatuses, NEW paid \in Nat
    PROVE  [r EXCEPT !.status = status, !.amountPaid = paid] \in Doc
  BY DEF Doc

\* One session turns to another request.
LEMMA SessionTurns ==
    ASSUME TypeOK, NEW s \in Sessions, NEW r \in Request \cup {Idle}, session' = [session EXCEPT ![s] = r]
    PROVE  /\ session' \in [Sessions -> Request \cup {Idle}]
           /\ session'[s] = r /\ \A u \in Sessions \ {s} : session'[u] = session[u]
  BY DEF TypeOK

(* A request that ends leaves the others as they are.                         *)
LEMMA SessionRests ==
    ASSUME TypeOK, NEW s \in Sessions, Done(s)
    PROVE  /\ session' \in [Sessions -> Request \cup {Idle}]
           /\ session'[s].op = "idle" /\ \A u \in Sessions \ {s} : session'[u] = session[u]
  BY DEF TypeOK, Done, Idle

\* Documents that are there stay there.
LEMMA DocsStay ==
    ASSUME Typed, docs' \in [Entries -> Doc \cup {Absent}],
           \A d \in Entries : docs[d] # Absent => docs'[d] # Absent,
           \A s \in Sessions : session'[s] = session[s] \/ session'[s].op # "sync"
    PROVE  RequestsTyped'
  <1> SUFFICES ASSUME NEW s \in Sessions, session'[s].op = "sync" PROVE docs'[session'[s].doc] # Absent
    BY DEF RequestsTyped
  <1>1. session'[s] = session[s] /\ session[s].op = "sync"
    OBVIOUS
  <1>2. session[s].doc \in Entries
    BY <1>1, RequestFields DEF Typed, TypeOK
  <1> QED
    BY <1>1, <1>2 DEF Typed, RequestsTyped

(* What a document does changes no payment, and no amount paid of an entry.   *)
LEMMA DocumentSteps ==
    ASSUME Typed, NEW d \in Entries,
           \/ \E amount \in {Total, -Total} : InvoiceDocument(d, amount)
           \/ CancelDocument(d)
           \/ \E status \in {"paid", "partially_paid"} : MarkPaid(d, status)
    PROVE  /\ docs' \in [Entries -> Doc \cup {Absent}] /\ entries' \in [Entries -> Entry \cup {Absent, Removed}]
           /\ \A e \in Entries : docs[e] # Absent => docs'[e] # Absent
           /\ \A e \in Entries : \/ entries'[e] = entries[e]
                                 \/ entries'[e] \in Entry /\ entries[e] = Absent /\ entries'[e].paid = 0
                                 \/ entries'[e] \in Entry /\ HasEntry(e) /\ entries'[e].paid = entries[e].paid
           /\ UNCHANGED <<payments, batches, session>>
  <1>0. /\ docs \in [Entries -> Doc \cup {Absent}] /\ entries \in [Entries -> Entry \cup {Absent, Removed}]
        /\ Total \in Nat
    BY TotalAssumption DEF Typed, TypeOK
  <1>1. ASSUME NEW amount \in {Total, -Total}, InvoiceDocument(d, amount)
        PROVE  /\ docs' \in [Entries -> Doc \cup {Absent}] /\ entries' \in [Entries -> Entry \cup {Absent, Removed}]
               /\ \A e \in Entries : docs[e] # Absent => docs'[e] # Absent
               /\ \A e \in Entries : \/ entries'[e] = entries[e]
                                     \/ entries'[e] \in Entry /\ entries[e] = Absent /\ entries'[e].paid = 0
               /\ UNCHANGED <<payments, batches, session>>
    <2>1. docs[d] \in Doc
      BY <1>0, <1>1 DEF InvoiceDocument, Absent
    <2>2. [docs[d] EXCEPT !.status = "invoiced"] \in Doc
      BY <2>1 DEF Doc, DocStatuses
    <2>3. NewEntry(docs[d].kind, amount, TRUE) \in Entry /\ NewEntry(docs[d].kind, amount, TRUE).paid = 0
      BY <2>1, <1>0 DEF NewEntry, Entry, EntryStatuses, Doc
    <2> QED
      BY <1>0, <1>1, <2>2, <2>3, RowsOrNot DEF InvoiceDocument
  <1>2. ASSUME CancelDocument(d)
        PROVE  /\ docs' \in [Entries -> Doc \cup {Absent}] /\ entries' \in [Entries -> Entry \cup {Absent, Removed}]
               /\ \A e \in Entries : docs[e] # Absent => docs'[e] # Absent
               /\ \A e \in Entries : \/ entries'[e] = entries[e]
                                     \/ entries'[e] \in Entry /\ HasEntry(e) /\ entries'[e].paid = entries[e].paid
               /\ UNCHANGED <<payments, batches, session>>
    <2>1. docs[d] \in Doc
      BY <1>0, <1>2 DEF CancelDocument, HasDoc
    <2>2. [docs[d] EXCEPT !.status = "cancelled"] \in Doc
      BY <2>1 DEF Doc, DocStatuses
    <2>3. HasEntry(d) => /\ [entries[d] EXCEPT !.status = "cancelled"] \in Entry
                         /\ [entries[d] EXCEPT !.status = "cancelled"].paid = entries[d].paid
      BY <1>0 DEF HasEntry, Entry, EntryStatuses
    <2> QED
      BY <1>0, <1>2, <2>2, <2>3, RowsOrNot DEF CancelDocument
  <1>3. ASSUME NEW status \in {"paid", "partially_paid"}, MarkPaid(d, status)
        PROVE  /\ docs' \in [Entries -> Doc \cup {Absent}]
               /\ \A e \in Entries : docs[e] # Absent => docs'[e] # Absent
               /\ UNCHANGED <<entries, payments, batches, session>>
    <2> DEFINE amount == IF status = "paid" /\ docs[d].amountPaid < Total THEN Total ELSE docs[d].amountPaid
    <2>1. docs[d] \in Doc
      BY <1>0, <1>3 DEF MarkPaid, Absent
    <2>2. amount \in Nat /\ status \in DocStatuses
      BY <2>1, <1>0 DEF Doc, DocStatuses
    <2>3. docs' = [docs EXCEPT ![d] = [docs[d] EXCEPT !.status = status, !.amountPaid = amount]]
      BY <1>0, <2>1, <1>3 DEF MarkPaid, Doc
    <2> HIDE DEF amount
    <2>4. [docs[d] EXCEPT !.status = status, !.amountPaid = amount] \in Doc
      BY <2>1, <2>2, DocFields
    <2>5. UNCHANGED <<entries, payments, batches, session>>
      BY <1>3 DEF MarkPaid
    <2> QED
      BY <1>0, <2>3, <2>4, <2>5, RowsOrNot
  <1> QED
    BY <1>0, <1>1, <1>2, <1>3

--------------------------------------------------------------------------------
\* Payments.

PaidSoFar(e, amount) == entries[e] # Removed => amount <= PaidIn(e)

\* What a request read was backed then, and is since.
RequestIsBacked(r) ==
    /\ r.op = "delete" => entries[r.entry] # Absent
    /\ r.op = "pay" => PaidSoFar(r.entry, r.paid)
    /\ r.op = "paid" => PaidSoFar(r.entry, r.paid + r.amount)
    /\ r.op = "sync" => PaidSoFar(r.doc, r.paid)

Backed ==
    /\ Typed /\ PaidIsBacked
    /\ \A s \in Sessions : RequestIsBacked(session[s])

(* What was paid to an entry is a number.                                     *)
LEMMA PaidType ==
    ASSUME TypeOK, NEW e \in Entries
    PROVE  /\ \A p \in Payments : PaidTo(e)[p] \in Nat
           /\ PaidIn(e) \in Nat
  <1>1. \A p \in Payments : PaidTo(e)[p] \in Nat
    BY TotalAssumption DEF TypeOK, PaidTo, HasPayment, Payment
  <1> QED
    BY <1>1, SumNat, TablesAssumption DEF PaidIn

(* Only payments change what was paid to an entry.                            *)
LEMMA PaidSame == ASSUME payments' = payments, NEW e PROVE PaidIn(e)' = PaidIn(e)
  BY DEF PaidIn, PaidTo, HasPayment

\* Entries gain payments until they are removed, and requests stay backed.
LEMMA BackingStays ==
    ASSUME Backed, Typed',
           \A e \in Entries : /\ entries[e] # Absent => entries'[e] # Absent
                              /\ entries'[e] # Removed => entries[e] # Removed /\ PaidIn(e) <= PaidIn(e)',
           \A e \in Entries : HasEntry(e)' => \/ HasEntry(e) /\ entries'[e].paid = entries[e].paid
                                              \/ entries'[e].paid <= PaidIn(e)',
           \A s \in Sessions : session'[s] = session[s] \/ RequestIsBacked(session[s])'
    PROVE  Backed'
  <1>1. \A e \in Entries : PaidIn(e) \in Nat
    BY PaidType DEF Backed, Typed
  <1>2. PICK f : f = [e \in Entries |-> PaidIn(e)']
    OBVIOUS
  <1>3. \A e \in Entries : f[e] \in Nat /\ f[e] = PaidIn(e)'
    <2> SUFFICES ASSUME NEW e \in Entries PROVE f[e] \in Nat /\ f[e] = PaidIn(e)'
      OBVIOUS
    <2>1. PICK g : g = PaidTo(e)'
      OBVIOUS
    <2>2. \A p \in Payments : g[p] \in Nat
      BY <2>1, TotalAssumption DEF Typed, TypeOK, PaidTo, HasPayment, Payment
    <2>3. SumOver(g, Payments) \in Nat
      BY <2>2, SumNat, TablesAssumption
    <2> QED
      BY <1>2, <2>1, <2>3 DEF PaidIn
  <1>4. PaidIsBacked'
    <2> SUFFICES ASSUME NEW e \in Entries, HasEntry(e)' PROVE entries'[e].paid <= f[e]
      BY <1>3 DEF PaidIsBacked
    <2>1. CASE HasEntry(e) /\ entries'[e].paid = entries[e].paid
      <3>1. entries[e].paid <= PaidIn(e) /\ PaidIn(e) <= f[e]
        BY <2>1, <1>3 DEF Backed, PaidIsBacked, HasEntry
      <3>2. entries[e].paid \in Nat
        BY <2>1 DEF Backed, Typed, TypeOK, HasEntry, Entry
      <3> QED
        BY <2>1, <3>1, <3>2, <1>1, <1>3
    <2>2. CASE entries'[e].paid <= PaidIn(e)'
      BY <2>2, <1>3
    <2> QED
      BY <2>1, <2>2
  <1>5. ASSUME NEW s \in Sessions, session'[s] = session[s] PROVE RequestIsBacked(session[s])'
    <2>0. PICK r : r = session[s]
      OBVIOUS
    <2>1. RequestIsBacked(r) /\ r \in Request \cup {Idle}
      BY <2>0 DEF Backed, Typed, TypeOK
    <2>2. ASSUME NEW e \in Entries, NEW n \in Nat, PaidSoFar(e, n) PROVE entries'[e] # Removed => n <= f[e]
      BY <2>2, <1>1, <1>3 DEF PaidSoFar
    <2>3. /\ r.op = "delete" => entries'[r.entry] # Absent
          /\ r.op = "pay" => (entries'[r.entry] # Removed => r.paid <= f[r.entry])
          /\ r.op = "sync" => (entries'[r.doc] # Removed => r.paid <= f[r.doc])
      BY <2>1, <2>2, RequestFields DEF RequestIsBacked
    <2>4. r.op = "paid" => (entries'[r.entry] # Removed => r.paid + r.amount <= f[r.entry])
      <3> SUFFICES ASSUME r.op = "paid" PROVE entries'[r.entry] # Removed => r.paid + r.amount <= f[r.entry]
        OBVIOUS
      <3>1. r.entry \in Entries /\ r.paid + r.amount \in Nat /\ PaidSoFar(r.entry, r.paid + r.amount)
        BY <2>1, RequestFields, TotalAssumption DEF RequestIsBacked
      <3> QED
        BY <3>1, <2>2
    <2>5. /\ r.op \in {"pay", "paid"} => r.entry \in Entries
          /\ r.op = "sync" => r.doc \in Entries
      BY <2>1, RequestFields
    <2>6. /\ r.op \in {"pay", "paid"} => f[r.entry] = PaidIn(r.entry)'
          /\ r.op = "sync" => f[r.doc] = PaidIn(r.doc)'
      BY <2>5, <1>3
    <2>7. session'[s] = r
      BY <1>5, <2>0
    <2> QED
      BY <2>3, <2>4, <2>6, <2>7 DEF RequestIsBacked, PaidSoFar
  <1> QED
    BY <1>4, <1>5 DEF Backed

\* A step that changes a session alone.
LEMMA RequestKeeps ==
    ASSUME Backed, NEW s \in Sessions, NEW r \in Request \cup {Idle}, session' = [session EXCEPT ![s] = r],
           RequestIsBacked(r), r.op = "sync" => docs[r.doc] # Absent,
           UNCHANGED <<docs, entries, payments, batches>>
    PROVE  Backed'
  <1>1. session'[s] = r /\ \A u \in Sessions \ {s} : session'[u] = session[u]
    BY SessionTurns DEF Backed, Typed
  <1>2. Typed'
    BY <1>1, SessionTurns DEF Backed, Typed, TypeOK, RequestsTyped
  <1>3. RequestIsBacked(session[s])'
    BY <1>1, PaidSame DEF RequestIsBacked, PaidSoFar
  <1>4. \A e \in Entries : PaidIn(e) \in Nat /\ PaidIn(e)' = PaidIn(e)
    BY PaidType, PaidSame DEF Backed, Typed
  <1> QED
    BY <1>1, <1>2, <1>3, <1>4, BackingStays DEF HasEntry

(* A request that ends keeps what is backed.                                  *)
LEMMA RestKeeps ==
    ASSUME Backed, NEW s \in Sessions, Done(s), UNCHANGED <<docs, entries, payments, batches>>
    PROVE  Backed'
  <1>1. RequestIsBacked(Idle) /\ Idle.op # "sync"
    BY DEF RequestIsBacked, Idle
  <1> QED
    BY <1>1, RequestKeeps DEF Done

\* What reads begin: each request is backed by what it has just read.
LEMMA ReadsKeep ==
    ASSUME Backed, NEW s \in Sessions, NEW e \in Entries,
           \/ \E status \in FormStatuses : ReadForUpdate(s, e, status)
           \/ ReadForDelete(s, e)
           \/ \E amount \in 1..Total : ReadForPayment(s, e, amount)
           \/ ReadForSync(s, e)
    PROVE  Backed'
  <1>0. HasEntry(e) => entries[e] \in Entry
    BY DEF Backed, Typed, TypeOK, HasEntry
  <1>1. ASSUME NEW status \in FormStatuses, ReadForUpdate(s, e, status) PROVE Backed'
    <2> DEFINE r == [op |-> "update", entry |-> e, status |-> status]
    <2>1. r \in Request /\ r.op = "update"
      BY FormAssumption DEF Request
    <2>2. RequestIsBacked(r)
      BY DEF RequestIsBacked
    <2>3. session' = [session EXCEPT ![s] = r] /\ UNCHANGED <<docs, entries, payments, batches>>
      BY <1>1 DEF ReadForUpdate, Start
    <2> HIDE DEF r
    <2> QED
      BY <2>1, <2>2, <2>3, RequestKeeps
  <1>2. CASE ReadForDelete(s, e)
    <2> DEFINE r == [op |-> "delete", entry |-> e]
    <2>1. r \in Request /\ r.op = "delete"
      BY DEF Request
    <2>2. RequestIsBacked(r)
      BY <1>2 DEF RequestIsBacked, ReadForDelete, HasEntry
    <2>3. session' = [session EXCEPT ![s] = r] /\ UNCHANGED <<docs, entries, payments, batches>>
      BY <1>2 DEF ReadForDelete, Start
    <2> HIDE DEF r
    <2> QED
      BY <2>1, <2>2, <2>3, RequestKeeps
  <1>3. ASSUME NEW amount \in 1..Total, ReadForPayment(s, e, amount) PROVE Backed'
    <2> DEFINE r == [op |-> "pay", entry |-> e, amount |-> amount, paid |-> entries[e].paid]
    <2>1. HasEntry(e)
      BY <1>3 DEF ReadForPayment
    <2>2. r \in Request /\ r.op = "pay"
      BY <1>0, <2>1 DEF Request, Entry
    <2>3. RequestIsBacked(r)
      BY <2>1 DEF Backed, RequestIsBacked, PaidSoFar, PaidIsBacked
    <2>4. session' = [session EXCEPT ![s] = r] /\ UNCHANGED <<docs, entries, payments, batches>>
      BY <1>3 DEF ReadForPayment, Start
    <2> HIDE DEF r
    <2> QED
      BY <2>2, <2>3, <2>4, RequestKeeps
  <1>4. CASE ReadForSync(s, e)
    <2> DEFINE paid == IF HasEntry(e) THEN entries[e].paid ELSE 0
               r == [op |-> "sync", doc |-> e, paid |-> paid, status |-> StatusFromPayment(e, paid)]
    <2>1. HasDoc(e) /\ docs[e] \in Doc
      BY <1>4 DEF ReadForSync, HasDoc, Backed, Typed, TypeOK
    <2>2. paid \in Nat
      BY <1>0 DEF Entry
    <2>3. paid <= PaidIn(e) \/ entries[e] = Removed
      BY PaidType DEF Backed, Typed, PaidIsBacked
    <2>4. session' = [session EXCEPT ![s] = r] /\ UNCHANGED <<docs, entries, payments, batches>>
      BY <1>4 DEF ReadForSync, Start
    <2> HIDE DEF paid
    <2>5. StatusFromPayment(e, paid) \in DocStatuses
      BY <2>1 DEF StatusFromPayment, DocStatuses, Doc
    <2>6. r \in Request /\ r.op = "sync" /\ r.doc = e
      BY <2>2, <2>5 DEF Request
    <2>7. RequestIsBacked(r)
      BY <2>3 DEF RequestIsBacked, PaidSoFar
    <2> HIDE DEF r
    <2> QED
      BY <2>1, <2>4, <2>6, <2>7, RequestKeeps DEF HasDoc
  <1> QED
    BY <1>1, <1>2, <1>3, <1>4

\* The documents' steps open entries nothing was paid on, and leave what was paid on the others.
LEMMA DocumentsKeep ==
    ASSUME Backed, NEW d \in Entries,
           \/ \E amount \in {Total, -Total} : InvoiceDocument(d, amount)
           \/ CancelDocument(d)
           \/ \E status \in {"paid", "partially_paid"} : MarkPaid(d, status)
    PROVE  Backed'
  <1>1. Typed
    BY DEF Backed
  <1>2. /\ docs' \in [Entries -> Doc \cup {Absent}] /\ entries' \in [Entries -> Entry \cup {Absent, Removed}]
        /\ \A e \in Entries : docs[e] # Absent => docs'[e] # Absent
        /\ \A e \in Entries : \/ entries'[e] = entries[e]
                              \/ entries'[e] \in Entry /\ entries[e] = Absent /\ entries'[e].paid = 0
                              \/ entries'[e] \in Entry /\ HasEntry(e) /\ entries'[e].paid = entries[e].paid
        /\ UNCHANGED <<payments, batches, session>>
    BY <1>1, DocumentSteps
  <1>3. Typed'
    BY <1>1, <1>2, DocsStay DEF Typed, TypeOK
  <1>4. \A e \in Entries : PaidIn(e) \in Nat /\ PaidIn(e)' = PaidIn(e)
    BY <1>1, <1>2, PaidType, PaidSame DEF Typed
  <1>5. \A e \in Entries : /\ entries[e] # Absent => entries'[e] # Absent
                           /\ entries'[e] # Removed => entries[e] # Removed /\ PaidIn(e) <= PaidIn(e)'
    BY <1>2, <1>4, RowsOrNot DEF HasEntry
  <1>6. \A e \in Entries : HasEntry(e)' => \/ HasEntry(e) /\ entries'[e].paid = entries[e].paid
                                           \/ entries'[e].paid <= PaidIn(e)'
    <2> SUFFICES ASSUME NEW e \in Entries, HasEntry(e)'
                 PROVE  \/ HasEntry(e) /\ entries'[e].paid = entries[e].paid
                        \/ entries'[e].paid <= PaidIn(e)'
      OBVIOUS
    <2>1. PaidIn(e) >= 0 /\ PaidIn(e)' = PaidIn(e)
      BY <1>4
    <2>2. entries'[e] = entries[e] => HasEntry(e)
      BY DEF HasEntry
    <2> QED
      BY <1>2, <2>1, <2>2
  <1> QED
    BY <1>2, <1>3, <1>5, <1>6, BackingStays

\* An entry is written, and it is not removed.
LEMMA EntryWritten ==
    ASSUME Backed, NEW e \in Entries, NEW new \in Entry, entries' = [entries EXCEPT ![e] = new],
           entries[e] # Removed, new.paid <= PaidIn(e) \/ (HasEntry(e) /\ new.paid = entries[e].paid),
           session' \in [Sessions -> Request \cup {Idle}],
           \A s \in Sessions : session'[s] = session[s] \/ session'[s].op = "idle",
           UNCHANGED <<docs, payments, batches>>
    PROVE  Backed'
  <1>1. entries'[e] = new /\ \A x \in Entries \ {e} : entries'[x] = entries[x]
    BY DEF Backed, Typed, TypeOK
  <1>2. Typed'
    <2>1. TypeOK'
      BY DEF Backed, Typed, TypeOK
    <2> QED
      BY <2>1, DocsStay DEF Backed, Typed, TypeOK
  <1>3. \A x \in Entries : PaidIn(x) \in Nat /\ PaidIn(x)' = PaidIn(x)
    BY PaidType, PaidSame DEF Backed, Typed
  <1>4. \A x \in Entries : /\ entries[x] # Absent => entries'[x] # Absent
                           /\ entries'[x] # Removed => entries[x] # Removed /\ PaidIn(x) <= PaidIn(x)'
    BY <1>1, <1>3, RowsOrNot
  <1>5. \A x \in Entries : HasEntry(x)' => \/ HasEntry(x) /\ entries'[x].paid = entries[x].paid
                                           \/ entries'[x].paid <= PaidIn(x)'
    BY <1>1, <1>3 DEF HasEntry
  <1>6. \A s \in Sessions : session'[s] = session[s] \/ RequestIsBacked(session[s])'
    BY DEF RequestIsBacked
  <1> QED
    BY <1>2, <1>4, <1>5, <1>6, BackingStays

(* A new entry has nothing paid.                                              *)
LEMMA CreateEntryKeeps ==
    ASSUME Backed, NEW e \in Entries, NEW kind \in Kinds, NEW partial \in BOOLEAN, CreateEntry(e, kind, partial)
    PROVE  Backed'
  <1> DEFINE new == NewEntry(kind, Total, partial)
  <1>1. new \in Entry /\ new.paid = 0
    BY TotalAssumption DEF NewEntry, Entry, EntryStatuses
  <1>2. entries' = [entries EXCEPT ![e] = new] /\ entries[e] = Absent /\ UNCHANGED <<docs, payments, batches, session>>
    BY DEF CreateEntry
  <1> HIDE DEF new
  <1>3. 0 <= PaidIn(e)
    BY PaidType DEF Backed, Typed
  <1> QED
    BY <1>1, <1>2, <1>3, RowsOrNot, EntryWritten DEF Backed, Typed, TypeOK

(* A change of an entry keeps its amount paid.                                *)
LEMMA UpdateEntryKeeps ==
    ASSUME Backed, NEW s \in Sessions, UpdateEntry(s)
    PROVE  Backed'
  <1>1. PICK e, status : e = session[s].entry /\ status = session[s].status
    OBVIOUS
  <1> DEFINE new == [entries[e] EXCEPT !.status = status]
  <1>2. /\ session[s].op = "update" /\ HasEntry(e) /\ entries' = [entries EXCEPT ![e].status = status]
        /\ Done(s) /\ UNCHANGED <<docs, payments, batches>>
    BY <1>1 DEF UpdateEntry
  <1>3. e \in Entries /\ status \in EntryStatuses
    BY <1>1, <1>2, RequestFields DEF Backed, Typed, TypeOK
  <1>4. entries[e] \in Entry
    BY <1>2, <1>3 DEF Backed, Typed, TypeOK, HasEntry
  <1>5. new \in Entry /\ new.paid = entries[e].paid
    BY <1>3, <1>4 DEF Entry
  <1>6. entries' = [entries EXCEPT ![e] = new]
    BY <1>2
  <1> HIDE DEF new
  <1>7. /\ session' \in [Sessions -> Request \cup {Idle}]
        /\ \A u \in Sessions : session'[u] = session[u] \/ session'[u].op = "idle"
    BY <1>2, SessionRests DEF Backed, Typed
  <1> QED
    BY <1>2, <1>3, <1>5, <1>6, <1>7, EntryWritten DEF HasEntry

(* The entry is told of a payment that is there.                              *)
LEMMA SettleEntryKeeps ==
    ASSUME Backed, NEW s \in Sessions, SettleEntry(s)
    PROVE  Backed'
  <1>1. PICK r : r = session[s]
    OBVIOUS
  <1>2. PICK e, paid, left, status :
          /\ e = r.entry /\ paid = r.paid + r.amount /\ left = Max({0, entries[e].original - paid})
          /\ status = IF entries[e].original <= paid THEN "paid" ELSE "partial"
    OBVIOUS
  <1>3. /\ r.op = "paid" /\ Done(s) /\ UNCHANGED <<docs, payments, batches>>
        /\ entries' = [entries EXCEPT ![e] = IF HasEntry(e)
                           THEN [@ EXCEPT !.paid = paid, !.outstanding = left, !.status = status] ELSE @]
    BY <1>1, <1>2 DEF SettleEntry
  <1>4. e \in Entries /\ paid \in Nat /\ RequestIsBacked(r)
    BY <1>1, <1>2, <1>3, RequestFields, TotalAssumption DEF Backed, Typed, TypeOK
  <1>5. /\ session' \in [Sessions -> Request \cup {Idle}]
        /\ \A u \in Sessions : session'[u] = session[u] \/ session'[u].op = "idle"
    BY <1>3, SessionRests DEF Backed, Typed
  <1>6. CASE HasEntry(e)
    <2> DEFINE new == [entries[e] EXCEPT !.paid = paid, !.outstanding = left, !.status = status]
    <2>1. entries[e] \in Entry
      BY <1>4, <1>6 DEF Backed, Typed, TypeOK, HasEntry
    <2>2. left \in Int
      <3>1. PICK x : x = entries[e].original - paid
        OBVIOUS
      <3>2. x \in Int
        BY <3>1, <2>1, <1>4, TotalAssumption DEF Entry
      <3>3. IsFiniteSet({0, x})
        <4>1. IsFiniteSet({0} \cup {x})
          BY FS_Singleton, FS_AddElement
        <4>2. {0, x} = {0} \cup {x}
          OBVIOUS
        <4> QED
          BY <4>1, <4>2
      <3>4. Max({0, x}) \in {0, x}
        BY <3>2, <3>3, MaxOf
      <3> QED
        BY <1>2, <3>1, <3>2, <3>4
    <2>3. status \in EntryStatuses
      BY <1>2 DEF EntryStatuses
    <2>4. new \in Entry /\ new.paid = paid
      <3>1. PICK old : old = entries[e]
        OBVIOUS
      <3>2. old \in Entry /\ paid \in Nat
        BY <2>1, <3>1, <1>4
      <3>3. /\ [old EXCEPT !.paid = paid, !.outstanding = left, !.status = status] \in Entry
            /\ [old EXCEPT !.paid = paid, !.outstanding = left, !.status = status].paid = paid
        BY <2>2, <2>3, <3>2 DEF Entry
      <3> QED
        BY <3>1, <3>3
    <2>5. entries' = [entries EXCEPT ![e] = new]
      BY <1>3, <1>6
    <2> HIDE DEF new
    <2>6. paid <= PaidIn(e)
      BY <1>2, <1>3, <1>4, <1>6 DEF RequestIsBacked, PaidSoFar, HasEntry
    <2> QED
      BY <1>3, <1>4, <1>5, <1>6, <2>4, <2>5, <2>6, EntryWritten DEF HasEntry
  <1>7. CASE ~HasEntry(e)
    <2>1. entries' = entries
      BY <1>3, <1>4, <1>7 DEF Backed, Typed, TypeOK
    <2> QED
      BY <1>3, <2>1, RestKeeps
  <1> QED
    BY <1>6, <1>7

\* The synchronisation writes what it read, which is paid for.
LEMMA SyncDocumentKeeps ==
    ASSUME Backed, NEW s \in Sessions, SyncDocument(s)
    PROVE  Backed'
  <1>1. PICK r, d : r = session[s] /\ d = r.doc
    OBVIOUS
  <1>2. /\ r.op = "sync" /\ docs' = [docs EXCEPT ![d].status = r.status, ![d].amountPaid = r.paid]
        /\ Done(s) /\ UNCHANGED <<entries, payments, batches>>
    BY <1>1 DEF SyncDocument
  <1>3. d \in Entries /\ r.status \in DocStatuses /\ r.paid \in Nat /\ docs[d] \in Doc
    <2>1. docs[d] # Absent
      BY <1>1, <1>2 DEF Backed, Typed, RequestsTyped
    <2> QED
      BY <1>1, <1>2, <2>1, RequestFields DEF Backed, Typed, TypeOK
  <1>4. docs' = [docs EXCEPT ![d] = [docs[d] EXCEPT !.status = r.status, !.amountPaid = r.paid]]
    BY <1>2, <1>3 DEF Backed, Typed, TypeOK, Doc
  <1>5. [docs[d] EXCEPT !.status = r.status, !.amountPaid = r.paid] \in Doc
    BY <1>3, DocFields
  <1>6. docs' \in [Entries -> Doc \cup {Absent}] /\ \A x \in Entries : docs[x] # Absent => docs'[x] # Absent
    BY <1>3, <1>4, <1>5, RowsOrNot DEF Backed, Typed, TypeOK
  <1>7. /\ session' \in [Sessions -> Request \cup {Idle}]
        /\ \A u \in Sessions : session'[u] = session[u] \/ session'[u].op = "idle"
    BY <1>2, SessionRests DEF Backed, Typed
  <1>8. Typed'
    BY <1>2, <1>6, <1>7, DocsStay DEF Backed, Typed, TypeOK
  <1>9. \A e \in Entries : PaidIn(e) \in Nat /\ PaidIn(e)' = PaidIn(e)
    BY <1>2, PaidType, PaidSame DEF Backed, Typed
  <1>10. \A u \in Sessions : session'[u] = session[u] \/ RequestIsBacked(session[u])'
    BY <1>7 DEF RequestIsBacked
  <1> QED
    BY <1>2, <1>8, <1>9, <1>10, BackingStays DEF HasEntry

\* The payments of an entry go with it; the others' stay.
LEMMA DeleteEntryKeeps ==
    ASSUME Backed, NEW s \in Sessions, DeleteEntry(s)
    PROVE  Backed'
  <1>1. PICK r, e : r = session[s] /\ e = r.entry
    OBVIOUS
  <1>2. /\ r.op = "delete" /\ Done(s) /\ UNCHANGED <<docs, batches>>
        /\ entries' = [entries EXCEPT ![e] = IF HasEntry(e) THEN Removed ELSE @]
        /\ payments' = [p \in Payments |-> IF HasPayment(p) /\ payments[p].entry = e THEN Removed ELSE payments[p]]
    BY <1>1 DEF DeleteEntry
  <1>3. e \in Entries /\ RequestIsBacked(r)
    BY <1>1, <1>2, RequestFields DEF Backed, Typed, TypeOK
  <1>4. entries[e] # Absent
    BY <1>1, <1>2, <1>3 DEF RequestIsBacked
  <1>5. entries'[e] = Removed /\ \A x \in Entries \ {e} : entries'[x] = entries[x]
    BY <1>2, <1>3, <1>4 DEF Backed, Typed, TypeOK, HasEntry
  <1>6. /\ session' \in [Sessions -> Request \cup {Idle}]
        /\ \A u \in Sessions : session'[u] = session[u] \/ session'[u].op = "idle"
    BY <1>2, SessionRests DEF Backed, Typed
  <1>7. Typed'
    <2>1. entries' \in [Entries -> Entry \cup {Absent, Removed}]
      BY <1>2, <1>3 DEF Backed, Typed, TypeOK
    <2>2. payments' \in [Payments -> Payment \cup {Absent, Removed}]
      BY <1>2 DEF Backed, Typed, TypeOK
    <2>3. TypeOK'
      BY <1>2, <1>6, <2>1, <2>2 DEF Backed, Typed, TypeOK
    <2> QED
      BY <1>2, <1>6, <2>3, DocsStay DEF Backed, Typed, TypeOK
  <1>8. ASSUME NEW x \in Entries \ {e} PROVE PaidIn(x)' = PaidIn(x) /\ PaidIn(x) \in Nat
    <2>1. PaidTo(x)' = PaidTo(x)
      <3>1. ASSUME NEW p \in Payments
            PROVE  (IF payments'[p] \notin {Absent, Removed} /\ payments'[p].entry = x THEN payments'[p].amount ELSE 0)
                 = (IF payments[p] \notin {Absent, Removed} /\ payments[p].entry = x THEN payments[p].amount ELSE 0)
        BY <1>2, <1>8 DEF HasPayment
      <3> QED
        BY <3>1 DEF PaidTo, HasPayment
    <2> QED
      BY <2>1, PaidType DEF PaidIn, Backed, Typed
  <1>9. \A x \in Entries : /\ entries[x] # Absent => entries'[x] # Absent
                           /\ entries'[x] # Removed => entries[x] # Removed /\ PaidIn(x) <= PaidIn(x)'
    BY <1>5, <1>8, RowsOrNot
  <1>10. \A x \in Entries : HasEntry(x)' => HasEntry(x) /\ entries'[x].paid = entries[x].paid
    BY <1>5 DEF HasEntry
  <1>11. \A u \in Sessions : session'[u] = session[u] \/ RequestIsBacked(session[u])'
    BY <1>6 DEF RequestIsBacked
  <1> QED
    BY <1>7, <1>9, <1>10, <1>11, BackingStays

\* A payment adds its amount to what backs its entry, and to what its request will write.
LEMMA InsertPaymentKeeps ==
    ASSUME Backed, NEW s \in Sessions, InsertPayment(s)
    PROVE  Backed'
  <1>1. PICK r, e, n : r = session[s] /\ e = r.entry /\ n = r.amount
    OBVIOUS
  <1>2. PICK p \in Payments : payments[p] = Absent /\ payments' = [payments EXCEPT ![p] = [entry |-> e, amount |-> n]]
    BY <1>1 DEF InsertPayment
  <1>3. /\ r.op = "pay" /\ HasEntry(e) /\ session' = [session EXCEPT ![s].op = "paid"]
        /\ UNCHANGED <<docs, entries, batches>>
    BY <1>1 DEF InsertPayment
  <1>4. e \in Entries /\ n \in 1..Total /\ n \in Nat /\ r.paid \in Nat /\ RequestIsBacked(r) /\ r \in Request \cup {Idle}
    BY <1>1, <1>3, RequestFields, TotalAssumption DEF Backed, Typed, TypeOK
  <1> DEFINE u == [op |-> "paid", entry |-> e, amount |-> n, paid |-> r.paid]
             row == [entry |-> e, amount |-> n]
  <1>5. session' = [session EXCEPT ![s] = u]
    <2>1. r \in [op: {"pay", "paid"}, entry: Entries, amount: 1..Total, paid: Nat]
      BY <1>3, <1>4 DEF Request, Idle
    <2>2. [r EXCEPT !.op = "paid"] = u
      BY <1>1, <2>1
    <2>3. session' = [session EXCEPT ![s] = [r EXCEPT !.op = "paid"]]
      BY <1>1, <1>3
    <2> QED
      BY <2>2, <2>3
  <1>6. u \in Request /\ u.op = "paid" /\ u.entry = e /\ u.paid + u.amount = r.paid + n
    BY <1>4 DEF Request
  <1>7. row \in Payment /\ row.entry = e /\ row.amount = n
    BY <1>4 DEF Payment
  <1> HIDE DEF u, row
  <1>8. /\ session' \in [Sessions -> Request \cup {Idle}]
        /\ session'[s] = u /\ \A x \in Sessions \ {s} : session'[x] = session[x]
    BY <1>5, <1>6, SessionTurns DEF Backed, Typed
  <1>9. /\ payments'[p] = row /\ \A q \in Payments \ {p} : payments'[q] = payments[q]
        /\ payments' \in [Payments -> Payment \cup {Absent, Removed}]
    BY <1>2, <1>7 DEF Backed, Typed, TypeOK, row
  <1>10. Typed'
    <2>1. TypeOK'
      BY <1>3, <1>8, <1>9 DEF Backed, Typed, TypeOK
    <2> QED
      BY <1>3, <1>6, <1>8, <2>1, DocsStay DEF Backed, Typed, TypeOK
  <1>11. ASSUME NEW x \in Entries
         PROVE  /\ PaidIn(x)' = PaidIn(x) + (IF x = e THEN n ELSE 0)
                /\ PaidIn(x) \in Nat
    <2>1. PICK f, g, m : f = PaidTo(x) /\ g = PaidTo(x)' /\ m = IF x = e THEN n ELSE 0
      OBVIOUS
    <2>2. \A q \in Payments : f[q] \in Nat
      BY <2>1, PaidType DEF Backed, Typed
    <2>3. \A q \in Payments \ {p} : g[q] = f[q]
      BY <2>1, <1>9 DEF PaidTo, HasPayment
    <2>4. f[p] = 0 /\ g[p] = m /\ m \in Nat
      <3>1. payments'[p] \notin {Absent, Removed}
        BY <1>7, <1>9, RowsOrNot
      <3> QED
        BY <2>1, <3>1, <1>2, <1>4, <1>7, <1>9 DEF PaidTo, HasPayment
    <2>5. /\ \A q \in Payments : f[q] \in Int
          /\ g[p] \in Int
      BY <2>2, <2>4
    <2>6. SumOver(g, Payments) = SumOver(f, Payments) + (g[p] - f[p])
      BY <2>3, <2>5, SumChange, TablesAssumption
    <2>7. SumOver(f, Payments) \in Nat
      BY <2>2, SumNat, TablesAssumption
    <2> QED
      BY <2>1, <2>4, <2>6, <2>7 DEF PaidIn
  <1>12. \A x \in Entries : /\ entries[x] # Absent => entries'[x] # Absent
                            /\ entries'[x] # Removed => entries[x] # Removed /\ PaidIn(x) <= PaidIn(x)'
    <2> SUFFICES ASSUME NEW x \in Entries PROVE PaidIn(x) <= PaidIn(x)'
      BY <1>3
    <2>1. PICK k, m : k = PaidIn(x) /\ m = IF x = e THEN n ELSE 0
      OBVIOUS
    <2>2. k \in Nat /\ m \in Nat /\ PaidIn(x)' = k + m
      BY <1>4, <1>11, <2>1
    <2>3. k <= k + m
      BY <2>2
    <2> QED
      BY <2>1, <2>2, <2>3
  <1>13. \A x \in Entries : HasEntry(x)' => HasEntry(x) /\ entries'[x].paid = entries[x].paid
    BY <1>3 DEF HasEntry
  <1>14. RequestIsBacked(session[s])'
    <2>1. r.paid <= PaidIn(e)
      BY <1>1, <1>3, <1>4 DEF RequestIsBacked, PaidSoFar, HasEntry
    <2>2. PICK k : k = PaidIn(e)
      OBVIOUS
    <2>3. PaidIn(e)' = k + n /\ k \in Nat
      BY <1>4, <1>11, <2>2
    <2>4. r.paid + n <= k + n
      BY <1>4, <2>1, <2>2, <2>3
    <2> QED
      BY <1>6, <1>8, <2>3, <2>4 DEF RequestIsBacked, PaidSoFar
  <1> QED
    BY <1>8, <1>10, <1>12, <1>13, <1>14, BackingStays

--------------------------------------------------------------------------------
\* Allocations.

SplitFits(r) ==
    r.op \in {"allocate", "deleted"} =>
        /\ payments[r.payment] # Absent
        /\ HasPayment(r.payment) => SplitTotal(r.split) <= payments[r.payment].amount
        /\ BatchesOf(r.payment) \subseteq IF r.op = "allocate" THEN r.seen ELSE r.doomed

OneAllocates == \A s, u \in Allocators : s = u

AllocationsHold ==
    /\ AllocationsFitPayment
    /\ \A b \in Batches : batches[b] # Absent => payments[batches[b].payment] # Absent
    /\ \A s \in Sessions : session[s].op \in {"allocate", "deleted"} => s \in Allocators
    /\ \A s \in Sessions : SplitFits(session[s])

(* What a split allocates is a number.                                        *)
LEMMA SplitType == ASSUME NEW split \in Split PROVE SplitTotal(split) \in Nat
  <1>1. \A e \in Entries : split[e] \in Nat
    BY TotalAssumption DEF Split
  <1> QED
    BY <1>1, SumNat, TablesAssumption DEF SplitTotal

(* What is allocated from a payment is a number.                              *)
LEMMA AllocatedType ==
    ASSUME TypeOK, NEW p
    PROVE  /\ \A b \in Batches : AllocatedFrom(p)[b] \in Nat
           /\ SumOver(AllocatedFrom(p), Batches) \in Nat
  <1>1. \A b \in Batches : batches[b] # Absent => SplitTotal(batches[b].split) \in Nat
    BY SplitType DEF TypeOK, Batch
  <1>2. \A b \in Batches : AllocatedFrom(p)[b] \in Nat
    BY <1>1 DEF AllocatedFrom, BatchesOf
  <1> QED
    BY <1>2, SumNat, TablesAssumption

\* Batches shrink or go, payments come or go: what is allocated fits as it did.
LEMMA AllocationsStay ==
    ASSUME TypeOK, TypeOK', AllocationsHold,
           \A b \in Batches : batches'[b] # Absent =>
               /\ batches[b] # Absent /\ batches'[b].payment = batches[b].payment
               /\ SplitTotal(batches'[b].split) <= SplitTotal(batches[b].split),
           \A p \in Payments : /\ payments[p] # Absent => payments'[p] # Absent
                               /\ HasPayment(p)' => \/ payments[p] = Absent
                                                    \/ HasPayment(p) /\ payments'[p].amount = payments[p].amount,
           \A s \in Sessions : session'[s] = session[s] \/ session'[s].op \notin {"allocate", "deleted"}
    PROVE  AllocationsHold'
  <1>1. \A b \in Batches : batches'[b] # Absent => SplitTotal(batches'[b].split) \in Nat /\ batches'[b].payment \in Payments
    BY SplitType DEF TypeOK, Batch
  <1>2. \A b \in Batches : batches[b] # Absent => SplitTotal(batches[b].split) \in Nat /\ batches[b].payment \in Payments
    BY SplitType DEF TypeOK, Batch
  <1>3. \A p : BatchesOf(p)' \subseteq BatchesOf(p)
    BY DEF BatchesOf
  <1>4. AllocationsFitPayment'
    <2> SUFFICES ASSUME NEW p \in Payments, HasPayment(p)'
                 PROVE  SumOver(AllocatedFrom(p)', Batches) <= payments'[p].amount
      BY DEF AllocationsFitPayment
    <2>1. PICK f, g : f = AllocatedFrom(p) /\ g = AllocatedFrom(p)'
      OBVIOUS
    <2>2. \A b \in Batches : f[b] \in Nat
      BY <2>1, AllocatedType
    <2>3. \A b \in Batches : g[b] \in Nat /\ g[b] <= f[b]
      BY <2>1, <2>2, <1>1, <1>2 DEF AllocatedFrom, BatchesOf
    <2>4. SumOver(g, Batches) <= SumOver(f, Batches)
      BY <2>2, <2>3, SumMonotone, TablesAssumption
    <2>5. SumOver(f, Batches) \in Nat /\ SumOver(g, Batches) \in Nat
      BY <2>2, <2>3, SumNat, TablesAssumption
    <2>6. payments'[p].amount \in Nat
      BY TotalAssumption DEF TypeOK, HasPayment, Payment
    <2>7. CASE payments[p] = Absent
      <3>1. \A b \in Batches : f[b] = 0
        BY <2>1, <2>7 DEF AllocationsHold, AllocatedFrom, BatchesOf
      <3>2. SumOver(f, Batches) = 0
        BY <3>1, SumZero, TablesAssumption
      <3> QED
        BY <2>1, <2>4, <2>5, <2>6, <3>2
    <2>8. CASE HasPayment(p) /\ payments'[p].amount = payments[p].amount
      <3>1. SumOver(f, Batches) <= payments'[p].amount
        BY <2>1, <2>8 DEF AllocationsHold, AllocationsFitPayment
      <3> QED
        BY <2>1, <2>4, <2>5, <2>6, <3>1
    <2> QED
      BY <2>7, <2>8
  <1>5. \A b \in Batches : batches'[b] # Absent => payments'[batches'[b].payment] # Absent
    BY <1>1, <1>2 DEF AllocationsHold
  <1>6. ASSUME NEW s \in Sessions PROVE SplitFits(session[s])'
    <2>1. CASE session'[s].op \notin {"allocate", "deleted"}
      BY <2>1 DEF SplitFits
    <2>2. CASE session'[s] = session[s] /\ session[s].op \in {"allocate", "deleted"}
      <3>1. SplitFits(session[s]) /\ session[s].payment \in Payments
        BY <2>2, RequestFields DEF AllocationsHold, TypeOK
      <3> QED
        BY <2>2, <3>1, <1>3 DEF SplitFits
    <2> QED
      BY <2>1, <2>2
  <1>7. \A s \in Sessions : session'[s].op \in {"allocate", "deleted"} => s \in Allocators
    BY DEF AllocationsHold
  <1> QED
    BY <1>4, <1>5, <1>6, <1>7 DEF AllocationsHold

\* Batches change, and nothing else.
LEMMA BatchesChange ==
    ASSUME Backed, batches' \in [Batches -> Batch \cup {Absent}],
           session' \in [Sessions -> Request \cup {Idle}],
           \A s \in Sessions : session'[s] = session[s] \/ session'[s].op = "idle",
           UNCHANGED <<docs, entries, payments>>
    PROVE  Backed'
  <1>1. Typed'
    <2>1. TypeOK'
      BY DEF Backed, Typed, TypeOK
    <2> QED
      BY <2>1, DocsStay DEF Backed, Typed, TypeOK
  <1>2. \A e \in Entries : PaidIn(e) \in Nat /\ PaidIn(e)' = PaidIn(e)
    BY PaidType, PaidSame DEF Backed, Typed
  <1>3. \A u \in Sessions : session'[u] = session[u] \/ RequestIsBacked(session[u])'
    BY DEF RequestIsBacked
  <1> QED
    BY <1>1, <1>2, <1>3, BackingStays DEF HasEntry

\* A session that allocates changes its request alone: what it holds fits and covers the batches there are.
LEMMA AllocatorTurns ==
    ASSUME TypeOK, AllocationsHold, NEW s \in Allocators, NEW r \in Request, session' = [session EXCEPT ![s] = r],
           r.op \in {"allocate", "deleted"}, SplitFits(r), UNCHANGED <<docs, entries, payments, batches>>
    PROVE  AllocationsHold'
  <1>1. session'[s] = r /\ \A u \in Sessions \ {s} : session'[u] = session[u]
    BY AllocatorsAssumption, SessionTurns
  <1>2. AllocationsFitPayment'
    BY DEF AllocationsHold, AllocationsFitPayment, HasPayment, AllocatedFrom, BatchesOf
  <1>3. SplitFits(session[s])'
    BY <1>1 DEF SplitFits, HasPayment, BatchesOf
  <1>4. \A u \in Sessions \ {s} : SplitFits(session[u])'
    BY <1>1 DEF AllocationsHold, SplitFits, HasPayment, BatchesOf
  <1> QED
    BY <1>1, <1>2, <1>3, <1>4 DEF AllocationsHold

(* A replacement begins with all the batches of its payment.                  *)
LEMMA ReadForAllocationKeeps ==
    ASSUME Backed, NEW s \in Allocators, NEW p \in Payments, NEW split \in Split, ReadForAllocation(s, p, split)
    PROVE  Backed' /\ (AllocationsHold => AllocationsHold')
  <1> DEFINE r == [op |-> "allocate", payment |-> p, split |-> split, seen |-> BatchesOf(p)]
  <1>1. r \in Request /\ r.op = "allocate"
    BY DEF Request, BatchesOf
  <1>2. session' = [session EXCEPT ![s] = r] /\ UNCHANGED <<docs, entries, payments, batches>>
    BY DEF ReadForAllocation, Start
  <1>3. SplitFits(r)
    BY DEF SplitFits, ReadForAllocation, HasPayment
  <1> HIDE DEF r
  <1> QED
    BY <1>1, <1>2, <1>3, AllocatorsAssumption, RequestKeeps, AllocatorTurns DEF RequestIsBacked, Backed, Typed

(* A replacement deletes the batches it read.                                 *)
LEMMA DeleteOldKeeps ==
    ASSUME Backed, NEW s \in Allocators, DeleteOld(s)
    PROVE  Backed' /\ (AllocationsHold => AllocationsHold')
  <1>1. PICK old : old = session[s]
    OBVIOUS
  <1> DEFINE r == [op |-> "deleted", payment |-> old.payment, split |-> old.split,
                   doomed |-> old.seen \cap BatchesOf(old.payment)]
  <1>2. /\ old.op = "allocate" /\ session' = [session EXCEPT ![s] = r]
        /\ UNCHANGED <<docs, entries, payments, batches>>
    BY <1>1 DEF DeleteOld
  <1>3. old.payment \in Payments /\ old.split \in Split /\ (AllocationsHold => SplitFits(old))
    BY <1>1, <1>2, AllocatorsAssumption, RequestFields DEF Backed, Typed, TypeOK, AllocationsHold
  <1>4. r \in Request /\ r.op = "deleted"
    BY <1>3 DEF Request, BatchesOf
  <1>5. AllocationsHold => SplitFits(r)
    BY <1>2, <1>3 DEF SplitFits
  <1> HIDE DEF r
  <1> QED
    BY <1>2, <1>4, <1>5, AllocatorsAssumption, RequestKeeps, AllocatorTurns DEF RequestIsBacked, Backed, Typed

\* The new batch takes the place of all there were: no other session allocates.
LEMMA InsertNewKeeps ==
    ASSUME Backed, NEW s \in Allocators, InsertNew(s)
    PROVE  Backed' /\ (AllocationsHold /\ OneAllocates => AllocationsHold')
  <1>1. PICK r, p : r = session[s] /\ p = r.payment
    OBVIOUS
  <1>2. PICK b \in Batches :
          /\ batches[b] = Absent
          /\ batches' = [c \in Batches |->
                CASE c \in r.doomed -> Absent
                  [] c = b /\ SplitTotal(r.split) > 0 -> [payment |-> p, split |-> r.split]
                  [] OTHER -> batches[c]]
    BY <1>1 DEF InsertNew
  <1>3. r.op = "deleted" /\ Done(s) /\ UNCHANGED <<docs, entries, payments>> /\ s \in Sessions
    BY <1>1, AllocatorsAssumption DEF InsertNew
  <1>4. p \in Payments /\ r.split \in Split
    BY <1>1, <1>3, RequestFields DEF Backed, Typed, TypeOK
  <1>5. /\ session' \in [Sessions -> Request \cup {Idle}]
        /\ session'[s].op = "idle" /\ \A u \in Sessions \ {s} : session'[u] = session[u]
    BY <1>3, SessionRests DEF Backed, Typed
  <1>6. PICK new : new = [payment |-> p, split |-> r.split]
    OBVIOUS
  <1>7. new \in Batch /\ new.payment = p /\ new.split = r.split /\ SplitTotal(r.split) \in Nat
    BY <1>4, <1>6, SplitType DEF Batch
  <1>8. \A c \in Batches : \/ batches'[c] = Absent
                           \/ c = b /\ batches'[c] = new
                           \/ c \notin r.doomed /\ batches'[c] = batches[c]
    BY <1>2, <1>6
  <1>9. batches' \in [Batches -> Batch \cup {Absent}]
    BY <1>2, <1>7, <1>8 DEF Backed, Typed, TypeOK
  <1>10. Backed'
    BY <1>3, <1>5, <1>9, BatchesChange
  <1> SUFFICES ASSUME AllocationsHold, OneAllocates PROVE AllocationsHold'
    BY <1>10
  <1>11. SplitFits(r) /\ BatchesOf(p) \subseteq r.doomed
    BY <1>1, <1>3, <1>4 DEF AllocationsHold, SplitFits
  <1>12. AllocationsFitPayment'
    <2> SUFFICES ASSUME NEW q \in Payments, HasPayment(q)'
                 PROVE  SumOver(AllocatedFrom(q)', Batches) <= payments[q].amount
      BY <1>3 DEF AllocationsFitPayment
    <2>0. HasPayment(q)
      BY <1>3 DEF HasPayment
    <2>1. PICK f, g : f = AllocatedFrom(q) /\ g = AllocatedFrom(q)'
      OBVIOUS
    <2>2. (\A c \in Batches : f[c] \in Nat) /\ SumOver(f, Batches) \in Nat
      BY <2>1, AllocatedType DEF Backed, Typed
    <2>3. SumOver(f, Batches) <= payments[q].amount /\ payments[q].amount \in Nat
      BY <2>0, <2>1, TotalAssumption DEF AllocationsHold, AllocationsFitPayment, Backed, Typed, TypeOK, HasPayment, Payment
    <2>4. CASE q # p
      <3>1. \A c \in Batches : g[c] \in {0, f[c]}
        BY <2>1, <2>4, <1>7, <1>8 DEF AllocatedFrom, BatchesOf
      <3>2. \A c \in Batches : f[c] \in Int /\ g[c] \in Int /\ g[c] <= f[c]
        BY <2>2, <3>1
      <3>3. SumOver(g, Batches) <= SumOver(f, Batches)
        BY <3>2, SumMonotone, TablesAssumption
      <3>4. SumOver(g, Batches) \in Int
        BY <3>2, SumType, TablesAssumption
      <3> QED
        BY <2>1, <2>2, <2>3, <3>3, <3>4
    <2>5. CASE q = p
      <3>1. PICK m \in Nat : m = SplitTotal(r.split)
        BY <1>7
      <3>2. m <= payments[q].amount
        BY <3>1, <2>0, <2>5, <1>1, <1>3, <1>11 DEF SplitFits
      <3>3. \A c \in Batches \ {b} : g[c] = 0
        BY <2>1, <2>5, <1>8, <1>11 DEF AllocatedFrom, BatchesOf
      <3>4. g[b] \in {0, m}
        BY <2>1, <2>5, <3>1, <1>7, <1>8, <1>2 DEF AllocatedFrom, BatchesOf
      <3>5. SumOver(g, Batches) = g[b]
        BY <3>3, <3>4, SumOne, TablesAssumption
      <3> QED
        BY <2>1, <2>3, <3>2, <3>4, <3>5
    <2> QED
      BY <2>4, <2>5
  <1>13. \A c \in Batches : batches'[c] # Absent => payments'[batches'[c].payment] # Absent
    BY <1>1, <1>3, <1>11, <1>7, <1>8 DEF AllocationsHold, SplitFits
  <1>14. \A u \in Sessions : session'[u].op \notin {"allocate", "deleted"}
    BY <1>3, <1>5 DEF AllocationsHold, OneAllocates
  <1>15. (\A u \in Sessions : SplitFits(session[u])') /\ \A u \in Sessions : session'[u].op \in {"allocate", "deleted"} => u \in Allocators
    BY <1>14 DEF SplitFits
  <1> QED
    BY <1>12, <1>13, <1>15 DEF AllocationsHold

\* A part of a batch that is taken out leaves less.
LEMMA RemoveAllocationKeeps ==
    ASSUME Backed, NEW b \in Batches, NEW e \in Entries, RemoveAllocation(b, e)
    PROVE  Backed' /\ (AllocationsHold => AllocationsHold')
  <1>1. batches[b] # Absent /\ batches[b] \in Batch
    BY DEF RemoveAllocation, Backed, Typed, TypeOK
  <1>2. PICK old, p, f : old = batches[b] /\ p = old.payment /\ f = old.split
    OBVIOUS
  <1>3. old = [payment |-> p, split |-> f] /\ p \in Payments /\ f \in Split
    BY <1>1, <1>2 DEF Batch
  <1> DEFINE g == [f EXCEPT ![e] = 0]
             new == [payment |-> p, split |-> g]
  <1>4. g \in Split
    BY <1>3, TotalAssumption DEF Split
  <1>5. new \in Batch /\ new.payment = p /\ new.split = g
    BY <1>3, <1>4 DEF Batch
  <1>6. UNCHANGED <<docs, entries, payments, session>>
    BY DEF RemoveAllocation
  <1>7. batches' = [batches EXCEPT ![b] = IF \A x \in Entries \ {e} : f[x] = 0 THEN Absent ELSE new]
    <2>1. [old EXCEPT !.split[e] = 0] = new
      BY <1>3
    <2> HIDE DEF new
    <2>2. batches' = [batches EXCEPT ![b] = IF \A x \in Entries \ {e} : f[x] = 0 THEN Absent
                                            ELSE [old EXCEPT !.split[e] = 0]]
      BY <1>2 DEF RemoveAllocation
    <2> QED
      BY <2>1, <2>2
  <1>8. SplitTotal(g) <= SplitTotal(f)
    <2>1. \A x \in Entries : f[x] \in Int /\ g[x] \in Int /\ g[x] <= f[x]
      BY <1>3, TotalAssumption DEF Split
    <2> HIDE DEF g
    <2> QED
      BY <2>1, SumMonotone, TablesAssumption DEF SplitTotal
  <1> HIDE DEF new, g
  <1>9. batches'[b] \in {Absent, new} /\ \A c \in Batches \ {b} : batches'[c] = batches[c]
    BY <1>7 DEF Backed, Typed, TypeOK
  <1>10. batches' \in [Batches -> Batch \cup {Absent}]
    BY <1>5, <1>7 DEF Backed, Typed, TypeOK
  <1>11. Backed'
    BY <1>6, <1>10, BatchesChange DEF Backed, Typed, TypeOK
  <1>12. \A c \in Batches : batches[c] # Absent => SplitTotal(batches[c].split) \in Nat
    BY SplitType DEF Backed, Typed, TypeOK, Batch
  <1>13. \A c \in Batches : batches'[c] # Absent =>
            /\ batches[c] # Absent /\ batches'[c].payment = batches[c].payment
            /\ SplitTotal(batches'[c].split) <= SplitTotal(batches[c].split)
    BY <1>1, <1>2, <1>5, <1>8, <1>9, <1>12
  <1>14. TypeOK'
    BY <1>11 DEF Backed, Typed
  <1> QED
    BY <1>6, <1>11, <1>13, <1>14, AllocationsStay DEF Backed, Typed, HasPayment

--------------------------------------------------------------------------------
\* The steps of the component.

\* Steps that touch no payment, no batch and no request that allocates.
LEMMA NothingAllocated ==
    ASSUME TypeOK, TypeOK', AllocationsHold, UNCHANGED <<payments, batches>>,
           \A s \in Sessions : session'[s] = session[s] \/ session'[s].op \notin {"allocate", "deleted"}
    PROVE  AllocationsHold'
  <1>1. \A b \in Batches : batches[b] # Absent => SplitTotal(batches[b].split) \in Nat
    BY SplitType DEF TypeOK, Batch
  <1>2. \A b \in Batches : batches'[b] # Absent =>
           /\ batches[b] # Absent /\ batches'[b].payment = batches[b].payment
           /\ SplitTotal(batches'[b].split) <= SplitTotal(batches[b].split)
    BY <1>1
  <1> QED
    BY <1>2, AllocationsStay DEF HasPayment

\* What entries, payments and documents do, but for the allocations.
PaymentStep ==
    \/ \E d \in Entries :
        \/ \E amount \in {Total, -Total} : InvoiceDocument(d, amount)
        \/ CancelDocument(d)
        \/ \E status \in {"paid", "partially_paid"} : MarkPaid(d, status)
    \/ \E e \in Entries, kind \in Kinds, partial \in BOOLEAN : CreateEntry(e, kind, partial)
    \/ \E s \in Sessions : EntryStep(s) \/ Abort(s)

(* Everything but the allocations keeps what is backed.                       *)
LEMMA PaymentStepBacks ==
    ASSUME Backed, PaymentStep
    PROVE  Backed'
  <1>1. ASSUME NEW s \in Sessions, EntryStep(s) PROVE Backed'
    BY <1>1, ReadsKeep, UpdateEntryKeeps, DeleteEntryKeeps, InsertPaymentKeeps, SettleEntryKeeps, SyncDocumentKeeps
       DEF EntryStep
  <1>2. ASSUME NEW s \in Sessions, Abort(s) PROVE Backed'
    BY <1>2, RestKeeps DEF Abort
  <1> QED
    BY <1>1, <1>2, DocumentsKeep, CreateEntryKeeps DEF PaymentStep

(* Everything but the allocations keeps the allocations of a payment within   *)
(* it.                                                                        *)
LEMMA PaymentStepAllocates ==
    ASSUME Backed, Backed', AllocationsHold, PaymentStep
    PROVE  AllocationsHold'
  <1>0. TypeOK /\ TypeOK' /\ Typed /\ \A s \in Sessions : session[s] \in Request \cup {Idle}
    BY DEF Backed, Typed, TypeOK
  <1>1. ASSUME NEW d \in Entries,
               \/ \E amount \in {Total, -Total} : InvoiceDocument(d, amount)
               \/ CancelDocument(d)
               \/ \E status \in {"paid", "partially_paid"} : MarkPaid(d, status)
        PROVE  AllocationsHold'
    <2>1. UNCHANGED <<payments, batches, session>>
      BY <1>1 DEF InvoiceDocument, CancelDocument, MarkPaid
    <2> QED
      BY <1>0, <2>1, NothingAllocated
  <1>2. ASSUME NEW e \in Entries, NEW kind \in Kinds, NEW partial \in BOOLEAN, CreateEntry(e, kind, partial)
        PROVE  AllocationsHold'
    <2>1. UNCHANGED <<payments, batches, session>>
      BY <1>2 DEF CreateEntry
    <2> QED
      BY <1>0, <2>1, NothingAllocated
  <1>3. ASSUME NEW s \in Sessions, NEW e \in Entries,
               \/ \E status \in FormStatuses : ReadForUpdate(s, e, status)
               \/ ReadForDelete(s, e)
               \/ \E amount \in 1..Total : ReadForPayment(s, e, amount)
               \/ ReadForSync(s, e)
        PROVE  AllocationsHold'
    <2>1. PICK r : /\ session' = [session EXCEPT ![s] = r] /\ r.op \in {"update", "delete", "pay", "sync"}
                   /\ UNCHANGED <<payments, batches>>
      BY <1>3 DEF ReadForUpdate, ReadForDelete, ReadForPayment, ReadForSync, Start
    <2>2. session'[s] = r /\ \A u \in Sessions \ {s} : session'[u] = session[u]
      BY <1>0, <2>1 DEF TypeOK
    <2> QED
      BY <1>0, <2>1, <2>2, NothingAllocated
  <1>4. ASSUME NEW s \in Sessions, UpdateEntry(s) \/ SettleEntry(s) \/ SyncDocument(s) \/ Abort(s)
        PROVE  AllocationsHold'
    <2>1. Done(s) /\ UNCHANGED <<payments, batches>>
      BY <1>4 DEF UpdateEntry, SettleEntry, SyncDocument, Abort
    <2> QED
      BY <1>0, <2>1, SessionRests, NothingAllocated
  <1>5. ASSUME NEW s \in Sessions, InsertPayment(s) PROVE AllocationsHold'
    <2>0. PICK p \in Payments : payments[p] = Absent /\ payments' = [payments EXCEPT
             ![p] = [entry |-> session[s].entry, amount |-> session[s].amount]]
      BY <1>5 DEF InsertPayment
    <2>1. PICK row : /\ payments[p] = Absent /\ payments' = [payments EXCEPT ![p] = row]
                     /\ DOMAIN row = {"entry", "amount"}
      <3>1. DOMAIN [entry |-> session[s].entry, amount |-> session[s].amount] = {"entry", "amount"}
        OBVIOUS
      <3> QED
        BY <2>0, <3>1
    <2>2. session[s].op = "pay" /\ session' = [session EXCEPT ![s].op = "paid"] /\ batches' = batches
      BY <1>5 DEF InsertPayment
    <2>3. \A u \in Sessions : session'[u] = session[u] \/ session'[u].op = "paid"
      <3>1. session[s] \in [op: {"pay", "paid"}, entry: Entries, amount: 1..Total, paid: Nat]
        BY <1>0, <2>2 DEF Request, Idle
      <3> QED
        BY <1>0, <2>2, <3>1 DEF TypeOK
    <2>4. DOMAIN Absent = {"status"}
      BY DEF Absent
    <2>5. payments'[p] = row /\ row # Absent /\ \A q \in Payments \ {p} : payments'[q] = payments[q]
      BY <1>0, <2>1, <2>4 DEF TypeOK
    <2>6. \A b \in Batches : batches[b] # Absent => SplitTotal(batches[b].split) \in Nat
      BY <1>0, SplitType DEF TypeOK, Batch
    <2> QED
      BY <1>0, <2>1, <2>2, <2>3, <2>5, <2>6, AllocationsStay DEF HasPayment
  <1>6. ASSUME NEW s \in Sessions, DeleteEntry(s) PROVE AllocationsHold'
    <2>1. PICK e : payments' = [p \in Payments |-> IF HasPayment(p) /\ payments[p].entry = e THEN Removed ELSE payments[p]]
      BY <1>6 DEF DeleteEntry
    <2>2. Done(s) /\ batches' = batches
      BY <1>6 DEF DeleteEntry
    <2>3. \A p \in Payments : payments'[p] = Removed \/ payments'[p] = payments[p]
      BY <2>1
    <2>4. \A p \in Payments : /\ payments[p] # Absent => payments'[p] # Absent
                              /\ HasPayment(p)' => HasPayment(p) /\ payments'[p].amount = payments[p].amount
      BY <2>3, RowsOrNot DEF HasPayment
    <2>5. \A b \in Batches : batches[b] # Absent => SplitTotal(batches[b].split) \in Nat
      BY <1>0, SplitType DEF TypeOK, Batch
    <2>6. \A u \in Sessions : session'[u] = session[u] \/ session'[u].op = "idle"
      BY <1>0, <2>2, SessionRests
    <2> QED
      BY <1>0, <2>2, <2>4, <2>5, <2>6, AllocationsStay
  <1>7. ASSUME NEW s \in Sessions, EntryStep(s) PROVE AllocationsHold'
    BY <1>3, <1>4, <1>5, <1>6, <1>7 DEF EntryStep
  <1> QED
    BY <1>1, <1>2, <1>4, <1>7 DEF PaymentStep

(* Every step keeps what is backed.                                           *)
LEMMA StepBacks ==
    ASSUME Backed, [Next]_vars
    PROVE  Backed'
  <1>1. CASE UNCHANGED vars
    <2>1. Typed'
      BY <1>1 DEF vars, Backed, Typed, TypeOK, RequestsTyped
    <2>2. \A e \in Entries : PaidIn(e) \in Nat /\ PaidIn(e)' = PaidIn(e)
      BY <1>1, PaidType, PaidSame DEF vars, Backed, Typed
    <2> QED
      BY <1>1, <2>1, <2>2, BackingStays DEF vars, HasEntry
  <1>2. CASE PaymentStep
    BY <1>2, PaymentStepBacks
  <1>3. ASSUME NEW s \in Allocators, AllocationStep(s) PROVE Backed'
    BY <1>3, ReadForAllocationKeeps, DeleteOldKeeps, InsertNewKeeps DEF AllocationStep
  <1>4. ASSUME NEW b \in Batches, NEW e \in Entries, RemoveAllocation(b, e) PROVE Backed'
    BY <1>4, RemoveAllocationKeeps
  <1> QED
    BY <1>1, <1>2, <1>3, <1>4 DEF Next, PaymentStep

(* Every step of one allocating session keeps the allocations of a payment    *)
(* within it.                                                                 *)
LEMMA StepAllocates ==
    ASSUME Backed, Backed', OneAllocates, AllocationsHold, [Next]_vars
    PROVE  AllocationsHold'
  <1>1. CASE UNCHANGED vars
    BY <1>1, NothingAllocated DEF vars, Backed, Typed
  <1>2. CASE PaymentStep
    BY <1>2, PaymentStepAllocates
  <1>3. ASSUME NEW s \in Allocators, AllocationStep(s) PROVE AllocationsHold'
    BY <1>3, ReadForAllocationKeeps, DeleteOldKeeps, InsertNewKeeps DEF AllocationStep
  <1>4. ASSUME NEW b \in Batches, NEW e \in Entries, RemoveAllocation(b, e) PROVE AllocationsHold'
    BY <1>4, RemoveAllocationKeeps
  <1> QED
    BY <1>1, <1>2, <1>3, <1>4 DEF Next, PaymentStep

(* At first nothing is paid and nothing is allocated.                         *)
LEMMA InitBacks == Init => Backed /\ AllocationsHold
  <1> SUFFICES ASSUME Init PROVE Backed /\ AllocationsHold
    OBVIOUS
  <1>1. TypeOK
    <2>1. [kind: Kinds, status: {"accepted"}, amountPaid: {0}] \subseteq Doc
      BY DEF Doc, DocStatuses
    <2> QED
      BY <2>1 DEF Init, TypeOK
  <1>2. \A s \in Sessions : session[s].op = "idle"
    BY DEF Init, Idle
  <1>3. \A e \in Entries : ~HasEntry(e)
    BY DEF Init, HasEntry
  <1>4. \A p \in Payments : ~HasPayment(p)
    BY DEF Init, HasPayment
  <1>5. Backed
    BY <1>1, <1>2, <1>3 DEF Backed, Typed, RequestsTyped, PaidIsBacked, RequestIsBacked
  <1>6. AllocationsHold
    BY <1>2, <1>4 DEF Init, AllocationsHold, AllocationsFitPayment, SplitFits
  <1> QED
    BY <1>5, <1>6

(***************************************************************************)
(* Money is counted once: what an entry says was paid, it was paid, for any   *)
(* entries, payments and requests at once                                     *)
(* (receivable.repository.ts:96-122).                                         *)
(***************************************************************************)
THEOREM PaymentsStayBacked == Spec => [](TypeOK /\ PaidIsBacked)
  <1>1. Backed => TypeOK /\ PaidIsBacked
    BY DEF Backed, Typed
  <1> QED
    BY InitBacks, StepBacks, <1>1, PTL DEF Spec

(* While one session allocates, what was paid is backed by payments and what  *)
(* is allocated of a payment fits it (allocations.service.ts:84-150). Two     *)
(* sessions that replace the allocations of one payment at once both insert.  *)
THEOREM MoneyStaysBacked ==
    ASSUME OneAllocates
    PROVE  Spec => []MoneyIsBacked
  <1>1. Backed /\ AllocationsHold /\ [Next]_vars => Backed' /\ AllocationsHold'
    BY StepBacks, StepAllocates
  <1>2. Backed /\ AllocationsHold => MoneyIsBacked
    BY DEF Backed, Typed, AllocationsHold, MoneyIsBacked
  <1> QED
    BY InitBacks, <1>1, <1>2, PTL DEF Spec

(***************************************************************************)
(* A document never takes from a synchronisation more than the payments of    *)
(* its entry, for any sessions (syncDocumentPayments).                        *)
(***************************************************************************)
THEOREM SyncStaysBacked == Spec => SyncIsBacked
  <1> DEFINE A == \A s \in Sessions, d \in Entries :
          session[s] # session'[s] /\ session[s].op = "sync" /\ session[s].doc = d
          /\ docs'[d] # docs[d] /\ HasEntry(d) => docs'[d].amountPaid <= PaidIn(d)
  <1>1. Backed /\ [Next]_vars => [A]_vars
    <2> SUFFICES ASSUME Backed, [Next]_vars, NEW s \in Sessions, NEW d \in Entries,
                        session[s] # session'[s], session[s].op = "sync", session[s].doc = d,
                        docs'[d] # docs[d], HasEntry(d)
                 PROVE  docs'[d].amountPaid <= PaidIn(d)
      BY DEF vars
    <2>1. PICK u \in Sessions : SyncDocument(u)
      <3>1. docs' # docs /\ session' # session
        OBVIOUS
      <3> QED
        BY <3>1 DEF vars, Next, EntryStep, AllocationStep, InvoiceDocument, CancelDocument, MarkPaid, CreateEntry,
           ReadForUpdate, ReadForDelete, ReadForPayment, ReadForSync, UpdateEntry, DeleteEntry, InsertPayment,
           SettleEntry, Abort, ReadForAllocation, DeleteOld, InsertNew, RemoveAllocation
    <2>2. u = s
      BY <2>1, SessionRests DEF SyncDocument, Backed, Typed
    <2>3. PICK r : r = session[s]
      OBVIOUS
    <2>4. docs' = [docs EXCEPT ![d].status = r.status, ![d].amountPaid = r.paid] /\ docs[d] \in Doc
      BY <2>1, <2>2, <2>3 DEF SyncDocument, Backed, Typed, TypeOK, RequestsTyped
    <2>5. docs'[d].amountPaid = r.paid
      BY <2>4 DEF Backed, Typed, TypeOK, Doc
    <2> QED
      BY <2>3, <2>5 DEF Backed, RequestIsBacked, PaidSoFar, HasEntry
  <1> QED
    BY InitBacks, StepBacks, <1>1, PTL DEF Spec, SyncIsBacked

--------------------------------------------------------------------------------
\* Part 3. Prospecting credits.

Charged == {"look", "ask", "refund"}

\* The row a request read is one the organization had.
SawBefore(saw) ==
    saw = NoCredit \/ (saw \in CreditsRow /\ credit # NoCredit /\ saw.period <= credit.period /\ saw.quota <= peak)

RequestIsSound(r) ==
    /\ r.op = "ensure" => /\ SawBefore(r.saw) /\ r.then.op \in {"show", "quota"}
                          /\ r.then.op = "quota" => r.then.quota \in Nat
    /\ r.op = "quota" => r.quota \in Nat /\ credit # NoCredit
    /\ r.op = "consume" => SawBefore(r.saw)
    /\ r.op \in Charged => credit # NoCredit /\ r.paidIn \in Nat /\ r.paidIn <= credit.period

RowIsSound ==
    /\ month \in 0..LastMonth /\ kept \in Nat /\ clean \in BOOLEAN /\ peak \in Nat /\ DefaultQuota <= peak
    /\ credit = NoCredit \/ (credit \in CreditsRow /\ credit.period <= month /\ credit.quota <= peak)
    /\ credit = NoCredit => kept = 0

CreditsInv ==
    /\ RowIsSound /\ CreditsAgree
    /\ request = [u \in Users |-> request[u]]
    /\ \A u \in Users : RequestIsSound(request[u])

(* The cost of one call more.                                                 *)
LEMMA CostTimes ==
    ASSUME NEW n \in Nat
    PROVE  /\ Cost \in Nat /\ Cost > 0 /\ Cost * n \in Nat /\ Cost * 0 = 0
           /\ Cost * (n + 1) = Cost * n + Cost
           /\ Cost * n = 0 => n = 0
<1> PICK c \in Nat : c = Cost
  BY ProspectsAssumption
<1>1. c > 0
  BY ProspectsAssumption
<1>2. c * n \in Nat /\ c * 0 = 0 /\ c * (n + 1) = c * n + c
  OBVIOUS
<1>3. c * n = 0 => n = 0
  BY <1>1
<1> QED
  BY <1>1, <1>2, <1>3

(* Two finite sets that differ in one element at most.                        *)
LEMMA OneMoreOrLess ==
    ASSUME NEW U, NEW V, NEW u, IsFiniteSet(U), V \ {u} = U \ {u}
    PROVE  /\ IsFiniteSet(V) /\ Cardinality(U) \in Nat /\ Cardinality(V) \in Nat
           /\ u \in U /\ u \notin V => Cardinality(U) = Cardinality(V) + 1
           /\ u \notin U /\ u \in V => Cardinality(V) = Cardinality(U) + 1
           /\ (u \in U <=> u \in V) => V = U
<1>1. CASE u \in U /\ u \notin V
  <2>1. V = U \ {u} /\ V # U
    BY <1>1
  <2>2. IsFiniteSet(V) /\ Cardinality(V) = Cardinality(U) - 1
    BY <1>1, <2>1, FS_RemoveElement
  <2> QED
    BY <1>1, <2>1, <2>2, FS_CardinalityType
<1>2. CASE u \notin U /\ u \in V
  <2>1. V = U \cup {u} /\ V # U
    BY <1>2
  <2>2. IsFiniteSet(V) /\ Cardinality(V) = Cardinality(U) + 1
    BY <1>2, <2>1, FS_AddElement
  <2> QED
    BY <1>2, <2>1, <2>2, FS_CardinalityType
<1>3. CASE u \in U <=> u \in V
  <2>1. V = U
    BY <1>3
  <2> QED
    BY <1>3, <2>1, FS_CardinalityType
<1> QED
  BY <1>1, <1>2, <1>3

(* The calls under way are finitely many.                                     *)
LEMMA UnderWayIsFinite == IsFiniteSet(UnderWay)
<1>1. UnderWay \subseteq Users
  BY DEF UnderWay
<1> QED
  BY <1>1, FS_Subset, ProspectsAssumption

(* A request goes on and the others stay.                                     *)
LEMMA RequestTurns ==
    ASSUME CreditsInv, NEW u \in Users, NEW w, Go(u, w)
    PROVE  /\ request'[u] = w /\ \A v \in Users \ {u} : request'[v] = request[v]
           /\ request' = [v \in Users |-> request'[v]]
BY DEF CreditsInv, Go

(* While the month of the row stays, only the request that goes on may begin  *)
(* or end a call.                                                             *)
LEMMA UnderWayTurns ==
    ASSUME CreditsInv, NEW u \in Users, NEW w, Go(u, w), credit'.period = credit.period
    PROVE  /\ UnderWay' \ {u} = UnderWay \ {u}
           /\ u \in UnderWay <=> (request[u].op \in Charged /\ credit.period = request[u].paidIn)
           /\ u \in UnderWay' <=> (w.op \in Charged /\ credit.period = w.paidIn)
BY RequestTurns DEF UnderWay, Counted, Charged

(* A request stays sound while the row grows.                                 *)
LEMMA SoundStays ==
    ASSUME NEW r, RequestIsSound(r), peak \in Nat, peak' \in Nat, peak <= peak',
           credit # NoCredit => credit' # NoCredit /\ credit.period \in Nat
                                /\ credit'.period \in Nat /\ credit.period <= credit'.period
    PROVE  RequestIsSound(r)'
<1>1. ASSUME NEW saw, SawBefore(saw)
      PROVE  SawBefore(saw)'
  BY <1>1, ProspectsAssumption DEF SawBefore, CreditsRow
<1>2. RequestIsSound(r)' = (
        /\ r.op = "ensure" => /\ SawBefore(r.saw)' /\ r.then.op \in {"show", "quota"}
                              /\ r.then.op = "quota" => r.then.quota \in Nat
        /\ r.op = "quota" => r.quota \in Nat /\ credit' # NoCredit
        /\ r.op = "consume" => SawBefore(r.saw)'
        /\ r.op \in Charged => credit' # NoCredit /\ r.paidIn \in Nat /\ r.paidIn <= credit'.period)
  BY DEF RequestIsSound
<1>3. r.op = "ensure" \/ r.op = "consume" => SawBefore(r.saw)'
  BY <1>1 DEF RequestIsSound
<1> QED
  BY <1>2, <1>3 DEF RequestIsSound

\* The row never goes, its month and the largest quota only grow.
Grows ==
    /\ peak \in Nat /\ peak' \in Nat /\ peak <= peak'
    /\ credit # NoCredit => credit' # NoCredit /\ credit.period \in Nat
                            /\ credit'.period \in Nat /\ credit.period <= credit'.period

(* So do all of them when one goes on to a sound one.                         *)
LEMMA RequestsStaySound ==
    ASSUME CreditsInv, NEW u \in Users, NEW w, Go(u, w), Grows, RequestIsSound(w)'
    PROVE  /\ (request = [v \in Users |-> request[v]])'
           /\ (\A v \in Users : RequestIsSound(request[v]))'
<1>1. request' = [v \in Users |-> request'[v]]
  BY RequestTurns
<1>2. ASSUME NEW v \in Users
      PROVE  RequestIsSound(request[v])'
  <2> PICK r : r = request'[v]
    OBVIOUS
  <2>1. CASE v = u
    <3>1. r = w
      BY <2>1, RequestTurns
    <3>2. RequestIsSound(r)'
      BY <3>1
    <3> QED
      BY <3>2 DEF RequestIsSound, SawBefore
  <2>2. CASE v # u
    <3>1. r = request[v]
      BY <2>2, RequestTurns
    <3>2. RequestIsSound(r)
      BY <3>1 DEF CreditsInv
    <3>3. RequestIsSound(r)'
      BY <3>2, SoundStays DEF Grows
    <3> QED
      BY <3>3 DEF RequestIsSound, SawBefore
  <2> QED
    BY <2>1, <2>2
<1> QED
  BY <1>1, <1>2

\* The requests that paid a credit in the month that is.
PaidNow == {u \in Users : request[u].op \in Charged /\ request[u].paidIn = month}

(* The row of a new month is a row.                                           *)
LEMMA RowOfMonth ==
    ASSUME NEW row \in CreditsRow, NEW m \in 0..LastMonth
    PROVE  [row EXCEPT !.used = 0, !.period = m] \in CreditsRow
<1>1. [row EXCEPT !.used = 0] \in CreditsRow
  BY DEF CreditsRow
<1>2. ASSUME NEW r \in CreditsRow
      PROVE  [r EXCEPT !.period = m] \in CreditsRow
  BY DEF CreditsRow
<1>3. [[row EXCEPT !.used = 0] EXCEPT !.period = m] \in CreditsRow
  BY <1>1, <1>2
<1> QED
  BY <1>3

(* The row ensureRow leaves is of this month, and within a quota the          *)
(* organization had.                                                          *)
LEMMA EnsuredRow ==
    ASSUME CreditsInv, NEW saw, SawBefore(saw), ~Refuses(saw)
    PROVE  /\ Ensured(saw) \in CreditsRow /\ Ensured(saw) # NoCredit
           /\ Ensured(saw).period = month /\ Ensured(saw).quota <= peak /\ Ensured(saw).used <= peak
           /\ QuotaSeen(saw) \in Nat /\ QuotaSeen(saw) <= peak
           /\ month \in 0..LastMonth /\ month \in Nat /\ peak \in Nat
           /\ credit # NoCredit => credit.period \in Nat /\ credit.period <= month
<1>1. /\ month \in 0..LastMonth /\ month \in Nat /\ peak \in Nat /\ DefaultQuota \in Nat /\ DefaultQuota <= peak
      /\ LastMonth \in Nat
  BY ProspectsAssumption DEF CreditsInv, RowIsSound
<1>2. ASSUME NEW row \in CreditsRow
      PROVE  row # NoCredit /\ row.period \in Nat /\ row.quota \in Nat /\ row.used \in Int
  BY <1>1 DEF CreditsRow, NoCredit
<1>3. credit # NoCredit => credit \in CreditsRow /\ credit.period <= month /\ credit.quota <= peak /\ credit.used <= peak
  BY DEF CreditsInv, RowIsSound, CreditsAgree, ChargedWithinQuota
<1>4. CASE saw = NoCredit
  <2>1. credit = NoCredit
    BY <1>4 DEF Refuses
  <2>2. Ensured(saw) = Fresh
    BY <1>4 DEF Ensured
  <2>3. Fresh \in CreditsRow /\ Fresh.period = month /\ Fresh.quota = DefaultQuota /\ Fresh.used = 0
    BY <1>1 DEF Fresh, CreditsRow
  <2>4. QuotaSeen(saw) = DefaultQuota
    BY <1>4, <2>2, <2>3 DEF QuotaSeen
  <2> QED
    BY <1>1, <1>2, <2>1, <2>2, <2>3, <2>4
<1>5. CASE saw # NoCredit
  <2>1. saw \in CreditsRow /\ credit # NoCredit /\ saw.period <= credit.period /\ saw.quota <= peak
    BY <1>5 DEF SawBefore
  <2>2. CASE saw.period = month
    <3>1. Ensured(saw) = credit /\ QuotaSeen(saw) = saw.quota
      BY <1>5, <2>2 DEF Ensured, QuotaSeen, Outdated
    <3> QED
      BY <1>1, <1>2, <1>3, <2>1, <2>2, <3>1
  <2>3. CASE saw.period # month
    <3>1. Ensured(saw) = [credit EXCEPT !.used = 0, !.period = month] /\ QuotaSeen(saw) = Ensured(saw).quota
      BY <1>5, <2>3 DEF Ensured, QuotaSeen, Outdated
    <3> PICK row \in CreditsRow : row = credit
      BY <1>3, <2>1
    <3>2. [row EXCEPT !.used = 0, !.period = month] \in CreditsRow
      BY <1>1, RowOfMonth
    <3>3. /\ [row EXCEPT !.used = 0, !.period = month].period = month
          /\ [row EXCEPT !.used = 0, !.period = month].used = 0
          /\ [row EXCEPT !.used = 0, !.period = month].quota = row.quota
      BY DEF CreditsRow
    <3>4. /\ Ensured(saw) \in CreditsRow /\ Ensured(saw).period = month
          /\ Ensured(saw).used = 0 /\ Ensured(saw).quota = credit.quota
      BY <3>1, <3>2, <3>3
    <3> QED
      BY <1>1, <1>2, <1>3, <2>1, <3>1, <3>4
  <2> QED
    BY <2>2, <2>3
<1> QED
  BY <1>4, <1>5

(* What that row says is used is what this month's calls cost.                *)
LEMMA EnsuredCount ==
    ASSUME CreditsInv, NEW saw, SawBefore(saw), ~Refuses(saw), Forget(saw)
    PROVE  /\ kept' \in Nat /\ clean' \in BOOLEAN /\ IsFiniteSet(PaidNow)
           /\ clean' => Ensured(saw).used = kept' + Cost * Cardinality(PaidNow)
<1>1. kept \in Nat /\ clean \in BOOLEAN /\ month \in Nat
  BY ProspectsAssumption DEF CreditsInv, RowIsSound
<1>2. PaidNow \subseteq Users /\ IsFiniteSet(PaidNow)
  <2>1. PaidNow \subseteq Users
    BY DEF PaidNow
  <2> QED
    BY <2>1, FS_Subset, ProspectsAssumption
<1>3. \A u \in PaidNow : credit # NoCredit /\ month \in Nat /\ month <= credit.period
  BY DEF PaidNow, CreditsInv, RequestIsSound
<1>4. Cost * Cardinality({}) = 0
  BY FS_EmptySet, CostTimes
<1>5. Cardinality(UnderWay) \in Nat
  BY UnderWayIsFinite, FS_CardinalityType
<1>6. CASE saw = NoCredit
  <2>1. credit = NoCredit /\ Ensured(saw).used = 0 /\ kept = 0
    BY <1>6 DEF Refuses, Ensured, Fresh, CreditsInv, RowIsSound
  <2>2. PaidNow = {}
    BY <1>3, <2>1
  <2>3. kept' = kept /\ clean' = clean
    BY <1>6 DEF Forget, Outdated
  <2> QED
    BY <1>1, <1>2, <1>4, <2>1, <2>2, <2>3
<1>7. CASE saw # NoCredit
  <2>1. /\ credit # NoCredit /\ saw.period <= credit.period /\ credit \in CreditsRow /\ credit.period <= month
        /\ saw.period \in Nat /\ credit.period \in Nat
    BY <1>7, ProspectsAssumption DEF SawBefore, CreditsInv, RowIsSound, CreditsRow
  <2>2. credit.period = month => PaidNow = UnderWay
    BY DEF PaidNow, UnderWay, Counted, Charged
  <2>3. clean => credit.used = kept + Cost * Cardinality(UnderWay)
    BY <2>1 DEF CreditsInv, CreditsAgree, UsedIsCharged
  <2>4. CASE saw.period = month
    <3>1. credit.period = month
      BY <1>1, <2>1, <2>4
    <3>2. Ensured(saw) = credit /\ kept' = kept /\ clean' = clean
      BY <1>7, <2>4 DEF Ensured, Outdated, Forget
    <3> QED
      BY <1>1, <1>2, <2>2, <2>3, <3>1, <3>2
  <2>5. CASE saw.period # month
    <3>1. /\ kept' = 0 /\ clean' = (credit.period # month \/ (clean /\ credit.used = 0))
          /\ Ensured(saw).used = 0
      <4>1. Outdated(saw)
        BY <1>7, <2>5 DEF Outdated
      <4>2. Ensured(saw) = [credit EXCEPT !.used = 0, !.period = month]
        BY <1>7, <4>1 DEF Ensured
      <4>3. Ensured(saw).used = 0
        BY <2>1, <4>2 DEF CreditsRow
      <4> QED
        BY <4>1, <4>3 DEF Forget
    <3>2. CASE credit.period # month
      <4>1. PaidNow = {}
        BY <1>1, <1>3, <2>1, <3>2
      <4> QED
        BY <1>2, <1>4, <3>1, <4>1
    <3>3. CASE credit.period = month
      <4>1. PaidNow = UnderWay
        BY <2>2, <3>3
      <4>2. clean' => Cost * Cardinality(UnderWay) = 0
        <5> PICK n \in Nat : n = Cardinality(UnderWay)
          BY <1>5
        <5>1. Cost * n \in Nat
          BY CostTimes
        <5>2. clean' => 0 = kept + Cost * n
          BY <2>3, <3>1, <3>3
        <5> QED
          BY <1>1, <5>1, <5>2
      <4> QED
        BY <1>1, <1>2, <3>1, <4>1, <4>2
    <3> QED
      BY <3>2, <3>3
  <2> QED
    BY <2>4, <2>5
<1> QED
  BY <1>6, <1>7

(* A request that neither begins nor ends a call, nor touches the row.        *)
LEMMA WorkTurns ==
    ASSUME CreditsInv, NEW u \in Users, NEW w, Go(u, w), UNCHANGED <<month, credit, kept, clean, peak>>,
           (request[u].op \in Charged /\ credit.period = request[u].paidIn)
             <=> (w.op \in Charged /\ credit.period = w.paidIn),
           RequestIsSound(w)
    PROVE  CreditsInv'
<1>1. RequestIsSound(w)'
  BY DEF RequestIsSound, SawBefore
<1>2. Grows
  BY ProspectsAssumption DEF Grows, CreditsInv, RowIsSound, CreditsRow
<1>3. UnderWay' = UnderWay
  BY UnderWayTurns, UnderWayIsFinite, OneMoreOrLess
<1>4. RowIsSound' /\ CreditsAgree'
  BY <1>3 DEF CreditsInv, RowIsSound, CreditsAgree, UsedIsCharged, ChargedWithinQuota
<1> QED
  BY <1>1, <1>2, <1>4, RequestsStaySound DEF CreditsInv

(* A month begun late, or begun twice, keeps the count.                       *)
LEMMA EnsureRowKeeps ==
    ASSUME CreditsInv, NEW u \in Users, EnsureRow(u)
    PROVE  CreditsInv'
<1> PICK r : r = request[u]
  OBVIOUS
<1>1. RequestIsSound(r) /\ r.op = "ensure"
  BY DEF CreditsInv, EnsureRow
<1>2. SawBefore(r.saw) /\ r.then.op \in {"show", "quota"} /\ (r.then.op = "quota" => r.then.quota \in Nat)
  BY <1>1 DEF RequestIsSound
<1>3. month' = month /\ peak' = peak
  BY DEF EnsureRow
<1>4. CASE Refuses(r.saw)
  <2> PICK w : w = NoWork
    OBVIOUS
  <2>1. Go(u, w) /\ UNCHANGED <<credit, kept, clean>>
    BY <1>4 DEF EnsureRow, Conclude
  <2>2. w.op \notin Charged /\ RequestIsSound(w)
    BY DEF RequestIsSound, NoWork, Charged
  <2> QED
    BY <1>1, <1>3, <2>1, <2>2, WorkTurns DEF Charged
<1>5. CASE ~Refuses(r.saw)
  <2> PICK e : e = Ensured(r.saw)
    OBVIOUS
  <2> PICK w : w = IF r.then.op = "show" THEN NoWork ELSE r.then
    OBVIOUS
  <2>1. credit' = e /\ Forget(r.saw) /\ Go(u, w)
    BY <1>5 DEF EnsureRow, Conclude
  <2>2. /\ e \in CreditsRow /\ e # NoCredit /\ e.period = month /\ e.quota <= peak /\ e.used <= peak
        /\ month \in 0..LastMonth /\ month \in Nat /\ peak \in Nat
        /\ credit # NoCredit => credit.period \in Nat /\ credit.period <= month
    BY <1>2, <1>5, EnsuredRow
  <2>3. /\ kept' \in Nat /\ clean' \in BOOLEAN
        /\ clean' => e.used = kept' + Cost * Cardinality(PaidNow)
    BY <1>2, <1>5, <2>1, EnsuredCount
  <2>4. w.op \notin Charged /\ RequestIsSound(w)'
    BY <1>2, <2>1, <2>2 DEF RequestIsSound, NoWork, Charged
  <2>5. Grows
    BY <1>3, <2>1, <2>2 DEF Grows
  <2>6. UnderWay' = PaidNow
    <3>1. request'[u] = w /\ \A v \in Users \ {u} : request'[v] = request[v]
      BY <2>1, RequestTurns
    <3>2. UnderWay' = {v \in Users : request'[v].op \in Charged /\ request'[v].paidIn = month}
      BY <2>1, <2>2 DEF UnderWay, Counted, Charged
    <3> QED
      BY <1>1, <2>4, <3>1, <3>2 DEF PaidNow, Charged
  <2>7. RowIsSound' /\ CreditsAgree'
    BY <1>3, <2>1, <2>2, <2>3, <2>6 DEF CreditsInv, RowIsSound, CreditsAgree, UsedIsCharged, ChargedWithinQuota
  <2> QED
    BY <2>1, <2>4, <2>5, <2>7, RequestsStaySound DEF CreditsInv
<1> QED
  BY <1>4, <1>5

(* A call begins: one more is under way and its cost is used.                 *)
LEMMA ConsumeKeeps ==
    ASSUME CreditsInv, NEW u \in Users, Consume(u)
    PROVE  CreditsInv'
<1> PICK r : r = request[u]
  OBVIOUS
<1>1. RequestIsSound(r) /\ r.op = "consume"
  BY DEF CreditsInv, Consume
<1>2. SawBefore(r.saw)
  BY <1>1 DEF RequestIsSound
<1>3. month' = month /\ peak' = peak
  BY DEF Consume
<1>4. CASE Refuses(r.saw) \/ ~Enough(r.saw)
  <2> PICK w : w = NoWork
    OBVIOUS
  <2>1. Go(u, w) /\ UNCHANGED <<credit, kept, clean>>
    BY <1>4 DEF Consume, Conclude
  <2>2. w.op \notin Charged /\ RequestIsSound(w)
    BY DEF RequestIsSound, NoWork, Charged
  <2> QED
    BY <1>1, <1>3, <2>1, <2>2, WorkTurns DEF Charged
<1>5. CASE ~(Refuses(r.saw) \/ ~Enough(r.saw))
  <2> PICK e : e = Ensured(r.saw)
    OBVIOUS
  <2> PICK w : w = [op |-> "look", person |-> r.person, paidIn |-> month]
    OBVIOUS
  <2>1. credit' = [e EXCEPT !.used = e.used + Cost] /\ Forget(r.saw) /\ Go(u, w)
    BY <1>5 DEF Consume, Spent
  <2>2. /\ e \in CreditsRow /\ e # NoCredit /\ e.period = month /\ e.quota <= peak
        /\ month \in 0..LastMonth /\ month \in Nat /\ peak \in Nat
        /\ QuotaSeen(r.saw) \in Nat /\ QuotaSeen(r.saw) <= peak
        /\ credit # NoCredit => credit.period \in Nat /\ credit.period <= month
    BY <1>2, <1>5, EnsuredRow
  <2>3. /\ kept' \in Nat /\ clean' \in BOOLEAN /\ IsFiniteSet(PaidNow)
        /\ clean' => e.used = kept' + Cost * Cardinality(PaidNow)
    BY <1>2, <1>5, <2>1, EnsuredCount
  <2>4. e.used \in Int /\ Cost \in Nat /\ e.used + Cost <= peak
    <3>1. e.used \in Int /\ Cost \in Nat
      BY <2>2, ProspectsAssumption DEF CreditsRow
    <3>2. QuotaSeen(r.saw) - e.used >= Cost
      BY <1>5 DEF Enough, Spent
    <3> QED
      BY <2>2, <3>1, <3>2
  <2>5. /\ credit' \in CreditsRow /\ credit' # NoCredit /\ credit'.period = month
        /\ credit'.quota = e.quota /\ credit'.used = e.used + Cost
    BY <2>1, <2>2, <2>4 DEF CreditsRow, NoCredit
  <2>6. RequestIsSound(w)'
    BY <2>2, <2>5 DEF RequestIsSound, Charged
  <2>7. Grows
    BY <1>3, <2>2, <2>5 DEF Grows
  <2>8. UnderWay' = PaidNow \cup {u} /\ u \notin PaidNow
    <3>1. request'[u] = w /\ \A v \in Users \ {u} : request'[v] = request[v]
      BY <2>1, RequestTurns
    <3>2. UnderWay' = {v \in Users : request'[v].op \in Charged /\ request'[v].paidIn = month}
      BY <2>5 DEF UnderWay, Counted, Charged
    <3>3. u \notin PaidNow
      BY <1>1 DEF PaidNow, Charged
    <3> QED
      BY <3>1, <3>2, <3>3 DEF PaidNow, Charged
  <2>9. Cardinality(PaidNow) \in Nat /\ Cardinality(UnderWay') = Cardinality(PaidNow) + 1
    BY <2>3, <2>8, FS_AddElement, FS_CardinalityType
  <2>10. clean' => credit'.used = kept' + Cost * Cardinality(UnderWay')
    <3> PICK n \in Nat : n = Cardinality(PaidNow)
      BY <2>9
    <3>1. Cost * (n + 1) = Cost * n + Cost /\ Cost * n \in Nat
      BY CostTimes
    <3> QED
      BY <2>3, <2>4, <2>5, <2>9, <3>1
  <2>11. RowIsSound' /\ CreditsAgree'
    BY <1>3, <2>2, <2>3, <2>4, <2>5, <2>10 DEF CreditsInv, RowIsSound, CreditsAgree, UsedIsCharged, ChargedWithinQuota
  <2> QED
    BY <2>1, <2>6, <2>7, <2>11, RequestsStaySound DEF CreditsInv
<1> QED
  BY <1>4, <1>5

(* A change of the quota keeps what is used.                                  *)
LEMMA SetQuotaKeeps ==
    ASSUME CreditsInv, NEW u \in Users, SetQuota(u)
    PROVE  CreditsInv'
<1> PICK r : r = request[u]
  OBVIOUS
<1> PICK w : w = NoWork
  OBVIOUS
<1>1. RequestIsSound(r) /\ r.op = "quota" /\ r.quota \in Nat /\ credit # NoCredit
  BY DEF CreditsInv, SetQuota, RequestIsSound
<1>2. /\ credit' = [credit EXCEPT !.quota = r.quota] /\ Go(u, w)
      /\ peak' = (IF r.quota > peak THEN r.quota ELSE peak)
      /\ UNCHANGED <<month, kept, clean>>
  BY DEF SetQuota, Conclude
<1>3. peak \in Nat /\ peak' \in Nat /\ peak <= peak' /\ r.quota <= peak'
  BY <1>1, <1>2 DEF CreditsInv, RowIsSound
<1>4. credit \in CreditsRow /\ credit.period <= month /\ credit.used <= peak
  BY <1>1 DEF CreditsInv, RowIsSound, CreditsAgree, ChargedWithinQuota
<1>5. /\ credit' \in CreditsRow /\ credit' # NoCredit /\ credit'.period = credit.period
      /\ credit'.quota = r.quota /\ credit'.used = credit.used
      /\ credit.period \in Nat /\ credit.used \in Int
  BY <1>1, <1>2, <1>4, ProspectsAssumption DEF CreditsRow, NoCredit
<1>6. w.op \notin Charged /\ RequestIsSound(w)'
  BY DEF RequestIsSound, NoWork, Charged
<1>7. Grows
  BY <1>3, <1>5 DEF Grows
<1>8. UnderWay' = UnderWay
  BY <1>1, <1>2, <1>5, <1>6, UnderWayTurns, UnderWayIsFinite, OneMoreOrLess DEF Charged
<1>9. RowIsSound'
  BY <1>2, <1>3, <1>4, <1>5, ProspectsAssumption DEF CreditsInv, RowIsSound
<1>10. CreditsAgree'
  BY <1>1, <1>2, <1>3, <1>4, <1>5, <1>8 DEF CreditsInv, CreditsAgree, UsedIsCharged, ChargedWithinQuota
<1> QED
  BY <1>2, <1>6, <1>7, <1>9, <1>10, RequestsStaySound DEF CreditsInv

(* A call ends and its cost stays.                                            *)
LEMMA KeptCharge ==
    ASSUME CreditsInv, NEW u \in Users, NEW w, Go(u, w), Keep(u), UNCHANGED <<month, credit, clean, peak>>,
           request[u].op \in Charged, w.op \notin Charged, RequestIsSound(w)
    PROVE  CreditsInv'
<1>1. RequestIsSound(w)'
  BY DEF RequestIsSound, SawBefore
<1>2. Grows
  BY ProspectsAssumption DEF Grows, CreditsInv, RowIsSound, CreditsRow
<1>3. credit # NoCredit
  BY DEF CreditsInv, RequestIsSound
<1>4. kept \in Nat /\ Cost \in Nat /\ (clean => credit.used = kept + Cost * Cardinality(UnderWay))
  BY <1>3, CostTimes DEF CreditsInv, RowIsSound, CreditsAgree, UsedIsCharged
<1>5. kept' \in Nat
  BY <1>4 DEF Keep
<1>6. clean => credit.used = kept' + Cost * Cardinality(UnderWay')
  <2> PICK U, V : U = UnderWay /\ V = UnderWay'
    OBVIOUS
  <2>1. /\ V \ {u} = U \ {u} /\ IsFiniteSet(U) /\ u \notin V
        /\ u \in U <=> Counted(u)
    BY UnderWayTurns, UnderWayIsFinite DEF Counted
  <2>2. /\ Cardinality(U) \in Nat /\ Cardinality(V) \in Nat
        /\ u \in U => Cardinality(U) = Cardinality(V) + 1
        /\ u \notin U => V = U
    BY <2>1, OneMoreOrLess
  <2>3. CASE Counted(u)
    <3> PICK n \in Nat : n = Cardinality(V)
      BY <2>2
    <3>1. Cost * (n + 1) = Cost * n + Cost /\ Cost * n \in Nat
      BY CostTimes
    <3>2. kept' = kept + Cost /\ Cardinality(U) = n + 1
      BY <2>1, <2>2, <2>3 DEF Keep
    <3> QED
      BY <1>4, <3>1, <3>2
  <2>4. CASE ~Counted(u)
    <3>1. kept' = kept /\ V = U
      BY <2>1, <2>2, <2>4 DEF Keep
    <3> QED
      BY <1>4, <3>1
  <2> QED
    BY <2>3, <2>4
<1>7. RowIsSound' /\ CreditsAgree'
  BY <1>3, <1>5, <1>6 DEF CreditsInv, RowIsSound, CreditsAgree, UsedIsCharged, ChargedWithinQuota
<1> QED
  BY <1>1, <1>2, <1>7, RequestsStaySound DEF CreditsInv

(* A call ends and its cost is given back.                                    *)
LEMMA RefundKeeps ==
    ASSUME CreditsInv, NEW u \in Users, Refund(u)
    PROVE  CreditsInv'
<1> PICK w : w = [op |-> "store", person |-> request[u].person, answer |-> request[u].answer]
  OBVIOUS
<1>1. /\ Go(u, w) /\ request[u].op \in Charged /\ w.op \notin Charged
      /\ credit' = [credit EXCEPT !.used = credit.used - Cost]
      /\ clean' = (clean /\ Counted(u)) /\ UNCHANGED <<month, kept, peak>>
  BY DEF Refund, Charged
<1>2. RequestIsSound(w)'
  BY DEF RequestIsSound, Charged
<1>3. credit # NoCredit
  BY <1>1 DEF CreditsInv, RequestIsSound
<1>4. /\ kept \in Nat /\ Cost \in Nat /\ (clean => credit.used = kept + Cost * Cardinality(UnderWay))
      /\ credit \in CreditsRow /\ credit.period <= month /\ credit.quota <= peak /\ credit.used <= peak
      /\ peak \in Nat /\ clean \in BOOLEAN
  BY <1>3, CostTimes DEF CreditsInv, RowIsSound, CreditsAgree, UsedIsCharged, ChargedWithinQuota
<1>5. credit.used \in Int /\ credit.period \in Nat
  BY <1>4, ProspectsAssumption DEF CreditsRow
<1>6. /\ credit' \in CreditsRow /\ credit' # NoCredit /\ credit'.period = credit.period
      /\ credit'.quota = credit.quota /\ credit'.used = credit.used - Cost
  BY <1>1, <1>4, <1>5 DEF CreditsRow, NoCredit
<1>7. Grows
  BY <1>1, <1>4, <1>5, <1>6 DEF Grows
<1>8. clean' => credit'.used = kept + Cost * Cardinality(UnderWay')
  <2> PICK U, V : U = UnderWay /\ V = UnderWay'
    OBVIOUS
  <2>1. SUFFICES ASSUME clean, Counted(u)
                 PROVE  credit'.used = kept + Cost * Cardinality(V)
    BY <1>1
  <2>2. V \ {u} = U \ {u} /\ IsFiniteSet(U) /\ u \notin V /\ u \in U
    BY <1>1, <1>6, <2>1, UnderWayTurns, UnderWayIsFinite DEF Counted
  <2>3. Cardinality(V) \in Nat /\ Cardinality(U) = Cardinality(V) + 1
    BY <2>2, OneMoreOrLess
  <2> PICK n \in Nat : n = Cardinality(V)
    BY <2>3
  <2>4. Cost * (n + 1) = Cost * n + Cost /\ Cost * n \in Nat
    BY CostTimes
  <2> QED
    BY <1>4, <1>5, <1>6, <2>1, <2>3, <2>4
<1>9. RowIsSound'
  BY <1>1, <1>4, <1>6 DEF CreditsInv, RowIsSound
<1>10. CreditsAgree'
  <2>1. credit'.used <= peak
    BY <1>4, <1>5, <1>6
  <2> QED
    BY <1>1, <1>8, <2>1 DEF CreditsAgree, UsedIsCharged, ChargedWithinQuota
<1> QED
  BY <1>1, <1>2, <1>7, <1>9, <1>10, RequestsStaySound DEF CreditsInv

(* Reading and writing credits keeps the count.                               *)
LEMMA ManageCreditsKeeps ==
    ASSUME CreditsInv, NEW u \in Users, ManageCredits(u)
    PROVE  CreditsInv'
<1>1. ASSUME NEW then, ReadCredits(u, then), then.op \in {"show", "quota"}, then.op = "quota" => then.quota \in Nat
      PROVE  CreditsInv'
  <2> PICK w : w = [op |-> "ensure", saw |-> credit, then |-> then]
    OBVIOUS
  <2>1. Go(u, w) /\ UNCHANGED <<month, credit, kept, clean, peak>> /\ request[u] = NoWork
    BY <1>1 DEF ReadCredits, history
  <2>2. SawBefore(credit)
    BY ProspectsAssumption DEF SawBefore, CreditsInv, RowIsSound, CreditsRow
  <2>3. w.op \notin Charged /\ RequestIsSound(w)
    BY <1>1, <2>2 DEF RequestIsSound, Charged
  <2> QED
    BY <2>1, <2>3, WorkTurns DEF NoWork, Charged
<1>2. CASE ReadCredits(u, [op |-> "show"])
  BY <1>1, <1>2
<1>3. CASE \E q \in Quotas : ReadCredits(u, [op |-> "quota", quota |-> q])
  BY <1>1, <1>3, ProspectsAssumption
<1> QED
  BY <1>2, <1>3, EnsureRowKeeps, SetQuotaKeeps, ConsumeKeeps DEF ManageCredits

(* Enriching keeps the count.                                                 *)
LEMMA EnrichKeeps ==
    ASSUME CreditsInv, NEW u \in Users, Enrich(u)
    PROVE  CreditsInv'
<1>1. ASSUME NEW p, Go(u, [op |-> "consume", person |-> p, saw |-> credit]), request[u] = NoWork,
             UNCHANGED <<month, credit, kept, clean, peak>>
      PROVE  CreditsInv'
  <2> PICK w : w = [op |-> "consume", person |-> p, saw |-> credit]
    OBVIOUS
  <2>1. Go(u, w)
    BY <1>1
  <2>2. SawBefore(credit)
    BY ProspectsAssumption DEF SawBefore, CreditsInv, RowIsSound, CreditsRow
  <2>3. w.op \notin Charged /\ RequestIsSound(w)
    BY <2>2 DEF RequestIsSound, Charged
  <2> QED
    BY <1>1, <2>1, <2>3, WorkTurns DEF NoWork, Charged
<1>2. CASE \E p \in People, byRow \in BOOLEAN : StartEnrich(u, p, byRow)
  BY <1>1, <1>2 DEF StartEnrich, history
<1>3. CASE \E c \in Companies : StartEnrichCompany(u, c)
  BY <1>1, <1>3 DEF StartEnrichCompany, history
<1>4. CASE LookUp(u)
  <2> PICK r : r = request[u]
    OBVIOUS
  <2> PICK w : w = [op |-> IF cached[r.person] = "none" THEN "ask" ELSE "refund",
                    person |-> r.person, paidIn |-> r.paidIn, answer |-> cached[r.person]]
    OBVIOUS
  <2>1. Go(u, w) /\ UNCHANGED <<month, credit, kept, clean, peak>> /\ r.op = "look"
    BY <1>4 DEF LookUp, history
  <2>2. w.op \in {"ask", "refund"} /\ w.paidIn = r.paidIn
    OBVIOUS
  <2>3. RequestIsSound(w)
    BY <2>1, <2>2 DEF RequestIsSound, Charged, CreditsInv
  <2> QED
    BY <2>1, <2>2, <2>3, WorkTurns DEF Charged
<1>5. CASE GiveUp(u)
  <2> PICK w : w = NoWork
    OBVIOUS
  <2>1. Go(u, w) /\ Keep(u) /\ UNCHANGED <<month, credit, clean, peak>> /\ request[u].op \in Charged
    BY <1>5 DEF GiveUp, Conclude, Charged
  <2>2. w.op \notin Charged /\ RequestIsSound(w)
    BY DEF RequestIsSound, NoWork, Charged
  <2> QED
    BY <2>1, <2>2, KeptCharge
<1>6. CASE \E answer \in {"found", "missing"} : Ask(u, answer)
  <2> PICK answer \in {"found", "missing"} : Ask(u, answer)
    BY <1>6
  <2> PICK w : w = [op |-> "store", person |-> request[u].person, answer |-> answer]
    OBVIOUS
  <2>1. Go(u, w) /\ Keep(u) /\ UNCHANGED <<month, credit, clean, peak>> /\ request[u].op \in Charged
    BY DEF Ask, Charged
  <2>2. w.op \notin Charged /\ RequestIsSound(w)
    BY DEF RequestIsSound, Charged
  <2> QED
    BY <2>1, <2>2, KeptCharge
<1>7. CASE \E hasEmail \in BOOLEAN : Store(u, hasEmail)
  <2> PICK w : w = NoWork
    OBVIOUS
  <2>1. Go(u, w) /\ UNCHANGED <<month, credit, kept, clean, peak>> /\ request[u].op \notin Charged
    BY <1>7 DEF Store, Conclude, history, Charged
  <2>2. w.op \notin Charged /\ RequestIsSound(w)
    BY DEF RequestIsSound, NoWork, Charged
  <2> QED
    BY <2>1, <2>2, WorkTurns
<1> QED
  BY <1>2, <1>3, <1>4, <1>5, <1>6, <1>7, RefundKeeps DEF Enrich

(* Saving and importing have nothing to do with credits.                      *)
LEMMA SaveAndImportKeeps ==
    ASSUME CreditsInv, NEW u \in Users, SaveAndImport(u)
    PROVE  CreditsInv'
<1>1. ASSUME NEW w, Go(u, w), w.op \notin Charged \cup {"ensure", "quota", "consume"},
             request[u].op \notin Charged, UNCHANGED <<month, credit, kept, clean, peak>>
      PROVE  CreditsInv'
  <2>1. RequestIsSound(w)
    BY <1>1 DEF RequestIsSound
  <2> QED
    BY <1>1, <2>1, WorkTurns
<1>2. ASSUME NEW s, BeginSave(u, s)
      PROVE  CreditsInv'
  <2> PICK w : w = [op |-> "save", person |-> s]
    OBVIOUS
  <2> QED
    BY <1>1, <1>2 DEF BeginSave, history, NoWork, Charged
<1>3. ASSUME NEW p, BeginImport(u, p)
      PROVE  CreditsInv'
  <2> PICK lead : Go(u, [op |-> "import", person |-> p, lead |-> lead])
    BY <1>3 DEF BeginImport
  <2> PICK w : w = [op |-> "import", person |-> p, lead |-> lead]
    OBVIOUS
  <2> QED
    BY <1>1, <1>3 DEF BeginImport, history, NoWork, Charged
<1>4. CASE SaveFromSearch(u) \/ ImportPersonToLead(u)
  <2> PICK w : w = NoWork
    OBVIOUS
  <2> QED
    BY <1>1, <1>4 DEF SaveFromSearch, ImportPersonToLead, Conclude, history, NoWork, Charged
<1> QED
  BY <1>2, <1>3, <1>4 DEF SaveAndImport

(* Every step keeps the credits sound.                                        *)
LEMMA ProspectsNextKeeps ==
    ASSUME CreditsInv, [ProspectsNext]_prospectVars
    PROVE  CreditsInv'
<1>1. ASSUME UNCHANGED <<credit, request, kept, clean, peak>>, month' \in 0..LastMonth, month' >= month
      PROVE  CreditsInv'
  <2>1. UnderWay' = UnderWay
    BY <1>1 DEF UnderWay, Counted
  <2>2. CreditsAgree'
    BY <1>1, <2>1 DEF CreditsInv, CreditsAgree, UsedIsCharged, ChargedWithinQuota
  <2>3. RowIsSound'
    BY <1>1, ProspectsAssumption DEF CreditsInv, RowIsSound, CreditsRow
  <2>4. (\A u \in Users : RequestIsSound(request[u]))' /\ (request = [u \in Users |-> request[u]])'
    BY <1>1 DEF CreditsInv, RequestIsSound, SawBefore
  <2> QED
    BY <2>2, <2>3, <2>4 DEF CreditsInv
<1>2. month \in 0..LastMonth /\ LastMonth \in Nat
  BY ProspectsAssumption DEF CreditsInv, RowIsSound
<1>3. CASE \E u \in Users : ManageCredits(u) \/ Enrich(u) \/ SaveAndImport(u)
  BY <1>3, ManageCreditsKeeps, EnrichKeeps, SaveAndImportKeeps
<1>4. CASE NewMonth
  BY <1>1, <1>2, <1>4 DEF NewMonth, history
<1>5. CASE \E s \in Subjects : ExpireCache(s)
  BY <1>1, <1>2, <1>5 DEF ExpireCache, history
<1>6. CASE UNCHANGED prospectVars
  BY <1>1, <1>2, <1>6 DEF prospectVars
<1> QED
  BY <1>3, <1>4, <1>5, <1>6 DEF ProspectsNext

(* At first there is no row and no request.                                   *)
LEMMA CreditsBegin ==
    ASSUME ProspectsInit
    PROVE  CreditsInv
<1>1. RowIsSound
  BY ProspectsAssumption DEF ProspectsInit, RowIsSound
<1>2. CreditsAgree
  BY DEF ProspectsInit, CreditsAgree, UsedIsCharged, ChargedWithinQuota
<1>3. \A u \in Users : RequestIsSound(request[u])
  BY DEF ProspectsInit, RequestIsSound, NoWork, Charged
<1> QED
  BY <1>1, <1>2, <1>3 DEF CreditsInv, ProspectsInit

\* What is stored, and whom a request is about.

BookIsSound ==
    /\ cached \in [Subjects -> Answers]
    /\ stored \in [Subjects -> ProspectRow \cup {NotStored}]
    /\ IsFiniteSet(leads) /\ \A l \in leads : l.n \in 1..MaxLeads
    /\ links \subseteq People \X (1..MaxLeads)
    /\ ConvertedIsLinked

RequestNames(r) ==
    /\ r.op \in {"consume", "look", "ask", "refund", "store", "save"} => r.person \in Subjects
    /\ r.op \in {"refund", "store"} => r.answer \in {"found", "missing"}
    /\ r.op = "import" => r.person \in People /\ IsStored(r.person) /\ r.lead \in 0..MaxLeads

ImportsInv == BookIsSound /\ \A u \in Users : RequestNames(request[u])

(* A row that is stored stays so, and one of the right shape is stored or not. *)
LEMMA StoredIs ==
    ASSUME BookIsSound, NEW p \in Subjects
    PROVE  /\ IsStored(p) => stored[p] \in ProspectRow
           /\ ~IsStored(p) => stored[p] = NotStored
BY DEF BookIsSound, IsStored, ProspectRow, NotStored

(* A request turns to something else, and what is stored stays.               *)
LEMMA TurnsNames ==
    ASSUME ImportsInv, CreditsInv, NEW u \in Users, NEW w, Go(u, w), BookIsSound', RequestNames(w)',
           \A p \in Subjects : IsStored(p) => IsStored(p)'
    PROVE  ImportsInv'
<1> SUFFICES ASSUME NEW v \in Users PROVE RequestNames(request[v])'
  BY DEF ImportsInv
<1>1. CASE v = u
  <2>1. request'[v] = w
    BY <1>1 DEF Go, CreditsInv
  <2> QED
    BY <2>1 DEF RequestNames, IsStored
<1>2. CASE v # u
  <2> PICK r : r = request[v]
    OBVIOUS
  <2>1. request'[v] = r
    BY <1>2 DEF Go, CreditsInv
  <2>2. RequestNames(r)
    BY DEF ImportsInv
  <2>3. RequestNames(r)'
    BY <2>2 DEF RequestNames, Subjects
  <2> QED
    BY <2>1, <2>3 DEF RequestNames, IsStored
<1> QED
  BY <1>1, <1>2

(* The same, when nothing is stored meanwhile.                                *)
LEMMA QuietNames ==
    ASSUME ImportsInv, CreditsInv, NEW u \in Users, NEW w, Go(u, w), UNCHANGED <<cached, book>>, RequestNames(w)
    PROVE  ImportsInv'
<1>1. BookIsSound'
  BY DEF ImportsInv, BookIsSound, book, ConvertedIsLinked, IsStored
<1>2. RequestNames(w)' /\ \A p \in Subjects : IsStored(p) => IsStored(p)'
  BY DEF book, RequestNames, IsStored
<1> QED
  BY <1>1, <1>2, TurnsNames

(* What is learnt of somebody leaves whether they are a lead as it was.       *)
LEMMA LearntIs ==
    ASSUME BookIsSound, NEW p \in Subjects, NEW isEnriched \in BOOLEAN, NEW hasEmail \in BOOLEAN
    PROVE  /\ Learnt(p, isEnriched, hasEmail) \in ProspectRow
           /\ ~IsStored(p) => ~Learnt(p, isEnriched, hasEmail).converted
           /\ IsStored(p) => /\ Learnt(p, isEnriched, hasEmail).converted = stored[p].converted
                             /\ Learnt(p, isEnriched, hasEmail).lead = stored[p].lead
<1> PICK m \in Nat : m = MaxLeads
  BY ProspectsAssumption
<1>1. CASE IsStored(p)
  <2>1. stored[p] \in ProspectRow
    BY <1>1, StoredIs
  <2> PICK row : row = stored[p]
    OBVIOUS
  <2>2. Learnt(p, isEnriched, hasEmail) = [row EXCEPT !.enriched = isEnriched, !.email = hasEmail]
    BY <1>1 DEF Learnt
  <2> QED
    BY <1>1, <2>1, <2>2 DEF ProspectRow
<1>2. CASE ~IsStored(p)
  <2>1. Learnt(p, isEnriched, hasEmail) = NewRow(isEnriched, hasEmail)
    BY <1>2 DEF Learnt
  <2>2. 0 \in 0..MaxLeads
    OBVIOUS
  <2>3. NewRow(isEnriched, hasEmail) \in ProspectRow /\ ~NewRow(isEnriched, hasEmail).converted
    BY <2>2 DEF NewRow, ProspectRow
  <2> QED
    BY <1>2, <2>1, <2>3
<1> QED
  BY <1>1, <1>2

(* Storing somebody, with the company a person comes with.                    *)
LEMMA UpsertIsSound ==
    ASSUME BookIsSound, NEW s \in Subjects, NEW isEnriched \in BOOLEAN, NEW hasEmail \in BOOLEAN,
           Upsert(s, isEnriched, hasEmail), UNCHANGED <<cached, leads, links>>
    PROVE  /\ BookIsSound'
           /\ \A p \in Subjects : IsStored(p) => IsStored(p)'
<1> DEFINE Lasts(p, row) ==
      /\ row \in ProspectRow
      /\ ~IsStored(p) => ~row.converted
      /\ IsStored(p) => row.converted = stored[p].converted /\ row.lead = stored[p].lead
<1>1. ASSUME NEW p \in Subjects PROVE stored'[p] = stored[p] \/ Lasts(p, stored'[p])
  <2>1. Lasts(p, Learnt(p, isEnriched, hasEmail)) /\ Lasts(p, Learnt(p, isEnriched, FALSE))
    BY LearntIs
  <2>2. NewRow(FALSE, FALSE) \in ProspectRow /\ ~NewRow(FALSE, FALSE).converted
    BY ProspectsAssumption DEF NewRow, ProspectRow
  <2>3. CASE s \in People
    <3> PICK e : e = Employer[s]
      OBVIOUS
    <3> PICK known : known = Learnt(s, isEnriched, hasEmail)
      OBVIOUS
    <3>1. e \in Subjects /\ stored \in [Subjects -> ProspectRow \cup {NotStored}]
      BY <2>3, ProspectsAssumption DEF Subjects, BookIsSound
    <3>2. stored' = [stored EXCEPT ![s] = known, ![e] = IF IsStored(e) THEN @ ELSE NewRow(FALSE, FALSE)]
      BY <2>3 DEF Upsert, UpsertPerson
    <3>3. \/ stored'[p] = stored[p]
          \/ (p = s /\ stored'[p] = known)
          \/ (p = e /\ ~IsStored(e) /\ stored'[p] = NewRow(FALSE, FALSE))
      BY <3>1, <3>2
    <3> QED
      BY <2>1, <2>2, <3>3
  <2>4. CASE s \notin People
    <3> PICK known : known = Learnt(s, isEnriched, FALSE)
      OBVIOUS
    <3>1. stored' = [stored EXCEPT ![s] = known] /\ stored \in [Subjects -> ProspectRow \cup {NotStored}]
      BY <2>4 DEF Upsert, UpsertCompany, BookIsSound
    <3>2. stored'[p] = stored[p] \/ (p = s /\ stored'[p] = known)
      BY <3>1
    <3> QED
      BY <2>1, <3>2
  <2> QED
    BY <2>3, <2>4
<1>2. stored' = [p \in Subjects |-> stored'[p]]
  <2>1. stored \in [Subjects -> ProspectRow \cup {NotStored}]
    BY DEF BookIsSound
  <2> QED
    BY <2>1 DEF Upsert, UpsertPerson, UpsertCompany
<1>3. \A p \in Subjects : stored'[p] \in ProspectRow \cup {NotStored} /\ (IsStored(p) => IsStored(p)')
  <2> SUFFICES ASSUME NEW p \in Subjects
               PROVE  stored'[p] \in ProspectRow \cup {NotStored} /\ (IsStored(p) => IsStored(p)')
    OBVIOUS
  <2>1. stored[p] \in ProspectRow \cup {NotStored}
    BY DEF BookIsSound
  <2>2. stored'[p] \in ProspectRow => stored'[p].state = "kept"
    BY DEF ProspectRow
  <2> QED
    BY <1>1, <2>1, <2>2 DEF IsStored
<1>4. stored' \in [Subjects -> ProspectRow \cup {NotStored}]
  BY <1>2, <1>3
<1>5. ConvertedIsLinked'
  <2> SUFFICES ASSUME NEW p \in People, IsStored(p)', stored'[p].converted PROVE <<p, stored'[p].lead>> \in links
    BY DEF ConvertedIsLinked
  <2>1. p \in Subjects
    BY DEF Subjects
  <2>2. IsStored(p) /\ stored[p].converted /\ stored'[p].lead = stored[p].lead
    BY <1>1, <2>1 DEF IsStored
  <2> QED
    BY <2>2 DEF BookIsSound, ConvertedIsLinked
<1> QED
  BY <1>3, <1>4, <1>5 DEF BookIsSound

(* What credits do stores nothing.                                            *)
LEMMA CreditsName ==
    ASSUME ImportsInv, CreditsInv, NEW u \in Users, ManageCredits(u)
    PROVE  ImportsInv'
<1> PICK r : r = request[u]
  OBVIOUS
<1>1. RequestIsSound(r) /\ RequestNames(r)
  BY DEF CreditsInv, ImportsInv
<1>2. RequestNames(NoWork)
  BY DEF RequestNames, NoWork
<1>3. ASSUME NEW then, ReadCredits(u, then) PROVE ImportsInv'
  <2> PICK w : w = [op |-> "ensure", saw |-> credit, then |-> then]
    OBVIOUS
  <2>1. RequestNames(w)
    BY DEF RequestNames
  <2> QED
    BY <1>3, <2>1, QuietNames DEF ReadCredits
<1>4. CASE EnsureRow(u)
  <2>1. RequestNames(r.then)
    BY <1>1, <1>4 DEF EnsureRow, RequestIsSound, RequestNames
  <2> QED
    BY <1>2, <1>4, <2>1, QuietNames DEF EnsureRow, Conclude
<1>5. CASE SetQuota(u)
  BY <1>2, <1>5, QuietNames DEF SetQuota, Conclude
<1>6. CASE Consume(u)
  <2> PICK w : w = [op |-> "look", person |-> r.person, paidIn |-> month]
    OBVIOUS
  <2>1. RequestNames(w)
    BY <1>1, <1>6 DEF Consume, RequestNames
  <2>2. (Go(u, NoWork) \/ Go(u, w)) /\ UNCHANGED <<cached, book>>
    BY <1>6 DEF Consume, Conclude
  <2> QED
    BY <1>2, <2>1, <2>2, QuietNames
<1> QED
  BY <1>3, <1>4, <1>5, <1>6 DEF ManageCredits

(* What the data source or the cache answers is stored.                       *)
LEMMA EnrichNames ==
    ASSUME ImportsInv, CreditsInv, NEW u \in Users, Enrich(u)
    PROVE  ImportsInv'
<1> PICK r : r = request[u]
  OBVIOUS
<1>1. RequestNames(r) /\ BookIsSound
  BY DEF ImportsInv
<1>2. RequestNames(NoWork) /\ RequestNames(NoWork)'
  BY DEF RequestNames, NoWork
<1>3. ASSUME NEW p \in Subjects, Go(u, [op |-> "consume", person |-> p, saw |-> credit]), UNCHANGED <<cached, book>>
      PROVE  ImportsInv'
  <2> PICK w : w = [op |-> "consume", person |-> p, saw |-> credit]
    OBVIOUS
  <2>1. RequestNames(w)
    BY DEF RequestNames
  <2> QED
    BY <1>3, <2>1, QuietNames
<1>4. CASE LookUp(u)
  <2> PICK w : w = [op |-> IF cached[r.person] = "none" THEN "ask" ELSE "refund",
                    person |-> r.person, paidIn |-> r.paidIn, answer |-> cached[r.person]]
    OBVIOUS
  <2>1. r.op = "look" /\ Go(u, w) /\ UNCHANGED <<cached, book>>
    BY <1>4 DEF LookUp
  <2>2. r.person \in Subjects /\ cached[r.person] \in Answers
    BY <1>1, <2>1 DEF RequestNames, BookIsSound
  <2>3. RequestNames(w)
    BY <2>2 DEF RequestNames, Answers
  <2> QED
    BY <2>1, <2>3, QuietNames
<1>5. CASE Refund(u)
  <2> PICK w : w = [op |-> "store", person |-> r.person, answer |-> r.answer]
    OBVIOUS
  <2>1. r.op = "refund" /\ Go(u, w) /\ UNCHANGED <<cached, book>>
    BY <1>5 DEF Refund
  <2>2. RequestNames(w)
    BY <1>1, <2>1 DEF RequestNames
  <2> QED
    BY <2>1, <2>2, QuietNames
<1>6. CASE GiveUp(u)
  BY <1>2, <1>6, QuietNames DEF GiveUp, Conclude
<1>7. ASSUME NEW answer \in {"found", "missing"}, Ask(u, answer) PROVE ImportsInv'
  <2> PICK w : w = [op |-> "store", person |-> r.person, answer |-> answer]
    OBVIOUS
  <2>1. r.op = "ask" /\ Go(u, w) /\ UNCHANGED book /\ cached' = [cached EXCEPT ![r.person] = answer]
    BY <1>7 DEF Ask
  <2>2. RequestNames(w)'
    BY <1>1, <2>1 DEF RequestNames
  <2>3. cached' \in [Subjects -> Answers]
    BY <1>1, <2>1 DEF BookIsSound, Answers
  <2>4. BookIsSound' /\ \A p \in Subjects : IsStored(p) => IsStored(p)'
    BY <1>1, <2>1, <2>3 DEF BookIsSound, book, ConvertedIsLinked, IsStored
  <2> QED
    BY <2>1, <2>2, <2>4, TurnsNames
<1>8. ASSUME NEW hasEmail \in BOOLEAN, Store(u, hasEmail) PROVE ImportsInv'
  <2> PICK s \in Subjects : s = r.person /\ r.op = "store"
    BY <1>1, <1>8 DEF Store, RequestNames
  <2>1. CASE r.answer = "missing"
    <3>1. Go(u, NoWork) /\ UNCHANGED <<cached, book>>
      BY <1>8, <2>1 DEF Store, Conclude, book
    <3> QED
      BY <1>2, <3>1, QuietNames
  <2>2. CASE r.answer # "missing"
    <3>1. Go(u, NoWork) /\ Upsert(s, TRUE, hasEmail) /\ UNCHANGED <<cached, leads, links>>
      BY <1>8, <2>2 DEF Store, Conclude
    <3>2. BookIsSound' /\ \A p \in Subjects : IsStored(p) => IsStored(p)'
      BY <1>1, <3>1, UpsertIsSound
    <3> QED
      BY <1>2, <3>1, <3>2, TurnsNames
  <2> QED
    BY <2>1, <2>2
<1>9. CASE (\E p \in People, byRow \in BOOLEAN : StartEnrich(u, p, byRow)) \/ \E c \in Companies : StartEnrichCompany(u, c)
  BY <1>3, <1>9 DEF StartEnrich, StartEnrichCompany, Subjects
<1> QED
  BY <1>4, <1>5, <1>6, <1>7, <1>8, <1>9 DEF Enrich

(* An import stores the lead, the link and the mark together.                 *)
LEMMA ImportIsWhole ==
    ASSUME BookIsSound, NEW p \in People, NEW l \in 1..MaxLeads, IsStored(p),
           links' = links \cup {<<p, l>>}, leads' = leads \/ AddLead(l, p), UNCHANGED cached,
           stored' = [stored EXCEPT ![p].converted = TRUE, ![p].lead = l]
    PROVE  BookIsSound' /\ \A q \in Subjects : IsStored(q) => IsStored(q)'
<1> PICK row : row = [stored[p] EXCEPT !.converted = TRUE, !.lead = l]
  OBVIOUS
<1>1. p \in Subjects /\ stored \in [Subjects -> ProspectRow \cup {NotStored}]
  BY DEF Subjects, BookIsSound
<1>2. stored[p] \in ProspectRow
  BY <1>1, StoredIs
<1>3. l \in 0..MaxLeads
  BY ProspectsAssumption
<1>4. row \in ProspectRow /\ row.converted /\ row.lead = l /\ row.state = "kept"
  BY <1>2, <1>3 DEF ProspectRow
<1>5. stored' = [stored EXCEPT ![p] = row]
  BY <1>1
<1>6. stored' \in [Subjects -> ProspectRow \cup {NotStored}] /\ \A q \in Subjects : IsStored(q) => IsStored(q)'
  BY <1>1, <1>4, <1>5 DEF IsStored
<1>7. IsFiniteSet(leads') /\ \A k \in leads' : k.n \in 1..MaxLeads
  <2> PICK new : new = [n |-> l, of |-> p]
    OBVIOUS
  <2>1. IsFiniteSet(leads \cup {new}) /\ new.n = l
    BY FS_AddElement DEF BookIsSound
  <2>2. leads' = leads \/ leads' = leads \cup {new}
    BY DEF AddLead
  <2> QED
    BY <2>1, <2>2 DEF BookIsSound
<1>8. links' \subseteq People \X (1..MaxLeads)
  BY DEF BookIsSound
<1>9. ConvertedIsLinked'
  <2> SUFFICES ASSUME NEW q \in People, IsStored(q)', stored'[q].converted PROVE <<q, stored'[q].lead>> \in links'
    BY DEF ConvertedIsLinked
  <2>1. q \in Subjects
    BY DEF Subjects
  <2>2. CASE q = p
    BY <1>1, <1>4, <1>5, <2>2
  <2>3. CASE q # p
    <3>1. stored'[q] = stored[q]
      BY <1>1, <1>5, <2>1, <2>3
    <3> QED
      BY <3>1 DEF BookIsSound, ConvertedIsLinked, IsStored
  <2> QED
    BY <2>2, <2>3
<1> QED
  BY <1>6, <1>7, <1>8, <1>9 DEF BookIsSound

(* Saving what a search showed, and importing.                                *)
LEMMA SavesName ==
    ASSUME ImportsInv, CreditsInv, NEW u \in Users, SaveAndImport(u)
    PROVE  ImportsInv'
<1> PICK r : r = request[u]
  OBVIOUS
<1>1. RequestNames(r) /\ BookIsSound
  BY DEF ImportsInv
<1>2. RequestNames(NoWork) /\ RequestNames(NoWork)'
  BY DEF RequestNames, NoWork
<1>3. ASSUME NEW s \in Subjects, BeginSave(u, s) PROVE ImportsInv'
  <2> PICK w : w = [op |-> "save", person |-> s]
    OBVIOUS
  <2>1. RequestNames(w)
    BY DEF RequestNames
  <2> QED
    BY <1>3, <2>1, QuietNames DEF BeginSave
<1>4. ASSUME NEW p \in People, BeginImport(u, p) PROVE ImportsInv'
  <2> PICK lead \in IF LeadsOf(p) = {} THEN {0} ELSE {l.n : l \in LeadsOf(p)} :
           Go(u, [op |-> "import", person |-> p, lead |-> lead])
    BY <1>4 DEF BeginImport
  <2> PICK w : w = [op |-> "import", person |-> p, lead |-> lead]
    OBVIOUS
  <2>1. lead \in 0..MaxLeads
    <3>1. \A l \in LeadsOf(p) : l.n \in 1..MaxLeads
      BY <1>1 DEF LeadsOf, BookIsSound
    <3>2. lead = 0 \/ lead \in 1..MaxLeads
      BY <3>1
    <3> QED
      BY <3>2, ProspectsAssumption
  <2>2. RequestNames(w)
    BY <1>4, <2>1 DEF RequestNames, BeginImport
  <2> QED
    BY <1>4, <2>2, QuietNames DEF BeginImport
<1>5. CASE SaveFromSearch(u)
  <2> PICK s \in Subjects : s = r.person /\ r.op = "save"
    BY <1>1, <1>5 DEF SaveFromSearch, RequestNames
  <2>1. Go(u, NoWork) /\ Upsert(s, FALSE, FALSE) /\ UNCHANGED <<cached, leads, links>>
    BY <1>5 DEF SaveFromSearch, Conclude
  <2>2. BookIsSound' /\ \A p \in Subjects : IsStored(p) => IsStored(p)'
    BY <1>1, <2>1, UpsertIsSound
  <2> QED
    BY <1>2, <2>1, <2>2, TurnsNames
<1>6. CASE ImportPersonToLead(u)
  <2>1. r.op = "import" /\ r.person \in People /\ IsStored(r.person) /\ r.lead \in 0..MaxLeads
    BY <1>1, <1>6 DEF ImportPersonToLead, RequestNames
  <2> PICK p \in People : p = r.person
    BY <2>1
  <2> PICK l : l = LeadFor(u)
    OBVIOUS
  <2>2. l \in 1..MaxLeads
    <3>1. NextLead \in Nat /\ NextLead >= 1
      BY <1>1, FS_CardinalityType DEF BookIsSound, NextLead
    <3>2. l \in Nat /\ l >= 1
      BY <2>1, <3>1, ProspectsAssumption DEF LeadFor
    <3>3. l <= MaxLeads /\ MaxLeads \in Nat
      BY <1>6, ProspectsAssumption DEF ImportPersonToLead
    <3> QED
      BY <3>2, <3>3
  <2>3. Go(u, NoWork) /\ UNCHANGED cached
    BY <1>6 DEF ImportPersonToLead, Conclude
  <2>4. CASE <<p, l>> \in links
    <3>1. UNCHANGED book
      BY <1>6, <2>4 DEF ImportPersonToLead
    <3> QED
      BY <1>2, <2>3, <3>1, QuietNames
  <2>5. CASE <<p, l>> \notin links
    <3>1. /\ links' = links \cup {<<p, l>>} /\ (leads' = leads \/ AddLead(l, p))
          /\ stored' = [stored EXCEPT ![p].converted = TRUE, ![p].lead = l]
      BY <1>6, <2>5 DEF ImportPersonToLead
    <3>2. BookIsSound' /\ \A q \in Subjects : IsStored(q) => IsStored(q)'
      BY <1>1, <2>1, <2>2, <2>3, <3>1, ImportIsWhole
    <3> QED
      BY <1>2, <2>3, <3>2, TurnsNames
  <2> QED
    BY <2>4, <2>5
<1> QED
  BY <1>3, <1>4, <1>5, <1>6 DEF SaveAndImport

(* At first nobody is stored, and every step keeps what is stored sound.      *)
LEMMA ImportsBegin ==
    ASSUME ProspectsInit
    PROVE  ImportsInv
<1>1. BookIsSound
  BY FS_EmptySet DEF ProspectsInit, BookIsSound, ConvertedIsLinked, IsStored, NotStored, Answers, Subjects
<1> QED
  BY <1>1 DEF ProspectsInit, ImportsInv, RequestNames, NoWork

(* Every step keeps what is stored sound.                                     *)
LEMMA ImportsStep ==
    ASSUME ImportsInv, CreditsInv, [ProspectsNext]_prospectVars
    PROVE  ImportsInv'
<1>1. ASSUME UNCHANGED <<book, request>>, cached' \in [Subjects -> Answers] PROVE ImportsInv'
  <2>1. BookIsSound'
    BY <1>1 DEF ImportsInv, BookIsSound, book, ConvertedIsLinked, IsStored
  <2> SUFFICES ASSUME NEW u \in Users PROVE RequestNames(request[u])'
    BY <2>1 DEF ImportsInv
  <2> PICK r : r = request[u]
    OBVIOUS
  <2>2. RequestNames(r)
    BY DEF ImportsInv
  <2> QED
    BY <1>1, <2>2 DEF RequestNames, book, IsStored
<1>2. cached \in [Subjects -> Answers]
  BY DEF ImportsInv, BookIsSound
<1>3. CASE \E u \in Users : ManageCredits(u) \/ Enrich(u) \/ SaveAndImport(u)
  BY <1>3, CreditsName, EnrichNames, SavesName
<1>4. CASE NewMonth
  BY <1>1, <1>2, <1>4 DEF NewMonth
<1>5. ASSUME NEW s \in Subjects, ExpireCache(s) PROVE ImportsInv'
  <2>1. cached' \in [Subjects -> Answers] /\ UNCHANGED <<book, request>>
    BY <1>2, <1>5 DEF ExpireCache, Answers
  <2> QED
    BY <1>1, <2>1
<1>6. CASE UNCHANGED prospectVars
  BY <1>1, <1>2, <1>6 DEF prospectVars, book
<1> QED
  BY <1>3, <1>4, <1>5, <1>6 DEF ProspectsNext

(* Credits are charged once for what was bought, and never beyond a quota the *)
(* organization had, for any requests at once, any costs and quotas, and      *)
(* however late the month is begun (credits.service.ts); and a person marked as *)
(* converted has the link to the lead noted (import.service.ts, importPersonToLead). *)
THEOREM ProspectsAlwaysAgree == ProspectsSpec => []ProspectsAgree
<1>1. ProspectsInit => CreditsInv /\ ImportsInv
  BY CreditsBegin, ImportsBegin
<1>2. CreditsInv /\ ImportsInv /\ [ProspectsNext]_prospectVars => CreditsInv' /\ ImportsInv'
  BY ProspectsNextKeeps, ImportsStep
<1>3. CreditsInv /\ ImportsInv => ProspectsAgree
  BY DEF CreditsInv, RowIsSound, ImportsInv, BookIsSound, ProspectsTypeOK, ProspectsAgree
<1> QED
  BY <1>1, <1>2, <1>3, PTL DEF ProspectsSpec

--------------------------------------------------------------------------------
\* Part 4. The internal chat.

OnMessage == {"touch", "point", "read", "unread", "unsend", "react", "edit"}
OnPoll == {"options", "clear", "vote"}
\* What a request may be about to do.
SeenMetadata == [reactions : SUBSET Colleagues, editedAt : BOOLEAN]
Works ==
    UNION {[op : {"rest", "create"}],
           [op : {"own", "call"}, channel : ChannelIds],
           [op : {"send"}, channel : ChannelIds, given : Statements],
           [op : {"add"}, channel : ChannelIds, user : Colleagues, role : {"member", "moderator"}],
           [op : {"drop"}, channel : ChannelIds, step : 1..7],
           [op : {"touch", "point", "read", "unread", "unsend"}, channel : ChannelIds, message : 1..MaxMessages],
           [op : {"react", "edit"}, channel : ChannelIds, message : 1..MaxMessages, saw : SeenMetadata,
            given : Statements],
           [op : {"poll"}, channel : ChannelIds, multiple : BOOLEAN],
           [op : {"options"}, channel : ChannelIds, poll : 1..MaxPolls],
           [op : {"clear", "vote"}, channel : ChannelIds, poll : 1..MaxPolls, option : PollChoices]}

\* The rows it is about were created, and are of its channel.
WorkIsAbout(work, u) ==
    /\ work.op \notin {"rest", "create"} => work.channel \in DOMAIN channels
    /\ work.op = "own" => channels[work.channel].by = u
    /\ work.op \in OnMessage => work.message \in DOMAIN messages /\ messages[work.message].channel = work.channel
    /\ work.op \in OnPoll => work.poll \in DOMAIN polls /\ polls[work.poll].channel = work.channel

RowsTyped ==
    /\ channels \in Seq(ChannelRow) /\ Len(channels) <= MaxChannels
    /\ messages \in Seq(MessageRow) /\ Len(messages) <= MaxMessages
    /\ polls \in Seq(PollRow) /\ Len(polls) <= MaxPolls
    /\ members \in [ChannelIds \X Colleagues -> MemberRow \cup {NotMember}]
    /\ reads \subseteq (DOMAIN messages) \X Colleagues
    /\ votes \subseteq (DOMAIN polls) \X PollChoices \X Colleagues
    /\ calls \subseteq ChannelIds
    /\ toggled \subseteq (DOMAIN messages) \X Colleagues /\ edited \subseteq DOMAIN messages

ChatShape ==
    /\ RowsTyped /\ handler \in [Tabs -> Works]
    /\ \A t \in Tabs : WorkIsAbout(handler[t], Me(t))

\* Overlaps are noted while they last.
VotesOverlap == \A t, s \in Tabs : t # s => Voting(t, handler[t]) \cap Voting(s, handler[s]) \subseteq doubled
RacesNoted == \A t, s \in Tabs : t # s => \A c \in ChannelIds : Races(handler[t], handler[s], c) => c \in raced

\* Votes.
VoteOf(v, p, u) == v[1] = p /\ v[3] = u
OneVote == \A p \in DOMAIN polls, u \in Colleagues : ~polls[p].multiple /\ <<p, u>> \notin doubled =>
              \A v, w \in votes : VoteOf(v, p, u) /\ VoteOf(w, p, u) => v = w
VotesCleared == \A t \in Tabs : LET work == handler[t] IN
    work.op = "vote" /\ ~polls[work.poll].multiple /\ <<work.poll, Me(t)>> \notin doubled =>
        \A v \in votes : ~VoteOf(v, work.poll, Me(t))
VotesInv == VotesOverlap /\ OneVote /\ VotesCleared

\* Reactions. What was read of message m says of everybody's reaction what it should.
Follows(saw, m) ==
    /\ \A u \in Colleagues : <<m, u>> \notin mixed => (u \in saw.reactions <=> <<m, u>> \in toggled)
    /\ m \in edited => saw.editedAt
SawFollows == \A t \in Tabs : LET work == handler[t] IN
    work.op \in {"react", "edit"} /\ messages[work.message].state = "kept" => Follows(work.saw, work.message)
ReactionsInv == SawFollows /\ ReactionsFollowClicks

\* Deletions.
GoneRests == \A c \in DOMAIN channels \ raced : channels[c].state = "gone" => \A t \in Tabs : ~Touches(handler[t], c)
NoReads(c) == \A r \in reads : messages[r[1]].channel # c
NoVotes(c) == \A v \in votes : polls[v[1]].channel # c
NoOptions(c) == \A p \in DOMAIN polls : polls[p].channel = c => polls[p].options = {}
NoPolls(c) == \A p \in DOMAIN polls : polls[p].channel = c => polls[p].state = "gone"
NoMessages(c) == \A m \in DOMAIN messages : messages[m].channel = c => messages[m].state = "gone"
Emptied(c, stage) ==
    /\ stage > 1 => NoReads(c)
    /\ stage > 2 => NoVotes(c)
    /\ stage > 3 => NoOptions(c)
    /\ stage > 4 => NoPolls(c)
    /\ stage > 5 => NoMessages(c)
DropsStand == \A t \in Tabs : LET work == handler[t] IN
    work.op = "drop" /\ work.channel \notin raced => Emptied(work.channel, work.step)
GoneIsEmpty == \A c \in DOMAIN channels \ raced : channels[c].state = "gone" => Emptied(c, 7)
\* Outside of races: what a row belongs to is there.
ReadsOfKept == \A r \in reads : messages[r[1]].channel \notin raced => messages[r[1]].state = "kept"
VotesOfKept == \A v \in votes : polls[v[1]].channel \notin raced => polls[v[1]].state = "kept"
GoneHasNoOptions == \A p \in DOMAIN polls : polls[p].channel \notin raced /\ polls[p].state = "gone" => polls[p].options = {}
WorkKept(work) ==
    /\ work.op \in {"point", "read"} /\ work.channel \notin raced => messages[work.message].state = "kept"
    /\ work.op \in OnPoll /\ work.channel \notin raced => polls[work.poll].state = "kept"
    /\ work.op = "unsend" /\ work.channel \notin raced => \A r \in reads : r[1] # work.message
WorkOfKept == \A t \in Tabs : WorkKept(handler[t])
DeletionsInv ==
    RacesNoted /\ GoneRests /\ DropsStand /\ GoneIsEmpty /\ ReadsOfKept /\ VotesOfKept /\ GoneHasNoOptions /\ WorkOfKept

\* Owners.
OwnerStands == \A c \in DOMAIN channels :
    \/ c \in broken \/ channels[c].state = "gone"
    \/ \E t \in Tabs : /\ handler[t].op \in {"own", "drop"} /\ handler[t].channel = c
                       /\ handler[t].op = "own" => Me(t) = channels[c].by
                       /\ handler[t].op = "drop" => handler[t].step = 7
    \/ members[<<c, channels[c].by>>] # NotMember /\ members[<<c, channels[c].by>>].role = "owner"

ChatInv == ChatShape /\ VotesInv /\ ReactionsInv /\ DeletionsInv /\ OwnerStands

(* At first there is no row and no request.                                   *)
LEMMA ChatStart == ChatInit => ChatInv
  <1> SUFFICES ASSUME ChatInit PROVE ChatInv
    OBVIOUS
  <1>1. /\ channels = <<>> /\ messages = <<>> /\ polls = <<>> /\ reads = {} /\ votes = {} /\ calls = {}
        /\ toggled = {} /\ edited = {} /\ handler = [t \in Tabs |-> Quiet] /\ Quiet \in Works /\ Quiet.op = "rest"
        /\ members = [r \in ChannelIds \X Colleagues |-> NotMember]
    BY DEF ChatInit, Quiet, Works
  <1>2. RowsTyped
    BY <1>1, ChatAssumption DEF RowsTyped
  <1>3. ChatShape
    BY <1>1, <1>2 DEF ChatShape, WorkIsAbout, OnMessage, OnPoll
  <1>4. VotesInv
    BY <1>1 DEF VotesInv, VotesOverlap, OneVote, VotesCleared, Voting
  <1>5. ReactionsInv
    BY <1>1 DEF ReactionsInv, SawFollows, ReactionsFollowClicks
  <1>6. DeletionsInv
    BY <1>1 DEF DeletionsInv, RacesNoted, Races, DeletesChannel, Touches, GoneRests, DropsStand, GoneIsEmpty, ReadsOfKept,
                VotesOfKept, GoneHasNoOptions, WorkOfKept, WorkKept, OnPoll
  <1>7. OwnerStands
    BY <1>1 DEF OwnerStands
  <1> QED
    BY <1>3, <1>4, <1>5, <1>6, <1>7 DEF ChatInv

Fields(w) ==
    /\ w.op \in {"rest", "create", "own", "send", "call", "add", "drop", "touch", "point", "read", "unread", "unsend",
                 "react", "edit", "poll", "options", "clear", "vote"}
    /\ w.op \notin {"rest", "create"} => w.channel \in ChannelIds
    /\ w.op = "add" => w.user \in Colleagues /\ w.role \in {"member", "moderator"}
    /\ w.op = "drop" => w.step \in 1..7
    /\ w.op \in OnMessage => w.message \in 1..MaxMessages
    /\ w.op \in {"react", "edit"} => w.saw \in SeenMetadata
    /\ w.op \in {"send", "react", "edit"} => w.given \in Statements
    /\ w.op = "poll" => w.multiple \in BOOLEAN
    /\ w.op \in OnPoll => w.poll \in 1..MaxPolls
    /\ w.op \in {"clear", "vote"} => w.option \in PollChoices

\* What a request that goes on with the same row knows.
GoesOn(n, w, op) == n \in Works /\ n.op = op /\ n.channel = w.channel

(* Every kind of request carries the fields its handler reads                 *)
(* (chat.controller.ts).                                                      *)
LEMMA WorkFields == \A w \in Works : Fields(w)
  <1>1. \A w \in [op : {"rest", "create"}] : Fields(w)
    BY DEF Fields, OnMessage, OnPoll
  <1>2. \A w \in [op : {"own", "call"}, channel : ChannelIds] : Fields(w)
    BY DEF Fields, OnMessage, OnPoll
  <1>10. \A w \in [op : {"send"}, channel : ChannelIds, given : Statements] : Fields(w)
    BY DEF Fields, OnMessage, OnPoll
  <1>3. \A w \in [op : {"add"}, channel : ChannelIds, user : Colleagues, role : {"member", "moderator"}] : Fields(w)
    BY DEF Fields, OnMessage, OnPoll
  <1>4. \A w \in [op : {"drop"}, channel : ChannelIds, step : 1..7] : Fields(w)
    BY DEF Fields, OnMessage, OnPoll
  <1>5. \A w \in [op : {"touch", "point", "read", "unread", "unsend"}, channel : ChannelIds, message : 1..MaxMessages] :
           Fields(w)
    BY DEF Fields, OnMessage, OnPoll
  <1>6. \A w \in [op : {"react", "edit"}, channel : ChannelIds, message : 1..MaxMessages, saw : SeenMetadata,
                  given : Statements] : Fields(w)
    BY DEF Fields, OnMessage, OnPoll
  <1>7. \A w \in [op : {"poll"}, channel : ChannelIds, multiple : BOOLEAN] : Fields(w)
    BY DEF Fields, OnMessage, OnPoll
  <1>8. \A w \in [op : {"options"}, channel : ChannelIds, poll : 1..MaxPolls] : Fields(w)
    BY DEF Fields, OnMessage, OnPoll
  <1>9. \A w \in [op : {"clear", "vote"}, channel : ChannelIds, poll : 1..MaxPolls, option : PollChoices] : Fields(w)
    BY DEF Fields, OnMessage, OnPoll
  <1> QED
    BY <1>1, <1>2, <1>3, <1>4, <1>5, <1>6, <1>7, <1>8, <1>9, <1>10 DEF Works

(* The next statement of the same request is about the same row: the mark     *)
(* after the pointer, the message after its marks, the vote after the cleared *)
(* ones, the next table of a deletion.                                        *)
LEMMA WorkGoesOn ==
    ASSUME NEW w \in Works
    PROVE  /\ w.op = "point" => LET n == [w EXCEPT !.op = "read"] IN GoesOn(n, w, "read") /\ n.message = w.message
           /\ w.op = "unread" => LET n == [w EXCEPT !.op = "unsend"] IN GoesOn(n, w, "unsend") /\ n.message = w.message
           /\ w.op = "clear" => LET n == [w EXCEPT !.op = "vote"] IN
                                GoesOn(n, w, "vote") /\ n.poll = w.poll /\ n.option = w.option
           /\ w.op = "drop" /\ w.step # 7 => LET n == [w EXCEPT !.step = @ + 1] IN
                                GoesOn(n, w, "drop") /\ n.step = w.step + 1
  <1> DEFINE On == [op : {"touch", "point", "read", "unread", "unsend"}, channel : ChannelIds, message : 1..MaxMessages]
             Vote == [op : {"clear", "vote"}, channel : ChannelIds, poll : 1..MaxPolls, option : PollChoices]
             Drops == [op : {"drop"}, channel : ChannelIds, step : 1..7]
  <1>1. On \subseteq Works /\ Vote \subseteq Works /\ Drops \subseteq Works
    BY DEF Works
  <1>2. w.op \in {"point", "unread"} => w \in On
    BY DEF Works
  <1>3. w.op = "clear" => w \in Vote
    BY DEF Works
  <1>4. w.op = "drop" => w \in Drops
    BY DEF Works
  <1>5. \A x \in On : \A op \in {"read", "unsend"} :
           LET n == [x EXCEPT !.op = op] IN n \in On /\ n.op = op /\ n.channel = x.channel /\ n.message = x.message
    OBVIOUS
  <1>6. \A x \in Vote : LET n == [x EXCEPT !.op = "vote"] IN
           n \in Vote /\ n.op = "vote" /\ n.channel = x.channel /\ n.poll = x.poll /\ n.option = x.option
    OBVIOUS
  <1>7. \A x \in Drops : x.step # 7 => LET n == [x EXCEPT !.step = @ + 1] IN
           n \in Drops /\ n.op = "drop" /\ n.channel = x.channel /\ n.step = x.step + 1
    OBVIOUS
  <1> HIDE DEF On, Vote, Drops
  <1>8. w.op = "point" => LET n == [w EXCEPT !.op = "read"] IN GoesOn(n, w, "read") /\ n.message = w.message
    BY <1>1, <1>2, <1>5 DEF GoesOn
  <1>9. w.op = "unread" => LET n == [w EXCEPT !.op = "unsend"] IN GoesOn(n, w, "unsend") /\ n.message = w.message
    BY <1>1, <1>2, <1>5 DEF GoesOn
  <1>10. w.op = "clear" => LET n == [w EXCEPT !.op = "vote"] IN
                                GoesOn(n, w, "vote") /\ n.poll = w.poll /\ n.option = w.option
    BY <1>1, <1>3, <1>6 DEF GoesOn
  <1>11. w.op = "drop" /\ w.step # 7 => LET n == [w EXCEPT !.step = @ + 1] IN
                                GoesOn(n, w, "drop") /\ n.step = w.step + 1
    BY <1>1, <1>4, <1>7 DEF GoesOn
  <1> QED
    BY <1>8, <1>9, <1>10, <1>11

(* A step changes the work of one tab, and notes the votes and the deletions  *)
(* that overlap it.                                                           *)
LEMMA Overlaps ==
    ASSUME ChatShape, NEW t \in Tabs, NEW w \in Works, Proceed(t, w)
    PROVE  /\ handler' \in [Tabs -> Works]
           /\ \A s \in Tabs : handler'[s] = IF s = t THEN w ELSE handler[s]
           /\ doubled \subseteq doubled' /\ raced \subseteq raced'
           /\ VotesOverlap => VotesOverlap'
           /\ RacesNoted => RacesNoted'
  <1>1. /\ handler' \in [Tabs -> Works] /\ \A s \in Tabs : handler'[s] = IF s = t THEN w ELSE handler[s]
    BY DEF ChatShape, Proceed
  <1>2. /\ doubled \subseteq doubled' /\ raced \subseteq raced'
        /\ \A s \in Tabs : s # t => Voting(t, w) \cap Voting(s, handler[s]) \subseteq doubled'
        /\ \A s \in Tabs : s # t => \A c \in ChannelIds :
              Races(w, handler[s], c) \/ Races(handler[s], w, c) => c \in raced'
    BY DEF Proceed
  <1>3. VotesOverlap => VotesOverlap'
    BY <1>1, <1>2 DEF VotesOverlap
  <1>4. RacesNoted => RacesNoted'
    BY <1>1, <1>2 DEF RacesNoted
  <1> QED
    BY <1>1, <1>2, <1>3, <1>4

\* Rows are added, and stay of their channel.
RowsGrow ==
    /\ \A c \in DOMAIN channels : c \in DOMAIN channels' /\ channels'[c].by = channels[c].by
    /\ \A m \in DOMAIN messages : m \in DOMAIN messages' /\ messages'[m].channel = messages[m].channel
    /\ \A p \in DOMAIN polls : /\ p \in DOMAIN polls' /\ polls'[p].channel = polls[p].channel
                               /\ polls'[p].multiple = polls[p].multiple

(* Rows have their columns and requests their rows, when rows are only added  *)
(* and the step leaves its request on rows there are.                         *)
LEMMA ShapeKept ==
    ASSUME ChatShape, NEW t \in Tabs, NEW w \in Works, Proceed(t, w), RowsTyped', RowsGrow, WorkIsAbout(w, Me(t))'
    PROVE  ChatShape'
  <1>1. ASSUME NEW s \in Tabs PROVE WorkIsAbout(handler[s], Me(s))'
    <2>1. CASE s = t
      BY <2>1, Overlaps DEF WorkIsAbout
    <2>2. CASE s # t
      <3>1. WorkIsAbout(handler[s], Me(s)) /\ handler'[s] = handler[s]
        BY <2>2, Overlaps DEF ChatShape
      <3> QED
        BY <3>1 DEF WorkIsAbout, RowsGrow
    <2> QED
      BY <2>1, <2>2
  <1> QED
    BY <1>1, Overlaps DEF ChatShape

(* A step that adds no vote keeps one vote each, when whoever is about to     *)
(* insert one has none left (chat.service.ts:632-636).                        *)
LEMMA VotesKept ==
    ASSUME ChatShape, VotesInv, NEW t \in Tabs, NEW w \in Works, Proceed(t, w), votes' \subseteq votes, RowsGrow,
           w.op = "vote" => w.poll \in DOMAIN polls /\
               (~polls[w.poll].multiple /\ <<w.poll, Me(t)>> \notin doubled => \A v \in votes' : ~VoteOf(v, w.poll, Me(t)))
    PROVE  VotesInv'
  <1>1. VotesOverlap' /\ doubled \subseteq doubled'
    BY Overlaps DEF VotesInv
  <1>2. \A v \in votes : v[1] \in DOMAIN polls
    BY DEF ChatShape, RowsTyped
  <1>3. OneVote'
    BY <1>1, <1>2 DEF VotesInv, OneVote, VoteOf, RowsGrow
  <1>4. ASSUME NEW s \in Tabs, handler'[s].op = "vote", ~polls'[handler'[s].poll].multiple,
               <<handler'[s].poll, Me(s)>> \notin doubled', NEW v \in votes'
        PROVE  ~VoteOf(v, handler'[s].poll, Me(s))
    <2>1. CASE s = t
      BY <1>1, <1>4, <2>1, Overlaps DEF RowsGrow
    <2>2. CASE s # t
      <3>1. handler'[s] = handler[s] /\ WorkIsAbout(handler[s], Me(s))
        BY <2>2, Overlaps DEF ChatShape
      <3>2. handler[s].poll \in DOMAIN polls
        BY <1>4, <3>1 DEF WorkIsAbout, OnPoll
      <3> QED
        BY <1>1, <1>4, <3>1, <3>2 DEF VotesInv, VotesCleared, RowsGrow
    <2> QED
      BY <2>1, <2>2
  <1>5. VotesCleared'
    BY <1>4 DEF VotesCleared
  <1> QED
    BY <1>1, <1>3, <1>5 DEF VotesInv

(* A step that clicks and edits nothing keeps the reactions in line with the  *)
(* clicks, and whoever is about to write read the row as it is; a new message *)
(* has the reactions it was sent with (chat.service.ts:22-42, 460-494).       *)
LEMMA ReactionsKept ==
    ASSUME ChatShape, ReactionsInv, NEW t \in Tabs, NEW w \in Works, Proceed(t, w), UNCHANGED <<edited, mixed>>,
           \A m \in DOMAIN messages, u \in Colleagues : <<m, u>> \in toggled' <=> <<m, u>> \in toggled,
           \A m \in DOMAIN messages : m \in DOMAIN messages' /\
              (messages'[m].state = "kept" => messages[m].state = "kept" /\ Metadata(m)' = Metadata(m)),
           \A m \in DOMAIN messages' \ DOMAIN messages : \A u \in Colleagues :
              u \in messages'[m].reactions <=> <<m, u>> \in toggled',
           w.op \in {"react", "edit"} => w.message \in DOMAIN messages /\ w.saw = Metadata(w.message)
    PROVE  ReactionsInv'
  <1>1. \A m \in DOMAIN messages : \A saw : Follows(saw, m) => Follows(saw, m)'
    BY DEF Follows
  <1>2. \A m \in DOMAIN messages : messages[m].state = "kept" => Follows(Metadata(m), m)
    BY DEF ReactionsInv, ReactionsFollowClicks, Follows, Metadata
  <1>3. SawFollows'
    <2>1. ASSUME NEW s \in Tabs, handler'[s].op \in {"react", "edit"}, messages'[handler'[s].message].state = "kept"
          PROVE  Follows(handler[s].saw, handler[s].message)'
      <3>1. CASE s = t
        <4>1. handler'[s] = w
          BY <3>1, Overlaps
        <4>2. w.message \in DOMAIN messages /\ w.saw = Metadata(w.message) /\ messages[w.message].state = "kept"
          BY <2>1, <4>1
        <4>3. Follows(w.saw, w.message)'
          BY <1>1, <1>2, <4>2
        <4> QED
          BY <4>1, <4>3 DEF Follows
      <3>2. CASE s # t
        <4>1. handler'[s] = handler[s] /\ WorkIsAbout(handler[s], Me(s))
          BY <3>2, Overlaps DEF ChatShape
        <4>2. handler[s].message \in DOMAIN messages
          BY <2>1, <4>1 DEF WorkIsAbout, OnMessage
        <4>3. Follows(handler[s].saw, handler[s].message)
          BY <2>1, <4>1, <4>2 DEF ReactionsInv, SawFollows
        <4> QED
          BY <4>1, <4>2, <4>3 DEF Follows
      <3> QED
        BY <3>1, <3>2
    <2> QED
      BY <2>1 DEF SawFollows, Follows
  <1>4. ASSUME NEW m \in DOMAIN messages', messages'[m].state = "kept"
        PROVE  /\ \A u \in Colleagues : <<m, u>> \notin mixed' => (u \in messages'[m].reactions <=> <<m, u>> \in toggled')
               /\ m \in edited' => messages'[m].editedAt
    <2>1. CASE m \in DOMAIN messages
      <3>1. messages'[m].reactions = messages[m].reactions /\ messages'[m].editedAt = messages[m].editedAt
        BY <1>4, <2>1 DEF Metadata
      <3>2. messages[m].state = "kept"
        BY <1>4, <2>1
      <3> QED
        BY <2>1, <3>1, <3>2 DEF ReactionsInv, ReactionsFollowClicks
    <2>2. CASE m \notin DOMAIN messages
      <3>1. m \notin edited
        BY <2>2 DEF ChatShape, RowsTyped
      <3> QED
        BY <1>4, <2>2, <3>1
    <2> QED
      BY <2>1, <2>2
  <1>5. ReactionsFollowClicks'
    BY <1>4 DEF ReactionsFollowClicks
  <1> QED
    BY <1>3, <1>5 DEF ReactionsInv

(* A step of a request that neither makes nor deletes a channel, or that      *)
(* breaks it off, leaves the creators what they are.                          *)
LEMMA OwnersKept ==
    ASSUME ChatShape, OwnerStands, NEW t \in Tabs, NEW w \in Works, Proceed(t, w), broken \subseteq broken',
           handler[t].op \notin {"own", "drop"} \/ handler[t].channel \in broken',
           \A c \in DOMAIN channels' : /\ c \in DOMAIN channels /\ channels'[c].by = channels[c].by
                                       /\ channels'[c].state = channels[c].state,
           \A c \in ChannelIds, u \in Colleagues :
              members[<<c, u>>] # NotMember => members'[<<c, u>>] # NotMember /\ members'[<<c, u>>].role = members[<<c, u>>].role
    PROVE  OwnerStands'
  <1>1. ASSUME NEW c \in DOMAIN channels', c \notin broken', channels'[c].state # "gone"
        PROVE  \/ \E s \in Tabs : /\ handler'[s].op \in {"own", "drop"} /\ handler'[s].channel = c
                                  /\ handler'[s].op = "own" => Me(s) = channels'[c].by
                                  /\ handler'[s].op = "drop" => handler'[s].step = 7
               \/ members'[<<c, channels'[c].by>>] # NotMember /\ members'[<<c, channels'[c].by>>].role = "owner"
    <2>1. c \in DOMAIN channels /\ c \notin broken /\ channels[c].state # "gone" /\ channels'[c].by = channels[c].by
      BY <1>1
    <2>2. c \in ChannelIds /\ channels[c].by \in Colleagues
      <3>1. channels \in Seq(ChannelRow) /\ Len(channels) <= MaxChannels
        BY DEF ChatShape, RowsTyped
      <3>2. channels[c] \in ChannelRow /\ c \in 1..Len(channels)
        BY <2>1, <3>1
      <3>3. c \in ChannelIds
        BY <3>1, <3>2, ChatAssumption DEF ChannelIds
      <3> QED
        BY <3>2, <3>3 DEF ChannelRow
    <2>3. CASE \E s \in Tabs : /\ handler[s].op \in {"own", "drop"} /\ handler[s].channel = c
                               /\ handler[s].op = "own" => Me(s) = channels[c].by
                               /\ handler[s].op = "drop" => handler[s].step = 7
      BY <1>1, <2>1, <2>3, Overlaps
    <2>4. CASE members[<<c, channels[c].by>>] # NotMember /\ members[<<c, channels[c].by>>].role = "owner"
      BY <2>1, <2>2, <2>4
    <2>5. \/ \E s \in Tabs : /\ handler[s].op \in {"own", "drop"} /\ handler[s].channel = c
                             /\ handler[s].op = "own" => Me(s) = channels[c].by
                             /\ handler[s].op = "drop" => handler[s].step = 7
          \/ members[<<c, channels[c].by>>] # NotMember /\ members[<<c, channels[c].by>>].role = "owner"
      <3>1. channels[c].state = "gone" <=> FALSE
        BY <2>1
      <3> QED
        BY <2>1, <3>1 DEF OwnerStands
    <2> QED
      BY <2>3, <2>4, <2>5
  <1> QED
    BY <1>1 DEF OwnerStands

\* What was emptied of a channel stays so.
Lessens(c) ==
    /\ NoReads(c) => NoReads(c)'
    /\ NoVotes(c) => NoVotes(c)'
    /\ NoOptions(c) => NoOptions(c)'
    /\ NoPolls(c) => NoPolls(c)'
    /\ NoMessages(c) => NoMessages(c)'

(* What a deletion has emptied stays empty: a step adds only rows of the      *)
(* channel its own request is about, and a request on a channel being deleted *)
(* is noted as a race (chat.service.ts:750-780).                              *)
LEMMA DeletionsKept ==
    ASSUME ChatShape, DeletionsInv, ChatShape', NEW t \in Tabs, NEW w \in Works, Proceed(t, w),
           \A c \in DOMAIN channels' : channels'[c].state = "gone" => c \in DOMAIN channels /\
              (channels[c].state = "gone" \/ (DeletesChannel(handler[t], c) /\ handler[t].step = 7)),
           \A c \in ChannelIds : Touches(w, c) =>
              handler[t].op # "drop" /\ (Touches(handler[t], c) \/ channels[c].state = "kept"),
           \A c \in ChannelIds : ~Touches(handler[t], c) => Lessens(c),
           w.op = "drop" => w.channel \in raced' \/ Emptied(w.channel, w.step)',
           (ReadsOfKept /\ VotesOfKept /\ GoneHasNoOptions /\ WorkOfKept)'
    PROVE  DeletionsInv'
  <1>1. RacesNoted' /\ raced \subseteq raced' /\ RacesNoted
    BY Overlaps DEF DeletionsInv
  <1>2. DOMAIN channels \subseteq ChannelIds
    BY ChatAssumption DEF ChatShape, RowsTyped, ChannelIds
  <1>3. \A s \in Tabs : Fields(handler[s])
    BY WorkFields DEF ChatShape
  <1>4. \A stage : \A c \in ChannelIds : Lessens(c) /\ Emptied(c, stage) => Emptied(c, stage)'
    BY DEF Lessens, Emptied
  <1>5. ASSUME NEW c \in DOMAIN channels', c \notin raced', channels'[c].state = "gone"
        PROVE  Emptied(c, 7)' /\ \A s \in Tabs : ~Touches(handler'[s], c)
    <2>1. c \in DOMAIN channels /\ c \notin raced /\ c \in ChannelIds
      BY <1>1, <1>2, <1>5
    <2>2. CASE channels[c].state = "gone"
      <3>1. Emptied(c, 7) /\ \A s \in Tabs : ~Touches(handler[s], c)
        BY <2>1, <2>2 DEF DeletionsInv, GoneIsEmpty, GoneRests
      <3>2. Emptied(c, 7)'
        BY <1>4, <2>1, <3>1
      <3>3. \A s \in Tabs : ~Touches(handler'[s], c)
        BY <2>1, <2>2, <3>1, Overlaps
      <3> QED
        BY <3>2, <3>3
    <2>3. CASE DeletesChannel(handler[t], c) /\ handler[t].step = 7
      <3>1. ~Touches(handler[t], c) /\ Emptied(c, 7)
        BY <2>1, <2>3 DEF DeletesChannel, Touches, DeletionsInv, DropsStand
      <3>2. Emptied(c, 7)'
        BY <1>4, <2>1, <3>1
      <3>3. \A s \in Tabs : s # t => ~Touches(handler[s], c)
        BY <1>1, <2>1, <2>3 DEF RacesNoted, Races
      <3>4. ~Touches(w, c)
        BY <2>1, <2>3 DEF DeletesChannel
      <3>5. \A s \in Tabs : ~Touches(handler'[s], c)
        BY <3>3, <3>4, Overlaps
      <3> QED
        BY <3>2, <3>5
    <2> QED
      BY <1>5, <2>2, <2>3
  <1>6. ASSUME NEW s \in Tabs, handler'[s].op = "drop", handler'[s].channel \notin raced'
        PROVE  Emptied(handler[s].channel, handler[s].step)'
    <2>1. CASE s = t
      <3>1. handler'[s] = w
        BY <2>1, Overlaps
      <3> QED
        BY <1>6, <3>1 DEF Emptied, NoReads, NoVotes, NoOptions, NoPolls, NoMessages
    <2>2. CASE s # t
      <3>1. handler'[s] = handler[s] /\ handler[s].channel \in ChannelIds /\ handler[s].channel \notin raced
        BY <1>1, <1>3, <1>6, <2>2, Overlaps DEF Fields
      <3>2. ~Touches(handler[t], handler[s].channel)
        BY <1>1, <1>6, <2>2, <3>1 DEF RacesNoted, Races, DeletesChannel
      <3>3. Emptied(handler[s].channel, handler[s].step)
        BY <1>6, <3>1 DEF DeletionsInv, DropsStand
      <3>4. PICK c, stage : c = handler[s].channel /\ stage = handler[s].step
        OBVIOUS
      <3>5. Emptied(c, stage)'
        BY <1>4, <3>1, <3>2, <3>3, <3>4
      <3> QED
        BY <3>1, <3>4, <3>5 DEF Emptied, NoReads, NoVotes, NoOptions, NoPolls, NoMessages
    <2> QED
      BY <2>1, <2>2
  <1>7. GoneRests' /\ GoneIsEmpty'
    BY <1>5 DEF GoneRests, GoneIsEmpty
  <1>8. DropsStand'
    BY <1>6 DEF DropsStand
  <1> QED
    BY <1>1, <1>7, <1>8 DEF DeletionsInv

(* What a mark, a vote or a request belongs to is still there after a step    *)
(* that ends no row and makes no mark.                                        *)
LEMMA RowsOfKept ==
    ASSUME ChatShape, DeletionsInv, NEW t \in Tabs, NEW w \in Works, Proceed(t, w), RowsGrow,
           reads' \subseteq reads, votes' \subseteq votes,
           \A m \in DOMAIN messages : messages'[m].state = messages[m].state,
           \A p \in DOMAIN polls : polls'[p].state = polls[p].state,
           \A p \in DOMAIN polls' : polls'[p].state = "gone" =>
              polls'[p].channel \in raced' \/ (p \in DOMAIN polls /\ polls'[p].options = polls[p].options),
           WorkKept(w)'
    PROVE  (ReadsOfKept /\ VotesOfKept /\ GoneHasNoOptions /\ WorkOfKept)'
  <1>1. raced \subseteq raced'
    BY Overlaps
  <1>2. (\A r \in reads : r[1] \in DOMAIN messages) /\ (\A v \in votes : v[1] \in DOMAIN polls)
    BY DEF ChatShape, RowsTyped
  <1>3. ReadsOfKept'
    BY <1>1, <1>2 DEF DeletionsInv, ReadsOfKept, RowsGrow
  <1>4. VotesOfKept'
    BY <1>1, <1>2 DEF DeletionsInv, VotesOfKept, RowsGrow
  <1>5. GoneHasNoOptions'
    BY <1>1 DEF DeletionsInv, GoneHasNoOptions, RowsGrow
  <1>6. ASSUME NEW s \in Tabs PROVE WorkKept(handler[s])'
    <2>1. CASE s = t
      <3>1. handler'[s] = w
        BY <2>1, Overlaps
      <3> QED
        BY <3>1 DEF WorkKept
    <2>2. CASE s # t
      <3>1. handler'[s] = handler[s] /\ WorkIsAbout(handler[s], Me(s)) /\ WorkKept(handler[s])
        BY <2>2, Overlaps DEF ChatShape, DeletionsInv, WorkOfKept
      <3> QED
        BY <1>1, <3>1 DEF WorkKept, WorkIsAbout, OnMessage, OnPoll
    <2> QED
      BY <2>1, <2>2
  <1> QED
    BY <1>3, <1>4, <1>5, <1>6 DEF WorkOfKept

\* What a request begins with, or goes on to.
FreshWork(t, w) ==
    /\ WorkIsAbout(w, Me(t))
    /\ \A c \in ChannelIds : Touches(w, c) =>
          handler[t].op # "drop" /\ (Touches(handler[t], c) \/ channels[c].state = "kept")
    /\ w.op = "vote" => polls[w.poll].multiple
    /\ w.op \in {"react", "edit"} => w.saw = Metadata(w.message)
    /\ w.op = "drop" => w.step = 1
    /\ WorkKept(w)

(* A step that writes no message, poll, mark or vote keeps all but the owners. *)
LEMMA QuietStep ==
    ASSUME ChatInv, NEW t \in Tabs, NEW w \in Works, Proceed(t, w),
           UNCHANGED <<messages, polls, reads, votes, clicks>>, RowsTyped', RowsGrow,
           WorkIsAbout(w, Me(t))', FreshWork(t, w) \/ (w = Quiet),
           \A c \in DOMAIN channels' : channels'[c].state = "gone" => c \in DOMAIN channels /\ channels[c].state = "gone"
    PROVE  ChatShape' /\ VotesInv' /\ ReactionsInv' /\ DeletionsInv'
  <1>0. ChatShape /\ ChatShape'
    BY ShapeKept DEF ChatInv
  <1>1. w = Quiet => w.op = "rest"
    BY DEF Quiet
  <1>2. VotesInv'
    BY <1>0, <1>1, VotesKept DEF ChatInv, FreshWork, WorkIsAbout, OnPoll
  <1>3. ReactionsInv'
    BY <1>0, <1>1, ReactionsKept DEF clicks, ChatInv, FreshWork, WorkIsAbout, OnMessage, Metadata
  <1>4. \A c \in ChannelIds : Lessens(c)
    BY DEF Lessens, NoReads, NoVotes, NoOptions, NoPolls, NoMessages
  <1>5. WorkKept(w)'
    BY <1>1, Overlaps, <1>0 DEF FreshWork, WorkKept, OnPoll
  <1>6. (ReadsOfKept /\ VotesOfKept /\ GoneHasNoOptions /\ WorkOfKept)'
    BY <1>0, <1>5, RowsOfKept DEF ChatInv
  <1>7. \A c \in ChannelIds : Touches(w, c) =>
           handler[t].op # "drop" /\ (Touches(handler[t], c) \/ channels[c].state = "kept")
    BY <1>1 DEF FreshWork, Touches
  <1>8. w.op = "drop" => Emptied(w.channel, w.step)'
    BY <1>1 DEF FreshWork, Emptied
  <1>9. DeletionsInv'
    BY <1>0, <1>4, <1>6, <1>7, <1>8, DeletionsKept DEF ChatInv
  <1> QED
    BY <1>0, <1>2, <1>3, <1>9

(* A request that begins with rows it found, and read them as they are, keeps *)
(* the invariant.                                                             *)
LEMMA BeginKeeps ==
    ASSUME ChatInv, NEW t \in Tabs, NEW w \in Works, Begin(t, w), FreshWork(t, w)
    PROVE  ChatInv'
  <1>1. /\ Proceed(t, w) /\ handler[t] = Quiet /\ Quiet.op = "rest" /\ broken' = broken
        /\ UNCHANGED <<channels, messages, polls, members, reads, votes, calls>> /\ UNCHANGED clicks
    BY DEF Begin, Quiet, rows
  <1>2. RowsTyped' /\ RowsGrow /\ WorkIsAbout(w, Me(t))'
    BY <1>1 DEF ChatInv, ChatShape, RowsTyped, RowsGrow, clicks, FreshWork, WorkIsAbout
  <1>3. ChatShape' /\ VotesInv' /\ ReactionsInv' /\ DeletionsInv'
    BY <1>1, <1>2, QuietStep
  <1>4. OwnerStands'
    BY <1>1, OwnersKept DEF ChatInv
  <1> QED
    BY <1>3, <1>4 DEF ChatInv

(* Each of the eleven requests begins so (chat.service.ts, the checks of each *)
(* operation).                                                                *)
LEMMA BeginSteps ==
    ASSUME ChatInv, NEW t \in Tabs,
           \/ BeginCreate(t)
           \/ \E c \in DOMAIN channels : BeginDeleteChannel(t, c) \/ BeginCall(t, c)
           \/ \E c \in DOMAIN channels, given \in Statements : BeginSend(t, c, given)
           \/ \E c \in DOMAIN channels, u \in Colleagues, role \in {"member", "moderator"} : BeginAddMember(t, c, u, role)
           \/ \E c \in DOMAIN channels, m \in DOMAIN messages :
                 \/ BeginReact(t, c, m) \/ BeginRead(t, c, m) \/ BeginDeleteMessage(t, c, m)
                 \/ \E given \in Statements : BeginEdit(t, c, m, given)
           \/ \E c \in DOMAIN channels, multiple \in BOOLEAN : BeginPoll(t, c, multiple)
           \/ \E c \in DOMAIN channels, p \in DOMAIN polls, o \in PollChoices : BeginVote(t, c, p, o)
    PROVE  ChatInv'
  <1>1. ChatShape /\ RowsTyped
    BY DEF ChatInv, ChatShape
  <1>2. DOMAIN channels \subseteq ChannelIds /\ DOMAIN messages \subseteq 1..MaxMessages /\ DOMAIN polls \subseteq 1..MaxPolls
    BY <1>1, ChatAssumption DEF RowsTyped, ChannelIds
  <1>3. ASSUME NEW w \in Works, Begin(t, w), WorkIsAbout(w, Me(t)),
               w.op \notin {"rest", "drop", "create", "own", "add"} => channels[w.channel].state = "kept",
               w.op = "vote" => polls[w.poll].multiple,
               w.op \in {"react", "edit"} => w.saw = Metadata(w.message),
               w.op = "drop" => w.step = 1,
               WorkKept(w)
        PROVE  ChatInv'
    <2>1. handler[t].op # "drop"
      BY <1>3 DEF Begin, Quiet
    <2>2. FreshWork(t, w)
      BY <1>3, <2>1 DEF FreshWork, Touches
    <2> QED
      BY <1>3, <2>2, BeginKeeps
  <1>4. CASE BeginCreate(t)
    <2> DEFINE w == [op |-> "create"]
    <2>1. w \in Works
      BY DEF Works
    <2> QED
      BY <1>3, <1>4, <2>1 DEF BeginCreate, WorkIsAbout, WorkKept, OnMessage, OnPoll
  <1>5. ASSUME NEW c \in DOMAIN channels, BeginDeleteChannel(t, c) PROVE ChatInv'
    <2> DEFINE w == [op |-> "drop", channel |-> c, step |-> 1]
    <2>1. w \in Works
      BY <1>2 DEF Works
    <2> QED
      BY <1>3, <1>5, <2>1 DEF BeginDeleteChannel, WorkIsAbout, WorkKept, OnMessage, OnPoll
  <1>6. ASSUME NEW c \in DOMAIN channels, BeginCall(t, c) PROVE ChatInv'
    <2> DEFINE w == [op |-> "call", channel |-> c]
    <2>1. w \in Works
      BY <1>2 DEF Works
    <2> QED
      BY <1>3, <1>6, <2>1 DEF BeginCall, Access, StillThere, WorkIsAbout, WorkKept, OnMessage, OnPoll
  <1>14. ASSUME NEW c \in DOMAIN channels, NEW given \in Statements, BeginSend(t, c, given) PROVE ChatInv'
    <2> DEFINE w == [op |-> "send", channel |-> c, given |-> given]
    <2>1. w \in Works
      BY <1>2 DEF Works
    <2> QED
      BY <1>3, <1>14, <2>1 DEF BeginSend, Access, StillThere, WorkIsAbout, WorkKept, OnMessage, OnPoll
  <1>7. ASSUME NEW c \in DOMAIN channels, NEW u \in Colleagues, NEW role \in {"member", "moderator"},
               BeginAddMember(t, c, u, role)
        PROVE  ChatInv'
    <2> DEFINE w == [op |-> "add", channel |-> c, user |-> u, role |-> role]
    <2>1. w \in Works
      BY <1>2 DEF Works
    <2> QED
      BY <1>3, <1>7, <2>1 DEF BeginAddMember, WorkIsAbout, WorkKept, OnMessage, OnPoll
  <1>8. ASSUME NEW c \in DOMAIN channels, NEW m \in DOMAIN messages, NEW op \in {"react", "edit"},
               NEW given \in Statements, Access(c, Me(t)), Found(c, m),
               Begin(t, [op |-> op, channel |-> c, message |-> m, saw |-> Metadata(m), given |-> given])
        PROVE  ChatInv'
    <2> DEFINE w == [op |-> op, channel |-> c, message |-> m, saw |-> Metadata(m), given |-> given]
    <2>1. messages[m] \in MessageRow
      BY <1>1 DEF RowsTyped
    <2>2. Metadata(m) \in SeenMetadata
      BY <2>1 DEF Metadata, SeenMetadata, MessageRow
    <2>3. w \in [op : {"react", "edit"}, channel : ChannelIds, message : 1..MaxMessages, saw : SeenMetadata,
                 given : Statements]
      BY <1>2, <2>2
    <2>4. w \in Works
      BY <2>3 DEF Works
    <2>5. w.op = op /\ w.channel = c /\ w.message = m /\ w.saw = Metadata(m)
      OBVIOUS
    <2> HIDE DEF w
    <2>6. channels[c].state = "kept" /\ messages[m].channel = c
      BY <1>8 DEF Access, StillThere, Found
    <2>7. WorkIsAbout(w, Me(t)) /\ WorkKept(w)
      BY <2>5, <2>6 DEF WorkIsAbout, WorkKept, OnMessage, OnPoll
    <2>8. Begin(t, w)
      BY <1>8 DEF w
    <2> QED
      BY <1>3, <2>4, <2>5, <2>6, <2>7, <2>8
  <1>9. ASSUME NEW c \in DOMAIN channels, NEW m \in DOMAIN messages, NEW op \in {"point", "unread"}, Access(c, Me(t)),
               Found(c, m), Begin(t, [op |-> op, channel |-> c, message |-> m])
        PROVE  ChatInv'
    <2> DEFINE w == [op |-> op, channel |-> c, message |-> m]
    <2>1. w \in [op : {"touch", "point", "read", "unread", "unsend"}, channel : ChannelIds, message : 1..MaxMessages]
      BY <1>2
    <2>2. w \in Works
      BY <2>1 DEF Works
    <2> QED
      BY <1>3, <1>9, <2>2 DEF Access, StillThere, Found, WorkIsAbout, WorkKept, OnMessage, OnPoll
  <1>10. ASSUME NEW c \in DOMAIN channels, NEW multiple \in BOOLEAN, BeginPoll(t, c, multiple) PROVE ChatInv'
    <2> DEFINE w == [op |-> "poll", channel |-> c, multiple |-> multiple]
    <2>1. w \in Works
      BY <1>2 DEF Works
    <2> QED
      BY <1>3, <1>10, <2>1 DEF BeginPoll, Access, StillThere, WorkIsAbout, WorkKept, OnMessage, OnPoll
  <1>11. ASSUME NEW c \in DOMAIN channels, NEW p \in DOMAIN polls, NEW o \in PollChoices, BeginVote(t, c, p, o) PROVE ChatInv'
    <2>1. PICK op \in {"clear", "vote"} : /\ op = "vote" => polls[p].multiple
                                          /\ Begin(t, [op |-> op, channel |-> c, poll |-> p, option |-> o])
      BY <1>11 DEF BeginVote
    <2> DEFINE w == [op |-> op, channel |-> c, poll |-> p, option |-> o]
    <2>2. w \in [op : {"clear", "vote"}, channel : ChannelIds, poll : 1..MaxPolls, option : PollChoices]
      BY <1>2
    <2>3. w \in Works
      BY <2>2 DEF Works
    <2>4. channels[c].state = "kept" /\ polls[p].state = "kept" /\ polls[p].channel = c
      BY <1>11 DEF BeginVote, Access, StillThere
    <2> QED
      BY <1>3, <2>1, <2>3, <2>4 DEF WorkIsAbout, WorkKept, OnMessage, OnPoll
  <1>12. {} \in Statements
    BY DEF Statements
  <1>13. ASSUME NEW c \in DOMAIN channels, NEW m \in DOMAIN messages,
                \/ BeginReact(t, c, m) \/ BeginRead(t, c, m) \/ BeginDeleteMessage(t, c, m)
                \/ \E given \in Statements : BeginEdit(t, c, m, given)
         PROVE  ChatInv'
    BY <1>8, <1>9, <1>12, <1>13 DEF BeginReact, BeginEdit, BeginRead, BeginDeleteMessage
  <1> QED
    BY <1>4, <1>5, <1>6, <1>7, <1>10, <1>11, <1>13, <1>14

(* The rows there are have identifiers in order, and each has its columns.    *)
LEMMA RowWrites ==
    ASSUME RowsTyped
    PROVE  /\ channels \in Seq(ChannelRow) /\ messages \in Seq(MessageRow) /\ polls \in Seq(PollRow)
           /\ DOMAIN channels = 1..Len(channels) /\ DOMAIN messages = 1..Len(messages) /\ DOMAIN polls = 1..Len(polls)
           /\ Len(channels) \in Nat /\ Len(messages) \in Nat /\ Len(polls) \in Nat
           /\ DOMAIN channels \subseteq ChannelIds /\ DOMAIN messages \subseteq 1..MaxMessages
           /\ DOMAIN polls \subseteq 1..MaxPolls
           /\ \A c \in DOMAIN channels : channels[c] \in ChannelRow
           /\ \A m \in DOMAIN messages : messages[m] \in MessageRow
           /\ \A p \in DOMAIN polls : polls[p] \in PollRow
  <1>1. /\ channels \in Seq(ChannelRow) /\ messages \in Seq(MessageRow) /\ polls \in Seq(PollRow)
        /\ Len(channels) <= MaxChannels /\ Len(messages) <= MaxMessages /\ Len(polls) <= MaxPolls
    BY DEF RowsTyped
  <1>2. /\ DOMAIN channels = 1..Len(channels) /\ DOMAIN messages = 1..Len(messages) /\ DOMAIN polls = 1..Len(polls)
        /\ Len(channels) \in Nat /\ Len(messages) \in Nat /\ Len(polls) \in Nat
    BY <1>1
  <1>3. /\ DOMAIN channels \subseteq ChannelIds /\ DOMAIN messages \subseteq 1..MaxMessages
        /\ DOMAIN polls \subseteq 1..MaxPolls
    BY <1>1, <1>2, ChatAssumption DEF ChannelIds
  <1> QED
    BY <1>1, <1>2, <1>3

(* A channel is made, or the unique index refuses its name                    *)
(* (chat.service.ts:192-204).                                                 *)
LEMMA InsertChannelKeeps == ASSUME ChatInv, NEW t \in Tabs, InsertChannel(t) PROVE ChatInv'
  <1>1. /\ ChatShape /\ RowsTyped /\ handler[t].op = "create"
        /\ UNCHANGED <<messages, polls, members, reads, votes, calls, broken>> /\ UNCHANGED clicks
    BY DEF ChatInv, ChatShape, InsertChannel
  <1>2. Quiet \in Works /\ Quiet.op = "rest"
    BY DEF Quiet, Works
  <1>3. CASE UNCHANGED channels /\ Answered(t)
    <2>1. RowsTyped' /\ RowsGrow /\ WorkIsAbout(Quiet, Me(t))'
      BY <1>1, <1>2, <1>3 DEF RowsTyped, RowsGrow, clicks, WorkIsAbout, OnMessage, OnPoll
    <2>2. ChatShape' /\ VotesInv' /\ ReactionsInv' /\ DeletionsInv'
      BY <1>1, <1>2, <1>3, <2>1, QuietStep DEF Answered
    <2>3. OwnerStands'
      BY <1>1, <1>2, <1>3, OwnersKept DEF Answered, ChatInv
    <2> QED
      BY <2>2, <2>3 DEF ChatInv
  <1>4. CASE /\ Len(channels) < MaxChannels
             /\ channels' = Append(channels, [state |-> "kept", by |-> Me(t), last |-> 0])
             /\ Proceed(t, [op |-> "own", channel |-> Len(channels')])
    <2> DEFINE row == [state |-> "kept", by |-> Me(t), last |-> 0]
               n == Len(channels) + 1
    <2>0. PICK w : w = [op |-> "own", channel |-> n]
      OBVIOUS
    <2>1. row \in ChannelRow /\ row.state = "kept" /\ row.by = Me(t)
      BY ChatAssumption DEF ChannelRow, Me
    <2> HIDE DEF row
    <2>2. /\ channels' \in Seq(ChannelRow) /\ Len(channels') = n /\ DOMAIN channels' = 1..n
          /\ channels'[n] = row /\ \A c \in DOMAIN channels : c \in DOMAIN channels' /\ channels'[c] = channels[c]
      BY <1>1, <1>4, <2>1, RowWrites DEF row
    <2>3. n \in ChannelIds
      BY <1>1, <1>4, RowWrites, ChatAssumption DEF ChannelIds
    <2>4. w \in Works /\ w.op = "own" /\ w.channel = n
      BY <2>0, <2>3 DEF Works
    <2>5. \A c \in DOMAIN channels' : c = n \/ c \in DOMAIN channels
      BY <1>1, <2>2, RowWrites
    <2>6. Len(channels') <= MaxChannels
      BY <1>1, <1>4, <2>2, RowWrites, ChatAssumption
    <2>7. RowsTyped' /\ RowsGrow
      BY <1>1, <2>2, <2>6 DEF RowsTyped, RowsGrow, clicks
    <2>8. Proceed(t, w)
      BY <1>4, <2>0, <2>2
    <2>9. n \in DOMAIN channels'
      BY <1>1, <2>2, RowWrites
    <2> HIDE DEF n
    <2>10. WorkIsAbout(w, Me(t))'
      BY <2>1, <2>2, <2>4, <2>9 DEF WorkIsAbout, OnMessage, OnPoll
    <2>11. ChatShape'
      BY <1>1, <2>4, <2>7, <2>8, <2>10, ShapeKept
    <2>12. VotesInv'
      BY <1>1, <2>4, <2>7, <2>8, VotesKept DEF ChatInv
    <2>13. ReactionsInv'
      BY <1>1, <2>4, <2>8, ReactionsKept DEF clicks, ChatInv, Metadata
    <2>14. \A c \in ChannelIds : Lessens(c)
      BY <1>1 DEF Lessens, NoReads, NoVotes, NoOptions, NoPolls, NoMessages
    <2>15. WorkKept(w)' /\ \A c \in ChannelIds : ~Touches(w, c)
      BY <2>4 DEF WorkKept, OnPoll, Touches
    <2>16. (ReadsOfKept /\ VotesOfKept /\ GoneHasNoOptions /\ WorkOfKept)'
      BY <1>1, <2>4, <2>7, <2>8, <2>15, RowsOfKept DEF ChatInv
    <2>17. \A c \in DOMAIN channels' : channels'[c].state = "gone" => c \in DOMAIN channels /\ channels[c].state = "gone"
      BY <2>1, <2>2, <2>5
    <2>18. DeletionsInv'
      BY <1>1, <2>4, <2>8, <2>11, <2>14, <2>15, <2>16, <2>17, DeletionsKept DEF ChatInv
    <2>19. OwnerStands'
      <3>1. ASSUME NEW c \in DOMAIN channels', c # n, c \notin broken', channels'[c].state # "gone"
            PROVE  \/ \E s \in Tabs : /\ handler'[s].op \in {"own", "drop"} /\ handler'[s].channel = c
                                      /\ handler'[s].op = "own" => Me(s) = channels'[c].by
                                      /\ handler'[s].op = "drop" => handler'[s].step = 7
                   \/ members'[<<c, channels'[c].by>>] # NotMember /\ members'[<<c, channels'[c].by>>].role = "owner"
        <4>1. c \in DOMAIN channels /\ channels'[c] = channels[c]
          BY <2>2, <2>5, <3>1
        <4>2. \A s \in Tabs : handler[s].op \in {"own", "drop"} => handler'[s] = handler[s]
          BY <1>1, <2>4, <2>8, Overlaps
        <4>3. \/ \E s \in Tabs : /\ handler[s].op \in {"own", "drop"} /\ handler[s].channel = c
                                 /\ handler[s].op = "own" => Me(s) = channels[c].by
                                 /\ handler[s].op = "drop" => handler[s].step = 7
              \/ members[<<c, channels[c].by>>] # NotMember /\ members[<<c, channels[c].by>>].role = "owner"
          BY <1>1, <3>1, <4>1 DEF ChatInv, OwnerStands
        <4>4. CASE members[<<c, channels[c].by>>] # NotMember /\ members[<<c, channels[c].by>>].role = "owner"
          BY <1>1, <4>1, <4>4
        <4> QED
          BY <4>1, <4>2, <4>3, <4>4
      <3>2. handler'[t].op = "own" /\ handler'[t].channel = n /\ Me(t) = channels'[n].by
        BY <1>1, <2>1, <2>2, <2>4, <2>8, Overlaps
      <3> QED
        BY <3>1, <3>2 DEF OwnerStands
    <2> QED
      BY <2>11, <2>12, <2>13, <2>18, <2>19 DEF ChatInv
  <1> QED
    BY <1>3, <1>4 DEF InsertChannel

(* A step that writes rows of members or channels in place, and takes no role *)
(* from anybody.                                                              *)
LEMMA MemberStep ==
    ASSUME ChatInv, NEW t \in Tabs, NEW w \in Works, Proceed(t, w),
           UNCHANGED <<messages, polls, reads, votes, calls>>, UNCHANGED clicks, broken \subseteq broken',
           FreshWork(t, w) \/ w = Quiet,
           handler[t].op \notin {"own", "drop"} \/ handler[t].channel \in broken',
           channels' \in Seq(ChannelRow), Len(channels') = Len(channels),
           \A c \in DOMAIN channels : channels'[c].by = channels[c].by /\ channels'[c].state = channels[c].state,
           members' \in [ChannelIds \X Colleagues -> MemberRow \cup {NotMember}],
           \A c \in ChannelIds, u \in Colleagues :
              members[<<c, u>>] # NotMember => members'[<<c, u>>] # NotMember /\ members'[<<c, u>>].role = members[<<c, u>>].role
    PROVE  ChatInv'
  <1>1. ChatShape /\ RowsTyped
    BY DEF ChatInv, ChatShape
  <1>2. DOMAIN channels' = DOMAIN channels
    BY <1>1, RowWrites
  <1>3. RowsTyped' /\ RowsGrow
    BY <1>1, <1>2 DEF RowsTyped, RowsGrow, clicks
  <1>4. WorkIsAbout(w, Me(t))'
    BY <1>2 DEF FreshWork, WorkIsAbout, Quiet, OnMessage, OnPoll
  <1>5. ChatShape' /\ VotesInv' /\ ReactionsInv' /\ DeletionsInv'
    BY <1>2, <1>3, <1>4, QuietStep
  <1>6. OwnerStands'
    BY <1>1, <1>2, OwnersKept DEF ChatInv
  <1> QED
    BY <1>5, <1>6 DEF ChatInv

(* A tab at rest is one of the states of a tab.                               *)
LEMMA QuietIsWork == Quiet \in Works /\ Quiet.op = "rest"
  BY DEF Quiet, Works

(* The creator becomes the owner, or was added meanwhile and the creation     *)
(* breaks off (chat.service.ts:206-218).                                      *)
LEMMA InsertOwnerKeeps == ASSUME ChatInv, NEW t \in Tabs, InsertOwner(t) PROVE ChatInv'
  <1> DEFINE c == handler[t].channel
             row == [role |-> "owner", lastRead |-> 0]
  <1>1. /\ ChatShape /\ RowsTyped /\ handler[t].op = "own" /\ Proceed(t, Quiet) /\ c \in ChannelIds /\ Me(t) \in Colleagues
        /\ channels[c].by = Me(t)
        /\ UNCHANGED <<channels, messages, polls, reads, votes, calls>> /\ UNCHANGED clicks
    <2>1. handler[t] \in Works /\ handler[t].op = "own" /\ WorkIsAbout(handler[t], Me(t))
      BY DEF ChatInv, ChatShape, InsertOwner
    <2>2. Fields(handler[t])
      BY <2>1, WorkFields
    <2> QED
      BY <2>1, <2>2, ChatAssumption DEF ChatInv, ChatShape, InsertOwner, Answered, Fields, Me, WorkIsAbout
  <1>2. CASE broken' = broken \cup {c} /\ UNCHANGED members
    BY <1>1, <1>2, MemberStep, QuietIsWork DEF RowsTyped
  <1>3. CASE UNCHANGED broken /\ members' = [members EXCEPT ![<<c, Me(t)>>] = row]
    <2>1. row \in MemberRow /\ row # NotMember /\ row.role = "owner"
      BY ChatAssumption DEF MemberRow, NotMember, Roles
    <2> HIDE DEF row
    <2>2. /\ members' \in [ChannelIds \X Colleagues -> MemberRow \cup {NotMember}]
          /\ \A d \in ChannelIds, u \in Colleagues :
                members'[<<d, u>>] = IF d = c /\ u = Me(t) THEN row ELSE members[<<d, u>>]
      BY <1>1, <1>3, <2>1 DEF RowsTyped
    <2>3. RowsTyped' /\ RowsGrow
      BY <1>1, <1>3, <2>2 DEF RowsTyped, RowsGrow, clicks
    <2>4. WorkIsAbout(Quiet, Me(t))'
      BY QuietIsWork DEF WorkIsAbout, OnMessage, OnPoll
    <2>5. ChatShape' /\ VotesInv' /\ ReactionsInv' /\ DeletionsInv'
      BY <1>1, <2>3, <2>4, QuietStep, QuietIsWork
    <2>6. ASSUME NEW d \in DOMAIN channels', d \notin broken', channels'[d].state # "gone"
          PROVE  \/ \E s \in Tabs : /\ handler'[s].op \in {"own", "drop"} /\ handler'[s].channel = d
                                    /\ handler'[s].op = "own" => Me(s) = channels'[d].by
                                    /\ handler'[s].op = "drop" => handler'[s].step = 7
                 \/ members'[<<d, channels'[d].by>>] # NotMember /\ members'[<<d, channels'[d].by>>].role = "owner"
      <3>1. d \in DOMAIN channels /\ d \in ChannelIds /\ channels[d] \in ChannelRow /\ channels'[d] = channels[d]
        BY <1>1, <2>6, RowWrites
      <3>2. channels[d].by \in Colleagues
        BY <3>1 DEF ChannelRow
      <3>3. CASE d = c
        BY <1>1, <2>1, <2>2, <3>1, <3>3
      <3>4. CASE d # c
        <4>1. members'[<<d, channels[d].by>>] = members[<<d, channels[d].by>>]
          BY <2>2, <3>1, <3>2, <3>4
        <4>2. \/ \E s \in Tabs : /\ handler[s].op \in {"own", "drop"} /\ handler[s].channel = d
                                 /\ handler[s].op = "own" => Me(s) = channels[d].by
                                 /\ handler[s].op = "drop" => handler[s].step = 7
              \/ members[<<d, channels[d].by>>] # NotMember /\ members[<<d, channels[d].by>>].role = "owner"
          BY <1>3, <2>6, <3>1 DEF ChatInv, OwnerStands
        <4>3. \A s \in Tabs : s # t => handler'[s] = handler[s]
          BY <1>1, Overlaps, QuietIsWork
        <4> QED
          BY <3>1, <3>4, <4>1, <4>2, <4>3
      <3> QED
        BY <3>3, <3>4
    <2>7. OwnerStands'
      BY <2>6 DEF OwnerStands
    <2> QED
      BY <2>5, <2>7 DEF ChatInv
  <1> QED
    BY <1>2, <1>3 DEF InsertOwner

(* A member is added, or was one (chat.service.ts:233-248).                   *)
LEMMA InsertMemberKeeps == ASSUME ChatInv, NEW t \in Tabs, InsertMember(t) PROVE ChatInv'
  <1> DEFINE work == handler[t]
             row == [role |-> work.role, lastRead |-> 0]
  <1>1. /\ ChatShape /\ RowsTyped /\ work.op = "add" /\ Proceed(t, Quiet)
        /\ UNCHANGED <<channels, messages, polls, reads, votes, calls, broken>> /\ UNCHANGED clicks
        /\ members' = IF IsMember(work.channel, work.user) THEN members
                      ELSE [members EXCEPT ![<<work.channel, work.user>>] = row]
    BY DEF ChatInv, ChatShape, InsertMember, Answered
  <1>2. Fields(work)
    BY <1>1, WorkFields DEF ChatShape
  <1>3. work.channel \in ChannelIds /\ work.user \in Colleagues /\ row \in MemberRow
    BY <1>1, <1>2, ChatAssumption DEF Fields, MemberRow, Roles
  <1> HIDE DEF work, row
  <1>4. /\ members' \in [ChannelIds \X Colleagues -> MemberRow \cup {NotMember}]
        /\ \A d \in ChannelIds, u \in Colleagues : members[<<d, u>>] # NotMember => members'[<<d, u>>] = members[<<d, u>>]
    BY <1>1, <1>3 DEF RowsTyped, IsMember
  <1>5. work = handler[t]
    BY DEF work
  <1> QED
    BY <1>1, <1>4, <1>5, MemberStep, QuietIsWork DEF RowsTyped

(* A request breaks off: what it wrote stays, and a channel half made or half *)
(* deleted is noted.                                                          *)
LEMMA LoseRequestKeeps == ASSUME ChatInv, NEW t \in Tabs, LoseRequest(t) PROVE ChatInv'
  <1>1. /\ Proceed(t, Quiet) /\ UNCHANGED <<channels, messages, polls, members, reads, votes, calls>> /\ UNCHANGED clicks
        /\ broken \subseteq broken' /\ (handler[t].op \notin {"own", "drop"} \/ handler[t].channel \in broken')
    BY DEF LoseRequest, Answered, rows
  <1>2. RowsTyped
    BY DEF ChatInv, ChatShape
  <1> QED
    BY <1>1, <1>2, MemberStep, QuietIsWork DEF RowsTyped

(* The channel gets the time of its last message (chat.service.ts:44-49).     *)
LEMMA TouchChannelKeeps == ASSUME ChatInv, NEW t \in Tabs, TouchChannel(t) PROVE ChatInv'
  <1> DEFINE c == handler[t].channel
             m == handler[t].message
  <1>1. /\ ChatShape /\ RowsTyped /\ handler[t].op = "touch" /\ Proceed(t, Quiet)
        /\ UNCHANGED <<messages, polls, members, reads, votes, calls, broken>> /\ UNCHANGED clicks
        /\ channels' = IF StillThere(channels, c) THEN [channels EXCEPT ![c].last = m] ELSE channels
    BY DEF ChatInv, ChatShape, TouchChannel, Answered
  <1>2. m \in 0..MaxMessages
    <2>1. Fields(handler[t])
      BY <1>1, WorkFields DEF ChatShape
    <2> QED
      BY <1>1, <2>1, ChatAssumption DEF Fields, OnMessage
  <1> HIDE DEF m, c
  <1>3. /\ channels' \in Seq(ChannelRow) /\ Len(channels') = Len(channels)
        /\ \A d \in DOMAIN channels : channels'[d].by = channels[d].by /\ channels'[d].state = channels[d].state
    <2>1. CASE StillThere(channels, c)
      <3> DEFINE row == [channels[c] EXCEPT !.last = m]
      <3>1. c \in DOMAIN channels /\ channels[c] \in ChannelRow /\ channels \in Seq(ChannelRow)
        BY <1>1, <2>1, RowWrites DEF StillThere
      <3>2. row \in ChannelRow /\ row.by = channels[c].by /\ row.state = channels[c].state
        BY <1>2, <3>1 DEF ChannelRow
      <3>3. channels' = [channels EXCEPT ![c] = row]
        BY <1>1, <2>1
      <3> HIDE DEF row
      <3> QED
        BY <3>1, <3>2, <3>3
    <2>2. CASE ~StillThere(channels, c)
      BY <1>1, <2>2, RowWrites
    <2> QED
      BY <2>1, <2>2
  <1> QED
    BY <1>1, <1>3, MemberStep, QuietIsWork DEF RowsTyped

(* The member's pointer is moved to the message that was read                 *)
(* (chat.service.ts:712-714).                                                 *)
LEMMA PointReadKeeps == ASSUME ChatInv, NEW t \in Tabs, PointRead(t) PROVE ChatInv'
  <1> DEFINE work == handler[t]
             c == work.channel
             w == [work EXCEPT !.op = "read"]
  <1>1. /\ ChatShape /\ RowsTyped /\ work \in Works /\ work.op = "point" /\ Proceed(t, w)
        /\ UNCHANGED <<channels, messages, polls, reads, votes, calls, broken>> /\ UNCHANGED clicks
        /\ members' = IF IsMember(c, Me(t)) THEN [members EXCEPT ![<<c, Me(t)>>].lastRead = work.message] ELSE members
        /\ WorkIsAbout(work, Me(t)) /\ WorkKept(work)
    BY DEF ChatInv, ChatShape, PointRead, DeletionsInv, WorkOfKept
  <1>2. w \in Works /\ w.op = "read" /\ w.channel = c /\ w.message = work.message
    BY <1>1, WorkGoesOn DEF GoesOn
  <1>3. c \in ChannelIds /\ work.message \in 0..MaxMessages /\ Me(t) \in Colleagues
    <2>1. Fields(work)
      BY <1>1, WorkFields
    <2> QED
      BY <1>1, <2>1, ChatAssumption DEF Fields, OnMessage, Me
  <1>4. FreshWork(t, w)
    BY <1>1, <1>2 DEF FreshWork, WorkIsAbout, WorkKept, Touches, OnMessage, OnPoll
  <1> HIDE DEF w, c, work
  <1>5. /\ members' \in [ChannelIds \X Colleagues -> MemberRow \cup {NotMember}]
        /\ \A d \in ChannelIds, u \in Colleagues :
              members[<<d, u>>] # NotMember => members'[<<d, u>>] # NotMember /\ members'[<<d, u>>].role = members[<<d, u>>].role
    <2>1. CASE IsMember(c, Me(t))
      <3> DEFINE row == [members[<<c, Me(t)>>] EXCEPT !.lastRead = work.message]
      <3>1. members[<<c, Me(t)>>] \in MemberRow
        BY <1>1, <1>3, <2>1 DEF RowsTyped, IsMember
      <3>2. row \in MemberRow /\ row.role = members[<<c, Me(t)>>].role /\ row # NotMember
        BY <1>3, <3>1 DEF MemberRow, NotMember, Roles
      <3>3. members' = [members EXCEPT ![<<c, Me(t)>>] = row]
        BY <1>1, <2>1
      <3> HIDE DEF row
      <3> QED
        BY <1>1, <1>3, <3>2, <3>3 DEF RowsTyped
    <2>2. CASE ~IsMember(c, Me(t))
      BY <1>1, <2>2 DEF RowsTyped
    <2> QED
      BY <2>1, <2>2
  <1>6. work = handler[t]
    BY DEF work
  <1> QED
    BY <1>1, <1>2, <1>4, <1>5, <1>6, MemberStep DEF RowsTyped

(* A call session is added (chat.service.ts:664-697).                         *)
LEMMA InsertCallKeeps == ASSUME ChatInv, NEW t \in Tabs, InsertCall(t) PROVE ChatInv'
  <1> DEFINE c == handler[t].channel
  <1>0. PICK w : w = [op |-> "send", channel |-> c, given |-> {}]
    OBVIOUS
  <1>1. /\ ChatShape /\ RowsTyped /\ handler[t] \in Works /\ handler[t].op = "call" /\ Proceed(t, w)
        /\ UNCHANGED <<channels, messages, polls, members, reads, votes, broken>> /\ UNCHANGED clicks
        /\ calls' = calls \cup {c} /\ WorkIsAbout(handler[t], Me(t))
    BY <1>0 DEF ChatInv, ChatShape, InsertCall
  <1>2. c \in ChannelIds /\ c \in DOMAIN channels
    <2>1. Fields(handler[t])
      BY <1>1, WorkFields
    <2> QED
      BY <1>1, <2>1 DEF Fields, WorkIsAbout
  <1>3. w \in Works /\ w.op = "send" /\ w.channel = c
    BY <1>0, <1>2 DEF Works, Statements
  <1>4. FreshWork(t, w)
    BY <1>1, <1>2, <1>3 DEF FreshWork, WorkIsAbout, WorkKept, Touches, OnMessage, OnPoll
  <1> HIDE DEF c
  <1>5. RowsTyped' /\ RowsGrow
    BY <1>1, <1>2 DEF RowsTyped, RowsGrow, clicks
  <1>6. WorkIsAbout(w, Me(t))'
    BY <1>1, <1>4 DEF FreshWork, WorkIsAbout
  <1>7. ChatShape' /\ VotesInv' /\ ReactionsInv' /\ DeletionsInv'
    BY <1>1, <1>3, <1>4, <1>5, <1>6, QuietStep
  <1>8. OwnerStands'
    BY <1>1, <1>3, OwnersKept DEF ChatInv
  <1> QED
    BY <1>7, <1>8 DEF ChatInv

(* What is left to show of a step that writes messages, polls, marks or votes: *)
(* it adds rows of its own channel only, and makes and deletes no channel.    *)
LEMMA RowStep ==
    ASSUME ChatInv, NEW t \in Tabs, NEW w \in Works, Proceed(t, w), RowsTyped', RowsGrow, WorkIsAbout(w, Me(t))',
           UNCHANGED <<channels, members, broken>>, handler[t].op \notin {"own", "drop"}, w.op # "drop",
           \A c \in ChannelIds : Touches(w, c) => Touches(handler[t], c),
           \A c \in ChannelIds : ~Touches(handler[t], c) => Lessens(c),
           ChatShape' => (ReadsOfKept /\ VotesOfKept /\ GoneHasNoOptions /\ WorkOfKept)'
    PROVE  ChatShape' /\ DeletionsInv' /\ OwnerStands'
  <1>1. ChatShape'
    BY ShapeKept DEF ChatInv
  <1>2. DeletionsInv'
    BY <1>1, DeletionsKept DEF ChatInv
  <1>3. OwnerStands'
    BY OwnersKept DEF ChatInv
  <1> QED
    BY <1>1, <1>2, <1>3

(* What a client states of reactions is a set of users                        *)
(* (update-chat-message.dto.ts:8-9).                                          *)
LEMMA StatedUsers == ASSUME NEW given \in Statements PROVE UNION given \in SUBSET Colleagues
  <1>1. CASE given = {}
    BY <1>1
  <1>2. ASSUME NEW users \in Stated, given = {users} PROVE UNION given \in SUBSET Colleagues
    BY <1>2, ChatAssumption
  <1> QED
    BY <1>1, <1>2 DEF Statements

(* A message is sent (chat.service.ts:22-42).                                 *)
LEMMA InsertMessageKeeps == ASSUME ChatInv, NEW t \in Tabs, InsertMessage(t) PROVE ChatInv'
  <1> DEFINE c == handler[t].channel
             n == Len(messages) + 1
             given == UNION handler[t].given
             row == [state |-> "kept", channel |-> c, sender |-> Me(t), reactions |-> given, editedAt |-> FALSE]
  <1>0. PICK w : w = [op |-> "touch", channel |-> c, message |-> n]
    OBVIOUS
  <1>1. /\ ChatShape /\ RowsTyped /\ handler[t] \in Works /\ handler[t].op = "send" /\ n \in 1..MaxMessages
        /\ UNCHANGED <<channels, polls, members, reads, votes, calls, broken>> /\ UNCHANGED <<edited, mixed>>
        /\ messages' = Append(messages, row) /\ toggled' = toggled \cup ({Len(messages')} \X given) /\ WorkIsAbout(handler[t], Me(t))
        /\ Proceed(t, [op |-> "touch", channel |-> c, message |-> Len(messages')])
    BY RowWrites, ChatAssumption DEF ChatInv, ChatShape, InsertMessage
  <1>2. c \in ChannelIds /\ c \in DOMAIN channels /\ given \in SUBSET Colleagues
    <2>1. Fields(handler[t])
      BY <1>1, WorkFields
    <2>2. handler[t].given \in Statements
      BY <1>1, <2>1 DEF Fields
    <2> QED
      BY <1>1, <2>1, <2>2, StatedUsers DEF Fields, WorkIsAbout
  <1> HIDE DEF given
  <1>3. row \in MessageRow /\ row.state = "kept" /\ row.channel = c /\ row.reactions = given /\ row.editedAt = FALSE
    BY <1>2, ChatAssumption DEF MessageRow, Me
  <1>4. w \in Works /\ w.op = "touch" /\ w.channel = c /\ w.message = n
    <2>1. w \in [op : {"touch", "point", "read", "unread", "unsend"}, channel : ChannelIds, message : 1..MaxMessages]
      BY <1>0, <1>1, <1>2
    <2> QED
      BY <1>0, <2>1 DEF Works
  <1> HIDE DEF row
  <1>5. /\ messages' \in Seq(MessageRow) /\ Len(messages') = n /\ DOMAIN messages' = 1..n /\ n \in DOMAIN messages'
        /\ messages'[n] = row /\ \A m \in DOMAIN messages : m \in DOMAIN messages' /\ messages'[m] = messages[m]
        /\ \A m \in DOMAIN messages' : m = n \/ m \in DOMAIN messages
    BY <1>1, <1>3, RowWrites
  <1>6. Proceed(t, w)
    BY <1>0, <1>1, <1>5
  <1>7. RowsTyped' /\ RowsGrow
    <2>1. n <= MaxMessages
      BY <1>1
    <2>2. toggled' \subseteq (DOMAIN messages') \X Colleagues
      BY <1>1, <1>2, <1>5 DEF RowsTyped
    <2>3. RowsTyped'
      BY <1>1, <1>5, <2>1, <2>2 DEF RowsTyped
    <2>4. RowsGrow
      BY <1>1, <1>5 DEF RowsGrow
    <2> QED
      BY <2>3, <2>4
  <1> HIDE DEF n, c
  <1>8. WorkIsAbout(w, Me(t))'
    BY <1>1, <1>2, <1>3, <1>4, <1>5 DEF WorkIsAbout, OnMessage, OnPoll
  <1>9. \A d \in ChannelIds : (Touches(w, d) => Touches(handler[t], d)) /\ (~Touches(handler[t], d) => Lessens(d))
    <2>1. \A d \in ChannelIds : Touches(handler[t], d) <=> d = c
      BY <1>1 DEF Touches, c
    <2>2. \A d \in ChannelIds : Touches(w, d) <=> d = c
      BY <1>4 DEF Touches
    <2>3. \A r \in reads : r[1] \in DOMAIN messages
      BY <1>1 DEF RowsTyped
    <2>4. ASSUME NEW d \in ChannelIds, d # c PROVE Lessens(d)
      BY <1>1, <1>3, <1>5, <2>3, <2>4 DEF Lessens, NoReads, NoVotes, NoOptions, NoPolls, NoMessages
    <2> QED
      BY <2>1, <2>2, <2>4
  <1>10. (ReadsOfKept /\ VotesOfKept /\ GoneHasNoOptions /\ WorkOfKept)'
    <2>1. WorkKept(w)'
      BY <1>4 DEF WorkKept, OnPoll
    <2> QED
      BY <1>1, <1>4, <1>5, <1>6, <1>7, <2>1, RowsOfKept DEF ChatInv
  <1>11. ChatShape' /\ DeletionsInv' /\ OwnerStands'
    BY <1>1, <1>4, <1>6, <1>7, <1>8, <1>9, <1>10, RowStep
  <1>12. VotesInv'
    BY <1>1, <1>4, <1>6, <1>7, VotesKept DEF ChatInv
  <1>13. ReactionsInv'
    <2>1. n \notin DOMAIN messages /\ toggled' = toggled \cup ({n} \X given)
      BY <1>1, <1>5 DEF ChatShape, RowsTyped, n
    <2>2. \A u : <<n, u>> \notin toggled
      BY <1>1, <2>1 DEF RowsTyped
    <2>3. \A k \in DOMAIN messages, u \in Colleagues : <<k, u>> \in toggled' <=> <<k, u>> \in toggled
      BY <2>1
    <2>4. \A k \in DOMAIN messages' \ DOMAIN messages : \A u \in Colleagues :
             u \in messages'[k].reactions <=> <<k, u>> \in toggled'
      BY <1>3, <1>5, <2>1, <2>2
    <2> QED
      BY <1>1, <1>4, <1>5, <1>6, <2>3, <2>4, ReactionsKept DEF ChatInv, Metadata
  <1> QED
    BY <1>11, <1>12, <1>13 DEF ChatInv

(* A reaction is clicked or a message edited: the whole column is written from *)
(* what was read, which is right of everybody whose reaction was not written  *)
(* meanwhile (chat.service.ts:480-494, 804-820).                              *)
LEMMA WriteMetadataKeeps == ASSUME ChatInv, NEW t \in Tabs, WriteMetadata(t) PROVE ChatInv'
  <1> DEFINE work == handler[t]
             m == work.message
             isEdit == work.op = "edit"
             metadata == IF isEdit THEN EditedMetadata(work.saw, work.given) ELSE ToggledMetadata(work.saw, Me(t))
             overlapped == \E s \in Tabs \ {t} : Writing(handler[s], m)
             row == [messages[m] EXCEPT !.reactions = metadata.reactions, !.editedAt = metadata.editedAt]
  <1>1. /\ ChatShape /\ RowsTyped /\ work \in Works /\ work.op \in {"react", "edit"} /\ Proceed(t, Quiet)
        /\ UNCHANGED <<channels, polls, members, reads, votes, calls, broken>> /\ WorkIsAbout(work, Me(t))
        /\ messages' = IF ~StillThere(messages, m) THEN messages
                       ELSE [messages EXCEPT ![m].reactions = metadata.reactions, ![m].editedAt = metadata.editedAt]
        /\ edited' = IF isEdit /\ ~overlapped THEN edited \cup {m} ELSE edited
        /\ toggled' = NowToggled(t, m)
        /\ mixed' = IF overlapped THEN mixed \cup Sets(t, m) ELSE mixed
    BY DEF ChatInv, ChatShape, WriteMetadata, Answered
  <1>2. m \in DOMAIN messages /\ messages[m] \in MessageRow /\ messages \in Seq(MessageRow) /\ Me(t) \in Colleagues
        /\ work.saw \in SeenMetadata /\ UNION work.given \in SUBSET Colleagues
    <2>1. Fields(work)
      BY <1>1, WorkFields
    <2>2. UNION work.given \in SUBSET Colleagues
      BY <1>1, <2>1, StatedUsers DEF Fields
    <2> QED
      BY <1>1, <2>1, <2>2, RowWrites, ChatAssumption DEF Fields, WorkIsAbout, OnMessage, Me
  <1>3. /\ metadata.reactions = IF ~isEdit THEN Toggle(work.saw.reactions, Me(t))
                                ELSE IF work.given = {} THEN work.saw.reactions ELSE UNION work.given
        /\ metadata.editedAt = IF isEdit THEN TRUE ELSE work.saw.editedAt
        /\ metadata.reactions \in SUBSET Colleagues /\ metadata.editedAt \in BOOLEAN
    <2>1. ASSUME NEW saw \in SeenMetadata
          PROVE  /\ ToggledMetadata(saw, Me(t)).reactions = Toggle(saw.reactions, Me(t))
                 /\ ToggledMetadata(saw, Me(t)).editedAt = saw.editedAt
                 /\ saw.reactions \in SUBSET Colleagues /\ saw.editedAt \in BOOLEAN
                 /\ Toggle(saw.reactions, Me(t)) \in SUBSET Colleagues
      BY <1>2 DEF ToggledMetadata, SeenMetadata, Toggle
    <2>2. \A saw, given : EditedMetadata(saw, given) =
             [reactions |-> IF given = {} THEN saw.reactions ELSE UNION given, editedAt |-> TRUE]
      BY DEF EditedMetadata
    <2> QED
      BY <1>2, <2>1, <2>2
  <1> HIDE DEF metadata
  <1>4. /\ row \in MessageRow /\ row.state = messages[m].state /\ row.channel = messages[m].channel
        /\ row.reactions = metadata.reactions /\ row.editedAt = metadata.editedAt
    <2> DEFINE half == [messages[m] EXCEPT !.reactions = metadata.reactions]
    <2>1. /\ half \in MessageRow /\ half.state = messages[m].state /\ half.channel = messages[m].channel
          /\ half.reactions = metadata.reactions
      BY <1>2, <1>3 DEF MessageRow
    <2>2. row = [half EXCEPT !.editedAt = metadata.editedAt]
      OBVIOUS
    <2> HIDE DEF half, row
    <2> QED
      BY <1>3, <2>1, <2>2 DEF MessageRow
  <1>5. messages' = IF ~StillThere(messages, m) THEN messages ELSE [messages EXCEPT ![m] = row]
    BY <1>1, <1>2
  <1> HIDE DEF row
  <1>6. /\ messages' \in Seq(MessageRow) /\ Len(messages') = Len(messages) /\ DOMAIN messages' = DOMAIN messages
        /\ \A k \in DOMAIN messages : messages'[k] = IF StillThere(messages, m) /\ k = m THEN row ELSE messages[k]
    <2>1. CASE StillThere(messages, m)
      BY <1>2, <1>4, <1>5, <2>1
    <2>2. CASE ~StillThere(messages, m)
      BY <1>2, <1>5, <2>2
    <2> QED
      BY <2>1, <2>2
  <1>18. /\ ~isEdit => Sets(t, m) = {<<m, Me(t)>>} /\ toggled' = Toggle(toggled, <<m, Me(t)>>)
         /\ isEdit => toggled' = (toggled \ Sets(t, m)) \cup ({m} \X UNION work.given)
         /\ isEdit /\ work.given = {} => Sets(t, m) = {}
         /\ isEdit /\ work.given # {} => Sets(t, m) = {m} \X Colleagues
    BY <1>1 DEF Sets, NowToggled
  <1> HIDE DEF m, work, isEdit, overlapped
  <1>19. \A k \in DOMAIN messages, u \in Colleagues : <<k, u>> \notin Sets(t, m) =>
            (<<k, u>> \in toggled' <=> <<k, u>> \in toggled)
    BY <1>2, <1>18 DEF Toggle
  <1>7. \A k \in DOMAIN messages : messages'[k].state = messages[k].state /\ messages'[k].channel = messages[k].channel
    BY <1>4, <1>6
  <1>8. toggled' \subseteq (DOMAIN messages') \X Colleagues /\ edited' \subseteq DOMAIN messages'
    <2>1. toggled \subseteq (DOMAIN messages) \X Colleagues /\ edited \subseteq DOMAIN messages
      BY <1>1 DEF RowsTyped
    <2>2. toggled' \subseteq (DOMAIN messages) \X Colleagues
      BY <1>2, <1>18, <2>1 DEF Toggle
    <2> QED
      BY <1>1, <1>2, <1>6, <2>1, <2>2
  <1>9. RowsTyped' /\ RowsGrow
    BY <1>1, <1>6, <1>7, <1>8 DEF RowsTyped, RowsGrow
  <1>10. WorkIsAbout(Quiet, Me(t))' /\ WorkKept(Quiet)' /\ \A d : ~Touches(Quiet, d)
    BY QuietIsWork DEF WorkIsAbout, OnMessage, OnPoll, WorkKept, Touches
  <1>11. (ReadsOfKept /\ VotesOfKept /\ GoneHasNoOptions /\ WorkOfKept)'
    BY <1>1, <1>7, <1>9, <1>10, RowsOfKept, QuietIsWork DEF ChatInv
  <1>12. \A d \in ChannelIds : Lessens(d)
    <2>1. \A r \in reads : r[1] \in DOMAIN messages
      BY <1>1 DEF RowsTyped
    <2> QED
      BY <1>1, <1>6, <1>7, <2>1 DEF Lessens, NoReads, NoVotes, NoOptions, NoPolls, NoMessages
  <1>13. ChatShape' /\ DeletionsInv' /\ OwnerStands'
    BY <1>1, <1>9, <1>10, <1>11, <1>12, RowStep, QuietIsWork DEF work
  <1>14. VotesInv'
    BY <1>1, <1>9, VotesKept, QuietIsWork DEF ChatInv
  <1>15. SawFollows'
    <2>1. ASSUME NEW s \in Tabs, handler'[s].op \in {"react", "edit"}, messages'[handler'[s].message].state = "kept"
          PROVE  Follows(handler[s].saw, handler[s].message)'
      <3>1. s # t /\ handler'[s] = handler[s] /\ WorkIsAbout(handler[s], Me(s))
        BY <1>1, <2>1, Overlaps, QuietIsWork DEF ChatShape
      <3>2. PICK k, saw : k = handler[s].message /\ saw = handler[s].saw
        OBVIOUS
      <3>3. k \in DOMAIN messages /\ messages[k].state = "kept" /\ Follows(saw, k)
        <4>1. k \in DOMAIN messages
          BY <2>1, <3>1, <3>2 DEF WorkIsAbout, OnMessage
        <4> QED
          BY <1>7, <2>1, <3>1, <3>2, <4>1 DEF ChatInv, ReactionsInv, SawFollows
      <3>4. k = m => overlapped
        BY <2>1, <3>1, <3>2 DEF Writing, overlapped
      <3>5. \A u \in Colleagues : <<k, u>> \notin mixed' =>
               <<k, u>> \notin mixed /\ (<<k, u>> \in toggled' <=> <<k, u>> \in toggled)
        <4>1. CASE k = m
          BY <1>1, <1>19, <3>3, <3>4, <4>1
        <4>2. CASE k # m
          <5>1. \A u : <<k, u>> \notin Sets(t, m)
            BY <1>18, <4>2
          <5> QED
            BY <1>1, <1>19, <3>3, <5>1
        <4> QED
          BY <4>1, <4>2
      <3>6. k \in edited' => k \in edited
        BY <1>1, <3>4
      <3>7. Follows(saw, k)'
        BY <3>3, <3>5, <3>6 DEF Follows
      <3> QED
        BY <3>1, <3>2, <3>7 DEF Follows
    <2> QED
      BY <2>1 DEF SawFollows, Follows
  <1>16. ASSUME NEW k \in DOMAIN messages', messages'[k].state = "kept"
         PROVE  /\ \A u \in Colleagues : <<k, u>> \notin mixed' => (u \in messages'[k].reactions <=> <<k, u>> \in toggled')
                /\ k \in edited' => messages'[k].editedAt
    <2>1. k \in DOMAIN messages /\ messages[k].state = "kept"
      BY <1>6, <1>7, <1>16
    <2>2. /\ \A u \in Colleagues : <<k, u>> \notin mixed => (u \in messages[k].reactions <=> <<k, u>> \in toggled)
          /\ k \in edited => messages[k].editedAt
      BY <2>1 DEF ChatInv, ReactionsInv, ReactionsFollowClicks
    <2>3. CASE k # m
      <3>1. messages'[k] = messages[k]
        BY <1>6, <2>1, <2>3
      <3>2. \A u : <<k, u>> \notin Sets(t, m)
        BY <1>18, <2>3
      <3>3. \A u \in Colleagues : (<<k, u>> \in toggled' <=> <<k, u>> \in toggled) /\ (<<k, u>> \in mixed => <<k, u>> \in mixed')
        BY <1>1, <1>19, <2>1, <3>2
      <3>4. k \in edited' <=> k \in edited
        BY <1>1, <2>3
      <3> QED
        BY <2>2, <3>1, <3>3, <3>4
    <2>4. CASE k = m
      <3>1. messages'[k] = row
        BY <1>6, <2>1, <2>4 DEF StillThere
      <3>2. Follows(work.saw, m)
        BY <1>1, <2>1, <2>4 DEF ChatInv, ReactionsInv, SawFollows, m, work
      <3>3. /\ \A u \in Colleagues : <<m, u>> \notin mixed => (u \in work.saw.reactions <=> <<m, u>> \in toggled)
            /\ m \in edited => work.saw.editedAt
        BY <3>2 DEF Follows
      <3>4. \A u \in Colleagues : <<m, u>> \in mixed => <<m, u>> \in mixed'
        BY <1>1
      <3>5. CASE isEdit /\ work.given = {}
        <4>1. row.reactions = work.saw.reactions /\ row.editedAt = TRUE
          BY <1>3, <1>4, <3>5
        <4>2. \A u \in Colleagues : <<m, u>> \in toggled' <=> <<m, u>> \in toggled
          BY <1>2, <1>18, <1>19, <3>5
        <4> QED
          BY <2>4, <3>1, <3>3, <3>4, <4>1, <4>2
      <3>6. CASE isEdit /\ work.given # {}
        <4>1. row.reactions = UNION work.given /\ row.editedAt = TRUE
          BY <1>3, <1>4, <3>6
        <4>2. \A u \in Colleagues : <<m, u>> \in toggled' <=> u \in UNION work.given
          BY <1>18, <3>6
        <4> QED
          BY <2>4, <3>1, <4>1, <4>2
      <3>7. CASE ~isEdit
        <4>1. edited' = edited /\ toggled' = Toggle(toggled, <<m, Me(t)>>)
          BY <1>1, <1>18, <3>7
        <4>2. row.reactions = Toggle(work.saw.reactions, Me(t)) /\ row.editedAt = work.saw.editedAt
          BY <1>3, <1>4, <3>7
        <4>3. \A u \in Colleagues : <<m, u>> \notin mixed =>
                 (u \in Toggle(work.saw.reactions, Me(t)) <=> <<m, u>> \in Toggle(toggled, <<m, Me(t)>>))
          BY <1>2, <3>3 DEF Toggle
        <4> QED
          BY <2>4, <3>1, <3>3, <3>4, <4>1, <4>2, <4>3
      <3> QED
        BY <3>5, <3>6, <3>7
    <2> QED
      BY <2>3, <2>4
  <1>17. ReactionsInv'
    BY <1>15, <1>16 DEF ReactionsInv, ReactionsFollowClicks
  <1> QED
    BY <1>13, <1>14, <1>17 DEF ChatInv

(* Another tab's request keeps what it stands on, when the rows it is about   *)
(* stay.                                                                      *)
LEMMA OthersKept ==
    ASSUME ChatShape, DeletionsInv, NEW t \in Tabs, NEW w \in Works, Proceed(t, w), RowsGrow, WorkKept(w)',
           \A s \in Tabs : s # t => \A c \in ChannelIds : LET work == handler[s] IN
              Touches(work, c) /\ c \notin raced' =>
                 /\ work.op \in {"point", "read"} /\ messages[work.message].state = "kept" => messages'[work.message].state = "kept"
                 /\ work.op \in OnPoll /\ polls[work.poll].state = "kept" => polls'[work.poll].state = "kept"
                 /\ work.op = "unsend" /\ (\A r \in reads : r[1] # work.message) => \A r \in reads' : r[1] # work.message
    PROVE  WorkOfKept'
  <1>1. ASSUME NEW s \in Tabs PROVE WorkKept(handler[s])'
    <2>1. CASE s = t
      <3>1. handler'[s] = w
        BY <2>1, Overlaps
      <3> QED
        BY <3>1 DEF WorkKept
    <2>2. CASE s # t
      <3>1. handler'[s] = handler[s] /\ WorkKept(handler[s]) /\ raced \subseteq raced' /\ Fields(handler[s])
        BY <2>2, Overlaps, WorkFields DEF ChatShape, DeletionsInv, WorkOfKept
      <3>2. handler[s].op \in {"point", "read", "unsend"} \cup OnPoll =>
               handler[s].channel \in ChannelIds /\ Touches(handler[s], handler[s].channel)
        BY <3>1 DEF Fields, Touches, OnPoll
      <3> QED
        BY <2>2, <3>1, <3>2 DEF WorkKept
    <2> QED
      BY <2>1, <2>2
  <1> QED
    BY <1>1 DEF WorkOfKept

(* A message is marked as read: it is there, or a deletion overlapped         *)
(* (chat.service.ts:716-730).                                                 *)
LEMMA InsertReadKeeps == ASSUME ChatInv, NEW t \in Tabs, InsertRead(t) PROVE ChatInv'
  <1> DEFINE work == handler[t]
             m == work.message
             c == work.channel
  <1>1. /\ ChatShape /\ RowsTyped /\ work \in Works /\ work.op = "read" /\ Proceed(t, Quiet)
        /\ UNCHANGED <<channels, messages, polls, members, votes, calls, broken>> /\ UNCHANGED clicks
        /\ reads' = reads \cup {<<m, Me(t)>>} /\ WorkIsAbout(work, Me(t)) /\ WorkKept(work) /\ RacesNoted
    BY DEF ChatInv, ChatShape, InsertRead, Answered, DeletionsInv, WorkOfKept
  <1>2. /\ c \in ChannelIds /\ m \in DOMAIN messages /\ messages[m].channel = c /\ Me(t) \in Colleagues
        /\ (c \notin raced => messages[m].state = "kept")
    <2>1. Fields(work)
      BY <1>1, WorkFields
    <2> QED
      BY <1>1, <2>1, ChatAssumption DEF Fields, WorkIsAbout, WorkKept, OnMessage, Me
  <1>3. \A d : Touches(work, d) <=> d = c
    BY <1>1 DEF Touches
  <1> HIDE DEF m, c
  <1>4. RowsTyped' /\ RowsGrow
    BY <1>1, <1>2 DEF RowsTyped, RowsGrow, clicks
  <1>5. WorkIsAbout(Quiet, Me(t))' /\ WorkKept(Quiet)' /\ \A d : ~Touches(Quiet, d)
    BY QuietIsWork DEF WorkIsAbout, OnMessage, OnPoll, WorkKept, Touches
  <1>6. \A d \in ChannelIds : ~Touches(work, d) => Lessens(d)
    BY <1>1, <1>2, <1>3 DEF Lessens, NoReads, NoVotes, NoOptions, NoPolls, NoMessages
  <1>7. raced \subseteq raced'
    BY <1>1, Overlaps, QuietIsWork
  <1>8. ReadsOfKept' /\ VotesOfKept' /\ GoneHasNoOptions'
    BY <1>1, <1>2, <1>7 DEF ChatInv, DeletionsInv, ReadsOfKept, VotesOfKept, GoneHasNoOptions
  <1>9. WorkOfKept'
    <2>1. ASSUME NEW s \in Tabs, s # t, NEW d \in ChannelIds, Touches(handler[s], d), d \notin raced', handler[s].op = "unsend",
                 \A r \in reads : r[1] # handler[s].message
          PROVE  \A r \in reads' : r[1] # handler[s].message
      <3>1. handler[s].message # m
        <4>1. SUFFICES ASSUME handler[s].message = m PROVE FALSE
          OBVIOUS
        <4>2. Races(handler[s], work, d)
          BY <1>1, <2>1, <4>1 DEF Races, Touches, m
        <4> QED
          BY <1>1, <1>7, <2>1, <4>2 DEF RacesNoted, work
      <3> QED
        BY <1>1, <2>1, <3>1
    <2> QED
      BY <1>1, <1>4, <1>5, <2>1, OthersKept, QuietIsWork DEF ChatInv
  <1>10. ChatShape' /\ DeletionsInv' /\ OwnerStands'
    BY <1>1, <1>4, <1>5, <1>6, <1>8, <1>9, RowStep, QuietIsWork DEF work
  <1>11. VotesInv'
    BY <1>1, <1>4, VotesKept, QuietIsWork DEF ChatInv
  <1>12. ReactionsInv'
    BY <1>1, ReactionsKept, QuietIsWork DEF clicks, ChatInv, Metadata
  <1> QED
    BY <1>10, <1>11, <1>12 DEF ChatInv

(* The marks of a message are deleted before the message                      *)
(* (chat.service.ts:839-842).                                                 *)
LEMMA DeleteReadsKeeps == ASSUME ChatInv, NEW t \in Tabs, DeleteReads(t) PROVE ChatInv'
  <1> DEFINE work == handler[t]
             m == work.message
             c == work.channel
  <1>0. PICK w : w = [work EXCEPT !.op = "unsend"]
    OBVIOUS
  <1>1. /\ ChatShape /\ RowsTyped /\ work \in Works /\ work.op = "unread" /\ Proceed(t, w)
        /\ UNCHANGED <<channels, messages, polls, members, votes, calls, broken>> /\ UNCHANGED clicks
        /\ reads' = {r \in reads : r[1] # m} /\ WorkIsAbout(work, Me(t))
    BY <1>0 DEF ChatInv, ChatShape, DeleteReads
  <1>2. w \in Works /\ w.op = "unsend" /\ w.channel = c /\ w.message = m
    BY <1>0, <1>1, WorkGoesOn DEF GoesOn
  <1>3. \A d : Touches(work, d) <=> Touches(w, d)
    BY <1>1, <1>2 DEF Touches
  <1>4. RowsTyped' /\ RowsGrow
    BY <1>1 DEF RowsTyped, RowsGrow, clicks
  <1>5. WorkIsAbout(w, Me(t))'
    BY <1>1, <1>2 DEF WorkIsAbout, OnMessage, OnPoll
  <1>6. WorkKept(w)'
    BY <1>1, <1>2 DEF WorkKept, OnPoll
  <1> HIDE DEF m, c
  <1>7. \A d \in ChannelIds : Lessens(d)
    BY <1>1 DEF Lessens, NoReads, NoVotes, NoOptions, NoPolls, NoMessages
  <1>8. (ReadsOfKept /\ VotesOfKept /\ GoneHasNoOptions /\ WorkOfKept)'
    BY <1>1, <1>2, <1>4, <1>6, RowsOfKept DEF ChatInv
  <1>9. ChatShape' /\ DeletionsInv' /\ OwnerStands'
    BY <1>1, <1>2, <1>3, <1>4, <1>5, <1>7, <1>8, RowStep DEF work
  <1>10. VotesInv'
    BY <1>1, <1>2, <1>4, VotesKept DEF ChatInv
  <1>11. ReactionsInv'
    BY <1>1, <1>2, ReactionsKept DEF clicks, ChatInv, Metadata
  <1> QED
    BY <1>9, <1>10, <1>11 DEF ChatInv

(* The message is deleted: no mark is left on it, unless one was made         *)
(* meanwhile (chat.service.ts:844-850).                                       *)
LEMMA DeleteMessageKeeps == ASSUME ChatInv, NEW t \in Tabs, DeleteMessage(t) PROVE ChatInv'
  <1> DEFINE work == handler[t]
             m == work.message
             c == work.channel
             row == [messages[m] EXCEPT !.state = "gone"]
  <1>1. /\ ChatShape /\ RowsTyped /\ work \in Works /\ work.op = "unsend" /\ Proceed(t, Quiet)
        /\ UNCHANGED <<channels, polls, members, reads, votes, calls, broken>> /\ UNCHANGED clicks
        /\ messages' = [messages EXCEPT ![m] = row] /\ WorkIsAbout(work, Me(t)) /\ WorkKept(work) /\ RacesNoted
    BY DEF ChatInv, ChatShape, DeleteMessage, Answered, DeletionsInv, WorkOfKept
  <1>2. /\ c \in ChannelIds /\ m \in DOMAIN messages /\ messages[m].channel = c /\ messages \in Seq(MessageRow)
        /\ messages[m] \in MessageRow /\ (c \notin raced => \A r \in reads : r[1] # m)
    <2>1. Fields(work)
      BY <1>1, WorkFields
    <2> QED
      BY <1>1, <2>1, RowWrites DEF Fields, WorkIsAbout, WorkKept, OnMessage
  <1>3. \A d : Touches(work, d) <=> d = c
    BY <1>1 DEF Touches
  <1>4. row \in MessageRow /\ row.state = "gone" /\ row.channel = c
    BY <1>2 DEF MessageRow
  <1> HIDE DEF m, c, row
  <1>5. /\ messages' \in Seq(MessageRow) /\ Len(messages') = Len(messages) /\ DOMAIN messages' = DOMAIN messages
        /\ \A k \in DOMAIN messages : messages'[k] = IF k = m THEN row ELSE messages[k]
    BY <1>1, <1>2, <1>4
  <1>6. \A k \in DOMAIN messages : messages'[k].channel = messages[k].channel
    BY <1>2, <1>4, <1>5
  <1>7. RowsTyped' /\ RowsGrow
    BY <1>1, <1>5, <1>6 DEF RowsTyped, RowsGrow, clicks
  <1>8. WorkIsAbout(Quiet, Me(t))' /\ WorkKept(Quiet)' /\ \A d : ~Touches(Quiet, d)
    BY QuietIsWork DEF WorkIsAbout, OnMessage, OnPoll, WorkKept, Touches
  <1>9. \A d \in ChannelIds : Lessens(d)
    <2>1. \A r \in reads : r[1] \in DOMAIN messages
      BY <1>1 DEF RowsTyped
    <2> QED
      BY <1>1, <1>4, <1>5, <1>6, <2>1 DEF Lessens, NoReads, NoVotes, NoOptions, NoPolls, NoMessages
  <1>10. raced \subseteq raced'
    BY <1>1, Overlaps, QuietIsWork
  <1>11. ReadsOfKept'
    <2>1. \A r \in reads : r[1] \in DOMAIN messages
      BY <1>1 DEF RowsTyped
    <2>2. ASSUME NEW r \in reads, messages[r[1]].channel \notin raced'
          PROVE  messages'[r[1]].state = "kept"
      <3>1. messages[r[1]].state = "kept"
        BY <1>10, <2>2 DEF ChatInv, DeletionsInv, ReadsOfKept
      <3>2. r[1] # m
        BY <1>2, <1>10, <2>2
      <3> QED
        BY <1>5, <2>1, <3>1, <3>2
    <2> QED
      BY <1>1, <1>6, <2>1, <2>2 DEF ReadsOfKept
  <1>12. VotesOfKept' /\ GoneHasNoOptions'
    BY <1>1, <1>10 DEF ChatInv, DeletionsInv, VotesOfKept, GoneHasNoOptions
  <1>13. WorkOfKept'
    <2>1. ASSUME NEW s \in Tabs, s # t, NEW d \in ChannelIds, Touches(handler[s], d), d \notin raced',
                 handler[s].op \in {"point", "read"}, messages[handler[s].message].state = "kept"
          PROVE  messages'[handler[s].message].state = "kept"
      <3>1. handler[s].message \in DOMAIN messages /\ messages[handler[s].message].channel = d
        BY <1>1, <2>1 DEF ChatShape, WorkIsAbout, OnMessage, Touches
      <3>2. handler[s].message # m
        <4>1. SUFFICES ASSUME handler[s].message = m PROVE FALSE
          OBVIOUS
        <4>2. Races(work, handler[s], d)
          BY <1>1, <1>2, <2>1, <3>1, <4>1 DEF Races, m, c
        <4> QED
          BY <1>1, <1>10, <2>1, <4>2 DEF RacesNoted, work
      <3> QED
        BY <1>5, <2>1, <3>1, <3>2
    <2> QED
      BY <1>1, <1>7, <1>8, <2>1, OthersKept, QuietIsWork DEF ChatInv
  <1>14. ChatShape' /\ DeletionsInv' /\ OwnerStands'
    BY <1>1, <1>7, <1>8, <1>9, <1>11, <1>12, <1>13, RowStep, QuietIsWork DEF work
  <1>15. VotesInv'
    BY <1>1, <1>7, VotesKept, QuietIsWork DEF ChatInv
  <1>16. ReactionsInv'
    <2>1. \A k \in DOMAIN messages : k \in DOMAIN messages' /\
              (messages'[k].state = "kept" => messages[k].state = "kept" /\ Metadata(k)' = Metadata(k))
      BY <1>4, <1>5 DEF Metadata
    <2>2. DOMAIN messages' \ DOMAIN messages = {}
      BY <1>5
    <2> QED
      BY <1>1, <2>1, <2>2, ReactionsKept, QuietIsWork DEF clicks, ChatInv
  <1> QED
    BY <1>14, <1>15, <1>16 DEF ChatInv

(* A poll is made: the poll, then its options, then the message that shows it *)
(* (chat.service.ts:519-532).                                                 *)
LEMMA InsertPollKeeps == ASSUME ChatInv, NEW t \in Tabs, InsertPoll(t) PROVE ChatInv'
  <1> DEFINE work == handler[t]
             c == work.channel
             n == Len(polls) + 1
             row == [state |-> "kept", channel |-> c, multiple |-> work.multiple, options |-> {}, expired |-> FALSE]
  <1>0. PICK w : w = [op |-> "options", channel |-> c, poll |-> n]
    OBVIOUS
  <1>1. /\ ChatShape /\ RowsTyped /\ work \in Works /\ work.op = "poll" /\ n \in 1..MaxPolls
        /\ UNCHANGED <<channels, messages, members, reads, votes, calls, broken>> /\ UNCHANGED clicks
        /\ polls' = Append(polls, row) /\ WorkIsAbout(work, Me(t))
        /\ Proceed(t, [op |-> "options", channel |-> c, poll |-> Len(polls')])
    BY RowWrites, ChatAssumption DEF ChatInv, ChatShape, InsertPoll
  <1>2. c \in ChannelIds /\ c \in DOMAIN channels /\ work.multiple \in BOOLEAN
    <2>1. Fields(work)
      BY <1>1, WorkFields
    <2> QED
      BY <1>1, <2>1 DEF Fields, WorkIsAbout
  <1>3. row \in PollRow /\ row.state = "kept" /\ row.channel = c /\ row.options = {}
    BY <1>2 DEF PollRow
  <1>4. w \in Works /\ w.op = "options" /\ w.channel = c /\ w.poll = n
    BY <1>0, <1>1, <1>2 DEF Works
  <1>5. \A d : (Touches(work, d) <=> d = c) /\ (Touches(w, d) <=> d = c)
    BY <1>1, <1>4 DEF Touches
  <1> HIDE DEF row
  <1>6. /\ polls' \in Seq(PollRow) /\ Len(polls') = n /\ DOMAIN polls' = 1..n /\ n \in DOMAIN polls'
        /\ polls'[n] = row /\ \A p \in DOMAIN polls : p \in DOMAIN polls' /\ polls'[p] = polls[p]
        /\ \A p \in DOMAIN polls' : p = n \/ p \in DOMAIN polls
    BY <1>1, <1>3, RowWrites
  <1>7. Proceed(t, w)
    BY <1>0, <1>1, <1>6
  <1>8. RowsTyped' /\ RowsGrow
    <2>1. n <= MaxPolls
      BY <1>1
    <2> QED
      BY <1>1, <1>6, <2>1 DEF RowsTyped, RowsGrow, clicks
  <1> HIDE DEF n, c
  <1>9. WorkIsAbout(w, Me(t))' /\ WorkKept(w)'
    BY <1>1, <1>2, <1>3, <1>4, <1>6 DEF WorkIsAbout, WorkKept, OnMessage, OnPoll
  <1>10. ASSUME NEW d \in ChannelIds, ~Touches(work, d) PROVE Lessens(d)
    <2>1. d # c /\ \A v \in votes : v[1] \in DOMAIN polls
      BY <1>1, <1>5, <1>10 DEF RowsTyped
    <2> QED
      BY <1>1, <1>3, <1>6, <2>1 DEF Lessens, NoReads, NoVotes, NoOptions, NoPolls, NoMessages
  <1>11. (ReadsOfKept /\ VotesOfKept /\ GoneHasNoOptions /\ WorkOfKept)'
    BY <1>1, <1>3, <1>4, <1>6, <1>7, <1>8, <1>9, RowsOfKept DEF ChatInv
  <1>12. ChatShape' /\ DeletionsInv' /\ OwnerStands'
    BY <1>1, <1>4, <1>5, <1>7, <1>8, <1>9, <1>10, <1>11, RowStep DEF work
  <1>13. VotesInv'
    BY <1>1, <1>4, <1>7, <1>8, VotesKept DEF ChatInv
  <1>14. ReactionsInv'
    BY <1>1, <1>4, <1>7, ReactionsKept DEF clicks, ChatInv, Metadata
  <1> QED
    BY <1>12, <1>13, <1>14 DEF ChatInv

(* The options are added to a poll that is there, or its channel was being    *)
(* deleted (chat.service.ts:534-557).                                         *)
LEMMA InsertOptionsKeeps == ASSUME ChatInv, NEW t \in Tabs, InsertOptions(t) PROVE ChatInv'
  <1> DEFINE work == handler[t]
             c == work.channel
             p == work.poll
             row == [polls[p] EXCEPT !.options = PollChoices]
  <1>0. PICK w : w = [op |-> "send", channel |-> c, given |-> {}]
    OBVIOUS
  <1>1. /\ ChatShape /\ RowsTyped /\ work \in Works /\ work.op = "options" /\ Proceed(t, w)
        /\ UNCHANGED <<channels, messages, members, reads, votes, calls, broken>> /\ UNCHANGED clicks
        /\ polls' = [polls EXCEPT ![p] = row] /\ WorkIsAbout(work, Me(t)) /\ WorkKept(work)
    BY <1>0 DEF ChatInv, ChatShape, InsertOptions, DeletionsInv, WorkOfKept
  <1>2. /\ c \in ChannelIds /\ c \in DOMAIN channels /\ p \in DOMAIN polls /\ polls[p].channel = c /\ polls \in Seq(PollRow)
        /\ polls[p] \in PollRow /\ (c \notin raced => polls[p].state = "kept")
    <2>1. Fields(work)
      BY <1>1, WorkFields
    <2> QED
      BY <1>1, <2>1, RowWrites DEF Fields, WorkIsAbout, WorkKept, OnPoll
  <1>3. w \in Works /\ w.op = "send" /\ w.channel = c
    BY <1>0, <1>2 DEF Works, Statements
  <1>4. \A d : (Touches(work, d) <=> d = c) /\ (Touches(w, d) <=> d = c)
    BY <1>1, <1>3 DEF Touches
  <1>5. /\ row \in PollRow /\ row.state = polls[p].state /\ row.channel = c /\ row.multiple = polls[p].multiple
    BY <1>2 DEF PollRow
  <1> HIDE DEF p, c, row
  <1>6. /\ polls' \in Seq(PollRow) /\ Len(polls') = Len(polls) /\ DOMAIN polls' = DOMAIN polls
        /\ \A k \in DOMAIN polls : polls'[k] = IF k = p THEN row ELSE polls[k]
    BY <1>1, <1>2, <1>5
  <1>7. \A k \in DOMAIN polls : /\ polls'[k].channel = polls[k].channel /\ polls'[k].state = polls[k].state
                                /\ polls'[k].multiple = polls[k].multiple
    BY <1>2, <1>5, <1>6
  <1>8. RowsTyped' /\ RowsGrow
    BY <1>1, <1>6, <1>7 DEF RowsTyped, RowsGrow, clicks
  <1>9. WorkIsAbout(w, Me(t))' /\ WorkKept(w)'
    BY <1>1, <1>2, <1>3 DEF WorkIsAbout, WorkKept, OnMessage, OnPoll
  <1>10. ASSUME NEW d \in ChannelIds, ~Touches(work, d) PROVE Lessens(d)
    <2>1. d # c /\ \A v \in votes : v[1] \in DOMAIN polls
      BY <1>1, <1>4, <1>10 DEF RowsTyped
    <2> QED
      BY <1>1, <1>5, <1>6, <1>7, <2>1 DEF Lessens, NoReads, NoVotes, NoOptions, NoPolls, NoMessages
  <1>11. \A k \in DOMAIN polls' : polls'[k].state = "gone" =>
             polls'[k].channel \in raced' \/ (k \in DOMAIN polls /\ polls'[k].options = polls[k].options)
    <2>1. raced \subseteq raced'
      BY <1>1, <1>3, Overlaps
    <2> QED
      BY <1>2, <1>5, <1>6, <2>1
  <1>12. (ReadsOfKept /\ VotesOfKept /\ GoneHasNoOptions /\ WorkOfKept)'
    BY <1>1, <1>3, <1>7, <1>8, <1>9, <1>11, RowsOfKept DEF ChatInv
  <1>13. ChatShape' /\ DeletionsInv' /\ OwnerStands'
    BY <1>1, <1>3, <1>4, <1>8, <1>9, <1>10, <1>12, RowStep DEF work
  <1>14. VotesInv'
    BY <1>1, <1>3, <1>8, VotesKept DEF ChatInv
  <1>15. ReactionsInv'
    BY <1>1, <1>3, ReactionsKept DEF clicks, ChatInv, Metadata
  <1> QED
    BY <1>13, <1>14, <1>15 DEF ChatInv

(* In a poll of one choice the person's earlier votes are deleted first       *)
(* (chat.service.ts:632-636).                                                 *)
LEMMA ClearVotesLeaves == ASSUME ChatInv, NEW t \in Tabs, ClearVotes(t) PROVE ChatInv'
  <1> DEFINE work == handler[t]
             p == work.poll
             c == work.channel
  <1>0. PICK w : w = [work EXCEPT !.op = "vote"]
    OBVIOUS
  <1>1. /\ ChatShape /\ RowsTyped /\ work \in Works /\ work.op = "clear" /\ Proceed(t, w)
        /\ UNCHANGED <<channels, messages, polls, members, reads, calls, broken>> /\ UNCHANGED clicks
        /\ votes' = {v \in votes : v[1] # p \/ v[3] # Me(t)} /\ WorkIsAbout(work, Me(t)) /\ WorkKept(work)
    BY <1>0 DEF ChatInv, ChatShape, ClearVotes, DeletionsInv, WorkOfKept
  <1>2. w \in Works /\ w.op = "vote" /\ w.channel = c /\ w.poll = p
    BY <1>0, <1>1, WorkGoesOn DEF GoesOn
  <1>3. \A d : Touches(work, d) <=> Touches(w, d)
    BY <1>1, <1>2 DEF Touches
  <1>4. RowsTyped' /\ RowsGrow
    BY <1>1 DEF RowsTyped, RowsGrow, clicks
  <1>5. WorkIsAbout(w, Me(t))' /\ p \in DOMAIN polls
    BY <1>1, <1>2 DEF WorkIsAbout, OnMessage, OnPoll
  <1>6. WorkKept(w)'
    <2>1. raced \subseteq raced'
      BY <1>1, <1>2, Overlaps
    <2> QED
      BY <1>1, <1>2, <2>1 DEF WorkKept, OnPoll
  <1> HIDE DEF p, c
  <1>7. \A d \in ChannelIds : Lessens(d)
    BY <1>1 DEF Lessens, NoReads, NoVotes, NoOptions, NoPolls, NoMessages
  <1>8. (ReadsOfKept /\ VotesOfKept /\ GoneHasNoOptions /\ WorkOfKept)'
    BY <1>1, <1>2, <1>4, <1>6, RowsOfKept DEF ChatInv
  <1>9. ChatShape' /\ DeletionsInv' /\ OwnerStands'
    BY <1>1, <1>2, <1>3, <1>4, <1>5, <1>7, <1>8, RowStep DEF work
  <1>10. VotesInv'
    <2>1. \A v \in votes' : ~VoteOf(v, p, Me(t))
      BY <1>1 DEF VoteOf
    <2> QED
      BY <1>1, <1>2, <1>4, <1>5, <2>1, VotesKept DEF ChatInv
  <1>11. ReactionsInv'
    BY <1>1, <1>2, ReactionsKept DEF clicks, ChatInv, Metadata
  <1> QED
    BY <1>9, <1>10, <1>11 DEF ChatInv

(* The vote is the person's only one, unless two of theirs were under way at  *)
(* once (chat.service.ts:638-653).                                            *)
LEMMA InsertVoteKeeps == ASSUME ChatInv, NEW t \in Tabs, InsertVote(t) PROVE ChatInv'
  <1> DEFINE work == handler[t]
             p == work.poll
             c == work.channel
             new == <<p, work.option, Me(t)>>
  <1>1. /\ ChatShape /\ RowsTyped /\ work \in Works /\ work.op = "vote" /\ Proceed(t, Quiet) /\ VotesInv
        /\ UNCHANGED <<channels, messages, polls, members, reads, calls, broken>> /\ UNCHANGED clicks
        /\ votes' = votes \cup {new} /\ WorkIsAbout(work, Me(t)) /\ WorkKept(work)
    BY DEF ChatInv, ChatShape, InsertVote, Answered, DeletionsInv, WorkOfKept
  <1>2. /\ c \in ChannelIds /\ p \in DOMAIN polls /\ polls[p].channel = c /\ Me(t) \in Colleagues /\ work.option \in PollChoices
        /\ (c \notin raced => polls[p].state = "kept")
    <2>1. Fields(work)
      BY <1>1, WorkFields
    <2> QED
      BY <1>1, <2>1, ChatAssumption DEF Fields, WorkIsAbout, WorkKept, OnPoll, Me
  <1>3. /\ \A d : Touches(work, d) <=> d = c
        /\ new \in (DOMAIN polls) \X PollChoices \X Colleagues /\ new[1] = p /\ new[3] = Me(t)
    BY <1>1, <1>2 DEF Touches
  <1>4. \A u : VoteOf(new, p, u) <=> u = Me(t)
    BY <1>3 DEF VoteOf
  <1> HIDE DEF new
  <1>5. RowsTyped' /\ RowsGrow
    BY <1>1, <1>3 DEF RowsTyped, RowsGrow, clicks
  <1>6. WorkIsAbout(Quiet, Me(t))' /\ WorkKept(Quiet)' /\ \A d : ~Touches(Quiet, d)
    BY QuietIsWork DEF WorkIsAbout, OnMessage, OnPoll, WorkKept, Touches
  <1>7. /\ raced \subseteq raced' /\ doubled \subseteq doubled' /\ VotesOverlap'
        /\ \A s \in Tabs : handler'[s] = IF s = t THEN Quiet ELSE handler[s]
    BY <1>1, Overlaps, QuietIsWork DEF VotesInv
  <1>8. ~polls[p].multiple /\ <<p, Me(t)>> \notin doubled => \A v \in votes : ~VoteOf(v, p, Me(t))
    BY <1>1 DEF VotesInv, VotesCleared
  <1>9. OneVote'
    <2>1. ASSUME NEW q \in DOMAIN polls', NEW u \in Colleagues, ~polls'[q].multiple, <<q, u>> \notin doubled',
                 NEW v \in votes', NEW x \in votes', VoteOf(v, q, u), VoteOf(x, q, u)
          PROVE  v = x
      <3>1. q \in DOMAIN polls /\ ~polls[q].multiple /\ <<q, u>> \notin doubled
        BY <1>1, <1>7, <2>1
      <3>2. CASE v \in votes /\ x \in votes
        BY <1>1, <2>1, <3>1, <3>2 DEF VotesInv, OneVote
      <3>3. CASE v = new \/ x = new
        <4>1. q = p /\ u = Me(t)
          BY <1>3, <2>1, <3>3 DEF VoteOf
        <4>2. v \notin votes /\ x \notin votes
          BY <1>8, <2>1, <3>1, <4>1
        <4> QED
          BY <1>1, <4>2
      <3> QED
        BY <1>1, <3>2, <3>3
    <2> QED
      BY <2>1 DEF OneVote
  <1>10. VotesCleared'
    <2>1. ASSUME NEW s \in Tabs, handler'[s].op = "vote", ~polls'[handler'[s].poll].multiple,
                 <<handler'[s].poll, Me(s)>> \notin doubled', NEW v \in votes'
          PROVE  ~VoteOf(v, handler'[s].poll, Me(s))
      <3>1. s # t /\ handler'[s] = handler[s] /\ handler[s].op = "vote"
        BY <1>7, <2>1, QuietIsWork
      <3>2. CASE v \in votes
        BY <1>1, <1>7, <2>1, <3>1, <3>2 DEF VotesInv, VotesCleared
      <3>3. CASE v = new
        <4>1. SUFFICES ASSUME VoteOf(new, handler[s].poll, Me(s)) PROVE FALSE
          BY <3>1, <3>3
        <4>2. handler[s].poll = p /\ Me(s) = Me(t)
          BY <1>3, <4>1 DEF VoteOf
        <4>3. <<p, Me(t)>> \in Voting(t, work) /\ <<p, Me(t)>> \in Voting(s, handler[s])
          BY <1>1, <3>1, <4>2 DEF Voting, p
        <4> QED
          BY <1>1, <1>7, <2>1, <3>1, <4>2, <4>3 DEF VotesInv, VotesOverlap, work
      <3> QED
        BY <1>1, <3>2, <3>3
    <2> QED
      BY <2>1 DEF VotesCleared
  <1> HIDE DEF p, c
  <1>11. \A d \in ChannelIds : ~Touches(work, d) => Lessens(d)
    BY <1>1, <1>2, <1>3 DEF Lessens, NoReads, NoVotes, NoOptions, NoPolls, NoMessages
  <1>12. ReadsOfKept' /\ VotesOfKept' /\ GoneHasNoOptions'
    BY <1>1, <1>2, <1>3, <1>7 DEF ChatInv, DeletionsInv, ReadsOfKept, VotesOfKept, GoneHasNoOptions
  <1>13. WorkOfKept'
    BY <1>1, <1>5, <1>6, OthersKept, QuietIsWork DEF ChatInv
  <1>14. ChatShape' /\ DeletionsInv' /\ OwnerStands'
    BY <1>1, <1>5, <1>6, <1>11, <1>12, <1>13, RowStep, QuietIsWork DEF work
  <1>15. ReactionsInv'
    BY <1>1, ReactionsKept, QuietIsWork DEF clicks, ChatInv, Metadata
  <1> QED
    BY <1>7, <1>9, <1>10, <1>14, <1>15 DEF ChatInv, VotesInv

Ended(row) == [row EXCEPT !.state = "gone"]
Unchosen(row) == [row EXCEPT !.options = {}]

(* The rows of a channel that are dropped keep their place.                   *)
LEMMA DropKeepsPlaces ==
    ASSUME NEW S, NEW table \in Seq(S), NEW c, \A row \in S : Ended(row) \in S
    PROVE  /\ Drop(table, c) \in Seq(S) /\ Len(Drop(table, c)) = Len(table) /\ DOMAIN Drop(table, c) = DOMAIN table
           /\ \A id \in DOMAIN table : Drop(table, c)[id] =
                 IF table[id].channel = c THEN Ended(table[id]) ELSE table[id]
  <1>1. \A id \in DOMAIN table : table[id] \in S
    OBVIOUS
  <1>2. DOMAIN table = 1..Len(table) /\ Len(table) \in Nat
    OBVIOUS
  <1>3. Drop(table, c) \in [1..Len(table) -> S]
    BY <1>1, <1>2 DEF Drop, Ended
  <1>4. Drop(table, c) \in Seq(S) /\ Len(Drop(table, c)) = Len(table)
    BY <1>2, <1>3
  <1> QED
    BY <1>2, <1>3, <1>4 DEF Drop, Ended

\* One statement of the deletion of a channel.
DropsRows(c, stage) ==
    /\ RowsTyped' /\ RowsGrow /\ UNCHANGED <<calls, broken>> /\ UNCHANGED clicks
    /\ DOMAIN messages' = DOMAIN messages /\ DOMAIN polls' = DOMAIN polls /\ DOMAIN channels' = DOMAIN channels
    /\ reads' \subseteq reads /\ votes' \subseteq votes
    /\ stage = 1 => \A r \in reads' : ~(messages[r[1]].state = "kept" /\ messages[r[1]].channel = c)
    /\ stage = 2 => \A v \in votes' : ~(polls[v[1]].state = "kept" /\ polls[v[1]].channel = c)
    /\ \A p \in DOMAIN polls :
          /\ polls'[p].options = polls[p].options \/ polls'[p].options = {}
          /\ stage = 3 /\ polls[p].channel = c /\ polls[p].state = "kept" => polls'[p].options = {}
          /\ polls'[p].state = IF stage = 4 /\ polls[p].channel = c THEN "gone" ELSE polls[p].state
    /\ \A m \in DOMAIN messages :
          IF stage = 5 /\ messages[m].channel = c THEN messages'[m].state = "gone" ELSE messages'[m] = messages[m]
    /\ \A d \in ChannelIds, u \in Colleagues : (stage = 6 /\ d = c) \/ members'[<<d, u>>] = members[<<d, u>>]
    /\ \A d \in DOMAIN channels : channels'[d].state = IF stage = 7 /\ d = c THEN "gone" ELSE channels[d].state

(* What each of the seven statements of a deletion does to each table         *)
(* (chat.service.ts:750-780).                                                 *)
LEMMA DeleteTableRows ==
    ASSUME ChatInv, NEW t \in Tabs, DeleteTable(t)
    PROVE  /\ handler[t].step \in 1..7 /\ handler[t].channel \in DOMAIN channels /\ handler[t].channel \in ChannelIds
           /\ DropsRows(handler[t].channel, handler[t].step)
  <1> DEFINE work == handler[t]
             c == work.channel
             k == work.step
             On(row) == row.channel = c
             cleared == [p \in DOMAIN polls |-> IF On(polls[p]) /\ StillThere(polls, p)
                                                THEN [polls[p] EXCEPT !.options = {}] ELSE polls[p]]
  <1>1. /\ ChatShape /\ RowsTyped /\ work \in Works /\ work.op = "drop" /\ WorkIsAbout(work, Me(t))
        /\ UNCHANGED <<calls, broken>> /\ UNCHANGED clicks
    BY DEF ChatInv, ChatShape, DeleteTable
  <1>2. k \in 1..7 /\ c \in ChannelIds /\ c \in DOMAIN channels
    <2>1. Fields(work)
      BY <1>1, WorkFields
    <2> QED
      BY <1>1, <2>1 DEF Fields, WorkIsAbout
  <1>3. /\ reads' = IF k # 1 THEN reads ELSE {r \in reads : ~(StillThere(messages, r[1]) /\ On(messages[r[1]]))}
        /\ votes' = IF k # 2 THEN votes ELSE {v \in votes : ~(StillThere(polls, v[1]) /\ On(polls[v[1]]))}
        /\ polls' = IF k = 4 THEN Drop(polls, c) ELSE IF k # 3 THEN polls ELSE cleared
        /\ messages' = IF k = 5 THEN Drop(messages, c) ELSE messages
        /\ members' = IF k # 6 THEN members ELSE [r \in DOMAIN members |-> IF r[1] = c THEN NotMember ELSE members[r]]
        /\ channels' = IF k = 7 THEN [channels EXCEPT ![c].state = "gone"] ELSE channels
    <2>1. /\ Tables[1] = "reads" /\ Tables[2] = "votes" /\ Tables[3] = "options" /\ Tables[4] = "polls"
          /\ Tables[5] = "messages" /\ Tables[6] = "members" /\ Tables[7] = "channel"
      BY DEF Tables
    <2>2. /\ (Tables[k] = "reads" <=> k = 1) /\ (Tables[k] = "votes" <=> k = 2) /\ (Tables[k] = "options" <=> k = 3)
          /\ (Tables[k] = "polls" <=> k = 4) /\ (Tables[k] = "messages" <=> k = 5) /\ (Tables[k] = "members" <=> k = 6)
          /\ (Tables[k] = "channel" <=> k = 7)
      BY <1>2, <2>1
    <2> QED
      BY <2>2 DEF DeleteTable
  <1>4. /\ channels \in Seq(ChannelRow) /\ messages \in Seq(MessageRow) /\ polls \in Seq(PollRow)
        /\ \A d \in DOMAIN channels : channels[d] \in ChannelRow
        /\ \A m \in DOMAIN messages : messages[m] \in MessageRow
        /\ \A p \in DOMAIN polls : polls[p] \in PollRow
        /\ DOMAIN polls = 1..Len(polls) /\ Len(polls) \in Nat
        /\ \A r \in reads : r[1] \in DOMAIN messages
        /\ \A v \in votes : v[1] \in DOMAIN polls
    BY <1>1, RowWrites DEF RowsTyped
  <1> HIDE DEF c, k, cleared, work
  <1>5. /\ messages' \in Seq(MessageRow) /\ Len(messages') = Len(messages) /\ DOMAIN messages' = DOMAIN messages
        /\ \A m \in DOMAIN messages : messages'[m].channel = messages[m].channel
        /\ \A m \in DOMAIN messages :
              IF k = 5 /\ messages[m].channel = c THEN messages'[m].state = "gone" ELSE messages'[m] = messages[m]
    <2>1. \A row \in MessageRow : /\ Ended(row) \in MessageRow
                                   /\ Ended(row).state = "gone"
                                   /\ Ended(row).channel = row.channel
      BY DEF MessageRow, Ended
    <2>2. CASE k = 5
      <3>1. messages' = Drop(messages, c)
        BY <1>3, <2>2
      <3>2. /\ messages' \in Seq(MessageRow) /\ Len(messages') = Len(messages) /\ DOMAIN messages' = DOMAIN messages
            /\ \A m \in DOMAIN messages : messages'[m] =
                  IF messages[m].channel = c THEN Ended(messages[m]) ELSE messages[m]
        BY <1>4, <2>1, <3>1, DropKeepsPlaces
      <3> QED
        BY <1>4, <2>1, <2>2, <3>2
    <2>3. CASE k # 5
      BY <1>3, <1>4, <2>3
    <2> QED
      BY <2>2, <2>3
  <1>6. /\ polls' \in Seq(PollRow) /\ Len(polls') = Len(polls) /\ DOMAIN polls' = DOMAIN polls
        /\ \A p \in DOMAIN polls : polls'[p].channel = polls[p].channel /\ polls'[p].multiple = polls[p].multiple
        /\ \A p \in DOMAIN polls :
             /\ polls'[p].options = polls[p].options \/ polls'[p].options = {}
             /\ k = 3 /\ polls[p].channel = c /\ polls[p].state = "kept" => polls'[p].options = {}
             /\ polls'[p].state = IF k = 4 /\ polls[p].channel = c THEN "gone" ELSE polls[p].state
    <2>1. \A row \in PollRow : /\ Ended(row) \in PollRow
                                /\ Ended(row).state = "gone"
                                /\ Ended(row).channel = row.channel
                                /\ Ended(row).multiple = row.multiple
                                /\ Ended(row).options = row.options
      BY DEF PollRow, Ended, Unchosen
    <2>2. \A row \in PollRow : /\ Unchosen(row) \in PollRow
                                /\ Unchosen(row).options = {}
                                /\ Unchosen(row).channel = row.channel
                                /\ Unchosen(row).multiple = row.multiple
                                /\ Unchosen(row).state = row.state
      BY DEF PollRow, Ended, Unchosen
    <2>3. CASE k = 4
      <3>1. polls' = Drop(polls, c)
        BY <1>3, <2>3
      <3>2. /\ polls' \in Seq(PollRow) /\ Len(polls') = Len(polls) /\ DOMAIN polls' = DOMAIN polls
            /\ \A p \in DOMAIN polls : polls'[p] =
                  IF polls[p].channel = c THEN Ended(polls[p]) ELSE polls[p]
        BY <1>4, <2>1, <3>1, DropKeepsPlaces
      <3> QED
        BY <1>4, <2>1, <2>3, <3>2
    <2>4. CASE k = 3
      <3>1. polls' = cleared
        BY <1>3, <2>4
      <3>2. cleared \in [1..Len(polls) -> PollRow]
        BY <1>4, <2>2 DEF cleared, Unchosen
      <3>3. cleared \in Seq(PollRow) /\ Len(cleared) = Len(polls) /\ DOMAIN cleared = DOMAIN polls
        BY <1>4, <3>2
      <3>4. \A p \in DOMAIN polls : cleared[p] = IF polls[p].channel = c /\ polls[p].state = "kept"
                                                 THEN Unchosen(polls[p]) ELSE polls[p]
        BY DEF cleared, StillThere, Unchosen
      <3> QED
        BY <1>4, <2>2, <2>4, <3>1, <3>3, <3>4
    <2>5. CASE k \notin {3, 4}
      BY <1>3, <1>4, <2>5
    <2> QED
      BY <2>3, <2>4, <2>5
  <1>7. /\ channels' \in Seq(ChannelRow) /\ Len(channels') = Len(channels) /\ DOMAIN channels' = DOMAIN channels
        /\ \A d \in DOMAIN channels : channels'[d].by = channels[d].by
        /\ \A d \in DOMAIN channels : channels'[d].state = IF k = 7 /\ d = c THEN "gone" ELSE channels[d].state
    <2>1. CASE k = 7
      <3> DEFINE row == [channels[c] EXCEPT !.state = "gone"]
      <3>1. row \in ChannelRow /\ row.by = channels[c].by /\ row.state = "gone"
        BY <1>2, <1>4 DEF ChannelRow
      <3>2. channels' = [channels EXCEPT ![c] = row]
        BY <1>3, <2>1
      <3> HIDE DEF row
      <3> QED
        BY <1>2, <1>4, <2>1, <3>1, <3>2
    <2>2. CASE k # 7
      BY <1>3, <1>4, <2>2
    <2> QED
      BY <2>1, <2>2
  <1>8. /\ members' \in [ChannelIds \X Colleagues -> MemberRow \cup {NotMember}]
        /\ \A d \in ChannelIds, u \in Colleagues : (k = 6 /\ d = c) \/ members'[<<d, u>>] = members[<<d, u>>]
    BY <1>1, <1>3 DEF RowsTyped
  <1>9. /\ reads' \subseteq reads /\ votes' \subseteq votes
        /\ k = 1 => \A r \in reads' : ~(messages[r[1]].state = "kept" /\ messages[r[1]].channel = c)
    BY <1>3, <1>4 DEF StillThere
  <1>10. k = 2 => \A v \in votes' : ~(polls[v[1]].state = "kept" /\ polls[v[1]].channel = c)
    BY <1>3, <1>4 DEF StillThere
  <1>11. RowsTyped'
    BY <1>1, <1>5, <1>6, <1>7, <1>8, <1>9 DEF RowsTyped, clicks
  <1>12. RowsGrow
    BY <1>5, <1>6, <1>7 DEF RowsGrow
  <1>13. DropsRows(c, k)
    BY <1>1, <1>5, <1>6, <1>7, <1>8, <1>9, <1>10, <1>11, <1>12 DEF DropsRows
  <1> QED
    BY <1>2, <1>13 DEF c, k, work

(* The order of the seven statements: marks before messages, votes and options *)
(* before polls, the channel last, so that each empties its table for good and *)
(* takes nothing that the tables before it still point to.                    *)
LEMMA DeleteTableKeeps == ASSUME ChatInv, NEW t \in Tabs, DeleteTable(t) PROVE ChatInv'
  <1> DEFINE work == handler[t]
  <1>a. PICK c, k : c = work.channel /\ k = work.step
    OBVIOUS
  <1>b. PICK w : w = IF k = 7 THEN Quiet ELSE [work EXCEPT !.step = @ + 1]
    OBVIOUS
  <1>1. /\ ChatShape /\ RowsTyped /\ work \in Works /\ work.op = "drop" /\ DeletionsInv /\ Proceed(t, w)
        /\ k \in 1..7 /\ c \in ChannelIds /\ c \in DOMAIN channels /\ DropsRows(c, k) /\ DeletesChannel(work, c)
    <2>1. IF k = 7 THEN Proceed(t, Quiet) ELSE Proceed(t, [work EXCEPT !.step = @ + 1])
      <3>1. Len(Tables) = 7
        BY DEF Tables
      <3>2. IF work.step = 7 THEN Answered(t) ELSE Proceed(t, [work EXCEPT !.step = @ + 1])
        BY <3>1 DEF DeleteTable
      <3> QED
        BY <1>a, <3>2 DEF Answered
    <2>2. work.op = "drop" /\ ChatShape /\ DeletionsInv
      BY DEF DeleteTable, ChatInv
    <2> QED
      BY <1>a, <1>b, <2>1, <2>2, DeleteTableRows DEF ChatShape, DeletesChannel
  <1>2. /\ w \in Works /\ (k = 7 => w = Quiet /\ w.op = "rest")
        /\ (k # 7 => w.op = "drop" /\ w.channel = c /\ w.step = k + 1)
        /\ w.op \in {"rest", "drop"}
    <2>1. CASE k = 7
      BY <1>b, <2>1, QuietIsWork
    <2>2. CASE k # 7
      <3>1. w = [work EXCEPT !.step = @ + 1]
        BY <1>b, <2>2
      <3>2. GoesOn([work EXCEPT !.step = @ + 1], work, "drop") /\ [work EXCEPT !.step = @ + 1].step = work.step + 1
        BY <1>1, <1>a, <2>2, WorkGoesOn
      <3> QED
        BY <1>a, <2>2, <3>1, <3>2 DEF GoesOn
    <2> QED
      BY <2>1, <2>2
  <1>3. /\ raced \subseteq raced' /\ RacesNoted /\ \A s \in Tabs : handler'[s] = IF s = t THEN w ELSE handler[s]
    BY <1>1, <1>2, Overlaps DEF DeletionsInv
  <1>4. /\ RowsTyped' /\ RowsGrow /\ UNCHANGED <<calls, broken>> /\ UNCHANGED clicks
        /\ DOMAIN messages' = DOMAIN messages /\ DOMAIN polls' = DOMAIN polls /\ DOMAIN channels' = DOMAIN channels
        /\ reads' \subseteq reads /\ votes' \subseteq votes
        /\ k = 1 => \A r \in reads' : ~(messages[r[1]].state = "kept" /\ messages[r[1]].channel = c)
    BY <1>1 DEF DropsRows
  <1>5. k = 2 => \A v \in votes' : ~(polls[v[1]].state = "kept" /\ polls[v[1]].channel = c)
    BY <1>1 DEF DropsRows
  <1>6. \A p \in DOMAIN polls :
          /\ polls'[p].options = polls[p].options \/ polls'[p].options = {}
          /\ k = 3 /\ polls[p].channel = c /\ polls[p].state = "kept" => polls'[p].options = {}
          /\ polls'[p].state = IF k = 4 /\ polls[p].channel = c THEN "gone" ELSE polls[p].state
    BY <1>1 DEF DropsRows
  <1>7. \A m \in DOMAIN messages :
          IF k = 5 /\ messages[m].channel = c THEN messages'[m].state = "gone" ELSE messages'[m] = messages[m]
    BY <1>1 DEF DropsRows
  <1>8. \A d \in ChannelIds, u \in Colleagues : (k = 6 /\ d = c) \/ members'[<<d, u>>] = members[<<d, u>>]
    BY <1>1 DEF DropsRows
  <1>9. \A d \in DOMAIN channels : channels'[d].state = IF k = 7 /\ d = c THEN "gone" ELSE channels[d].state
    BY <1>1 DEF DropsRows
  <1>10. /\ \A d \in DOMAIN channels : channels'[d].by = channels[d].by
         /\ \A p \in DOMAIN polls : polls'[p].channel = polls[p].channel /\ polls'[p].multiple = polls[p].multiple
         /\ \A m \in DOMAIN messages : messages'[m].channel = messages[m].channel
    BY <1>4 DEF RowsGrow
  <1>11. (\A r \in reads : r[1] \in DOMAIN messages) /\ (\A v \in votes : v[1] \in DOMAIN polls)
    BY <1>1 DEF RowsTyped
  <1>12. WorkIsAbout(w, Me(t))'
    BY <1>1, <1>2, <1>4 DEF WorkIsAbout, OnMessage, OnPoll
  <1>13. ChatShape'
    BY <1>1, <1>2, <1>4, <1>12, ShapeKept
  <1>14. VotesInv'
    BY <1>1, <1>2, <1>4, VotesKept DEF ChatInv
  <1>15. ReactionsInv'
    <2>1. \A m \in DOMAIN messages : m \in DOMAIN messages' /\
              (messages'[m].state = "kept" => messages[m].state = "kept" /\ Metadata(m)' = Metadata(m))
      BY <1>4, <1>7 DEF Metadata
    <2>2. DOMAIN messages' \ DOMAIN messages = {}
      BY <1>4
    <2> QED
      BY <1>1, <1>2, <1>4, <2>1, <2>2, ReactionsKept DEF clicks, ChatInv
  \* What is emptied stays so, and the statement empties its table.
  <1>16. \A d \in ChannelIds : Lessens(d)
    <2>1. ASSUME NEW d \in ChannelIds, NoReads(d) PROVE NoReads(d)'
      BY <1>4, <1>10, <1>11, <2>1 DEF NoReads
    <2>2. ASSUME NEW d \in ChannelIds, NoVotes(d) PROVE NoVotes(d)'
      BY <1>4, <1>10, <1>11, <2>2 DEF NoVotes
    <2>3. ASSUME NEW d \in ChannelIds, NoOptions(d) PROVE NoOptions(d)'
      BY <1>4, <1>6, <1>10, <2>3 DEF NoOptions
    <2>4. ASSUME NEW d \in ChannelIds, NoPolls(d) PROVE NoPolls(d)'
      BY <1>4, <1>6, <1>10, <2>4 DEF NoPolls
    <2>5. ASSUME NEW d \in ChannelIds, NoMessages(d) PROVE NoMessages(d)'
      BY <1>4, <1>7, <1>10, <2>5 DEF NoMessages
    <2> QED
      BY <2>1, <2>2, <2>3, <2>4, <2>5 DEF Lessens
  <1>17. c \notin raced => Emptied(c, k) /\ \A s \in Tabs : s # t => ~Touches(handler[s], c)
    <2>1. c \notin raced => Emptied(c, k)
      BY <1>1, <1>a DEF DeletionsInv, DropsStand
    <2>2. ASSUME c \notin raced, NEW s \in Tabs, s # t, Touches(handler[s], c) PROVE FALSE
      BY <1>1, <1>3, <2>2 DEF RacesNoted, Races
    <2> QED
      BY <2>1, <2>2
  <1>18. ASSUME c \notin raced, k # 7 PROVE Emptied(c, k + 1)'
    <2>1. Emptied(c, k) /\ Lessens(c)
      BY <1>1, <1>16, <1>17, <1>18
    <2>2. k = 1 => NoReads(c)'
      BY <1>1, <1>4, <1>10, <1>11, <1>18 DEF NoReads, DeletionsInv, ReadsOfKept
    <2>3. k = 2 => NoVotes(c)'
      BY <1>1, <1>4, <1>5, <1>10, <1>11, <1>18 DEF NoVotes, DeletionsInv, VotesOfKept
    <2>4. k = 3 => NoOptions(c)'
      <3>1. ASSUME k = 3, NEW p \in DOMAIN polls', polls'[p].channel = c PROVE polls'[p].options = {}
        <4>1. p \in DOMAIN polls /\ polls[p].channel = c
          BY <1>4, <1>10, <3>1
        <4>2. polls[p].state \in {"kept", "gone"}
          BY <1>1, <4>1, RowWrites DEF PollRow
        <4>3. polls[p].state = "gone" => polls[p].options = {}
          BY <1>1, <1>18, <4>1 DEF DeletionsInv, GoneHasNoOptions
        <4> QED
          BY <1>6, <3>1, <4>1, <4>2, <4>3
      <3> QED
        BY <3>1 DEF NoOptions
    <2>5. k = 4 => NoPolls(c)'
      BY <1>4, <1>6, <1>10 DEF NoPolls
    <2>6. k = 5 => NoMessages(c)'
      BY <1>4, <1>7, <1>10 DEF NoMessages
    <2> QED
      <3>1. (k + 1 > 1 => NoReads(c)') /\ (k + 1 > 2 => NoVotes(c)')
        BY <1>1, <1>18, <2>1, <2>2, <2>3 DEF Emptied, Lessens
      <3>2. (k + 1 > 3 => NoOptions(c)') /\ (k + 1 > 4 => NoPolls(c)') /\ (k + 1 > 5 => NoMessages(c)')
        BY <1>1, <1>18, <2>1, <2>4, <2>5, <2>6 DEF Emptied, Lessens
      <3> QED
        BY <3>1, <3>2 DEF Emptied
  <1>19. w.op = "drop" => w.channel \in raced' \/ Emptied(w.channel, w.step)'
    <2>1. k # 7 /\ c \notin raced' => Emptied(c, k + 1)'
      BY <1>3, <1>18
    <2> QED
      BY <1>2, <2>1 DEF Emptied, NoReads, NoVotes, NoOptions, NoPolls, NoMessages
  <1>20. ReadsOfKept'
    <2>1. ASSUME NEW r \in reads, messages[r[1]].channel \notin raced'
          PROVE  messages'[r[1]].state = "kept"
      <3>1. messages[r[1]].state = "kept" /\ messages[r[1]].channel \notin raced
        BY <1>1, <1>3, <2>1 DEF DeletionsInv, ReadsOfKept
      <3>2. ~(k = 5 /\ messages[r[1]].channel = c)
        BY <1>17, <3>1 DEF Emptied, NoReads
      <3> QED
        BY <1>7, <1>11, <3>1, <3>2
    <2> QED
      BY <1>4, <1>10, <1>11, <2>1 DEF ReadsOfKept
  <1>21. VotesOfKept'
    <2>1. ASSUME NEW v \in votes, polls[v[1]].channel \notin raced'
          PROVE  polls'[v[1]].state = "kept"
      <3>1. polls[v[1]].state = "kept" /\ polls[v[1]].channel \notin raced
        BY <1>1, <1>3, <2>1 DEF DeletionsInv, VotesOfKept
      <3>2. ~(k = 4 /\ polls[v[1]].channel = c)
        BY <1>17, <3>1 DEF Emptied, NoVotes
      <3> QED
        BY <1>6, <1>11, <3>1, <3>2
    <2> QED
      BY <1>4, <1>10, <1>11, <2>1 DEF VotesOfKept
  <1>22. GoneHasNoOptions'
    <2>1. ASSUME NEW p \in DOMAIN polls, polls[p].channel \notin raced', polls'[p].state = "gone"
          PROVE  polls'[p].options = {}
      <3>1. polls[p].channel \notin raced
        BY <1>3, <2>1
      <3>2. CASE k = 4 /\ polls[p].channel = c
        <4>1. polls[p].options = {}
          BY <1>17, <3>1, <3>2 DEF Emptied, NoOptions
        <4> QED
          BY <1>6, <4>1
      <3>3. CASE ~(k = 4 /\ polls[p].channel = c)
        <4>1. polls[p].state = "gone"
          BY <1>6, <2>1, <3>3
        <4>2. polls[p].options = {}
          BY <1>1, <3>1, <4>1 DEF DeletionsInv, GoneHasNoOptions
        <4> QED
          BY <1>6, <4>2
      <3> QED
        BY <3>2, <3>3
    <2> QED
      BY <1>4, <1>10, <2>1 DEF GoneHasNoOptions
  <1>23. WorkKept(w)' /\ \A d : ~Touches(w, d)
    BY <1>2 DEF WorkKept, OnPoll, Touches
  <1>24. WorkOfKept'
    <2>1. ASSUME NEW s \in Tabs, s # t, NEW d \in ChannelIds, Touches(handler[s], d), d \notin raced'
          PROVE  d # c
      BY <1>3, <1>17, <2>1
    <2>2. ASSUME NEW s \in Tabs, s # t, NEW d \in ChannelIds, Touches(handler[s], d), d \notin raced',
                 handler[s].op \in {"point", "read"}, messages[handler[s].message].state = "kept"
          PROVE  messages'[handler[s].message].state = "kept"
      <3>1. handler[s].message \in DOMAIN messages /\ messages[handler[s].message].channel = d
        BY <1>1, <2>2 DEF ChatShape, WorkIsAbout, OnMessage, Touches
      <3> QED
        BY <1>7, <2>1, <2>2, <3>1
    <2>3. ASSUME NEW s \in Tabs, s # t, NEW d \in ChannelIds, Touches(handler[s], d), d \notin raced',
                 handler[s].op \in OnPoll, polls[handler[s].poll].state = "kept"
          PROVE  polls'[handler[s].poll].state = "kept"
      <3>1. handler[s].poll \in DOMAIN polls /\ polls[handler[s].poll].channel = d
        BY <1>1, <2>3 DEF ChatShape, WorkIsAbout, OnPoll, Touches
      <3> QED
        BY <1>6, <2>1, <2>3, <3>1
    <2> QED
      BY <1>1, <1>2, <1>4, <1>23, <2>2, <2>3, OthersKept DEF ChatInv
  <1>25. \A d \in DOMAIN channels' : channels'[d].state = "gone" => d \in DOMAIN channels /\
              (channels[d].state = "gone" \/ (DeletesChannel(handler[t], d) /\ handler[t].step = 7))
    BY <1>1, <1>4, <1>9, <1>a
  <1>26. DeletionsInv'
    BY <1>1, <1>2, <1>13, <1>16, <1>19, <1>20, <1>21, <1>22, <1>23, <1>24, <1>25, DeletionsKept
  <1>27. OwnerStands'
    <2>1. ASSUME NEW d \in DOMAIN channels', d \notin broken', channels'[d].state # "gone"
          PROVE  \/ \E s \in Tabs : /\ handler'[s].op \in {"own", "drop"} /\ handler'[s].channel = d
                                    /\ handler'[s].op = "own" => Me(s) = channels'[d].by
                                    /\ handler'[s].op = "drop" => handler'[s].step = 7
                 \/ members'[<<d, channels'[d].by>>] # NotMember /\ members'[<<d, channels'[d].by>>].role = "owner"
      <3>1. /\ d \in DOMAIN channels /\ d \in ChannelIds /\ channels[d].by \in Colleagues /\ channels'[d].by = channels[d].by
            /\ d \notin broken
        BY <1>1, <1>4, <1>10, <2>1, RowWrites DEF ChannelRow
      <3>2. ~(k = 7 /\ d = c) /\ channels[d].state # "gone"
        BY <1>9, <2>1, <3>1
      <3>3. CASE k = 6 /\ d = c
        BY <1>2, <1>3, <3>3
      <3>4. CASE ~(k = 6 /\ d = c)
        <4>1. members'[<<d, channels[d].by>>] = members[<<d, channels[d].by>>]
          BY <1>8, <3>1, <3>4
        <4>2. \/ \E s \in Tabs : /\ handler[s].op \in {"own", "drop"} /\ handler[s].channel = d
                                 /\ handler[s].op = "own" => Me(s) = channels[d].by
                                 /\ handler[s].op = "drop" => handler[s].step = 7
              \/ members[<<d, channels[d].by>>] # NotMember /\ members[<<d, channels[d].by>>].role = "owner"
          <5>1. (channels[d].state = "gone") <=> FALSE
            BY <3>2
          <5> QED
            BY <3>1, <5>1 DEF ChatInv, OwnerStands
        <4>3. \A s \in Tabs : handler[s].op \in {"own", "drop"} /\ handler[s].channel = d
                              /\ (handler[s].op = "drop" => handler[s].step = 7) => handler'[s] = handler[s]
          BY <1>1, <1>3, <3>2, <1>a
        <4>4. CASE \E s \in Tabs : /\ handler[s].op \in {"own", "drop"} /\ handler[s].channel = d
                                   /\ handler[s].op = "own" => Me(s) = channels[d].by
                                   /\ handler[s].op = "drop" => handler[s].step = 7
          BY <3>1, <4>3, <4>4
        <4> QED
          BY <3>1, <4>1, <4>2, <4>4
      <3> QED
        BY <3>3, <3>4
    <2> QED
      BY <2>1 DEF OwnerStands
  <1> QED
    BY <1>13, <1>14, <1>15, <1>26, <1>27 DEF ChatInv

(* A poll ends, or nothing happens.                                           *)
LEMMA IdleKeeps ==
    ASSUME ChatInv, UNCHANGED chatVars \/ \E p \in DOMAIN polls : PollExpires(p)
    PROVE  ChatInv'
  <1>1. /\ UNCHANGED <<channels, messages, members, reads, votes, calls, handler>>
        /\ UNCHANGED <<toggled, edited, mixed, doubled, raced, broken>>
    BY DEF chatVars, PollExpires, clicks
  <1>2. ChatShape /\ RowsTyped
    BY DEF ChatInv, ChatShape
  <1>3. /\ polls' \in Seq(PollRow) /\ Len(polls') = Len(polls) /\ DOMAIN polls' = DOMAIN polls
        /\ \A p \in DOMAIN polls : /\ polls'[p].state = polls[p].state /\ polls'[p].channel = polls[p].channel
                                   /\ polls'[p].multiple = polls[p].multiple /\ polls'[p].options = polls[p].options
    <2>1. CASE polls' = polls
      BY <1>2, <2>1, RowWrites
    <2>2. ASSUME NEW q \in DOMAIN polls, PollExpires(q)
          PROVE  /\ polls' \in Seq(PollRow) /\ Len(polls') = Len(polls) /\ DOMAIN polls' = DOMAIN polls
                 /\ \A p \in DOMAIN polls :
                       /\ polls'[p].state = polls[p].state /\ polls'[p].channel = polls[p].channel
                       /\ polls'[p].multiple = polls[p].multiple /\ polls'[p].options = polls[p].options
      <3> DEFINE row == [polls[q] EXCEPT !.expired = TRUE]
      <3>1. polls[q] \in PollRow /\ polls \in Seq(PollRow)
        BY <1>2, RowWrites
      <3>2. /\ row \in PollRow /\ row.state = polls[q].state /\ row.channel = polls[q].channel
            /\ row.multiple = polls[q].multiple /\ row.options = polls[q].options
        BY <3>1 DEF PollRow
      <3>3. polls' = [polls EXCEPT ![q] = row]
        BY <2>2 DEF PollExpires
      <3> HIDE DEF row
      <3> QED
        BY <3>1, <3>2, <3>3
    <2> QED
      BY <2>1, <2>2 DEF chatVars
  <1>4. RowsTyped'
    BY <1>1, <1>2, <1>3 DEF RowsTyped
  <1>5. ChatShape'
    BY <1>1, <1>2, <1>3, <1>4 DEF ChatShape, WorkIsAbout, OnPoll, OnMessage
  <1>6. \A v \in votes : v[1] \in DOMAIN polls
    BY <1>2 DEF RowsTyped
  <1>7. \A t \in Tabs : handler[t].op \in OnPoll => handler[t].poll \in DOMAIN polls
    BY <1>2 DEF ChatShape, WorkIsAbout
  <1>8. VotesInv'
    <2>1. VotesOverlap' /\ OneVote'
      BY <1>1, <1>3 DEF ChatInv, VotesInv, VotesOverlap, OneVote
    <2>2. VotesCleared'
      BY <1>1, <1>3, <1>7 DEF ChatInv, VotesInv, VotesCleared, OnPoll
    <2> QED
      BY <2>1, <2>2 DEF VotesInv
  <1>9. ReactionsInv'
    BY <1>1 DEF ChatInv, ReactionsInv, SawFollows, Follows, ReactionsFollowClicks
  <1>10. DeletionsInv'
    <2>1. RacesNoted' /\ GoneRests'
      BY <1>1 DEF ChatInv, DeletionsInv, RacesNoted, GoneRests
    <2>2. \A c, k : Emptied(c, k) => Emptied(c, k)'
      BY <1>1, <1>3, <1>6 DEF Emptied, NoReads, NoVotes, NoOptions, NoPolls, NoMessages
    <2>3. GoneIsEmpty'
      BY <1>1, <2>2 DEF ChatInv, DeletionsInv, GoneIsEmpty
    <2>4. DropsStand'
      <3>1. ASSUME NEW t \in Tabs, handler'[t].op = "drop", handler'[t].channel \notin raced'
            PROVE  Emptied(handler[t].channel, handler[t].step)'
        <4>1. PICK c, k : c = handler[t].channel /\ k = handler[t].step
          OBVIOUS
        <4>2. Emptied(c, k)
          BY <1>1, <3>1, <4>1 DEF ChatInv, DeletionsInv, DropsStand
        <4>3. Emptied(c, k)' /\ handler'[t].channel = c /\ handler'[t].step = k
          BY <1>1, <2>2, <4>1, <4>2
        <4> QED
          BY <4>3 DEF Emptied, NoReads, NoVotes, NoOptions, NoPolls, NoMessages
      <3> QED
        BY <3>1 DEF DropsStand
    <2>5. ReadsOfKept' /\ VotesOfKept' /\ GoneHasNoOptions'
      BY <1>1, <1>3, <1>6 DEF ChatInv, DeletionsInv, ReadsOfKept, VotesOfKept, GoneHasNoOptions
    <2>6. WorkOfKept'
      BY <1>1, <1>3, <1>7 DEF ChatInv, DeletionsInv, WorkOfKept, WorkKept
    <2> QED
      BY <2>1, <2>3, <2>4, <2>5, <2>6 DEF DeletionsInv
  <1>11. OwnerStands'
    BY <1>1 DEF ChatInv, OwnerStands
  <1> QED
    BY <1>5, <1>8, <1>9, <1>10, <1>11 DEF ChatInv

(* The invariant of the chat, for any colleagues, tabs, channels, messages and *)
(* polls, and for requests that interleave statement by statement and break   *)
(* off anywhere.                                                              *)
THEOREM ChatAlwaysStands == ChatSpec => []ChatInv
  <1>1. ChatInit => ChatInv
    BY ChatStart
  <1>2. ChatInv /\ [ChatNext]_chatVars => ChatInv'
    <2> SUFFICES ASSUME ChatInv, [ChatNext]_chatVars PROVE ChatInv'
      OBVIOUS
    <2>1. ASSUME NEW t \in Tabs, Manage(t) PROVE ChatInv'
      BY <2>1, BeginSteps, InsertChannelKeeps, InsertOwnerKeeps, InsertMemberKeeps, DeleteTableKeeps, LoseRequestKeeps DEF Manage
    <2>2. ASSUME NEW t \in Tabs, Talk(t) PROVE ChatInv'
      BY <2>2, BeginSteps, InsertMessageKeeps, TouchChannelKeeps, WriteMetadataKeeps, PointReadKeeps, InsertReadKeeps,
         DeleteReadsKeeps, DeleteMessageKeeps DEF Talk
    <2>3. ASSUME NEW t \in Tabs, AskChannel(t) PROVE ChatInv'
      BY <2>3, BeginSteps, InsertPollKeeps, InsertOptionsKeeps, InsertMessageKeeps, TouchChannelKeeps, InsertCallKeeps,
         ClearVotesLeaves, InsertVoteKeeps DEF AskChannel
    <2>4. CASE UNCHANGED chatVars \/ \E p \in DOMAIN polls : PollExpires(p)
      BY <2>4, IdleKeeps
    <2> QED
      BY <2>1, <2>2, <2>3, <2>4 DEF ChatNext
  <1> QED
    BY <1>1, <1>2, PTL DEF ChatSpec

(* A set whose elements are all equal has at most one.                        *)
LEMMA AtMostOne == ASSUME NEW S, \A x, y \in S : x = y PROVE Cardinality(S) <= 1
  <1>1. CASE S = {}
    BY <1>1, FS_EmptySet
  <1>2. CASE S # {}
    <2>1. PICK x : x \in S
      BY <1>2
    <2>2. S = {x}
      BY <2>1
    <2> QED
      BY <2>2, FS_Singleton
  <1> QED
    BY <1>1, <1>2

(* Clicks are kept as they were made.                                         *)
LEMMA InvKeepsClicks == ChatInv => ClicksAreKept
  <1> SUFFICES ASSUME ChatInv PROVE ClicksAreKept
    OBVIOUS
  <1>2. ChatTypeOK
    <2>1. RowsTyped /\ DOMAIN handler = Tabs
      BY DEF ChatInv, ChatShape
    <2>2. DOMAIN messages \subseteq 1..MaxMessages /\ DOMAIN polls \subseteq 1..MaxPolls
      BY <2>1, ChatAssumption DEF RowsTyped
    <2> QED
      BY <2>1, <2>2 DEF RowsTyped, ChatTypeOK
  <1>1. ASSUME NEW p \in DOMAIN polls, NEW u \in Colleagues, ~polls[p].multiple, <<p, u>> \notin doubled
        PROVE  Cardinality({v \in votes : v[1] = p /\ v[3] = u}) <= 1
    <2>1. \A v, w \in {x \in votes : x[1] = p /\ x[3] = u} : v = w
      BY <1>1 DEF ChatInv, VotesInv, OneVote, VoteOf
    <2> QED
      BY <2>1, AtMostOne
  <1> QED
    BY <1>1, <1>2 DEF ClicksAreKept, OneVoteEach, ChatInv, ReactionsInv

(* Channels are whole.                                                        *)
LEMMA InvKeepsWhole == ChatInv => ChannelsAreWhole
  <1> SUFFICES ASSUME ChatInv PROVE LeftoversWereRaced /\ CreatorOwns
    BY DEF ChannelsAreWhole
  <1>1. ASSUME NEW c \in DOMAIN channels \ raced, channels[c].state = "gone" PROVE Emptied(c, 7)
    BY <1>1 DEF ChatInv, DeletionsInv, GoneIsEmpty
  <1>2. LeftoversWereRaced
    <2>1. ASSUME NEW c \in DOMAIN channels \ raced, channels[c].state = "gone"
          PROVE  /\ \A m \in DOMAIN messages : messages[m].channel = c => messages[m].state = "gone"
                 /\ \A p \in DOMAIN polls : polls[p].channel = c => polls[p].state = "gone" /\ polls[p].options = {}
                 /\ \A v \in votes : polls[v[1]].channel # c
      BY <1>1, <2>1 DEF Emptied, NoReads, NoVotes, NoOptions, NoPolls, NoMessages
    <2>2. ASSUME NEW c \in DOMAIN channels \ raced, NEW r \in reads, messages[r[1]].channel = c
          PROVE  messages[r[1]].state = "kept"
      BY <2>2 DEF ChatInv, DeletionsInv, ReadsOfKept
    <2> QED
      BY <2>1, <2>2 DEF LeftoversWereRaced
  <1>3. CreatorOwns
    BY DEF ChatInv, OwnerStands, CreatorOwns
  <1> QED
    BY <1>2, <1>3

(* A person has one vote in a poll of one choice, unless two of their votes   *)
(* were under way together (chat.service.ts:632-653). Whether a person's      *)
(* reaction shows is what was last stated of it, turned by their clicks since, *)
(* for any requests at once, unless it was written while somebody else was    *)
(* about to write the message's metadata (chat.service.ts:460-494, 804-820).  *)
THEOREM ClicksAlwaysKept == ChatSpec => []ClicksAreKept
  BY ChatAlwaysStands, InvKeepsClicks, PTL

(* Of a deleted channel nothing is left, of a deleted message no mark, and the *)
(* creator of a channel is its owner, for any requests at once and however    *)
(* often a deletion breaks off and is asked for again, unless a request on the *)
(* channel or message overlapped the deletion (chat.service.ts:192-218,       *)
(* 750-780, 839-850).                                                         *)
THEOREM ChannelsStayWhole == ChatSpec => []ChannelsAreWhole
  BY ChatAlwaysStands, InvKeepsWhole, PTL

--------------------------------------------------------------------------------
\* Part 5. The cadence.

\* The working days after a day, by number.
IsCount(g, from, n) == g = [k \in 0..n |-> IF k = 0 THEN from ELSE NextWorkday(g[k - 1])]
Workday(from, n) == CHOOSE g : IsCount(g, from, n)

(* The next working day is at most three days away, and no other lies before. *)
LEMMA NextWorkdayIs ==
    ASSUME NEW day \in Nat
    PROVE  /\ NextWorkday(day) \in Nat /\ NextWorkday(day) > day /\ ~Weekend(NextWorkday(day))
           /\ \A e \in (day + 1)..(NextWorkday(day) - 1) : Weekend(e)
<1>. DEFINE S == {d \in (day + 1)..(day + 3) : ~Weekend(d)}
<1>1. \E d \in S : \A e \in S : d <= e
  <2>1. (day + 1) \in (day + 1)..(day + 3) /\ (day + 2) \in (day + 1)..(day + 3) /\ (day + 3) \in (day + 1)..(day + 3)
    OBVIOUS
  <2>2. ~Weekend(day + 1) \/ ~Weekend(day + 2) \/ ~Weekend(day + 3)
    BY DEF Weekend
  <2>3. CASE ~Weekend(day + 1)
    BY <2>1, <2>3
  <2>4. CASE Weekend(day + 1) /\ ~Weekend(day + 2)
    <3>1. \A e \in S : e # day + 1
      BY <2>4
    <3>. QED BY <2>1, <2>4, <3>1
  <2>5. CASE Weekend(day + 1) /\ Weekend(day + 2)
    <3>1. \A e \in S : e # day + 1 /\ e # day + 2
      BY <2>5
    <3>. QED BY <2>1, <2>2, <2>5, <3>1
  <2>. QED BY <2>3, <2>4, <2>5
<1>2. PICK d \in S : \A e \in S : d <= e
  BY <1>1
<1>3. d \in (day + 1)..(day + 3) /\ ~Weekend(d) /\ \A e \in (day + 1)..(d - 1) : Weekend(e)
  <2>1. \A e \in (day + 1)..(d - 1) : e \in (day + 1)..(day + 3) /\ ~(d <= e)
    BY <1>2
  <2>. QED BY <1>2, <2>1
<1>4. \E x \in day + 1..day + 3 : ~Weekend(x) /\ \A e \in day + 1..x - 1 : Weekend(e)
  BY <1>3
<1>5. /\ NextWorkday(day) \in (day + 1)..(day + 3) /\ ~Weekend(NextWorkday(day))
      /\ \A e \in (day + 1)..(NextWorkday(day) - 1) : Weekend(e)
  BY <1>4 DEF NextWorkday
<1>. QED BY <1>5

(* Days can be counted on, as far as one likes.                               *)
LEMMA CountExists == ASSUME NEW from, NEW n \in Nat PROVE \E g : IsCount(g, from, n)
<1>. DEFINE Bad == {m \in 1..n : ~\E g : IsCount(g, from, m)}
<1>. SUFFICES ASSUME ~\E g : IsCount(g, from, n) PROVE FALSE
  OBVIOUS
<1>0. \E g : IsCount(g, from, 0)
  <2>1. IsCount([k \in {0} |-> from], from, 0)
    <3>1. 0..0 = {0}
      OBVIOUS
    <3>. QED BY <3>1 DEF IsCount
  <2>. QED BY <2>1
<1>1. n # 0
  BY <1>0
<1>2. n \in Bad /\ Bad \in SUBSET (1..n)
  BY <1>1
<1>. HIDE DEF Bad
<1>3. PICK m \in Bad : \A k \in Bad : m <= k
  BY <1>2, LeastOf
<1>4. m \in 1..n /\ (~\E g : IsCount(g, from, m)) /\ m - 1 \in 0..n /\ m - 1 \notin Bad
  BY <1>3 DEF Bad
<1>5. PICK g : IsCount(g, from, m - 1)
  <2>1. CASE m - 1 = 0
    BY <2>1, <1>0
  <2>2. CASE m - 1 # 0
    BY <2>2, <1>4 DEF Bad
  <2>. QED BY <2>1, <2>2
<1>. DEFINE h == [k \in 0..m |-> IF k # m THEN g[k] ELSE NextWorkday(g[m - 1])]
<1>6. h = [k \in 0..m |-> IF k = 0 THEN from ELSE NextWorkday(h[k - 1])]
  <2>. SUFFICES ASSUME NEW k \in 0..m PROVE h[k] = IF k = 0 THEN from ELSE NextWorkday(h[k - 1])
    OBVIOUS
  <2>1. k # 0 => k - 1 \in 0..m /\ k - 1 # m /\ h[k - 1] = g[k - 1]
    BY <1>4
  <2>2. CASE k = m
    BY <2>1, <2>2, <1>4
  <2>3. CASE k # m
    <3>1. k \in 0..(m - 1) /\ h[k] = g[k]
      BY <2>3, <1>4
    <3>2. g[k] = IF k = 0 THEN from ELSE NextWorkday(g[k - 1])
      BY <3>1, <1>5 DEF IsCount
    <3>. QED BY <3>1, <3>2, <2>1
  <2>. QED BY <2>2, <2>3
<1>. QED BY <1>4, <1>6 DEF IsCount

(* The equation of the function.                                              *)
LEMMA CountIs ==
    ASSUME NEW from, NEW n \in Nat, NEW k \in 0..n
    PROVE  Workday(from, n)[k] = IF k = 0 THEN from ELSE NextWorkday(Workday(from, n)[k - 1])
<1>1. IsCount(Workday(from, n), from, n)
  BY CountExists DEF Workday
<1>. DEFINE g == Workday(from, n)
<1>2. g = [i \in 0..n |-> IF i = 0 THEN from ELSE NextWorkday(g[i - 1])]
  BY <1>1 DEF IsCount
<1>. HIDE DEF g
<1>3. g[k] = IF k = 0 THEN from ELSE NextWorkday(g[k - 1])
  BY <1>2
<1>. QED BY <1>3 DEF g

(* From a day to the next working day there is one more.                      *)
LEMMA OneMore ==
    ASSUME NEW from \in Nat, NEW day \in Nat, from <= day
    PROVE  WorkdaysIn(from, day) \in Nat /\ WorkdaysIn(from, NextWorkday(day)) = WorkdaysIn(from, day) + 1
<1>. DEFINE S == {d \in (from + 1)..day : ~Weekend(d)}
            z == NextWorkday(day)
            T == {d \in (from + 1)..z : ~Weekend(d)}
<1>1. z \in Nat /\ z > day /\ ~Weekend(z) /\ \A e \in (day + 1)..(z - 1) : Weekend(e)
  BY NextWorkdayIs
<1>2. IsFiniteSet(S)
  <2>1. from + 1 \in Int /\ day \in Int /\ S \subseteq (from + 1)..day
    OBVIOUS
  <2>. HIDE DEF S
  <2>. QED BY <2>1, FS_Interval, FS_Subset
<1>. HIDE DEF z
<1>3. T = S \cup {z} /\ z \notin S
  <2>1. \A d \in T : d \in S \/ d = z
    <3>. SUFFICES ASSUME NEW d \in T, d # z, d > day PROVE FALSE
      OBVIOUS
    <3>. QED BY <1>1
  <2>2. \A d \in S : d \in T
    BY <1>1
  <2>3. z \in T /\ z \notin S
    BY <1>1
  <2>. QED BY <2>1, <2>2, <2>3
<1>. HIDE DEF S, T
<1>4. Cardinality(S) \in Nat /\ Cardinality(T) = Cardinality(S) + 1
  BY <1>2, <1>3, FS_CardinalityType, FS_AddElement
<1>. QED BY <1>4 DEF S, T, z, WorkdaysIn

(* The n-th working day after a day is one, and has n of them behind it.      *)
LEMMA WorkdaysCounted ==
    ASSUME NEW from \in Nat, NEW n \in Nat
    PROVE  \A k \in 0..n : /\ Workday(from, n)[k] \in Nat /\ Workday(from, n)[k] >= from
                           /\ WorkdaysIn(from, Workday(from, n)[k]) = k
                           /\ k # 0 => ~Weekend(Workday(from, n)[k])
<1>. DEFINE g == Workday(from, n)
            Good(k) == g[k] \in Nat /\ g[k] >= from /\ WorkdaysIn(from, g[k]) = k /\ (k # 0 => ~Weekend(g[k]))
            Bad == {k \in 1..n : ~Good(k)}
<1>1. \A k \in 0..n : g[k] = IF k = 0 THEN from ELSE NextWorkday(g[k - 1])
  BY CountIs
<1>. HIDE DEF g
<1>2. Good(0)
  <2>1. {d \in (from + 1)..from : ~Weekend(d)} = {}
    OBVIOUS
  <2>2. WorkdaysIn(from, from) = 0
    BY <2>1, FS_EmptySet DEF WorkdaysIn
  <2>3. g[0] = from
    BY <1>1
  <2>. QED BY <2>2, <2>3
<1>3. Bad = {}
  <2>. SUFFICES ASSUME Bad # {} PROVE FALSE
    OBVIOUS
  <2>1. Bad \in SUBSET (1..n)
    OBVIOUS
  <2>2. PICK k \in Bad : \A i \in Bad : k <= i
    <3>. HIDE DEF Bad
    <3>. QED BY <2>1, LeastOf
  <2>3. k \in 1..n /\ k - 1 \in 0..n /\ g[k] = NextWorkday(g[k - 1])
    BY <1>1, <2>2
  <2>4. Good(k - 1)
    <3>1. k - 1 \in 1..n => k - 1 \notin Bad
      BY <2>2, <2>3
    <3>. QED BY <1>2, <2>3, <3>1
  <2>5. /\ g[k] \in Nat /\ g[k] > g[k - 1] /\ ~Weekend(g[k])
    BY <2>3, <2>4, NextWorkdayIs
  <2>6. WorkdaysIn(from, g[k]) = WorkdaysIn(from, g[k - 1]) + 1
    BY <2>3, <2>4, OneMore
  <2>7. Good(k)
    BY <2>3, <2>4, <2>5, <2>6
  <2>. QED BY <2>2, <2>7
<1>. QED BY <1>2, <1>3 DEF g

(* What the property says of a task.                                          *)
OnTime(task) ==
    IF ~task.skip THEN task.day = task.made + task.wait
    ELSE /\ ~Weekend(task.day)
         /\ IF task.wait = 0 THEN task.made <= task.day /\ WorkdaysIn(task.made, task.day - 1) = 0
            ELSE WorkdaysIn(task.made, task.day) = task.wait

InTime(from, wait, skip, day) ==
    /\ day \in Nat
    /\ ~skip => day = from + wait
    /\ skip => /\ ~Weekend(day)
               /\ wait = 0 => from <= day /\ WorkdaysIn(from, day - 1) = 0
               /\ wait # 0 => WorkdaysIn(from, day) = wait

(* computeScheduledDate keeps to it.                                          *)
LEMMA Scheduled ==
    ASSUME NEW from \in Nat, NEW wait \in Nat, NEW skip \in BOOLEAN
    PROVE  InTime(from, wait, skip, ComputeScheduledDate(from, wait, skip))
<1>0. PICK day : day = ComputeScheduledDate(from, wait, skip)
  OBVIOUS
<1>1. ComputeScheduledDate(from, wait, skip) =
        IF ~skip THEN from + wait ELSE IF wait = 0 THEN ThisWorkday(from) ELSE Workday(from, wait)[wait]
  BY DEF ComputeScheduledDate, Workday, IsCount
<1>2. CASE ~skip
  BY <1>0, <1>1, <1>2 DEF InTime
<1>3. CASE skip /\ wait = 0
  <2>1. day = IF Weekend(from) THEN NextWorkday(from) ELSE from
    BY <1>0, <1>1, <1>3 DEF ThisWorkday
  <2>2. day \in Nat /\ from <= day /\ ~Weekend(day) /\ \A e \in (from + 1)..(day - 1) : Weekend(e)
    BY <2>1, NextWorkdayIs
  <2>3. {d \in (from + 1)..(day - 1) : ~Weekend(d)} = {}
    BY <2>2
  <2>4. WorkdaysIn(from, day - 1) = 0
    BY <2>3, FS_EmptySet DEF WorkdaysIn
  <2>. QED BY <1>0, <1>3, <2>2, <2>4 DEF InTime
<1>4. CASE skip /\ wait # 0
  <2>1. day = Workday(from, wait)[wait] /\ wait \in 0..wait
    BY <1>0, <1>1, <1>4
  <2>2. PICK d : d = Workday(from, wait)[wait]
    OBVIOUS
  <2>3. d \in Nat /\ WorkdaysIn(from, d) = wait /\ ~Weekend(d)
    BY <1>4, <2>1, <2>2, WorkdaysCounted
  <2>4. d = day
    BY <2>1, <2>2
  <2>. QED BY <1>0, <1>4, <2>3, <2>4 DEF InTime
<1>. QED BY <1>2, <1>3, <1>4

SellerWork ==
    {Resting} \cup [op: {"claim"}, task: Nat]
    \cup [op: {"advance"}, task: Nat, next: ExecutionRow \cup {NoStep}, order: Nat]
CadencesTyped ==
    /\ sequence \in SequenceRow \cup {Missing, Gone}
    /\ step \in [StepIds -> StepRow \cup {Missing, Gone}] /\ IsFiniteSet(Steps)
    /\ enrolled \in [Leads -> EnrollmentRow \cup {Missing, Gone}]
    /\ tasks \in Seq(ExecutionRow) /\ seller \in [Sellers -> SellerWork]
    /\ today \in Nat /\ disturbed \subseteq Leads

\* What there is, somebody or something else stands for.
TaskThere(task) ==
    /\ task.status # "gone" => Kept(step[task.step]) /\ Kept(enrolled[task.person])
    /\ enrolled[task.person] # Missing /\ OnTime(task)
RowsThere ==
    /\ Steps # {} => Kept(sequence)
    /\ \A p \in Leads : Kept(enrolled[p]) => Kept(sequence)
    /\ \A t \in DOMAIN tasks : TaskThere(tasks[t])

\* What a request has under way.
PersonOf(u) == tasks[seller[u].task].person
WorkThere(u) ==
    /\ seller[u].op # "rest" => seller[u].task \in DOMAIN tasks
    /\ seller[u].op = "advance" =>
          /\ Kept(enrolled[PersonOf(u)])
          /\ seller[u].next # NoStep =>
                seller[u].next.status = "pending" /\ seller[u].next.person = PersonOf(u) /\ OnTime(seller[u].next)

\* Where a person stands that nobody has disturbed.
WorksOn(u, p) == seller[u].op # "rest" /\ PersonOf(u) = p
LeadsOn(u, p) == WorksOn(u, p) /\ seller[u].op = "advance" /\ seller[u].next # NoStep
OneTask(p) == \A t, r \in Pending(p) : t = r
OneSeller(p) == \A u, v \in Sellers : WorksOn(u, p) /\ WorksOn(v, p) => u = v
TaskWaits(p) == \A u \in Sellers : WorksOn(u, p) =>
    tasks[seller[u].task].status = "pending" \/ (seller[u].op = "claim" /\ ~Kept(enrolled[p]))
OnPath(p) == Kept(enrolled[p]) =>
    /\ \A t \in TasksOf(p) : OrderOf(tasks[t].step) <= enrolled[p].order
    /\ enrolled[p].order = 0 \/ \E t \in TasksOf(p) : OrderOf(tasks[t].step) = enrolled[p].order
NextFollows(p) == \A u \in Sellers : LeadsOn(u, p) =>
    /\ seller[u].next.step \in Steps /\ OrderOf(seller[u].next.step) = seller[u].order
    /\ seller[u].order > enrolled[p].order
    /\ \A s \in Steps : OrderOf(s) < seller[u].order => OrderOf(s) <= enrolled[p].order
Stands(p) == OneTask(p) /\ OneSeller(p) /\ TaskWaits(p) /\ OnPath(p) /\ NextFollows(p)

CadencesInv ==
    /\ CadencesTyped /\ RowsThere /\ \A u \in Sellers : WorkThere(u)
    /\ \A p \in Leads \ disturbed : Stands(p)

(* The types of rows, one by one.                                             *)
LEMMA StepIs ==
    ASSUME CadencesTyped, NEW s \in StepIds
    PROVE  /\ step[s] \in StepRow \cup {Missing, Gone}
           /\ Kept(step[s]) <=> step[s] \in StepRow
           /\ Kept(step[s]) => step[s].order \in Nat /\ step[s].order > 0 /\ step[s].wait \in Waits
<1>1. step[s] \in StepRow \cup {Missing, Gone}
  BY DEF CadencesTyped
<1>. QED BY <1>1 DEF StepRow, Missing, Gone, Kept

(* An enrollment that is kept has an order.                                   *)
LEMMA EnrollmentIs ==
    ASSUME CadencesTyped, NEW p \in Leads
    PROVE  /\ enrolled[p] \in EnrollmentRow \cup {Missing, Gone}
           /\ Kept(enrolled[p]) <=> enrolled[p] \in EnrollmentRow
           /\ Kept(enrolled[p]) => enrolled[p].order \in Nat /\ enrolled[p] # Missing
<1>1. enrolled[p] \in EnrollmentRow \cup {Missing, Gone}
  BY DEF CadencesTyped
<1>. QED BY <1>1 DEF EnrollmentRow, Missing, Gone, Kept

(* A task is of a person and of a step.                                       *)
LEMMA TaskIs ==
    ASSUME CadencesTyped, NEW t \in DOMAIN tasks
    PROVE  tasks[t] \in ExecutionRow /\ tasks[t].person \in Leads /\ tasks[t].step \in StepIds
<1>1. tasks[t] \in ExecutionRow
  BY DEF CadencesTyped
<1>. QED BY <1>1 DEF ExecutionRow

(* A request rests, is about to claim a task, or is about to write one.       *)
LEMMA SellerIs ==
    ASSUME CadencesTyped, NEW u \in Sellers
    PROVE  /\ seller[u] \in SellerWork /\ seller[u].op \in {"rest", "claim", "advance"}
           /\ seller[u].op = "rest" => seller[u] = Resting
           /\ seller[u].op = "advance" => /\ seller[u].next \in ExecutionRow \cup {NoStep} /\ seller[u].order \in Nat
                                          /\ seller[u].next # NoStep => seller[u].next \in ExecutionRow
<1>1. seller[u] \in SellerWork
  BY DEF CadencesTyped
<1>. QED BY <1>1 DEF SellerWork, Resting

(* Steps have an order, and are as many as were added.                        *)
LEMMA OrderIs == ASSUME CadencesTyped PROVE \A s \in Steps : s \in StepIds /\ OrderOf(s) \in Nat /\ OrderOf(s) > 0
  BY StepIs DEF Steps, OrderOf

(* The highest order there is, 0 without steps.                               *)
LEMMA LastIs ==
    ASSUME CadencesTyped
    PROVE  LastOrder \in Nat /\ \A s \in Steps : OrderOf(s) <= LastOrder
<1>. DEFINE N == {OrderOf(s) : s \in Steps}
            f == [s \in Steps |-> OrderOf(s)]
<1>1. CASE Steps = {}
  BY <1>1 DEF LastOrder
<1>2. CASE Steps # {}
  <2>1. f \in Surjection(Steps, N)
    BY DEF Surjection
  <2>2. IsFiniteSet(N)
    BY <2>1, FS_Surjection DEF CadencesTyped
  <2>3. (\A n \in N : n \in Int) /\ N # {}
    BY <1>2, OrderIs
  <2>. HIDE DEF N, f
  <2>4. \E n \in N : \A m \in N : n >= m
    BY <2>2, <2>3, GreatestThere
  <2>5. PICK n \in N : \A m \in N : n >= m
    BY <2>4
  <2>6. n \in Nat /\ \A s \in Steps : OrderOf(s) <= n
    BY <2>5, OrderIs DEF N
  <2>7. \E m \in {OrderOf(s) : s \in Steps} : \A s \in Steps : OrderOf(s) <= m
    BY <2>5, <2>6 DEF N
  <2>8. LastOrder \in {OrderOf(s) : s \in Steps} /\ \A s \in Steps : OrderOf(s) <= LastOrder
    BY <1>2, <2>7 DEF LastOrder
  <2>. QED BY <2>8, OrderIs
<1>. QED BY <1>1, <1>2

(* Of some steps, the one of the lowest order.                                *)
LEMMA FirstIs ==
    ASSUME CadencesTyped, NEW S \in SUBSET Steps, S # {}
    PROVE  First(S) \in S /\ \A r \in S : OrderOf(First(S)) <= OrderOf(r)
<1>. DEFINE N == {OrderOf(s) : s \in S}
<1>1. LastOrder \in Nat /\ N \in SUBSET (1..LastOrder) /\ N # {}
  BY LastIs, OrderIs
<1>. HIDE DEF N
<1>2. PICK n \in N : \A m \in N : n <= m
  BY <1>1, LeastOf
<1>3. \E s \in S : \A r \in S : OrderOf(s) <= OrderOf(r)
  BY <1>2 DEF N
<1>. QED BY <1>3 DEF First

(* A task is one of a person and a step, on time.                             *)
LEMMA TaskMade ==
    ASSUME CadencesTyped, Kept(sequence), NEW p \in Leads, NEW s \in Steps
    PROVE  /\ Task(p, s) \in ExecutionRow /\ OnTime(Task(p, s)) /\ DayOf(s) \in Nat
           /\ Task(p, s).person = p /\ Task(p, s).step = s /\ Task(p, s).status = "pending"
           /\ Task(p, s).day = DayOf(s) /\ Task(p, s) # NoStep
<1>1. PICK wait : wait = step[s].wait
  OBVIOUS
<1>2. PICK skip : skip = sequence.skip
  OBVIOUS
<1>3. wait \in Waits /\ wait \in Nat /\ s \in StepIds /\ today \in Nat
  BY <1>1, StepIs, CadencesAssumption DEF Steps, CadencesTyped
<1>4. skip \in BOOLEAN
  BY <1>2 DEF CadencesTyped, SequenceRow, Missing, Gone, Kept
<1>5. PICK day : day = DayOf(s)
  OBVIOUS
<1>6. day = ComputeScheduledDate(today, wait, skip)
  BY <1>1, <1>2, <1>5 DEF DayOf
<1>7. InTime(today, wait, skip, day)
  BY <1>3, <1>4, <1>6, Scheduled
<1>8. Task(p, s) = [person |-> p, step |-> s, status |-> "pending", made |-> today, wait |-> wait, skip |-> skip, day |-> day]
  BY <1>1, <1>2, <1>5 DEF Task
<1>9. Task(p, s) \in ExecutionRow
  BY <1>3, <1>4, <1>7, <1>8 DEF ExecutionRow, InTime
<1>10. OnTime(Task(p, s))
  BY <1>4, <1>7, <1>8 DEF OnTime, InTime
<1>11. Task(p, s) # NoStep
  BY <1>8 DEF NoStep
<1>. QED BY <1>5, <1>7, <1>8, <1>9, <1>10, <1>11 DEF InTime

(* A person stands as long as nobody touches what is theirs.                  *)
LEMMA StandsStill ==
    ASSUME CadencesInv, NEW p \in Leads, Stands(p),
           \A t \in DOMAIN tasks : tasks[t].person = p =>
               t \in DOMAIN tasks' /\ tasks'[t].step = tasks[t].step /\ tasks'[t].status = tasks[t].status,
           \A t \in DOMAIN tasks' : tasks'[t].person = p => t \in DOMAIN tasks /\ tasks[t].person = p,
           \A t \in DOMAIN tasks : t \in DOMAIN tasks' /\ tasks'[t].person = tasks[t].person,
           Kept(enrolled'[p]) <=> Kept(enrolled[p]), enrolled'[p].order = enrolled[p].order,
           \A u \in Sellers : WorksOn(u, p)' => seller'[u] = seller[u],
           \A t \in TasksOf(p) : step'[tasks[t].step].order = step[tasks[t].step].order,
           \A u \in Sellers : LeadsOn(u, p) =>
               /\ seller[u].next.step \in Steps' /\ step'[seller[u].next.step].order = step[seller[u].next.step].order
               /\ \A s \in Steps' : step'[s].order < seller[u].order => step'[s].order <= enrolled[p].order
    PROVE  Stands(p)'
<1>1. TasksOf(p)' = TasksOf(p) /\ Pending(p)' = Pending(p)
  BY DEF TasksOf, Pending
<1>2. \A u \in Sellers : WorksOn(u, p)' => /\ WorksOn(u, p) /\ seller'[u] = seller[u]
                                           /\ seller[u].task \in DOMAIN tasks /\ tasks[seller[u].task].person = p
  BY DEF WorksOn, PersonOf, CadencesInv, WorkThere
<1>3. OneTask(p)'
  BY <1>1 DEF Stands, OneTask
<1>4. OneSeller(p)'
  BY <1>2 DEF Stands, OneSeller
<1>5. TaskWaits(p)'
  BY <1>2 DEF Stands, TaskWaits
<1>6. \A t \in TasksOf(p) : tasks'[t].step = tasks[t].step /\ step'[tasks[t].step].order = step[tasks[t].step].order
  BY DEF TasksOf
<1>7. OnPath(p)'
  BY <1>1, <1>6 DEF Stands, OnPath, OrderOf
<1>8. NextFollows(p)'
  BY <1>2 DEF Stands, NextFollows, LeadsOn, OrderOf
<1>. QED BY <1>3, <1>4, <1>5, <1>7, <1>8 DEF Stands

(* A step that changes nothing.                                               *)
LEMMA NothingKeeps == ASSUME CadencesInv, UNCHANGED cadenceVars PROVE CadencesInv'
<1>1. /\ sequence' = sequence /\ step' = step /\ enrolled' = enrolled /\ tasks' = tasks /\ seller' = seller
      /\ today' = today /\ disturbed' = disturbed
  BY DEF cadenceVars
<1>2. CadencesTyped'
  BY <1>1 DEF CadencesInv, CadencesTyped, Steps
<1>3. RowsThere' /\ \A u \in Sellers : WorkThere(u)'
  BY <1>1 DEF CadencesInv, RowsThere, TaskThere, Steps, WorkThere, PersonOf
<1>4. \A p \in Leads \ disturbed' : Stands(p)'
  <2>. SUFFICES ASSUME NEW p \in Leads \ disturbed' PROVE Stands(p)'
    OBVIOUS
  <2>1. Stands(p) /\ TasksOf(p)' = TasksOf(p) /\ Pending(p)' = Pending(p) /\ Steps' = Steps
    BY <1>1 DEF CadencesInv, TasksOf, Pending, Steps
  <2>. QED BY <1>1, <2>1 DEF Stands, OneTask, OneSeller, TaskWaits, OnPath, NextFollows, LeadsOn, WorksOn, PersonOf, OrderOf
<1>. QED BY <1>2, <1>3, <1>4 DEF CadencesInv

(* The cadence is made or changed, or a day passes: nobody's work is touched. *)
LEMMA SequenceKeeps ==
    ASSUME CadencesInv, sequence' \in SequenceRow \cup {Missing, Gone}, Kept(sequence) => Kept(sequence'), today' \in Nat,
           UNCHANGED <<step, enrolled, tasks, seller, disturbed>>
    PROVE  CadencesInv'
<1>1. step' = step /\ enrolled' = enrolled /\ tasks' = tasks /\ seller' = seller /\ disturbed' = disturbed
  OBVIOUS
<1>2. CadencesTyped'
  BY <1>1 DEF CadencesInv, CadencesTyped, Steps
<1>3. RowsThere' /\ \A u \in Sellers : WorkThere(u)'
  BY <1>1 DEF CadencesInv, RowsThere, TaskThere, Steps, WorkThere, PersonOf
<1>4. \A p \in Leads \ disturbed' : Stands(p)'
  <2>. SUFFICES ASSUME NEW p \in Leads \ disturbed' PROVE Stands(p)'
    OBVIOUS
  <2>1. Stands(p) /\ TasksOf(p)' = TasksOf(p) /\ Pending(p)' = Pending(p) /\ Steps' = Steps
    BY <1>1 DEF CadencesInv, TasksOf, Pending, Steps
  <2>. QED BY <1>1, <2>1 DEF Stands, OneTask, OneSeller, TaskWaits, OnPath, NextFollows, LeadsOn, WorksOn, PersonOf, OrderOf
<1>. QED BY <1>2, <1>3, <1>4 DEF CadencesInv

(* The cadence is created or changed: its status, its weekends.               *)
LEMMA SaveSequenceKeeps ==
    ASSUME CadencesInv, NEW status \in SequenceStatuses, NEW skip \in BOOLEAN,
           CreateSequence(status, skip) \/ UpdateSequence(status, skip)
    PROVE  CadencesInv'
<1>1. UNCHANGED <<step, enrolled, tasks, seller, today, disturbed>>
  BY DEF CreateSequence, UpdateSequence
<1>2. sequence' \in SequenceRow /\ Kept(sequence')
  <2>1. CASE CreateSequence(status, skip)
    BY <2>1 DEF CreateSequence, SequenceRow, Kept
  <2>2. CASE UpdateSequence(status, skip)
    <3>1. sequence \in SequenceRow
      BY <2>2 DEF UpdateSequence, CadencesInv, CadencesTyped, Kept, Missing, Gone
    <3>. QED BY <2>2, <3>1 DEF UpdateSequence, SequenceRow, Kept
  <2>. QED BY <2>1, <2>2
<1>3. today' \in Nat
  BY <1>1 DEF CadencesInv, CadencesTyped
<1>. QED BY <1>1, <1>2, <1>3, SequenceKeeps

(* A day passes; no task waits for it, none is made by it.                    *)
LEMMA TickKeeps == ASSUME CadencesInv, Tick PROVE CadencesInv'
<1>1. UNCHANGED <<step, enrolled, tasks, seller, disturbed>> /\ sequence' = sequence /\ today' \in Nat
  BY DEF Tick, CadencesInv, CadencesTyped
<1>2. sequence' \in SequenceRow \cup {Missing, Gone}
  BY <1>1 DEF CadencesInv, CadencesTyped
<1>. QED BY <1>1, <1>2, SequenceKeeps

(* Everything goes, as nobody holds a task; nothing is left to stand on.      *)
LEMMA DeleteIs ==
    ASSUME CadencesTyped, NEW lost, Delete(lost)
    PROVE  /\ tasks' \in Seq(ExecutionRow) /\ DOMAIN tasks' = DOMAIN tasks
           /\ \A t \in DOMAIN tasks :
                 /\ tasks'[t] = [tasks[t] EXCEPT !.status = tasks'[t].status]
                 /\ tasks'[t].status = IF t \in lost THEN "gone" ELSE tasks[t].status
                 /\ tasks'[t].person = tasks[t].person /\ tasks'[t].step = tasks[t].step
                 /\ OnTime(tasks[t]) => OnTime(tasks'[t])
<1>1. tasks' = [t \in DOMAIN tasks |-> IF t \in lost THEN [tasks[t] EXCEPT !.status = "gone"] ELSE tasks[t]]
  BY DEF Delete
<1>2. tasks \in Seq(ExecutionRow) /\ DOMAIN tasks = 1..Len(tasks) /\ Len(tasks) \in Nat
  BY DEF CadencesTyped
<1>3. \A t \in DOMAIN tasks : tasks[t] \in ExecutionRow
  BY <1>2
<1>4. \A t \in DOMAIN tasks : tasks'[t] \in ExecutionRow
  BY <1>1, <1>3 DEF ExecutionRow
<1>5. tasks' \in Seq(ExecutionRow)
  BY <1>1, <1>2, <1>4
<1>6. \A t \in DOMAIN tasks :
                 /\ tasks'[t] = [tasks[t] EXCEPT !.status = tasks'[t].status]
                 /\ tasks'[t].status = IF t \in lost THEN "gone" ELSE tasks[t].status
                 /\ tasks'[t].person = tasks[t].person /\ tasks'[t].step = tasks[t].step
                 /\ tasks'[t].skip = tasks[t].skip /\ tasks'[t].day = tasks[t].day
                 /\ tasks'[t].made = tasks[t].made /\ tasks'[t].wait = tasks[t].wait
  BY <1>1, <1>3 DEF ExecutionRow
<1>7. \A t \in DOMAIN tasks : OnTime(tasks[t]) => OnTime(tasks'[t])
  BY <1>6 DEF OnTime
<1>. QED BY <1>1, <1>5, <1>6, <1>7

(* The cadence goes with all its rows. No request has a task locked then, and *)
(* what is left of the requests under way only claims rows that are gone.     *)
LEMMA RemoveSequenceKeeps == ASSUME CadencesInv, RemoveSequence PROVE CadencesInv'
<1>1. /\ sequence' = Gone /\ step' = [s \in StepIds |-> IF Kept(step[s]) THEN Gone ELSE step[s]]
      /\ enrolled' = [p \in Leads |-> IF Kept(enrolled[p]) THEN Gone ELSE enrolled[p]]
      /\ Delete(DOMAIN tasks) /\ seller' = seller /\ today' = today /\ disturbed' = disturbed
      /\ \A u \in Sellers, t \in DOMAIN tasks : ~Holds(u, t)
  BY DEF RemoveSequence, LockedTask
<1>2. /\ tasks' \in Seq(ExecutionRow) /\ DOMAIN tasks' = DOMAIN tasks
      /\ \A t \in DOMAIN tasks : /\ tasks'[t].person = tasks[t].person /\ tasks'[t].step = tasks[t].step
                                 /\ tasks'[t].status = "gone"
                                 /\ OnTime(tasks[t]) => OnTime(tasks'[t])
  BY <1>1, DeleteIs DEF CadencesInv
<1>3. (\A s \in StepIds : ~Kept(step'[s]) /\ step'[s] \in {Missing, Gone}) /\ Steps' = {}
  <2>1. \A s \in StepIds : ~Kept(step'[s]) /\ step'[s] \in {Missing, Gone}
    BY <1>1, StepIs DEF CadencesInv, Kept, Gone, Missing
  <2>. QED BY <2>1 DEF Steps
<1>4. \A p \in Leads : /\ ~Kept(enrolled'[p]) /\ enrolled'[p] \in {Missing, Gone}
                       /\ enrolled[p] # Missing => enrolled'[p] # Missing
  BY <1>1, EnrollmentIs DEF CadencesInv, Kept, Gone, Missing
<1>5. \A u \in Sellers : seller[u].op # "advance"
  BY <1>1 DEF Holds, CadencesInv, WorkThere
<1>6. CadencesTyped'
  BY <1>1, <1>2, <1>3, <1>4, FS_EmptySet DEF CadencesInv, CadencesTyped
<1>7. RowsThere'
  <2>1. \A t \in DOMAIN tasks : tasks[t].person \in Leads /\ enrolled[tasks[t].person] # Missing /\ OnTime(tasks[t])
    BY TaskIs DEF CadencesInv, RowsThere, TaskThere
  <2>2. \A t \in DOMAIN tasks' : TaskThere(tasks[t])'
    BY <1>2, <1>4, <2>1 DEF TaskThere
  <2>. QED BY <1>3, <1>4, <2>2 DEF RowsThere
<1>8. \A u \in Sellers : WorkThere(u)'
  BY <1>1, <1>2, <1>5 DEF CadencesInv, WorkThere
<1>9. \A p \in Leads \ disturbed' : Stands(p)'
  <2>. SUFFICES ASSUME NEW p \in Leads \ disturbed' PROVE Stands(p)'
    OBVIOUS
  <2>1. TasksOf(p)' = {} /\ Pending(p)' = {} /\ Stands(p) /\ ~Kept(enrolled'[p])
    BY <1>1, <1>2, <1>4 DEF TasksOf, Pending, CadencesInv
  <2>2. \A u \in Sellers : WorksOn(u, p)' => WorksOn(u, p) /\ seller'[u].op = "claim"
    BY <1>1, <1>2, <1>5, SellerIs DEF WorksOn, PersonOf, CadencesInv, WorkThere
  <2>3. OneTask(p)' /\ OnPath(p)'
    BY <2>1 DEF OneTask, OnPath
  <2>4. OneSeller(p)' /\ TaskWaits(p)'
    BY <2>1, <2>2 DEF Stands, OneSeller, TaskWaits
  <2>5. NextFollows(p)'
    BY <1>1, <1>5 DEF NextFollows, LeadsOn
  <2>. QED BY <2>3, <2>4, <2>5 DEF Stands
<1>. QED BY <1>6, <1>7, <1>8, <1>9 DEF CadencesInv

(* The steps change, and tasks may go with them: what has to be shown of those *)
(* whom the change does not disturb.                                          *)
LEMMA StepsKeep ==
    ASSUME CadencesInv, UNCHANGED <<sequence, enrolled, seller, today>>, Kept(sequence),
           step' \in [StepIds -> StepRow \cup {Missing, Gone}], NEW z, Steps' \subseteq Steps \cup {z},
           disturbed \subseteq disturbed', disturbed' \subseteq Leads,
           tasks' \in Seq(ExecutionRow), DOMAIN tasks' = DOMAIN tasks,
           \A t \in DOMAIN tasks :
               /\ tasks'[t].person = tasks[t].person /\ tasks'[t].step = tasks[t].step
               /\ tasks'[t].status \in {tasks[t].status, "gone"}
               /\ tasks'[t].status # "gone" => Kept(step'[tasks[t].step])
               /\ OnTime(tasks'[t]),
           \A p \in Leads \ disturbed' : Kept(enrolled[p]) =>
               /\ \A t \in TasksOf(p) : /\ tasks'[t].status = tasks[t].status
                                        /\ step'[tasks[t].step].order = step[tasks[t].step].order
               /\ \A u \in Sellers : LeadsOn(u, p) =>
                     /\ seller[u].next.step \in Steps' /\ step'[seller[u].next.step].order = step[seller[u].next.step].order
                     /\ \A s \in Steps' : step'[s].order < seller[u].order => step'[s].order <= enrolled[p].order
    PROVE  CadencesInv'
<1>1. sequence' = sequence /\ enrolled' = enrolled /\ seller' = seller /\ today' = today
  OBVIOUS
<1>2. IsFiniteSet(Steps')
  <2>1. IsFiniteSet(Steps \cup {z})
    BY FS_AddElement DEF CadencesInv, CadencesTyped
  <2>. QED BY <2>1, FS_Subset
<1>3. CadencesTyped'
  BY <1>1, <1>2 DEF CadencesInv, CadencesTyped
<1>4. RowsThere'
  <2>1. \A t \in DOMAIN tasks' : TaskThere(tasks[t])'
    BY <1>1 DEF CadencesInv, RowsThere, TaskThere
  <2>. QED BY <1>1, <2>1 DEF CadencesInv, RowsThere
<1>5. \A u \in Sellers : WorkThere(u)'
  BY <1>1 DEF CadencesInv, WorkThere, PersonOf
<1>6. \A p \in Leads \ disturbed' : Stands(p)'
  <2>. SUFFICES ASSUME NEW p \in Leads \ disturbed' PROVE Stands(p)'
    OBVIOUS
  <2>1. Stands(p) /\ p \in Leads
    BY DEF CadencesInv
  <2>2. \A t \in DOMAIN tasks : tasks[t].person = p => tasks'[t].status = tasks[t].status
    <3>. SUFFICES ASSUME NEW t \in DOMAIN tasks, tasks[t].person = p PROVE tasks'[t].status = tasks[t].status
      OBVIOUS
    <3>1. CASE tasks[t].status = "gone"
      BY <3>1
    <3>2. CASE tasks[t].status # "gone"
      <4>1. t \in TasksOf(p) /\ Kept(enrolled[p])
        BY <3>2 DEF TasksOf, CadencesInv, RowsThere, TaskThere
      <4>. QED BY <4>1
    <3>. QED BY <3>1, <3>2
  <2>3. TasksOf(p) # {} => Kept(enrolled[p])
    BY DEF TasksOf, CadencesInv, RowsThere, TaskThere
  <2>4. \A u \in Sellers : LeadsOn(u, p) => Kept(enrolled[p])
    BY DEF CadencesInv, WorkThere, LeadsOn, WorksOn
  <2>5. \A t \in TasksOf(p) : step'[tasks[t].step].order = step[tasks[t].step].order
    BY <2>3
  <2>6. \A u \in Sellers : WorksOn(u, p)' => seller'[u] = seller[u]
    BY <1>1
  <2>7. \A u \in Sellers : LeadsOn(u, p) =>
               /\ seller[u].next.step \in Steps' /\ step'[seller[u].next.step].order = step[seller[u].next.step].order
               /\ \A s \in Steps' : step'[s].order < seller[u].order => step'[s].order <= enrolled[p].order
    BY <2>4
  <2>. QED BY <1>1, <2>1, <2>2, <2>5, <2>6, <2>7, StandsStill
<1>. QED BY <1>3, <1>4, <1>5, <1>6 DEF CadencesInv

(* What follows when the tasks stay as they are, and the steps in the cadence. *)
LEMMA StepsOnlyKeep ==
    ASSUME CadencesInv, UNCHANGED <<sequence, enrolled, tasks, seller, today>>, Kept(sequence),
           step' \in [StepIds -> StepRow \cup {Missing, Gone}], NEW z, Steps' \subseteq Steps \cup {z}, Steps \subseteq Steps',
           disturbed \subseteq disturbed', disturbed' \subseteq Leads,
           \A p \in Leads \ disturbed' : Kept(enrolled[p]) =>
               /\ \A s \in Steps : step'[s].order = step[s].order
               /\ \A s \in Steps' \ Steps : step'[s].order > LastOrder
    PROVE  CadencesInv'
<1>1. tasks' = tasks
  OBVIOUS
<1>2. \A t \in DOMAIN tasks : OnTime(tasks[t]) /\ (tasks[t].status # "gone" => tasks[t].step \in Steps)
  BY TaskIs DEF CadencesInv, RowsThere, TaskThere, Steps
<1>3. \A s \in Steps' : Kept(step'[s])
  BY DEF Steps
<1>4. \A t \in DOMAIN tasks :
               /\ tasks'[t].person = tasks[t].person /\ tasks'[t].step = tasks[t].step
               /\ tasks'[t].status \in {tasks[t].status, "gone"}
               /\ tasks'[t].status # "gone" => Kept(step'[tasks[t].step])
               /\ OnTime(tasks'[t])
  BY <1>1, <1>2, <1>3
<1>5. \A p \in Leads \ disturbed' : Kept(enrolled[p]) =>
               /\ \A t \in TasksOf(p) : /\ tasks'[t].status = tasks[t].status
                                        /\ step'[tasks[t].step].order = step[tasks[t].step].order
               /\ \A u \in Sellers : LeadsOn(u, p) =>
                     /\ seller[u].next.step \in Steps' /\ step'[seller[u].next.step].order = step[seller[u].next.step].order
                     /\ \A s \in Steps' : step'[s].order < seller[u].order => step'[s].order <= enrolled[p].order
  <2>. SUFFICES ASSUME NEW p \in Leads \ disturbed', Kept(enrolled[p])
                PROVE  /\ \A t \in TasksOf(p) : /\ tasks'[t].status = tasks[t].status
                                                /\ step'[tasks[t].step].order = step[tasks[t].step].order
                       /\ \A u \in Sellers : LeadsOn(u, p) =>
                             /\ seller[u].next.step \in Steps' /\ step'[seller[u].next.step].order = step[seller[u].next.step].order
                             /\ \A s \in Steps' : step'[s].order < seller[u].order => step'[s].order <= enrolled[p].order
    OBVIOUS
  <2>1. NextFollows(p) /\ \A s \in Steps : step'[s].order = step[s].order
    BY DEF CadencesInv, Stands
  <2>2. \A t \in TasksOf(p) : tasks[t].step \in Steps
    BY <1>2 DEF TasksOf
  <2>3. ASSUME NEW u \in Sellers, LeadsOn(u, p)
        PROVE  /\ seller[u].next.step \in Steps /\ OrderOf(seller[u].next.step) = seller[u].order
               /\ \A s \in Steps' : step'[s].order < seller[u].order => step'[s].order <= enrolled[p].order
    <3>1. /\ seller[u].next.step \in Steps /\ OrderOf(seller[u].next.step) = seller[u].order
          /\ \A s \in Steps : OrderOf(s) < seller[u].order => OrderOf(s) <= enrolled[p].order
      BY <2>1, <2>3 DEF NextFollows
    <3>2. seller[u].order <= LastOrder /\ seller[u].order \in Nat /\ LastOrder \in Nat
      BY <3>1, LastIs, OrderIs DEF CadencesInv
    <3>3. ASSUME NEW s \in Steps', step'[s].order < seller[u].order PROVE step'[s].order <= enrolled[p].order
      <4>1. CASE s \in Steps
        BY <2>1, <3>1, <3>3, <4>1 DEF OrderOf
      <4>2. CASE s \notin Steps
        <5>1. step'[s].order > LastOrder /\ step'[s].order \in Nat
          BY <4>2 DEF Steps, StepRow, Missing, Gone, Kept
        <5>. QED BY <3>2, <3>3, <5>1
      <4>. QED BY <4>1, <4>2
    <3>. QED BY <3>1, <3>3
  <2>. QED BY <1>1, <2>1, <2>2, <2>3
<1>6. tasks' \in Seq(ExecutionRow) /\ DOMAIN tasks' = DOMAIN tasks /\ UNCHANGED <<sequence, enrolled, seller, today>>
  BY <1>1 DEF CadencesInv, CadencesTyped
<1>. QED BY <1>4, <1>5, <1>6, StepsKeep

(* A step after the last has an order nobody has reached.                     *)
LEMMA AddStepLastKeeps ==
    ASSUME CadencesInv, NEW s \in StepIds, NEW wait \in Waits, AddStepLast(s, wait)
    PROVE  CadencesInv'
<1>1. /\ UNCHANGED <<sequence, enrolled, tasks, seller, today>> /\ disturbed' = disturbed /\ Kept(sequence) /\ step[s] = Missing
      /\ step' = [step EXCEPT ![s] = NewStep(LastOrder + 1, wait)]
  BY DEF AddStepLast
<1>2. LastOrder \in Nat
  BY LastIs DEF CadencesInv
<1>3. NewStep(LastOrder + 1, wait) \in StepRow /\ NewStep(LastOrder + 1, wait).order = LastOrder + 1
  BY <1>2 DEF NewStep, StepRow
<1>4. step' \in [StepIds -> StepRow \cup {Missing, Gone}] /\ step'[s] = NewStep(LastOrder + 1, wait)
      /\ \A r \in StepIds \ {s} : step'[r] = step[r]
  BY <1>1, <1>3 DEF CadencesInv, CadencesTyped
<1>5. s \notin Steps /\ Steps' \subseteq Steps \cup {s} /\ Steps \subseteq Steps'
  BY <1>1, <1>4 DEF Steps, Kept, Missing
<1>6. (\A r \in Steps : step'[r].order = step[r].order) /\ \A r \in Steps' \ Steps : step'[r].order > LastOrder
  BY <1>2, <1>3, <1>4, <1>5 DEF Steps
<1>7. disturbed \subseteq disturbed' /\ disturbed' \subseteq Leads
  BY <1>1 DEF CadencesInv, CadencesTyped
<1>. QED BY <1>1, <1>4, <1>5, <1>6, <1>7, StepsOnlyKeep

(* The steps of an order and after it, moved.                                 *)
LEMMA ShiftedIs ==
    ASSUME CadencesTyped, NEW from \in Nat, NEW by \in {1, -1}, from + by > 0
    PROVE  /\ Shifted(from, by) \in [StepIds -> StepRow \cup {Missing, Gone}]
           /\ \A s \in StepIds : /\ Kept(Shifted(from, by)[s]) <=> Kept(step[s])
                                 /\ Kept(step[s]) /\ step[s].order < from => Shifted(from, by)[s] = step[s]
                                 /\ Kept(step[s]) /\ step[s].order >= from => Shifted(from, by)[s].order = step[s].order + by
<1>. DEFINE f == Shifted(from, by)
<1>1. f = [s \in StepIds |-> IF Kept(step[s]) /\ step[s].order >= from THEN [step[s] EXCEPT !.order = step[s].order + by] ELSE step[s]]
  BY DEF Shifted, OrderOf
<1>. HIDE DEF f
<1>2. ASSUME NEW s \in StepIds
      PROVE  /\ f[s] \in StepRow \cup {Missing, Gone}
             /\ Kept(f[s]) <=> Kept(step[s])
             /\ Kept(step[s]) /\ step[s].order < from => f[s] = step[s]
             /\ Kept(step[s]) /\ step[s].order >= from => f[s].order = step[s].order + by
  <2>1. CASE Kept(step[s]) /\ step[s].order >= from
    <3>1. PICK n : n = step[s].order + by
      OBVIOUS
    <3>2. n \in Nat \ {0} /\ step[s] \in StepRow /\ step[s].order \in Nat
      BY <2>1, <3>1, StepIs
    <3>3. f[s] = [step[s] EXCEPT !.order = n]
      BY <1>1, <2>1, <3>1
    <3>4. f[s] \in StepRow /\ f[s].order = n /\ Kept(f[s])
      BY <3>2, <3>3 DEF StepRow, Kept
    <3>. QED BY <2>1, <3>1, <3>2, <3>4
  <2>2. CASE ~(Kept(step[s]) /\ step[s].order >= from)
    <3>1. f[s] = step[s] /\ step[s] \in StepRow \cup {Missing, Gone}
      BY <1>1, <2>2, StepIs
    <3>. QED BY <2>2, <3>1
  <2>. QED BY <2>1, <2>2
<1>3. f \in [StepIds -> StepRow \cup {Missing, Gone}]
  BY <1>1, <1>2
<1>. QED BY <1>2, <1>3 DEF f

(* A step before others moves them, and whoever is enrolled is noted.         *)
LEMMA AddStepAtKeeps ==
    ASSUME CadencesInv, NEW s \in StepIds, NEW wait \in Waits, NEW order \in 1..LastOrder, AddStepAt(s, order, wait)
    PROVE  CadencesInv'
<1>. DEFINE f == Shifted(order, 1)
<1>1. /\ UNCHANGED <<sequence, enrolled, tasks, seller, today>> /\ disturbed' = disturbed \cup IsEnrolled /\ Kept(sequence)
      /\ step[s] = Missing /\ step' = [f EXCEPT ![s] = NewStep(order, wait)]
  BY DEF AddStepAt
<1>2. LastOrder \in Nat /\ order \in Nat /\ order > 0
  BY LastIs DEF CadencesInv
<1>3. NewStep(order, wait) \in StepRow
  BY <1>2 DEF NewStep, StepRow
<1>4. f \in [StepIds -> StepRow \cup {Missing, Gone}] /\ \A r \in StepIds : Kept(f[r]) <=> Kept(step[r])
  BY <1>2, ShiftedIs DEF CadencesInv
<1>. HIDE DEF f
<1>5. step' \in [StepIds -> StepRow \cup {Missing, Gone}] /\ \A r \in StepIds \ {s} : step'[r] = f[r]
  BY <1>1, <1>3, <1>4
<1>6. Steps' \subseteq Steps \cup {s} /\ Steps \subseteq Steps'
  BY <1>1, <1>4, <1>5 DEF Steps, Kept, Missing
<1>7. /\ disturbed \subseteq disturbed' /\ disturbed' \subseteq Leads
      /\ \A p \in Leads \ disturbed' : ~Kept(enrolled[p])
  BY <1>1 DEF CadencesInv, CadencesTyped, IsEnrolled
<1>. QED BY <1>1, <1>5, <1>6, <1>7, StepsOnlyKeep

(* A step that gets another order: whoever is enrolled is noted.              *)
LEMMA UpdateStepKeeps ==
    ASSUME CadencesInv, NEW s \in StepIds, NEW wait \in Waits, NEW order \in 1..(LastOrder + 1), UpdateStep(s, order, wait)
    PROVE  CadencesInv'
<1>1. /\ UNCHANGED <<sequence, enrolled, tasks, seller, today>> /\ s \in Steps
      /\ disturbed' = IF order = OrderOf(s) THEN disturbed ELSE disturbed \cup IsEnrolled
      /\ step' = [step EXCEPT ![s].order = order, ![s].wait = wait]
  BY DEF UpdateStep
<1>2. order \in Nat \ {0} /\ step[s] \in StepRow
  BY <1>1, LastIs, StepIs DEF CadencesInv, Steps
<1>3. step' = [step EXCEPT ![s] = [step[s] EXCEPT !.order = order, !.wait = wait]]
  BY <1>1, <1>2 DEF CadencesInv, CadencesTyped
<1>4. [step[s] EXCEPT !.order = order, !.wait = wait] \in StepRow
  BY <1>2 DEF StepRow
<1>5. /\ step' \in [StepIds -> StepRow \cup {Missing, Gone}] /\ \A r \in StepIds \ {s} : step'[r] = step[r]
      /\ step'[s].order = order /\ step'[s] \in StepRow
  BY <1>2, <1>3, <1>4 DEF CadencesInv, CadencesTyped, StepRow
<1>6. Steps' = Steps
  BY <1>1, <1>5 DEF Steps, Kept, StepRow
<1>7. disturbed \subseteq disturbed' /\ disturbed' \subseteq Leads
  BY <1>1 DEF CadencesInv, CadencesTyped, IsEnrolled
<1>8. \A p \in Leads \ disturbed' : Kept(enrolled[p]) => \A r \in Steps : step'[r].order = step[r].order
  BY <1>1, <1>5 DEF Steps, IsEnrolled, OrderOf
<1>9. Kept(sequence)
  BY <1>1 DEF CadencesInv, RowsThere
<1>. QED BY <1>1, <1>5, <1>6, <1>7, <1>8, <1>9, StepsOnlyKeep

(* A step that goes takes its tasks along and moves those after it down. Who  *)
(* has not reached it stands as before; the others are noted.                 *)
LEMMA RemoveStepKeeps ==
    ASSUME CadencesInv, NEW s \in StepIds, RemoveStep(s)
    PROVE  CadencesInv'
<1>. DEFINE from == OrderOf(s) + 1
            f == Shifted(from, -1)
            lost == {t \in DOMAIN tasks : tasks[t].step = s}
<1>1. /\ UNCHANGED <<sequence, enrolled, seller, today>> /\ s \in Steps /\ Delete(lost)
      /\ step' = [f EXCEPT ![s] = Gone] /\ disturbed' = disturbed \cup PassedBy(s)
  BY DEF RemoveStep
<1>2. OrderOf(s) \in Nat /\ OrderOf(s) > 0
  BY <1>1, OrderIs DEF CadencesInv
<1>3. /\ f \in [StepIds -> StepRow \cup {Missing, Gone}]
      /\ \A r \in StepIds : /\ Kept(f[r]) <=> Kept(step[r])
                            /\ Kept(step[r]) /\ step[r].order < from => f[r] = step[r]
                            /\ Kept(step[r]) /\ step[r].order >= from => f[r].order = step[r].order - 1
  <2>1. from \in Nat /\ -1 \in {1, -1} /\ from + (-1) > 0
    BY <1>2
  <2>2. PICK by : by = -1
    OBVIOUS
  <2>3. /\ Shifted(from, by) \in [StepIds -> StepRow \cup {Missing, Gone}]
        /\ \A r \in StepIds : /\ Kept(Shifted(from, by)[r]) <=> Kept(step[r])
                              /\ Kept(step[r]) /\ step[r].order < from => Shifted(from, by)[r] = step[r]
                              /\ Kept(step[r]) /\ step[r].order >= from => Shifted(from, by)[r].order = step[r].order + by
    <3>1. from + by > 0 /\ by \in {1, -1}
      BY <2>1, <2>2
    <3>. QED BY <2>1, <3>1, ShiftedIs DEF CadencesInv
  <2>4. \A r \in StepIds : Kept(step[r]) => step[r].order + by = step[r].order - 1
    BY <2>2, StepIs DEF CadencesInv
  <2>. QED BY <2>2, <2>3, <2>4
<1>. HIDE DEF f, lost
<1>4. step' \in [StepIds -> StepRow \cup {Missing, Gone}] /\ step'[s] = Gone /\ \A r \in StepIds \ {s} : step'[r] = f[r]
  BY <1>1, <1>3 DEF Steps
<1>5. (\A r \in StepIds \ {s} : Kept(step'[r]) <=> Kept(step[r])) /\ ~Kept(step'[s]) /\ Steps' = Steps \ {s}
  <2>1. (\A r \in StepIds \ {s} : Kept(step'[r]) <=> Kept(step[r])) /\ ~Kept(step'[s])
    BY <1>3, <1>4 DEF Kept, Gone
  <2>. QED BY <2>1 DEF Steps
<1>6. Kept(sequence)
  BY <1>1 DEF CadencesInv, RowsThere
<1>7. disturbed \subseteq disturbed' /\ disturbed' \subseteq Leads
  <2>1. PassedBy(s) \subseteq Leads
    BY TaskIs DEF PassedBy, IsEnrolled, CadencesInv, WorkThere
  <2>. QED BY <1>1, <2>1 DEF CadencesInv, CadencesTyped
<1>8. /\ tasks' \in Seq(ExecutionRow) /\ DOMAIN tasks' = DOMAIN tasks
      /\ \A t \in DOMAIN tasks :
            /\ tasks'[t].status = IF t \in lost THEN "gone" ELSE tasks[t].status
            /\ tasks'[t].person = tasks[t].person /\ tasks'[t].step = tasks[t].step
            /\ OnTime(tasks[t]) => OnTime(tasks'[t])
  BY <1>1, DeleteIs DEF CadencesInv
<1>9. \A t \in DOMAIN tasks : OnTime(tasks[t]) /\ tasks[t].step \in StepIds /\ (tasks[t].status # "gone" => tasks[t].step \in Steps)
  BY TaskIs DEF CadencesInv, RowsThere, TaskThere, Steps
<1>10. ASSUME NEW t \in DOMAIN tasks
       PROVE  /\ tasks'[t].person = tasks[t].person /\ tasks'[t].step = tasks[t].step
              /\ tasks'[t].status \in {tasks[t].status, "gone"}
              /\ tasks'[t].status # "gone" => Kept(step'[tasks[t].step])
              /\ OnTime(tasks'[t])
  <2>1. tasks'[t].status # "gone" => tasks[t].step \in Steps \ {s}
    BY <1>8, <1>9 DEF lost
  <2>. QED BY <1>5, <1>8, <1>9, <2>1 DEF Steps
<1>11. ASSUME NEW p \in Leads \ disturbed', Kept(enrolled[p])
       PROVE  /\ \A t \in TasksOf(p) : /\ tasks'[t].status = tasks[t].status
                                       /\ step'[tasks[t].step].order = step[tasks[t].step].order
              /\ \A u \in Sellers : ~LeadsOn(u, p)
  <2>1. p \notin PassedBy(s) /\ OnPath(p)
    BY <1>1 DEF CadencesInv, Stands
  <2>2. enrolled[p].order < OrderOf(s) /\ enrolled[p].order \in Nat
    BY <1>2, <2>1, <1>11, EnrollmentIs DEF PassedBy, IsEnrolled, CadencesInv
  <2>3. \A u \in Sellers : ~LeadsOn(u, p)
    BY <2>1 DEF PassedBy, LeadsOn, WorksOn, PersonOf
  <2>4. ASSUME NEW t \in TasksOf(p)
        PROVE  /\ tasks'[t].status = tasks[t].status
               /\ step'[tasks[t].step].order = step[tasks[t].step].order
    <3>1. t \in DOMAIN tasks /\ tasks[t].step \in Steps
      BY <1>9 DEF TasksOf
    <3>2. OrderOf(tasks[t].step) <= enrolled[p].order /\ OrderOf(tasks[t].step) \in Nat
      BY <2>1, <1>11, <3>1, OrderIs DEF OnPath, CadencesInv
    <3>3. tasks[t].step # s /\ step[tasks[t].step].order < from
      BY <1>2, <2>2, <3>2 DEF OrderOf
    <3>. QED BY <1>3, <1>4, <1>8, <3>1, <3>3 DEF lost, Steps
  <2>. QED BY <2>3, <2>4
<1>. QED BY <1>1, <1>4, <1>5, <1>6, <1>7, <1>8, <1>10, <1>11, StepsKeep

--------------------------------------------------------------------------------
\* People.

(* A person gets another status; the order they have reached stays.           *)
LEMMA UpdateEnrollmentKeeps ==
    ASSUME CadencesInv, NEW p \in Leads, NEW status \in EnrollmentStatuses, UpdateEnrollment(p, status)
    PROVE  CadencesInv'
<1>1. /\ UNCHANGED <<sequence, step, tasks, seller, today, disturbed>> /\ Kept(enrolled[p])
      /\ enrolled' = [enrolled EXCEPT ![p].status = status, ![p].next = IF status \in {"active", "paused"} THEN @ ELSE NoDay]
  BY DEF UpdateEnrollment, IsEnrolled
<1>2. enrolled[p] \in EnrollmentRow /\ enrolled \in [Leads -> EnrollmentRow \cup {Missing, Gone}]
  BY <1>1, EnrollmentIs DEF CadencesInv, CadencesTyped
<1>3. PICK row : row = enrolled'[p]
  OBVIOUS
<1>4. row \in EnrollmentRow /\ row.order = enrolled[p].order
  <2>1. row = [enrolled[p] EXCEPT !.status = status, !.next = IF status \in {"active", "paused"} THEN enrolled[p].next ELSE NoDay]
    BY <1>1, <1>2, <1>3
  <2>2. PICK next : next = IF status \in {"active", "paused"} THEN enrolled[p].next ELSE NoDay
    OBVIOUS
  <2>3. next \in Int
    <3>1. NoDay \in Int
      BY DEF NoDay
    <3>2. enrolled[p].next \in Int
      BY <1>2 DEF EnrollmentRow
    <3>. QED BY <2>2, <3>1, <3>2
  <2>4. row = [enrolled[p] EXCEPT !.status = status, !.next = next]
    BY <2>1, <2>2
  <2>. QED BY <1>2, <2>3, <2>4 DEF EnrollmentRow
<1>5. enrolled' \in [Leads -> EnrollmentRow \cup {Missing, Gone}] /\ \A q \in Leads \ {p} : enrolled'[q] = enrolled[q]
  BY <1>1, <1>2, <1>3, <1>4
<1>6. \A q \in Leads : /\ Kept(enrolled'[q]) <=> Kept(enrolled[q])
                       /\ enrolled'[q].order = enrolled[q].order
                       /\ enrolled[q] # Missing => enrolled'[q] # Missing
  BY <1>1, <1>3, <1>4, <1>5 DEF EnrollmentRow, Kept, Missing
<1>7. CadencesTyped'
  BY <1>1, <1>5 DEF CadencesInv, CadencesTyped, Steps
<1>8. RowsThere'
  <2>1. \A t \in DOMAIN tasks' : TaskThere(tasks[t])'
    BY <1>1, <1>6, TaskIs DEF CadencesInv, RowsThere, TaskThere
  <2>. QED BY <1>1, <1>6, <2>1 DEF CadencesInv, RowsThere, Steps
<1>9. \A u \in Sellers : WorkThere(u)'
  <2>1. \A u \in Sellers : seller[u].op # "rest" => PersonOf(u) \in Leads
    BY TaskIs DEF CadencesInv, WorkThere, PersonOf
  <2>. QED BY <1>1, <1>6, <2>1 DEF CadencesInv, WorkThere, PersonOf
<1>10. \A q \in Leads \ disturbed' : Stands(q)'
  <2>. SUFFICES ASSUME NEW q \in Leads \ disturbed' PROVE Stands(q)'
    OBVIOUS
  <2>1. Stands(q) /\ NextFollows(q)
    BY <1>1 DEF CadencesInv, Stands
  <2>2. \A u \in Sellers : LeadsOn(u, q) =>
               /\ seller[u].next.step \in Steps' /\ step'[seller[u].next.step].order = step[seller[u].next.step].order
               /\ \A s \in Steps' : step'[s].order < seller[u].order => step'[s].order <= enrolled[q].order
    BY <1>1, <2>1 DEF NextFollows, Steps, OrderOf
  <2>. QED BY <1>1, <1>6, <2>1, <2>2, StandsStill
<1>. QED BY <1>7, <1>8, <1>9, <1>10 DEF CadencesInv

(* A request begins; who is being led on by another is noted.                 *)
LEMMA BeginCompletionKeeps ==
    ASSUME CadencesInv, NEW u \in Sellers, NEW t \in DOMAIN tasks, BeginCompletion(u, t)
    PROVE  CadencesInv'
<1>. DEFINE work == [op |-> "claim", task |-> t]
            others == {p \in {tasks[t].person} : \E v \in Sellers : seller[v].op # "rest" /\ tasks[seller[v].task].person = p}
<1>1. /\ UNCHANGED <<sequence, step, enrolled, tasks, today>> /\ seller[u] = Resting /\ tasks[t].status = "pending"
      /\ seller' = [seller EXCEPT ![u] = work] /\ disturbed' = disturbed \cup others
  BY DEF BeginCompletion, Turn
<1>2. tasks[t].person \in Leads /\ t \in Nat
  BY TaskIs DEF CadencesInv, CadencesTyped
<1>3. work \in SellerWork /\ work.op = "claim" /\ work.task = t
  BY <1>2 DEF SellerWork
<1>. HIDE DEF work
<1>4. seller' \in [Sellers -> SellerWork] /\ seller'[u] = work /\ \A v \in Sellers \ {u} : seller'[v] = seller[v]
  BY <1>1, <1>3 DEF CadencesInv, CadencesTyped
<1>5. CadencesTyped'
  BY <1>1, <1>2, <1>4 DEF CadencesInv, CadencesTyped, Steps
<1>6. RowsThere'
  BY <1>1 DEF CadencesInv, RowsThere, TaskThere, Steps
<1>7. \A v \in Sellers : WorkThere(v)'
  BY <1>1, <1>3, <1>4 DEF CadencesInv, WorkThere, PersonOf
<1>8. \A p \in Leads \ disturbed' : Stands(p)'
  <2>. SUFFICES ASSUME NEW p \in Leads \ disturbed' PROVE Stands(p)'
    OBVIOUS
  <2>1. Stands(p) /\ TasksOf(p)' = TasksOf(p) /\ Pending(p)' = Pending(p) /\ Steps' = Steps
    BY <1>1 DEF CadencesInv, TasksOf, Pending, Steps
  <2>2. \A v \in Sellers : WorksOn(v, p)' => \/ v = u /\ tasks[t].person = p
                                             \/ v # u /\ WorksOn(v, p) /\ seller'[v] = seller[v]
    BY <1>1, <1>3, <1>4 DEF WorksOn, PersonOf
  <2>3. tasks[t].person = p => \A v \in Sellers : ~WorksOn(v, p)
    BY <1>1 DEF WorksOn, PersonOf
  <2>4. OneTask(p)' /\ OnPath(p)'
    BY <1>1, <2>1 DEF Stands, OneTask, OnPath, OrderOf
  <2>5. OneSeller(p)'
    BY <2>1, <2>2, <2>3 DEF Stands, OneSeller
  <2>6. TaskWaits(p)'
    BY <1>1, <1>3, <1>4, <2>1, <2>2 DEF Stands, TaskWaits
  <2>7. \A v \in Sellers : LeadsOn(v, p)' => LeadsOn(v, p) /\ seller'[v] = seller[v]
    BY <1>3, <1>4, <2>2 DEF LeadsOn
  <2>8. NextFollows(p)'
    BY <1>1, <2>1, <2>7 DEF Stands, NextFollows, OrderOf
  <2>. QED BY <2>4, <2>5, <2>6, <2>8 DEF Stands
<1>. QED BY <1>5, <1>6, <1>7, <1>8 DEF CadencesInv

\* What an enrollment writes.
Enrolled(P, row, more) ==
    /\ row \in EnrollmentRow /\ enrolled' = [p \in Leads |-> IF p \in P THEN row ELSE enrolled[p]]
    /\ tasks' \in Seq(ExecutionRow) /\ DOMAIN tasks \subseteq DOMAIN tasks' /\ \A t \in DOMAIN tasks : tasks'[t] = tasks[t]
    /\ more = DOMAIN tasks' \ DOMAIN tasks
    /\ \A t \in more : /\ tasks'[t].person \in P /\ tasks'[t].status = "pending" /\ OnTime(tasks'[t])
                       /\ tasks'[t].step \in Steps /\ OrderOf(tasks'[t].step) = row.order
                       /\ \A s \in Steps : row.order <= OrderOf(s)
    /\ \A t, r \in more : tasks'[t].person = tasks'[r].person => t = r
    /\ row.order = 0 \/ \A p \in P : \E t \in more : tasks'[t].person = p

(* People come into the cadence, with a task each or, while there are no      *)
(* steps, without.                                                            *)
LEMMA NewcomersKeep ==
    ASSUME CadencesInv, UNCHANGED <<sequence, step, seller, today, disturbed>>, Kept(sequence),
           NEW P \in SUBSET Leads, \A p \in P : enrolled[p] = Missing,
           NEW row, NEW more, Enrolled(P, row, more)
    PROVE  CadencesInv'
<1>0. /\ row \in EnrollmentRow /\ enrolled' = [p \in Leads |-> IF p \in P THEN row ELSE enrolled[p]]
      /\ tasks' \in Seq(ExecutionRow) /\ DOMAIN tasks \subseteq DOMAIN tasks' /\ \A t \in DOMAIN tasks : tasks'[t] = tasks[t]
      /\ \A t \in DOMAIN tasks' \ DOMAIN tasks :
             /\ tasks'[t].person \in P /\ tasks'[t].status = "pending" /\ OnTime(tasks'[t])
             /\ tasks'[t].step \in Steps /\ OrderOf(tasks'[t].step) = row.order
      /\ \A t, r \in DOMAIN tasks' \ DOMAIN tasks : tasks'[t].person = tasks'[r].person => t = r
      /\ row.order = 0 \/ \A p \in P : \E t \in DOMAIN tasks' \ DOMAIN tasks : tasks'[t].person = p
  BY DEF Enrolled
<1>. USE <1>0
<1>1. /\ sequence' = sequence /\ step' = step /\ seller' = seller /\ today' = today /\ disturbed' = disturbed
      /\ Steps' = Steps
  BY DEF Steps
<1>2. \A p \in Leads : /\ p \in P => enrolled'[p] = row /\ Kept(enrolled'[p]) /\ enrolled'[p] # Missing
                       /\ p \notin P => enrolled'[p] = enrolled[p]
  BY DEF EnrollmentRow, Kept, Missing
<1>3. enrolled' \in [Leads -> EnrollmentRow \cup {Missing, Gone}]
  BY DEF CadencesInv, CadencesTyped
<1>4. CadencesTyped'
  BY <1>1, <1>3 DEF CadencesInv, CadencesTyped
<1>5. \A t \in DOMAIN tasks : tasks[t].person \in Leads /\ tasks[t].person \notin P
  BY TaskIs DEF CadencesInv, RowsThere, TaskThere
<1>6. RowsThere'
  <2>1. ASSUME NEW t \in DOMAIN tasks' PROVE TaskThere(tasks[t])'
    <3>1. CASE t \in DOMAIN tasks
      BY <1>1, <1>2, <1>5, <3>1 DEF CadencesInv, RowsThere, TaskThere
    <3>2. CASE t \notin DOMAIN tasks
      BY <1>1, <1>2, <3>2 DEF TaskThere, Steps
    <3>. QED BY <3>1, <3>2
  <2>. QED BY <1>1, <2>1 DEF CadencesInv, RowsThere
<1>7. \A u \in Sellers : WorkThere(u)'
  BY <1>1, <1>2, <1>5 DEF CadencesInv, WorkThere, PersonOf
<1>8. \A u \in Sellers, p \in Leads : WorksOn(u, p)' => WorksOn(u, p) /\ p \notin P
  BY <1>1, <1>5 DEF CadencesInv, WorkThere, WorksOn, PersonOf
<1>9. \A p \in Leads \ disturbed' : Stands(p)'
  <2>. SUFFICES ASSUME NEW p \in Leads \ disturbed' PROVE Stands(p)'
    OBVIOUS
  <2>1. Stands(p) /\ p \in Leads
    BY <1>1 DEF CadencesInv
  <2>2. CASE p \in P
    <3>1. \A u \in Sellers : ~WorksOn(u, p)' /\ ~LeadsOn(u, p)'
      BY <1>8, <2>2 DEF LeadsOn
    <3>2. OneSeller(p)' /\ TaskWaits(p)' /\ NextFollows(p)'
      BY <3>1 DEF OneSeller, TaskWaits, NextFollows
    <3>3. \A t \in TasksOf(p)' : t \in DOMAIN tasks' \ DOMAIN tasks /\ tasks'[t].person = p
      BY <1>5, <2>2 DEF TasksOf
    <3>4. OneTask(p)'
      BY <3>3 DEF OneTask, Pending
    <3>5. \A t \in DOMAIN tasks' \ DOMAIN tasks : tasks'[t].person = p => t \in TasksOf(p)'
      BY DEF TasksOf
    <3>6. enrolled'[p].order = row.order
      BY <1>2, <2>2
    <3>7. row.order \in Nat
      BY DEF EnrollmentRow
    <3>8. \A t \in TasksOf(p)' : OrderOf(tasks[t].step)' = row.order
      BY <1>1, <3>3 DEF OrderOf
    <3>9. row.order = 0 \/ \E t \in TasksOf(p)' : OrderOf(tasks[t].step)' = row.order
      BY <2>2, <3>5, <3>8
    <3>10. OnPath(p)'
      BY <3>6, <3>7, <3>8, <3>9 DEF OnPath
    <3>. QED BY <3>2, <3>4, <3>10 DEF Stands
  <2>3. CASE p \notin P
    <3>1. NextFollows(p) /\ enrolled'[p] = enrolled[p]
      BY <1>2, <2>1, <2>3 DEF Stands
    <3>2. \A u \in Sellers : LeadsOn(u, p) =>
               /\ seller[u].next.step \in Steps' /\ step'[seller[u].next.step].order = step[seller[u].next.step].order
               /\ \A s \in Steps' : step'[s].order < seller[u].order => step'[s].order <= enrolled[p].order
      BY <1>1, <3>1 DEF NextFollows, OrderOf
    <3>3. \A t \in DOMAIN tasks' : tasks'[t].person = p => t \in DOMAIN tasks /\ tasks[t].person = p
      BY <2>3
    <3>. QED BY <1>1, <2>1, <3>1, <3>2, <3>3, StandsStill
  <2>. QED BY <2>2, <2>3
<1>. QED BY <1>4, <1>6, <1>7, <1>9 DEF CadencesInv

(* Who is in a list as long as the set of its people is in it once.           *)
LEMMA ListedOnce ==
    ASSUME NEW P, IsFiniteSet(P), NEW roll \in [1..Cardinality(P) -> P], {roll[i] : i \in DOMAIN roll} = P
    PROVE  /\ \A i, j \in 1..Cardinality(P) : roll[i] = roll[j] => i = j
           /\ \A p \in P : \E i \in 1..Cardinality(P) : roll[i] = p
           /\ Cardinality(P) \in Nat
<1>. DEFINE n == Cardinality(P)
<1>1. n \in Nat
  BY FS_CardinalityType
<1>2. IsFiniteSet(1..n) /\ Cardinality(1..n) = n
  BY <1>1, FS_Interval
<1>3. \A p \in P : \E i \in 1..n : roll[i] = p
  OBVIOUS
<1>4. roll \in Surjection(1..n, P)
  BY <1>3 DEF Surjection
<1>. HIDE DEF n
<1>5. roll \in Injection(1..n, P)
  BY <1>2, <1>4, FS_SurjSameCardinalityImpliesInj DEF n
<1>6. \A i, j \in 1..n : roll[i] = roll[j] => i = j
  BY <1>5 DEF Injection, IsInjective
<1>. QED BY <1>1, <1>3, <1>6 DEF n

(* After the last of a sequence comes the first of the next.                  *)
LEMMA SeqConcatenation ==
    ASSUME NEW S, NEW f \in Seq(S), NEW g \in Seq(S)
    PROVE  /\ f \o g \in Seq(S) /\ Len(f \o g) = Len(f) + Len(g)
           /\ \A i \in 1..Len(f) : (f \o g)[i] = f[i]
           /\ \A i \in 1..Len(g) : (f \o g)[Len(f) + i] = g[i]
  OBVIOUS

(* People are enrolled with a task of the first step each, or without one.    *)
LEMMA EnrollWrites ==
    ASSUME CadencesInv, NEW P \in SUBSET Leads, EnrollPeople(P)
    PROVE  \E row, more : Enrolled(P, row, more)
<1>. DEFINE s == First(Steps)
            n == Cardinality(P)
<1>1. /\ Kept(sequence) /\ step' = step
      /\ enrolled' = [p \in Leads |-> IF p \in P THEN
                         (IF Steps = {} THEN [state |-> "kept", status |-> "active", order |-> 0, next |-> NoDay]
                          ELSE [state |-> "kept", status |-> "active", order |-> OrderOf(s), next |-> DayOf(s)]) ELSE enrolled[p]]
  BY DEF EnrollPeople
<1>2. PICK roll \in [1..n -> P] :
          /\ {roll[i] : i \in DOMAIN roll} = P
          /\ tasks' = IF Steps = {} THEN tasks ELSE tasks \o [i \in DOMAIN roll |-> Task(roll[i], s)]
  BY DEF EnrollPeople
<1>3. IsFiniteSet(P)
  BY CadencesAssumption, FS_Subset
<1>4. /\ \A i, j \in 1..n : roll[i] = roll[j] => i = j
      /\ \A p \in P : \E i \in 1..n : roll[i] = p
      /\ n \in Nat
  BY <1>2, <1>3, ListedOnce
<1>. HIDE DEF n
<1>5. tasks \in Seq(ExecutionRow)
  BY DEF CadencesInv, CadencesTyped
<1>6. CASE Steps = {}
  <2>1. PICK row : row = [state |-> "kept", status |-> "active", order |-> 0, next |-> NoDay]
    OBVIOUS
  <2>2. NoDay \in Int
    BY DEF NoDay
  <2>3. row \in EnrollmentRow /\ row.order = 0
    BY <2>1, <2>2 DEF EnrollmentRow, EnrollmentStatuses
  <2>4. tasks' = tasks /\ enrolled' = [p \in Leads |-> IF p \in P THEN row ELSE enrolled[p]]
    BY <1>1, <1>2, <1>6, <2>1
  <2>5. Enrolled(P, row, {})
    BY <1>5, <2>3, <2>4 DEF Enrolled
  <2>. QED BY <2>5
<1>7. CASE Steps # {}
  <2>1. s \in Steps /\ \A r \in Steps : OrderOf(s) <= OrderOf(r)
    BY <1>7, FirstIs DEF CadencesInv
  <2>. HIDE DEF s
  <2>2. OrderOf(s) \in Nat /\ OrderOf(s) > 0
    BY <2>1, OrderIs DEF CadencesInv
  <2>3. \A p \in Leads : /\ Task(p, s) \in ExecutionRow /\ OnTime(Task(p, s)) /\ DayOf(s) \in Nat
                         /\ Task(p, s).person = p /\ Task(p, s).step = s /\ Task(p, s).status = "pending"
    BY <1>1, <2>1, TaskMade DEF CadencesInv
  <2>4. CASE P = {}
    BY <2>4 DEF EnrollPeople
  <2>5. CASE P # {}
    <3>0. DayOf(s) \in Nat
      BY <2>3, <2>5
    <3>1. PICK row : row = [state |-> "kept", status |-> "active", order |-> OrderOf(s), next |-> DayOf(s)]
      OBVIOUS
    <3>2. row \in EnrollmentRow /\ row.order = OrderOf(s)
      BY <2>2, <3>0, <3>1 DEF EnrollmentRow, EnrollmentStatuses
    <3>3. PICK new : new = [i \in 1..n |-> Task(roll[i], s)]
      OBVIOUS
    <3>4. \A i \in 1..n : roll[i] \in Leads /\ new[i] = Task(roll[i], s) /\ new[i] \in ExecutionRow
      BY <2>3, <3>3
    <3>5. new \in Seq(ExecutionRow) /\ Len(new) = n
      BY <1>4, <3>3, <3>4
    <3>6. tasks' = tasks \o new
      BY <1>2, <1>7, <3>3
    <3>7. enrolled' = [p \in Leads |-> IF p \in P THEN row ELSE enrolled[p]]
      BY <1>1, <1>7, <3>1
    <3>8. PICK m \in Nat : m = Len(tasks)
      BY <1>5
    <3>9. /\ tasks' \in Seq(ExecutionRow) /\ DOMAIN tasks' = 1..(m + n) /\ DOMAIN tasks = 1..m
          /\ \A t \in 1..m : tasks'[t] = tasks[t]
          /\ \A i \in 1..n : tasks'[m + i] = new[i]
      <4>0. /\ tasks \o new \in Seq(ExecutionRow) /\ Len(tasks \o new) = Len(tasks) + Len(new)
            /\ \A t \in 1..Len(tasks) : (tasks \o new)[t] = tasks[t]
            /\ \A i \in 1..Len(new) : (tasks \o new)[Len(tasks) + i] = new[i]
        <5>1. new \in Seq(ExecutionRow)
          BY <3>5
        <5>. QED BY ONLY <1>5, <5>1, SeqConcatenation
      <4>1. /\ tasks \o new \in Seq(ExecutionRow) /\ Len(tasks \o new) = m + n
            /\ \A t \in 1..m : (tasks \o new)[t] = tasks[t]
            /\ \A i \in 1..n : (tasks \o new)[m + i] = new[i]
        BY ONLY <3>5, <3>8, <4>0
      <4>2. PICK all : all = tasks \o new
        OBVIOUS
      <4>3. all \in Seq(ExecutionRow) /\ Len(all) = m + n
        BY <4>1, <4>2
      <4>4. DOMAIN all = 1..(m + n) /\ DOMAIN tasks = 1..m
        BY <1>5, <3>8, <4>3
      <4>. QED BY <3>6, <4>1, <4>2, <4>3, <4>4
    <3>10. \A t \in (m + 1)..(m + n) : t - m \in 1..n /\ tasks'[t] = Task(roll[t - m], s)
      <4>1. \A t \in (m + 1)..(m + n) : t - m \in 1..n /\ m + (t - m) = t
        BY <1>4, <3>8
      <4>. QED BY <3>4, <3>9, <4>1
    <3>11. PICK more : more = DOMAIN tasks' \ DOMAIN tasks
      OBVIOUS
    <3>12. \A t \in more : t \in (m + 1)..(m + n)
      BY <1>4, <3>9, <3>11
    <3>13. \A i \in 1..n : m + i \in more
      BY <1>4, <3>9, <3>11
    <3>14. \A t \in more : /\ tasks'[t].person = roll[t - m] /\ t - m \in 1..n /\ tasks'[t].status = "pending"
                           /\ OnTime(tasks'[t]) /\ tasks'[t].step = s
      BY <2>3, <3>4, <3>10, <3>12
    <3>15. \A t, r \in more : tasks'[t].person = tasks'[r].person => t = r
      <4>. SUFFICES ASSUME NEW t \in more, NEW r \in more, tasks'[t].person = tasks'[r].person PROVE t = r
        OBVIOUS
      <4>1. t - m = r - m
        BY <1>4, <3>14
      <4>2. t \in Int /\ r \in Int
        BY <3>12
      <4>. QED BY <3>8, <4>1, <4>2
    <3>16. \A p \in P : \E t \in more : tasks'[t].person = p
      <4>. SUFFICES ASSUME NEW p \in P PROVE \E t \in more : tasks'[t].person = p
        OBVIOUS
      <4>1. PICK i \in 1..n : roll[i] = p
        BY <1>4
      <4>2. m + i \in more /\ tasks'[m + i] = Task(roll[i], s)
        BY <3>4, <3>9, <3>13
      <4>. QED BY <2>3, <4>1, <4>2
    <3>17. DOMAIN tasks \subseteq DOMAIN tasks' /\ \A t \in DOMAIN tasks : tasks'[t] = tasks[t]
      BY <1>4, <3>9
    <3>18. \A t \in more : tasks'[t].person \in P
      BY <3>14
    <3>19. Enrolled(P, row, more)
      BY <2>1, <3>2, <3>7, <3>9, <3>11, <3>14, <3>15, <3>16, <3>17, <3>18 DEF Enrolled
    <3>. QED BY <3>19
  <2>. QED BY <2>4, <2>5
<1>. QED BY <1>6, <1>7

(* People come in.                                                            *)
LEMMA EnrollPeopleKeeps ==
    ASSUME CadencesInv, NEW P \in SUBSET Leads, EnrollPeople(P)
    PROVE  CadencesInv'
<1>1. UNCHANGED <<sequence, step, seller, today, disturbed>> /\ Kept(sequence) /\ \A p \in P : enrolled[p] = Missing
  BY DEF EnrollPeople
<1>2. PICK row, more : Enrolled(P, row, more)
  BY EnrollWrites
<1>. QED BY <1>1, <1>2, NewcomersKeep

(* What a claim finds: the step that follows, with its task, or none.         *)
LEMMA ClaimFinds ==
    ASSUME CadencesInv, NEW p \in Leads, Kept(enrolled[p]), NEW next, next = NextSteps(enrolled[p].order), next # {}
    PROVE  /\ First(next) \in Steps /\ Task(p, First(next)) \in ExecutionRow /\ Task(p, First(next)) # NoStep
           /\ Task(p, First(next)).status = "pending" /\ Task(p, First(next)).person = p
           /\ Task(p, First(next)).step = First(next) /\ OnTime(Task(p, First(next)))
           /\ OrderOf(First(next)) \in Nat /\ OrderOf(First(next)) > enrolled[p].order
           /\ \A s \in Steps : OrderOf(s) < OrderOf(First(next)) => OrderOf(s) <= enrolled[p].order
<1>1. enrolled[p].order \in Nat /\ \A s \in Steps : OrderOf(s) \in Nat
  BY EnrollmentIs, OrderIs DEF CadencesInv
<1>2. next \in SUBSET Steps /\ \A s \in Steps : s \in next <=> OrderOf(s) > enrolled[p].order
  BY DEF NextSteps, Above
<1>3. First(next) \in next /\ \A r \in next : OrderOf(First(next)) <= OrderOf(r)
  BY <1>2, FirstIs DEF CadencesInv
<1>4. Kept(sequence)
  BY DEF CadencesInv, RowsThere
<1>5. PICK s \in Steps : s = First(next)
  BY <1>2, <1>3
<1>6. /\ Task(p, s) \in ExecutionRow /\ OnTime(Task(p, s)) /\ Task(p, s).person = p /\ Task(p, s).step = s
      /\ Task(p, s).status = "pending" /\ Task(p, s) # NoStep
  BY <1>4, TaskMade DEF CadencesInv
<1>7. \A r \in Steps : OrderOf(r) < OrderOf(s) => OrderOf(r) <= enrolled[p].order
  BY <1>1, <1>2, <1>3, <1>5
<1>. QED BY <1>1, <1>2, <1>3, <1>5, <1>6, <1>7

(* The claim: the request has the task, and what it is to write.              *)
LEMMA ClaimKeeps ==
    ASSUME CadencesInv, NEW u \in Sellers, Claim(u)
    PROVE  CadencesInv'
<1>1. /\ seller[u].op = "claim" /\ ~LockedTask(seller[u].task)
      /\ sequence' = sequence /\ step' = step /\ enrolled' = enrolled /\ tasks' = tasks /\ today' = today
      /\ disturbed' = disturbed
  BY DEF Claim
<1>2. seller[u].task \in DOMAIN tasks
  BY <1>1 DEF CadencesInv, WorkThere
<1>3. PICK t \in DOMAIN tasks : t = seller[u].task
  BY <1>2
<1>4. PICK p \in Leads : p = tasks[t].person
  BY TaskIs DEF CadencesInv
<1>5. t \in Nat
  BY DEF CadencesInv, CadencesTyped
<1>6. PICK work : Turn(u, work) /\
          IF ~Kept(enrolled[p]) THEN work = Resting
          ELSE work = [op |-> "advance", task |-> t,
                       next |-> IF NextSteps(enrolled[p].order) = {} THEN NoStep
                                ELSE Task(p, First(NextSteps(enrolled[p].order))),
                       order |-> IF NextSteps(enrolled[p].order) = {} THEN 0 ELSE OrderOf(First(NextSteps(enrolled[p].order)))]
  BY <1>3, <1>4 DEF Claim
<1>7. /\ work \in SellerWork
      /\ work.op # "rest" => /\ work.op = "advance" /\ work.task = t /\ Kept(enrolled[p])
                             /\ work.next # NoStep =>
                                   /\ work.next.status = "pending" /\ work.next.person = p /\ OnTime(work.next)
                                   /\ work.next.step \in Steps /\ OrderOf(work.next.step) = work.order
                                   /\ work.order > enrolled[p].order
                                   /\ \A s \in Steps : OrderOf(s) < work.order => OrderOf(s) <= enrolled[p].order
  <2>1. CASE ~Kept(enrolled[p])
    BY <1>6, <2>1 DEF SellerWork, Resting
  <2>2. CASE Kept(enrolled[p])
    <3>1. PICK next : next = NextSteps(enrolled[p].order)
      OBVIOUS
    <3>2. CASE next = {}
      <4>1. work = [op |-> "advance", task |-> t, next |-> NoStep, order |-> 0]
        BY <1>6, <2>2, <3>1, <3>2
      <4>. QED BY <1>5, <2>2, <4>1 DEF SellerWork
    <3>3. CASE next # {}
      <4>1. PICK task, order : task = Task(p, First(next)) /\ order = OrderOf(First(next))
        OBVIOUS
      <4>2. work = [op |-> "advance", task |-> t, next |-> task, order |-> order]
        BY <1>6, <2>2, <3>1, <3>3, <4>1
      <4>3. /\ First(next) \in Steps /\ task \in ExecutionRow /\ task # NoStep /\ task.status = "pending" /\ task.person = p
            /\ task.step = First(next) /\ OnTime(task) /\ order \in Nat /\ order > enrolled[p].order
            /\ \A s \in Steps : OrderOf(s) < order => OrderOf(s) <= enrolled[p].order
        BY <2>2, <3>1, <3>3, <4>1, ClaimFinds
      <4>4. work \in SellerWork
        BY <1>5, <4>2, <4>3 DEF SellerWork
      <4>. QED BY <2>2, <4>1, <4>2, <4>3, <4>4
    <3>. QED BY <3>2, <3>3
  <2>. QED BY <2>1, <2>2
<1>8. seller' \in [Sellers -> SellerWork] /\ seller'[u] = work /\ \A v \in Sellers \ {u} : seller'[v] = seller[v]
  BY <1>6, <1>7 DEF Turn, CadencesInv, CadencesTyped
<1>9. CadencesTyped'
  BY <1>1, <1>8 DEF CadencesInv, CadencesTyped, Steps
<1>10. RowsThere'
  BY <1>1 DEF CadencesInv, RowsThere, TaskThere, Steps
<1>11. \A v \in Sellers : WorkThere(v)'
  <2>. SUFFICES ASSUME NEW v \in Sellers PROVE WorkThere(v)'
    OBVIOUS
  <2>1. CASE v = u
    BY <1>1, <1>4, <1>7, <1>8, <2>1 DEF WorkThere, PersonOf
  <2>2. CASE v # u
    BY <1>1, <1>8, <2>2 DEF CadencesInv, WorkThere, PersonOf
  <2>. QED BY <2>1, <2>2
<1>12. \A q \in Leads \ disturbed' : Stands(q)'
  <2>. SUFFICES ASSUME NEW q \in Leads \ disturbed' PROVE Stands(q)'
    OBVIOUS
  <2>1. Stands(q) /\ TasksOf(q)' = TasksOf(q) /\ Pending(q)' = Pending(q) /\ Steps' = Steps
    BY <1>1 DEF CadencesInv, TasksOf, Pending, Steps
  <2>2. \A v \in Sellers : WorksOn(v, q)' => /\ WorksOn(v, q)
                                             /\ v = u => q = p /\ work.op = "advance"
                                             /\ v # u => seller'[v] = seller[v]
    BY <1>1, <1>3, <1>4, <1>7, <1>8 DEF WorksOn, PersonOf
  <2>3. OneTask(q)' /\ OnPath(q)'
    BY <1>1, <2>1 DEF Stands, OneTask, OnPath, OrderOf
  <2>4. OneSeller(q)'
    BY <2>1, <2>2 DEF Stands, OneSeller
  <2>5. TaskWaits(q)'
    <3>. SUFFICES ASSUME NEW v \in Sellers, WorksOn(v, q)'
                  PROVE  (tasks[seller[v].task].status = "pending" \/ (seller[v].op = "claim" /\ ~Kept(enrolled[q])))'
      BY DEF TaskWaits
    <3>1. tasks[seller[v].task].status = "pending" \/ (seller[v].op = "claim" /\ ~Kept(enrolled[q]))
      BY <2>1, <2>2 DEF Stands, TaskWaits
    <3>2. CASE v = u
      BY <1>1, <1>3, <1>7, <1>8, <2>2, <3>1, <3>2
    <3>3. CASE v # u
      BY <1>1, <2>2, <3>1, <3>3
    <3>. QED BY <3>2, <3>3
  <2>6. NextFollows(q)'
    <3>. SUFFICES ASSUME NEW v \in Sellers, LeadsOn(v, q)'
                  PROVE  (/\ seller[v].next.step \in Steps /\ OrderOf(seller[v].next.step) = seller[v].order
                          /\ seller[v].order > enrolled[q].order
                          /\ \A s \in Steps : OrderOf(s) < seller[v].order => OrderOf(s) <= enrolled[q].order)'
      BY DEF NextFollows
    <3>1. CASE v = u
      BY <1>1, <1>7, <1>8, <2>1, <2>2, <3>1 DEF LeadsOn, OrderOf
    <3>2. CASE v # u
      BY <1>1, <2>1, <2>2, <3>2 DEF LeadsOn, Stands, NextFollows, OrderOf
    <3>. QED BY <3>1, <3>2
  <2>. QED BY <2>3, <2>4, <2>5, <2>6 DEF Stands
<1>. QED BY <1>9, <1>10, <1>11, <1>12 DEF CadencesInv

(* A task is finished in its place.                                           *)
LEMMA FinishIs ==
    ASSUME CadencesTyped, NEW t \in DOMAIN tasks, NEW outcome \in Outcomes
    PROVE  /\ Finish(t, outcome) \in Seq(ExecutionRow) /\ DOMAIN Finish(t, outcome) = DOMAIN tasks
           /\ Len(Finish(t, outcome)) = Len(tasks)
           /\ \A r \in DOMAIN tasks :
                 /\ Finish(t, outcome)[r].person = tasks[r].person /\ Finish(t, outcome)[r].step = tasks[r].step
                 /\ OnTime(tasks[r]) => OnTime(Finish(t, outcome)[r])
                 /\ Finish(t, outcome)[r].status = "gone" <=> tasks[r].status = "gone"
                 /\ r # t => Finish(t, outcome)[r] = tasks[r]
           /\ Finish(t, outcome)[t].status # "pending"
<1>. DEFINE f == Finish(t, outcome)
<1>1. tasks \in Seq(ExecutionRow) /\ tasks[t] \in ExecutionRow
  BY TaskIs DEF CadencesTyped
<1>2. PICK status : status = IF tasks[t].status = "gone" THEN "gone" ELSE outcome
  OBVIOUS
<1>3. PICK row : row = [tasks[t] EXCEPT !.status = status]
  OBVIOUS
<1>4. status \in Outcomes \cup {"gone"} /\ status # "pending" /\ (status = "gone" <=> tasks[t].status = "gone")
  BY <1>2 DEF Outcomes
<1>5. row \in ExecutionRow
  BY <1>1, <1>3, <1>4 DEF ExecutionRow
<1>6. row.person = tasks[t].person /\ row.step = tasks[t].step /\ row.status = status
  BY <1>1, <1>3 DEF ExecutionRow
<1>7. OnTime(tasks[t]) => OnTime(row)
  BY <1>1, <1>3 DEF ExecutionRow, OnTime
<1>8. f = [tasks EXCEPT ![t] = row]
  BY <1>1, <1>2, <1>3 DEF Finish
<1>. HIDE DEF f
<1>9. f \in Seq(ExecutionRow) /\ DOMAIN f = DOMAIN tasks /\ Len(f) = Len(tasks)
  BY <1>1, <1>5, <1>8
<1>10. f[t] = row /\ \A r \in DOMAIN tasks : r # t => f[r] = tasks[r]
  BY <1>1, <1>8
<1>11. ASSUME NEW r \in DOMAIN tasks
       PROVE  /\ f[r].person = tasks[r].person /\ f[r].step = tasks[r].step
              /\ OnTime(tasks[r]) => OnTime(f[r])
              /\ f[r].status = "gone" <=> tasks[r].status = "gone"
  <2>1. CASE r = t
    BY <1>4, <1>6, <1>7, <1>10, <2>1
  <2>2. CASE r # t
    <3>1. f[r] = tasks[r]
      BY <1>10, <2>2
    <3>. QED BY <3>1
  <2>. QED BY <2>1, <2>2
<1>. QED BY <1>4, <1>6, <1>9, <1>10, <1>11 DEF f

\* What a request that commits writes.
Advanced(u, t, p, more) ==
    /\ tasks' \in Seq(ExecutionRow) /\ DOMAIN tasks \subseteq DOMAIN tasks' /\ more = DOMAIN tasks' \ DOMAIN tasks
    /\ \A r \in DOMAIN tasks :
          /\ tasks'[r].person = tasks[r].person /\ tasks'[r].step = tasks[r].step
          /\ OnTime(tasks[r]) => OnTime(tasks'[r])
          /\ tasks'[r].status = "gone" <=> tasks[r].status = "gone"
          /\ tasks'[r].status = "pending" => tasks[r].status = "pending"
          /\ r # t => tasks'[r].status = tasks[r].status
    /\ \A r, s \in more : r = s
    /\ \A r \in more : /\ tasks'[r] = seller[u].next /\ seller[u].next # NoStep /\ seller[u].next.step \in Steps
                       /\ tasks'[t].status # "pending" /\ enrolled'[p].order = seller[u].order
    /\ more = {} => enrolled'[p].order = enrolled[p].order
    /\ enrolled' \in [Leads -> EnrollmentRow \cup {Missing, Gone}]
    /\ \A q \in Leads : /\ Kept(enrolled'[q]) <=> Kept(enrolled[q])
                        /\ q # p => enrolled'[q] = enrolled[q]
                        /\ enrolled[q] # Missing => enrolled'[q] # Missing

(* A commit finishes the task and writes the next, or ends the cadence of the *)
(* person, or, when the next step is gone, writes nothing.                    *)
LEMMA AdvanceWrites ==
    ASSUME CadencesInv, NEW u \in Sellers, NEW outcome \in Outcomes, Advance(u, outcome)
    PROVE  \E t \in DOMAIN tasks, p \in Leads : \E more :
               t = seller[u].task /\ p = tasks[t].person /\ Advanced(u, t, p, more)
<1>1. seller[u].op = "advance" /\ Turn(u, Resting)
  BY DEF Advance
<1>2. PICK t \in DOMAIN tasks : t = seller[u].task
  BY <1>1 DEF CadencesInv, WorkThere
<1>3. PICK p \in Leads : p = tasks[t].person
  BY TaskIs DEF CadencesInv
<1>4. Kept(enrolled[p]) /\ enrolled[p] \in EnrollmentRow /\ enrolled \in [Leads -> EnrollmentRow \cup {Missing, Gone}]
  <2>1. Kept(enrolled[p])
    BY <1>1, <1>2, <1>3 DEF CadencesInv, WorkThere, PersonOf
  <2>. QED BY <2>1, EnrollmentIs DEF CadencesInv, CadencesTyped
<1>5. PICK next : next = seller[u].next
  OBVIOUS
<1>6. PICK f : f = Finish(t, outcome)
  OBVIOUS
<1>7. /\ f \in Seq(ExecutionRow) /\ DOMAIN f = DOMAIN tasks /\ Len(f) = Len(tasks)
      /\ \A r \in DOMAIN tasks :
            /\ f[r].person = tasks[r].person /\ f[r].step = tasks[r].step
            /\ OnTime(tasks[r]) => OnTime(f[r])
            /\ f[r].status = "gone" <=> tasks[r].status = "gone"
            /\ r # t => f[r] = tasks[r]
      /\ f[t].status # "pending"
  BY <1>6, FinishIs DEF CadencesInv
<1>8. \A r \in DOMAIN tasks : f[r].status = "pending" => tasks[r].status = "pending"
  BY <1>7
<1>9. CASE next = NoStep
  <2>1. tasks' = f /\ enrolled' = [enrolled EXCEPT ![p].status = "completed", ![p].next = NoDay]
    BY <1>2, <1>3, <1>4, <1>5, <1>6, <1>9 DEF Advance
  <2>2. PICK row : row = [enrolled[p] EXCEPT !.status = "completed", !.next = NoDay]
    OBVIOUS
  <2>3. enrolled' = [enrolled EXCEPT ![p] = row]
    BY <1>4, <2>1, <2>2
  <2>4. NoDay \in Int
    BY DEF NoDay
  <2>5. row \in EnrollmentRow /\ row.order = enrolled[p].order
    BY <1>4, <2>2, <2>4 DEF EnrollmentRow, EnrollmentStatuses
  <2>6. Kept(row) /\ row # Missing
    BY <2>5 DEF EnrollmentRow, Kept, Missing
  <2>7. /\ enrolled' \in [Leads -> EnrollmentRow \cup {Missing, Gone}] /\ enrolled'[p] = row
        /\ \A q \in Leads : q # p => enrolled'[q] = enrolled[q]
    BY <1>4, <2>3, <2>5
  <2>8. \A q \in Leads : (Kept(enrolled'[q]) <=> Kept(enrolled[q])) /\ (enrolled[q] # Missing => enrolled'[q] # Missing)
    BY <1>4, <2>6, <2>7
  <2>9. Advanced(u, t, p, {})
    BY <1>7, <1>8, <2>1, <2>5, <2>7, <2>8 DEF Advanced
  <2>. QED BY <1>2, <1>3, <2>9
<1>10. CASE next # NoStep /\ next.step \notin Steps
  <2>1. tasks' = tasks /\ enrolled' = enrolled
    BY <1>2, <1>3, <1>5, <1>10 DEF Advance
  <2>2. tasks \in Seq(ExecutionRow)
    BY DEF CadencesInv, CadencesTyped
  <2>3. Advanced(u, t, p, {})
    BY <1>4, <2>1, <2>2 DEF Advanced
  <2>. QED BY <1>2, <1>3, <2>3
<1>11. CASE next # NoStep /\ next.step \in Steps
  <2>1. tasks' = Append(f, next) /\ enrolled' = [enrolled EXCEPT ![p].order = seller[u].order, ![p].next = next.day]
    BY <1>2, <1>3, <1>5, <1>6, <1>11 DEF Advance
  <2>2. next \in ExecutionRow /\ seller[u].order \in Nat
    BY <1>1, <1>5, <1>11, SellerIs DEF CadencesInv
  <2>3. PICK order \in Nat : order = seller[u].order
    BY <2>2
  <2>4. PICK day \in Nat : day = next.day
    BY <2>2 DEF ExecutionRow
  <2>5. PICK row : row = [enrolled[p] EXCEPT !.order = order, !.next = day]
    OBVIOUS
  <2>6. enrolled' = [enrolled EXCEPT ![p] = row]
    BY <1>4, <2>1, <2>3, <2>4, <2>5
  <2>7. row \in EnrollmentRow /\ row.order = order
    <3>1. PICK old \in EnrollmentRow : old = enrolled[p]
      BY <1>4
    <3>2. row = [old EXCEPT !.order = order, !.next = day] /\ day \in Int
      BY <2>5, <3>1
    <3>3. row = [state |-> old.state, status |-> old.status, order |-> order, next |-> day]
      BY <3>2 DEF EnrollmentRow
    <3>4. old.state \in {"kept"} /\ old.status \in EnrollmentStatuses
      BY DEF EnrollmentRow
    <3>. QED BY <3>2, <3>3, <3>4 DEF EnrollmentRow
  <2>8. Kept(row) /\ row # Missing
    BY <2>7 DEF EnrollmentRow, Kept, Missing
  <2>9. /\ enrolled' \in [Leads -> EnrollmentRow \cup {Missing, Gone}] /\ enrolled'[p] = row
        /\ \A q \in Leads : q # p => enrolled'[q] = enrolled[q]
    BY <1>4, <2>6, <2>7
  <2>10. \A q \in Leads : (Kept(enrolled'[q]) <=> Kept(enrolled[q])) /\ (enrolled[q] # Missing => enrolled'[q] # Missing)
    BY <1>4, <2>8, <2>9
  <2>11. PICK n \in Nat : n = Len(f)
    <3>1. f \in Seq(ExecutionRow)
      BY <1>7
    <3>2. Len(f) \in Nat
      BY ONLY <3>1
    <3>. QED BY ONLY <3>2
  <2>12. /\ tasks' \in Seq(ExecutionRow) /\ DOMAIN tasks = 1..n /\ DOMAIN tasks' = 1..(n + 1)
         /\ tasks'[n + 1] = next /\ \A r \in 1..n : tasks'[r] = f[r]
    <3>1. PICK all : all = Append(f, next)
      OBVIOUS
    <3>2. all \in Seq(ExecutionRow) /\ Len(all) = Len(f) + 1 /\ all[Len(f) + 1] = next /\ \A r \in 1..Len(f) : all[r] = f[r]
      BY <1>7, <2>2, <3>1
    <3>3. DOMAIN all = 1..(n + 1) /\ DOMAIN f = 1..n
      BY <1>7, <2>11, <3>2
    <3>. QED BY <1>7, <2>1, <2>11, <3>1, <3>2, <3>3
  <2>13. DOMAIN tasks \subseteq DOMAIN tasks' /\ DOMAIN tasks' \ DOMAIN tasks = {n + 1}
    BY <2>12
  <2>14. tasks'[t].status # "pending" /\ enrolled'[p].order = seller[u].order
    BY <1>7, <2>3, <2>7, <2>9, <2>12
  <2>15. \A r \in DOMAIN tasks : tasks'[r] = f[r]
    BY <2>12
  <2>16. Advanced(u, t, p, {n + 1})
    BY <1>5, <1>7, <1>8, <1>11, <2>9, <2>10, <2>12, <2>13, <2>14, <2>15 DEF Advanced
  <2>. QED BY <1>2, <1>3, <2>16
<1>. QED BY <1>9, <1>10, <1>11

(* A commit leads one person on, who had this one task and this one request,  *)
(* and nobody else.                                                           *)
LEMMA AdvanceKeeps ==
    ASSUME CadencesInv, NEW u \in Sellers, NEW outcome \in Outcomes, Advance(u, outcome)
    PROVE  CadencesInv'
<1>1. /\ seller[u].op = "advance" /\ Turn(u, Resting)
      /\ sequence' = sequence /\ step' = step /\ today' = today /\ disturbed' = disturbed
  BY DEF Advance
<1>2. PICK t \in DOMAIN tasks, p \in Leads : \E more : t = seller[u].task /\ p = tasks[t].person /\ Advanced(u, t, p, more)
  BY AdvanceWrites
<1>3. PICK more : t = seller[u].task /\ p = tasks[t].person /\ Advanced(u, t, p, more)
  BY <1>2
<1>4. /\ tasks' \in Seq(ExecutionRow) /\ DOMAIN tasks \subseteq DOMAIN tasks' /\ more = DOMAIN tasks' \ DOMAIN tasks
      /\ \A r \in DOMAIN tasks :
            /\ tasks'[r].person = tasks[r].person /\ tasks'[r].step = tasks[r].step
            /\ OnTime(tasks[r]) => OnTime(tasks'[r])
            /\ tasks'[r].status = "gone" <=> tasks[r].status = "gone"
            /\ tasks'[r].status = "pending" => tasks[r].status = "pending"
            /\ r # t => tasks'[r].status = tasks[r].status
      /\ \A r, s \in more : r = s
      /\ \A r \in more : /\ tasks'[r] = seller[u].next /\ seller[u].next # NoStep /\ seller[u].next.step \in Steps
                         /\ tasks'[t].status # "pending" /\ enrolled'[p].order = seller[u].order
      /\ more = {} => enrolled'[p].order = enrolled[p].order
  BY <1>3 DEF Advanced
<1>5. /\ enrolled' \in [Leads -> EnrollmentRow \cup {Missing, Gone}]
      /\ \A q \in Leads : /\ Kept(enrolled'[q]) <=> Kept(enrolled[q])
                          /\ q # p => enrolled'[q] = enrolled[q]
                          /\ enrolled[q] # Missing => enrolled'[q] # Missing
  BY <1>3 DEF Advanced
<1>6. /\ Kept(enrolled[p]) /\ PersonOf(u) = p
      /\ seller[u].next # NoStep =>
            seller[u].next.status = "pending" /\ seller[u].next.person = p /\ OnTime(seller[u].next)
  BY <1>1, <1>3 DEF CadencesInv, WorkThere, PersonOf
<1>7. seller' \in [Sellers -> SellerWork] /\ seller'[u].op = "rest" /\ \A v \in Sellers \ {u} : seller'[v] = seller[v]
  BY <1>1 DEF Turn, CadencesInv, CadencesTyped, SellerWork, Resting
<1>8. CadencesTyped' /\ Steps' = Steps
  BY <1>1, <1>4, <1>5, <1>7 DEF CadencesInv, CadencesTyped, Steps
<1>9. RowsThere'
  <2>1. ASSUME NEW r \in DOMAIN tasks' PROVE TaskThere(tasks[r])'
    <3>1. CASE r \in DOMAIN tasks
      <4>1. TaskThere(tasks[r]) /\ tasks[r].person \in Leads
        BY <3>1, TaskIs DEF CadencesInv, RowsThere
      <4>. QED BY <1>1, <1>4, <1>5, <3>1, <4>1 DEF TaskThere
    <3>2. CASE r \in more
      BY <1>1, <1>4, <1>5, <1>6, <3>2 DEF TaskThere, Steps, Kept, Missing
    <3>. QED BY <1>4, <3>1, <3>2
  <2>2. \A q \in Leads : Kept(enrolled'[q]) => Kept(sequence')
    BY <1>1, <1>5 DEF CadencesInv, RowsThere
  <2>. QED BY <1>1, <1>8, <2>1, <2>2 DEF CadencesInv, RowsThere
<1>10. \A v \in Sellers : WorkThere(v)'
  <2>. SUFFICES ASSUME NEW v \in Sellers PROVE WorkThere(v)'
    OBVIOUS
  <2>1. CASE v = u
    BY <1>7, <2>1 DEF WorkThere
  <2>2. CASE v # u
    <3>1. seller'[v] = seller[v] /\ WorkThere(v)
      BY <1>7, <2>2 DEF CadencesInv
    <3>2. seller[v].op # "rest" => seller[v].task \in DOMAIN tasks /\ PersonOf(v)' = PersonOf(v) /\ PersonOf(v) \in Leads
      BY <1>4, <3>1, TaskIs DEF WorkThere, PersonOf, CadencesInv
    <3>. QED BY <1>4, <1>5, <3>1, <3>2 DEF WorkThere
  <2>. QED BY <2>1, <2>2
<1>11. \A q \in Leads, v \in Sellers : WorksOn(v, q)' => v # u /\ seller'[v] = seller[v] /\ WorksOn(v, q)
  BY <1>4, <1>7 DEF CadencesInv, WorkThere, WorksOn, PersonOf
<1>12. \A q \in Leads \ disturbed' : Stands(q)'
  <2>. SUFFICES ASSUME NEW q \in Leads \ disturbed' PROVE Stands(q)'
    OBVIOUS
  <2>1. Stands(q)
    BY <1>1 DEF CadencesInv
  <2>2. CASE q # p
    <3>1. \A r \in DOMAIN tasks : tasks[r].person = q => r # t
      BY <1>3, <2>2
    <3>2. \A r \in DOMAIN tasks' : tasks'[r].person = q => r \in DOMAIN tasks
      BY <1>4, <1>6, <2>2
    <3>3. \A v \in Sellers : LeadsOn(v, q) =>
               /\ seller[v].next.step \in Steps' /\ step'[seller[v].next.step].order = step[seller[v].next.step].order
               /\ \A s \in Steps' : step'[s].order < seller[v].order => step'[s].order <= enrolled[q].order
      BY <1>1, <1>8, <2>1 DEF Stands, NextFollows, OrderOf
    <3>4. Kept(enrolled'[q]) <=> Kept(enrolled[q])
      BY <1>5
    <3>5. enrolled'[q].order = enrolled[q].order
      BY <1>5, <2>2
    <3>. QED BY <1>1, <1>4, <1>11, <2>1, <3>1, <3>2, <3>3, <3>4, <3>5, StandsStill
  <2>3. CASE q = p
    <3>1. \A v \in Sellers : ~WorksOn(v, q)'
      BY <1>1, <1>6, <1>11, <2>1, <2>3 DEF Stands, OneSeller, WorksOn
    <3>2. OneSeller(q)' /\ TaskWaits(q)' /\ NextFollows(q)'
      BY <3>1 DEF OneSeller, TaskWaits, NextFollows, LeadsOn
    <3>3. WorksOn(u, q)
      BY <1>1, <1>6, <2>3 DEF WorksOn
    <3>4. t \in Pending(q)
      BY <1>1, <1>3, <2>1, <2>3, <3>3 DEF Stands, TaskWaits, Pending, TasksOf
    <3>5. OneTask(q)'
      <4>1. \A r \in Pending(q)' : r \in DOMAIN tasks \/ r \in more
        BY <1>4 DEF Pending, TasksOf
      <4>2. \A r \in Pending(q)' : r \in DOMAIN tasks => r \in Pending(q)
        BY <1>4 DEF Pending, TasksOf
      <4>3. more # {} => t \notin Pending(q)'
        BY <1>4 DEF Pending
      <4>. QED BY <1>4, <2>1, <3>4, <4>1, <4>2, <4>3 DEF Stands, OneTask
    <3>6. OnPath(q)'
      <4>1. OnPath(q) /\ Kept(enrolled[q])
        BY <1>6, <2>1, <2>3 DEF Stands
      <4>2. \A r \in TasksOf(q)' : r \in TasksOf(q) \/ r \in more
        BY <1>4 DEF TasksOf
      <4>3. \A r \in TasksOf(q) : r \in TasksOf(q)' /\ OrderOf(tasks[r].step)' = OrderOf(tasks[r].step)
        BY <1>1, <1>4 DEF TasksOf, OrderOf
      <4>4. CASE more = {}
        BY <1>4, <2>3, <4>1, <4>2, <4>3, <4>4 DEF OnPath
      <4>5. CASE more # {}
        <5>1. PICK r \in more : \A i \in more : i = r
          BY <1>4, <4>5
        <5>2. seller[u].next # NoStep /\ seller[u].next.step \in Steps /\ enrolled'[q].order = seller[u].order
          BY <1>4, <2>3, <5>1
        <5>3. OrderOf(seller[u].next.step) = seller[u].order /\ seller[u].order > enrolled[q].order
          BY <1>1, <2>1, <3>3, <5>2 DEF Stands, NextFollows, LeadsOn
        <5>4. r \in TasksOf(q)' /\ OrderOf(tasks[r].step)' = seller[u].order
          BY <1>1, <1>4, <1>6, <2>3, <5>1, <5>2, <5>3 DEF TasksOf, OrderOf
        <5>5. seller[u].order \in Nat /\ enrolled[q].order \in Nat /\ \A i \in TasksOf(q) : OrderOf(tasks[i].step) \in Nat
          <6>1. \A i \in TasksOf(q) : tasks[i].step \in Steps
            BY TaskIs DEF CadencesInv, RowsThere, TaskThere, TasksOf, Steps
          <6>. QED BY <1>1, <4>1, <6>1, SellerIs, EnrollmentIs, OrderIs DEF CadencesInv
        <5>6. \A i \in TasksOf(q) : OrderOf(tasks[i].step) <= seller[u].order
          BY <4>1, <5>3, <5>5 DEF OnPath
        <5>7. \A i \in TasksOf(q)' : OrderOf(tasks[i].step)' <= seller[u].order
          BY <4>2, <4>3, <5>1, <5>4, <5>5, <5>6
        <5>. QED BY <5>2, <5>4, <5>7 DEF OnPath
      <4>. QED BY <4>4, <4>5
    <3>. QED BY <3>2, <3>5, <3>6 DEF Stands
  <2>. QED BY <2>2, <2>3
<1>. QED BY <1>8, <1>9, <1>10, <1>12 DEF CadencesInv

(* A cadence that is not there yet.                                           *)
LEMMA CadencesStart == CadencesInit => CadencesInv
<1>. SUFFICES ASSUME CadencesInit PROVE CadencesInv
  OBVIOUS
<1>1. /\ sequence = Missing /\ step = [s \in StepIds |-> Missing] /\ enrolled = [p \in Leads |-> Missing] /\ tasks = <<>>
      /\ seller = [u \in Sellers |-> Resting] /\ today \in 0..6 /\ disturbed = {}
  BY DEF CadencesInit
<1>2. Steps = {} /\ DOMAIN tasks = {} /\ tasks \in Seq(ExecutionRow)
  BY <1>1 DEF Steps, Kept, Missing
<1>3. CadencesTyped
  <2>1. IsFiniteSet(Steps)
    BY <1>2, FS_EmptySet
  <2>. QED BY <1>1, <1>2, <2>1 DEF CadencesTyped, SellerWork
<1>4. RowsThere
  BY <1>1, <1>2 DEF RowsThere, Kept, Missing
<1>5. \A u \in Sellers : seller[u].op = "rest"
  BY <1>1 DEF Resting
<1>6. \A u \in Sellers : WorkThere(u)
  BY <1>5 DEF WorkThere
<1>7. \A p \in Leads \ disturbed : Stands(p)
  BY <1>1, <1>2, <1>5 DEF Stands, OneTask, OneSeller, TaskWaits, OnPath, NextFollows, Pending, TasksOf, WorksOn, LeadsOn, Kept, Missing
<1>. QED BY <1>3, <1>4, <1>6, <1>7 DEF CadencesInv

(* The steps of the specification, one by one: what makes a task, and what    *)
(* leaves their number alone.                                                 *)
LEMMA CadencesStep ==
    ASSUME CadencesInv, [CadencesNext]_cadenceVars
    PROVE  CadencesInv'
<1>1. CASE UNCHANGED cadenceVars
  BY <1>1, NothingKeeps
<1>2. CASE ManageSequence
  <2>1. CASE \E status \in SequenceStatuses, skip \in BOOLEAN : CreateSequence(status, skip) \/ UpdateSequence(status, skip)
    BY <2>1, SaveSequenceKeeps
  <2>2. CASE RemoveSequence
    BY <2>2, RemoveSequenceKeeps
  <2>3. ASSUME NEW s \in StepIds, NEW wait \in Waits,
               \/ AddStepLast(s, wait)
               \/ \E order \in 1..LastOrder : AddStepAt(s, order, wait)
               \/ \E order \in 1..LastOrder + 1 : UpdateStep(s, order, wait)
        PROVE  CadencesInv'
    <3>1. CASE AddStepLast(s, wait)
      BY <3>1, AddStepLastKeeps
    <3>2. ASSUME NEW order \in 1..LastOrder, AddStepAt(s, order, wait) PROVE CadencesInv'
      BY <3>2, AddStepAtKeeps
    <3>3. ASSUME NEW order \in 1..(LastOrder + 1), UpdateStep(s, order, wait) PROVE CadencesInv'
      BY <3>3, UpdateStepKeeps
    <3>. QED BY <2>3, <3>1, <3>2, <3>3
  <2>4. ASSUME NEW s \in StepIds, RemoveStep(s) PROVE CadencesInv'
    BY <2>4, RemoveStepKeeps
  <2>. QED BY <1>2, <2>1, <2>2, <2>3, <2>4 DEF ManageSequence
<1>3. CASE ManagePeople
  <2>1. ASSUME NEW P \in SUBSET Leads, EnrollPeople(P) PROVE CadencesInv'
    BY <2>1, EnrollPeopleKeeps
  <2>2. ASSUME NEW p \in Leads, NEW status \in EnrollmentStatuses, UpdateEnrollment(p, status) PROVE CadencesInv'
    BY <2>2, UpdateEnrollmentKeeps
  <2>. QED BY <1>3, <2>1, <2>2 DEF ManagePeople
<1>4. CASE WorkQueue
  <2>1. ASSUME NEW u \in Sellers, NEW t \in DOMAIN tasks, BeginCompletion(u, t) PROVE CadencesInv'
    BY <2>1, BeginCompletionKeeps
  <2>2. ASSUME NEW u \in Sellers, Claim(u) PROVE CadencesInv'
    BY <2>2, ClaimKeeps
  <2>3. ASSUME NEW u \in Sellers, NEW outcome \in Outcomes, Advance(u, outcome) PROVE CadencesInv'
    BY <2>3, AdvanceKeeps
  <2>. QED BY <1>4, <2>1, <2>2, <2>3 DEF WorkQueue
<1>5. CASE Tick
  BY <1>5, TickKeeps
<1>. QED BY <1>1, <1>2, <1>3, <1>4, <1>5 DEF CadencesNext

(* Who comes in has had no task, and begins with the first step.              *)
LEMMA FirstComesFirst ==
    ASSUME CadencesInv, NEW P \in SUBSET Leads, EnrollPeople(P), NEW t \in DOMAIN tasks' \ DOMAIN tasks
    PROVE  TasksOf(tasks'[t].person) = {} /\ \A s \in Steps : step[tasks'[t].step].order <= OrderOf(s)
<1>1. \A p \in P : enrolled[p] = Missing
  BY DEF EnrollPeople
<1>2. PICK row, more : Enrolled(P, row, more)
  BY EnrollWrites
<1>3. tasks'[t].person \in P /\ \A s \in Steps : step[tasks'[t].step].order <= OrderOf(s)
  BY <1>2 DEF Enrolled, OrderOf
<1>4. \A r \in DOMAIN tasks : tasks[r].person \notin P
  BY <1>1 DEF CadencesInv, RowsThere, TaskThere
<1>. QED BY <1>3, <1>4 DEF TasksOf

(* Who goes on goes to the step after the last one reached.                   *)
LEMMA NextComesNext ==
    ASSUME CadencesInv, NEW u \in Sellers, NEW outcome \in Outcomes, Advance(u, outcome),
           NEW t \in DOMAIN tasks' \ DOMAIN tasks, NEW p, p = tasks'[t].person, p \notin disturbed'
    PROVE  /\ \A i \in TasksOf(p) : step[tasks[i].step].order < step[tasks'[t].step].order
           /\ \A s \in Steps : OrderOf(s) < step[tasks'[t].step].order =>
                 \E i \in TasksOf(p) : OrderOf(s) <= step[tasks[i].step].order
<1>1. PICK r \in DOMAIN tasks, q \in Leads : \E more : r = seller[u].task /\ q = tasks[r].person /\ Advanced(u, r, q, more)
  BY AdvanceWrites
<1>2. PICK more : r = seller[u].task /\ q = tasks[r].person /\ Advanced(u, r, q, more)
  BY <1>1
<1>3. tasks'[t] = seller[u].next /\ seller[u].next # NoStep
  BY <1>2 DEF Advanced
<1>4. seller[u].op = "advance" /\ disturbed' = disturbed
  BY DEF Advance
<1>5. p = q /\ PersonOf(u) = q /\ Kept(enrolled[p])
  BY <1>2, <1>3, <1>4 DEF CadencesInv, WorkThere, PersonOf
<1>6. Stands(p) /\ LeadsOn(u, p)
  BY <1>3, <1>4, <1>5 DEF CadencesInv, LeadsOn, WorksOn
<1>7. PICK at : at = step[tasks'[t].step].order
  OBVIOUS
<1>8. /\ seller[u].next.step \in Steps /\ at = OrderOf(seller[u].next.step) /\ at > enrolled[p].order
      /\ \A s \in Steps : OrderOf(s) < at => OrderOf(s) <= enrolled[p].order
  BY <1>3, <1>6, <1>7 DEF Stands, NextFollows, OrderOf
<1>9. /\ \A i \in TasksOf(p) : OrderOf(tasks[i].step) <= enrolled[p].order
      /\ enrolled[p].order = 0 \/ \E i \in TasksOf(p) : OrderOf(tasks[i].step) = enrolled[p].order
  BY <1>5, <1>6 DEF Stands, OnPath
<1>10. /\ at \in Nat /\ enrolled[p].order \in Nat /\ \A s \in Steps : OrderOf(s) \in Nat /\ OrderOf(s) > 0
       /\ \A i \in TasksOf(p) : OrderOf(tasks[i].step) \in Nat
  <2>1. \A i \in TasksOf(p) : tasks[i].step \in Steps
    BY TaskIs DEF CadencesInv, RowsThere, TaskThere, TasksOf, Steps
  <2>. QED BY <1>5, <1>8, <2>1, EnrollmentIs, OrderIs DEF CadencesInv
<1>11. \A i \in TasksOf(p) : step[tasks[i].step].order < at
  BY <1>8, <1>9, <1>10 DEF OrderOf
<1>12. ASSUME NEW s \in Steps, OrderOf(s) < at
       PROVE  \E i \in TasksOf(p) : OrderOf(s) <= step[tasks[i].step].order
  <2>1. OrderOf(s) <= enrolled[p].order /\ enrolled[p].order # 0
    BY <1>8, <1>10, <1>12
  <2>2. PICK i \in TasksOf(p) : OrderOf(tasks[i].step) = enrolled[p].order
    BY <1>9, <2>1
  <2>. QED BY <2>1, <2>2 DEF OrderOf
<1>. QED BY <1>7, <1>11, <1>12

\* What StepsInOrder says of a task made.
InOrder(t) ==
    LET p == tasks'[t].person
        at == step[tasks'[t].step].order
        before == {step[tasks[i].step].order : i \in TasksOf(p)}
    IN  p \in disturbed' \/ (/\ \A n \in before : n < at
                             /\ \A s \in Steps : OrderOf(s) < at => \E n \in before : OrderOf(s) <= n)

(* Whatever makes a task keeps to the order.                                  *)
LEMMA OrderKept ==
    ASSUME CadencesInv, [CadencesNext]_cadenceVars, NEW t \in DOMAIN tasks' \ DOMAIN tasks
    PROVE  InOrder(t)
<1>1. ASSUME tasks' = tasks PROVE FALSE
  BY <1>1
<1>2. ASSUME NEW lost, Delete(lost) PROVE FALSE
  BY <1>2, DeleteIs DEF CadencesInv
<1>3. CASE UNCHANGED cadenceVars
  BY <1>1, <1>3 DEF cadenceVars
<1>4. CASE ManageSequence
  <2>1. CASE \E status \in SequenceStatuses, skip \in BOOLEAN : CreateSequence(status, skip) \/ UpdateSequence(status, skip)
    BY <1>1, <2>1 DEF CreateSequence, UpdateSequence
  <2>2. CASE RemoveSequence
    BY <1>2, <2>2 DEF RemoveSequence
  <2>3. ASSUME NEW s \in StepIds, NEW wait \in Waits,
               \/ AddStepLast(s, wait)
               \/ \E order \in 1..LastOrder : AddStepAt(s, order, wait)
               \/ \E order \in 1..LastOrder + 1 : UpdateStep(s, order, wait)
        PROVE  FALSE
    BY <1>1, <2>3 DEF AddStepLast, AddStepAt, UpdateStep
  <2>4. ASSUME NEW s \in StepIds, RemoveStep(s) PROVE FALSE
    BY <1>2, <2>4 DEF RemoveStep
  <2>. QED BY <1>4, <2>1, <2>2, <2>3, <2>4 DEF ManageSequence
<1>5. CASE ManagePeople
  <2>1. ASSUME NEW P \in SUBSET Leads, EnrollPeople(P) PROVE InOrder(t)
    <3>1. PICK at : at = step[tasks'[t].step].order
      OBVIOUS
    <3>2. TasksOf(tasks'[t].person) = {} /\ \A s \in Steps : at <= OrderOf(s)
      BY <2>1, <3>1, FirstComesFirst
    <3>3. tasks'[t].step \in Steps
      <4>1. PICK row, more : Enrolled(P, row, more)
        BY <2>1, EnrollWrites
      <4>. QED BY <4>1 DEF Enrolled
    <3>4. at \in Nat /\ \A s \in Steps : OrderOf(s) \in Nat
      BY <3>1, <3>3, OrderIs DEF CadencesInv, OrderOf
    <3>5. \A s \in Steps : ~(OrderOf(s) < at)
      BY <3>2, <3>4
    <3>. QED BY <3>1, <3>2, <3>5 DEF InOrder
  <2>2. ASSUME NEW p \in Leads, NEW status \in EnrollmentStatuses, UpdateEnrollment(p, status) PROVE FALSE
    BY <1>1, <2>2 DEF UpdateEnrollment
  <2>. QED BY <1>5, <2>1, <2>2 DEF ManagePeople
<1>6. CASE WorkQueue
  <2>1. ASSUME NEW u \in Sellers, NEW r \in DOMAIN tasks, BeginCompletion(u, r) PROVE FALSE
    BY <1>1, <2>1 DEF BeginCompletion
  <2>2. ASSUME NEW u \in Sellers, Claim(u) PROVE FALSE
    BY <1>1, <2>2 DEF Claim
  <2>3. ASSUME NEW u \in Sellers, NEW outcome \in Outcomes, Advance(u, outcome) PROVE InOrder(t)
    <3>1. PICK p : p = tasks'[t].person
      OBVIOUS
    <3>2. CASE p \in disturbed'
      BY <3>1, <3>2 DEF InOrder
    <3>3. CASE p \notin disturbed'
      BY <2>3, <3>1, <3>3, NextComesNext DEF InOrder
    <3>. QED BY <3>2, <3>3
  <2>. QED BY <1>6, <2>1, <2>2, <2>3 DEF WorkQueue
<1>7. CASE Tick
  BY <1>1, <1>7 DEF Tick
<1>. QED BY <1>3, <1>4, <1>5, <1>6, <1>7 DEF CadencesNext

(* What the invariant says of the properties.                                 *)
LEMMA CadencesInvSays == CadencesInv => TasksInTime
<1>. SUFFICES ASSUME CadencesInv PROVE TasksInTime
  OBVIOUS
<1>1. CadencesTypeOK
  BY TaskIs DEF CadencesTypeOK, CadencesInv, CadencesTyped, RowsThere, TaskThere
<1>2. OneTaskAtATime
  <2>. SUFFICES ASSUME NEW p \in Leads \ disturbed PROVE Cardinality(Pending(p)) <= 1
    BY DEF OneTaskAtATime
  <2>1. \A t, r \in Pending(p) : t = r
    BY DEF CadencesInv, Stands, OneTask
  <2>2. CASE Pending(p) = {}
    BY <2>2, FS_EmptySet
  <2>3. CASE Pending(p) # {}
    <3>1. PICK t : Pending(p) = {t}
      BY <2>1, <2>3
    <3>2. Cardinality({t}) = 1
      BY FS_Singleton
    <3>. QED BY <3>1, <3>2
  <2>. QED BY <2>2, <2>3
<1>3. TasksOnWorkdays
  BY DEF TasksOnWorkdays, CadencesInv, RowsThere, TaskThere, OnTime
<1>. QED BY <1>1, <1>2, <1>3 DEF TasksInTime

(* What is kept of the cadence from the first state on.                       *)
THEOREM CadencesKept == CadencesSpec => []CadencesInv
  BY CadencesStart, CadencesStep, PTL DEF CadencesSpec

(* Nobody has two tasks at once, unless two requests concluded tasks of the   *)
(* person together or the order of the steps moved under them, and every task *)
(* falls on the day its step asks for, a working day where weekends are       *)
(* skipped (sequences.service.ts, completeExecution and                       *)
(* computeScheduledDate): for any people, steps, waiting times, days and      *)
(* requests under way at once.                                                *)
THEOREM TasksStayInTime == CadencesSpec => []TasksInTime
  BY CadencesKept, CadencesInvSays, PTL

(* A task made for a person is of a step after every one they have had, with  *)
(* no step left out between, whatever is added, removed, paused or concluded  *)
(* meanwhile (sequences.service.ts, completeExecution and enrollPeople), for  *)
(* any people, steps and requests, with the same exception.                   *)
THEOREM StepsStayInOrder == CadencesSpec => StepsInOrder
<1>. DEFINE A == \A t \in DOMAIN tasks' \ DOMAIN tasks : InOrder(t)
<1>1. CadencesInv /\ [CadencesNext]_cadenceVars => [A]_cadenceVars
  BY OrderKept
<1>2. [][A]_cadenceVars => StepsInOrder
  BY DEF StepsInOrder, InOrder
<1>. HIDE DEF A
<1>. QED BY <1>1, <1>2, CadencesKept, PTL DEF CadencesSpec

--------------------------------------------------------------------------------
\* Part 6. Signals.

ScoutWork ==
    {AtRest} \cup [op: {"manual"}]
    \cup [op: {"check"}, total: Nat, day: 0..LastNow, left: SUBSET Watched, created: Nat]
    \cup [op: {"profile"}, of: Profiles, row: IcpRow, seen: SUBSET Profiles, isNew: BOOLEAN]
    \cup [op: {"rate"}, by: Profiles] \cup [op: {"add"}, items: SUBSET Listable]
SignalsTyped ==
    /\ trigger \in TriggerRow \cup {Unmade, Dropped}
    /\ events \subseteq TriggerEventRow /\ IsFiniteSet(events) /\ now \in 0..LastNow
    /\ icps \in [Profiles -> IcpRow \cup {Unmade, Dropped}]
    /\ list \in ListRow \cup {Unmade, Dropped} /\ scout \in [Scouts -> ScoutWork]

\* Events are numbered; those by hand that are noted and not counted yet, and those a check is
\* about to count, fit under their number as well.
EventsNumbered == \A e \in events : e.n <= Cardinality(events)
ByHand == {u \in Scouts : scout[u].op = "manual"}
Uncounted ==
    /\ IsFiniteSet(ByHand)
    /\ trigger = Unmade => \A u \in Scouts : scout[u].op \notin {"manual", "check"}
    /\ Is(trigger) =>
          /\ trigger.total + Cardinality(ByHand) <= Cardinality(events)
          /\ \A u \in Scouts : scout[u].op = "check" =>
                scout[u].total + scout[u].created + Cardinality(ByHand) <= Cardinality(events)
ScoreMade ==
    score # NoScore => \E i \in Profiles, facts \in [Criteria -> Facts] :
        score = [points |-> ComputeScore(i, facts), by |-> i, facts |-> facts]
SignalsInv == SignalsTyped /\ EventsNumbered /\ Uncounted /\ ScoreMade

(* What a request is about to do, kind by kind.                               *)
LEMMA ScoutIs ==
    ASSUME SignalsTyped, NEW u \in Scouts
    PROVE  /\ scout[u] \in ScoutWork
           /\ scout[u].op = "check" => scout[u] \in [op: {"check"}, total: Nat, day: 0..LastNow, left: SUBSET Watched, created: Nat]
           /\ scout[u].op = "profile" => scout[u] \in [op: {"profile"}, of: Profiles, row: IcpRow, seen: SUBSET Profiles, isNew: BOOLEAN]
           /\ scout[u].op = "rate" => scout[u].by \in Profiles
           /\ scout[u].op = "add" => scout[u].items \subseteq Listable
<1>1. scout[u] \in ScoutWork
  BY DEF SignalsTyped
<1>. QED BY <1>1 DEF ScoutWork, AtRest

(* What the row of the trigger holds while there is one.                      *)
LEMMA TriggerIs ==
    ASSUME SignalsTyped
    PROVE  /\ Is(trigger) <=> trigger \in TriggerRow
           /\ Is(trigger) => trigger.total \in Nat /\ trigger.active \in BOOLEAN /\ trigger # Unmade
  BY DEF SignalsTyped, TriggerRow, Unmade, Dropped, Is

(* An event that is noted is one more, and the last.                          *)
LEMMA NotedIsLast ==
    ASSUME SignalsTyped, EventsNumbered, NEW company \in Watched \cup {NoCompany}, NEW day \in 0..LastNow, Note(company, day)
    PROVE  /\ events' \subseteq TriggerEventRow /\ IsFiniteSet(events')
           /\ Cardinality(events) \in Nat /\ Cardinality(events') = Cardinality(events) + 1 /\ EventsNumbered'
<1>. DEFINE e == Event(company, day)
<1>1. events' = events \cup {e} /\ NextEvent <= MaxEvents
  BY DEF Note
<1>2. Cardinality(events) \in Nat /\ IsFiniteSet(events)
  BY FS_CardinalityType DEF SignalsTyped
<1>3. e.n = Cardinality(events) + 1 /\ e \in TriggerEventRow
  <2>1. Cardinality(events) + 1 \in 1..MaxEvents
    BY <1>1, <1>2, SignalsAssumption DEF NextEvent
  <2>. QED BY <2>1 DEF Event, NextEvent, TriggerEventRow
<1>. HIDE DEF e
<1>4. e \notin events
  BY <1>2, <1>3 DEF EventsNumbered, SignalsTyped, TriggerEventRow
<1>5. Cardinality(events') = Cardinality(events) + 1 /\ IsFiniteSet(events')
  BY <1>1, <1>2, <1>4, FS_AddElement
<1>6. \A x \in events : x.n \in Nat /\ x.n <= Cardinality(events)
  BY DEF EventsNumbered, SignalsTyped, TriggerEventRow
<1>7. EventsNumbered'
  <2>. SUFFICES ASSUME NEW x \in events' PROVE x.n <= Cardinality(events')
    BY DEF EventsNumbered
  <2>. QED BY <1>1, <1>2, <1>3, <1>5, <1>6
<1>. QED BY <1>1, <1>2, <1>3, <1>5, <1>7 DEF SignalsTyped

(* Who begins or ends an event by hand.                                       *)
LEMMA HandsIs ==
    ASSUME SignalsTyped, IsFiniteSet(ByHand), NEW u \in Scouts, NEW work \in ScoutWork, Set(u, work)
    PROVE  /\ scout' \in [Scouts -> ScoutWork] /\ scout'[u] = work /\ \A v \in Scouts \ {u} : scout'[v] = scout[v]
           /\ IsFiniteSet(ByHand') /\ Cardinality(ByHand) \in Nat
           /\ Cardinality(ByHand') = Cardinality(ByHand) + (IF work.op = "manual" THEN 1 ELSE 0)
                                                         - (IF scout[u].op = "manual" THEN 1 ELSE 0)
<1>1. scout' \in [Scouts -> ScoutWork] /\ scout'[u] = work /\ \A v \in Scouts \ {u} : scout'[v] = scout[v]
  BY DEF Set, SignalsTyped
<1>2. ByHand' = IF work.op = "manual" THEN ByHand \cup {u} ELSE ByHand \ {u}
  BY <1>1 DEF ByHand
<1>3. Cardinality(ByHand) \in Nat /\ (u \in ByHand <=> scout[u].op = "manual")
  BY FS_CardinalityType DEF ByHand
<1>4. CASE work.op = "manual"
  <2>1. ByHand' = ByHand \cup {u}
    BY <1>2, <1>4
  <2>2. CASE u \in ByHand
    <3>1. ByHand' = ByHand
      BY <2>1, <2>2
    <3>. QED BY <1>1, <1>3, <1>4, <2>2, <3>1
  <2>3. CASE u \notin ByHand
    <3>1. IsFiniteSet(ByHand') /\ Cardinality(ByHand') = Cardinality(ByHand) + 1
      BY <2>1, <2>3, FS_AddElement
    <3>. QED BY <1>1, <1>3, <1>4, <2>3, <3>1
  <2>. QED BY <2>2, <2>3
<1>5. CASE work.op # "manual" /\ scout[u].op # "manual"
  <2>1. ByHand' = ByHand
    BY <1>2, <1>3, <1>5
  <2>. QED BY <1>1, <1>3, <1>5, <2>1
<1>6. CASE work.op # "manual" /\ scout[u].op = "manual"
  <2>1. ByHand' = ByHand \ {u} /\ u \in ByHand
    BY <1>2, <1>3, <1>6
  <2>2. IsFiniteSet(ByHand') /\ Cardinality(ByHand') = Cardinality(ByHand) - 1
    BY <2>1, FS_RemoveElement
  <2>. QED BY <1>1, <1>3, <1>6, <2>2
<1>. QED BY <1>1, <1>4, <1>5, <1>6

--------------------------------------------------------------------------------
\* A step keeps each part.

(* What a request does that counts no more than was noted.                    *)
LEMMA StaysCounted ==
    ASSUME SignalsInv, NEW u \in Scouts, NEW work \in ScoutWork, Set(u, work),
           Is(trigger') => Is(trigger), trigger' = Unmade => trigger = Unmade /\ work.op \notin {"manual", "check"},
           Cardinality(events') \in Nat, Cardinality(events) <= Cardinality(events'),
           Cardinality(ByHand') + Cardinality(events) <= Cardinality(ByHand) + Cardinality(events'),
           Is(trigger') => trigger'.total + Cardinality(ByHand') <= Cardinality(events'),
           Is(trigger') /\ work.op = "check" => work.total + work.created + Cardinality(ByHand') <= Cardinality(events')
    PROVE  Uncounted'
<1>1. /\ scout'[u] = work /\ \A v \in Scouts \ {u} : scout'[v] = scout[v]
      /\ IsFiniteSet(ByHand') /\ Cardinality(ByHand) \in Nat /\ Cardinality(ByHand') \in Nat
  BY HandsIs, FS_CardinalityType DEF SignalsInv, Uncounted
<1>2. Cardinality(events) \in Nat
  BY FS_CardinalityType DEF SignalsInv, SignalsTyped
<1>3. ASSUME NEW v \in Scouts, scout'[v].op = "check", Is(trigger')
      PROVE  scout'[v].total + scout'[v].created + Cardinality(ByHand') <= Cardinality(events')
  <2>1. CASE v = u
    BY <1>1, <1>3, <2>1
  <2>2. CASE v # u
    <3>1. scout'[v] = scout[v]
      BY <1>1, <2>2
    <3>2. scout[v].op = "check"
      BY <1>3, <3>1
    <3>3. scout[v].total + scout[v].created + Cardinality(ByHand) <= Cardinality(events)
      BY <1>3, <3>2 DEF SignalsInv, Uncounted
    <3>4. scout[v].total \in Nat /\ scout[v].created \in Nat
      BY <3>2, ScoutIs DEF SignalsInv
    <3>. QED BY <1>1, <1>2, <3>1, <3>3, <3>4
  <2>. QED BY <2>1, <2>2
<1>4. trigger' = Unmade => \A v \in Scouts : scout'[v].op \notin {"manual", "check"}
  <2>. SUFFICES ASSUME trigger' = Unmade, NEW v \in Scouts PROVE scout'[v].op \notin {"manual", "check"}
    OBVIOUS
  <2>1. CASE v = u
    BY <1>1, <2>1
  <2>2. CASE v # u
    BY <1>1, <2>2 DEF SignalsInv, Uncounted
  <2>. QED BY <2>1, <2>2
<1>. QED BY <1>1, <1>3, <1>4 DEF Uncounted

(* What a request does that notes and counts nothing.                         *)
LEMMA NothingCounted ==
    ASSUME SignalsInv, NEW u \in Scouts, NEW work \in ScoutWork, Set(u, work),
           UNCHANGED <<trigger, events, now>>, work.op \notin {"manual", "check"}
    PROVE  Uncounted' /\ EventsNumbered' /\ scout' \in [Scouts -> ScoutWork]
<1>1. trigger' = trigger /\ events' = events
  OBVIOUS
<1>2. /\ scout' \in [Scouts -> ScoutWork] /\ Cardinality(ByHand) \in Nat /\ Cardinality(ByHand') \in Nat
      /\ Cardinality(ByHand') <= Cardinality(ByHand)
  BY HandsIs, FS_CardinalityType DEF SignalsInv, Uncounted
<1>3. Cardinality(events) \in Nat
  BY FS_CardinalityType DEF SignalsInv, SignalsTyped
<1>4. Is(trigger) => trigger.total + Cardinality(ByHand') <= Cardinality(events)
  <2>. SUFFICES ASSUME Is(trigger) PROVE trigger.total + Cardinality(ByHand') <= Cardinality(events)
    OBVIOUS
  <2>1. trigger.total + Cardinality(ByHand) <= Cardinality(events) /\ trigger.total \in Nat
    BY TriggerIs DEF SignalsInv, Uncounted
  <2>. QED BY <1>2, <1>3, <2>1
<1>5. Uncounted'
  <2>1. Cardinality(ByHand') + Cardinality(events) <= Cardinality(ByHand) + Cardinality(events)
    BY <1>2, <1>3
  <2>2. Cardinality(events') \in Nat /\ Cardinality(events) <= Cardinality(events')
    BY <1>1, <1>3
  <2>. QED BY <1>1, <1>4, <2>1, <2>2, StaysCounted
<1>6. EventsNumbered'
  BY <1>1 DEF SignalsInv, EventsNumbered
<1>. QED BY <1>2, <1>5, <1>6

(* A step of the trigger alone, of a day or of nothing.                       *)
LEMMA TriggerKeeps ==
    ASSUME SignalsInv,
           \/ \E active \in BOOLEAN : CreateTrigger(active) \/ UpdateTrigger(active)
           \/ RemoveTrigger \/ NewDay \/ UNCHANGED signalVars
    PROVE  SignalsInv'
<1>1. icps' = icps /\ score' = score /\ list' = list /\ scout' = scout
  BY DEF CreateTrigger, UpdateTrigger, RemoveTrigger, NewDay, signalVars
<1>2. ScoreMade' /\ ByHand' = ByHand
  BY <1>1 DEF SignalsInv, ScoreMade, ByHand
<1>3. /\ Cardinality(events) \in Nat /\ IsFiniteSet(ByHand) /\ Cardinality(ByHand) \in Nat
      /\ trigger = Unmade => \A u \in Scouts : scout[u].op \notin {"manual", "check"}
  BY FS_CardinalityType DEF SignalsInv, SignalsTyped, Uncounted
<1>4. now' \in 0..LastNow
  BY SignalsAssumption DEF CreateTrigger, UpdateTrigger, RemoveTrigger, NewDay, signalVars, SignalsInv, SignalsTyped
<1>5. CASE RemoveTrigger
  <2>1. trigger' = Dropped /\ events' = {}
    BY <1>5 DEF RemoveTrigger
  <2>2. SignalsTyped'
    BY <1>1, <1>4, <2>1, FS_EmptySet DEF SignalsInv, SignalsTyped
  <2>3. EventsNumbered' /\ Uncounted'
    BY <1>1, <1>2, <1>3, <2>1 DEF EventsNumbered, Uncounted, Unmade, Dropped, Is
  <2>. QED BY <1>2, <2>2, <2>3 DEF SignalsInv
<1>6. ASSUME NEW active \in BOOLEAN, CreateTrigger(active) PROVE SignalsInv'
  <2>1. trigger = Unmade /\ trigger' = [state |-> "kept", active |-> active, total |-> 0] /\ events' = events
    BY <1>6 DEF CreateTrigger
  <2>2. trigger' \in TriggerRow /\ trigger'.total = 0 /\ trigger' # Unmade
    BY <2>1 DEF TriggerRow, Unmade
  <2>3. SignalsTyped' /\ EventsNumbered'
    BY <1>1, <1>4, <2>1, <2>2 DEF SignalsInv, SignalsTyped, EventsNumbered
  <2>4. ByHand = {}
    BY <1>3, <2>1 DEF ByHand
  <2>5. Cardinality(ByHand) = 0
    BY <2>4, FS_EmptySet
  <2>6. \A u \in Scouts : scout[u].op \notin {"manual", "check"}
    BY <1>3, <2>1
  <2>7. Uncounted'
    BY <1>1, <1>2, <1>3, <2>1, <2>2, <2>5, <2>6 DEF Uncounted
  <2>. QED BY <1>2, <2>3, <2>7 DEF SignalsInv
<1>7. ASSUME events' = events, trigger' \in TriggerRow \cup {Unmade, Dropped}, Is(trigger') => Is(trigger) /\ trigger'.total = trigger.total,
             trigger' = Unmade => trigger = Unmade
      PROVE  SignalsInv'
  <2>1. SignalsTyped' /\ EventsNumbered'
    BY <1>1, <1>4, <1>7 DEF SignalsInv, SignalsTyped, EventsNumbered
  <2>2. Uncounted'
    BY <1>1, <1>2, <1>7 DEF SignalsInv, Uncounted
  <2>. QED BY <1>2, <2>1, <2>2 DEF SignalsInv
<1>8. ASSUME NEW active \in BOOLEAN, UpdateTrigger(active) PROVE SignalsInv'
  <2>1. Is(trigger) /\ trigger' = [trigger EXCEPT !.active = active] /\ events' = events /\ trigger \in TriggerRow
    BY <1>8, TriggerIs DEF UpdateTrigger, SignalsInv
  <2>2. trigger' \in TriggerRow /\ trigger'.total = trigger.total
    BY <2>1 DEF TriggerRow
  <2>3. trigger' # Unmade
    BY <2>2 DEF TriggerRow, Unmade
  <2>. QED BY <1>7, <2>1, <2>2, <2>3
<1>9. CASE NewDay \/ UNCHANGED signalVars
  <2>1. trigger' = trigger /\ events' = events
    BY <1>9 DEF NewDay, signalVars
  <2>. QED BY <1>7, <2>1 DEF SignalsInv, SignalsTyped
<1>. QED BY <1>5, <1>6, <1>8, <1>9

(* An event by hand is noted, and then counted.                               *)
LEMMA CreateManualEventKeeps == ASSUME SignalsInv, NEW u \in Scouts, CreateManualEvent(u) PROVE SignalsInv'
<1>. DEFINE work == [op |-> "manual"]
<1>1. /\ scout[u] = AtRest /\ Is(trigger) /\ Note(NoCompany, now) /\ Set(u, work)
      /\ trigger' = trigger /\ icps' = icps /\ score' = score /\ list' = list /\ now' = now
  BY DEF CreateManualEvent
<1>2. work \in ScoutWork /\ work.op = "manual" /\ scout[u].op # "manual"
  BY <1>1 DEF ScoutWork, AtRest
<1>. HIDE DEF work
<1>3. /\ events' \subseteq TriggerEventRow /\ IsFiniteSet(events')
      /\ Cardinality(events) \in Nat /\ Cardinality(events') = Cardinality(events) + 1 /\ EventsNumbered'
  BY <1>1, NotedIsLast DEF SignalsInv, SignalsTyped
<1>4. /\ scout' \in [Scouts -> ScoutWork] /\ Cardinality(ByHand) \in Nat
      /\ Cardinality(ByHand') = Cardinality(ByHand) + 1
  BY <1>1, <1>2, HandsIs DEF SignalsInv, Uncounted
<1>5. trigger.total \in Nat /\ trigger.total + Cardinality(ByHand) <= Cardinality(events)
  BY <1>1, TriggerIs DEF SignalsInv, Uncounted
<1>6. Uncounted'
  <2>1. trigger' # Unmade /\ (Is(trigger') => Is(trigger))
    BY <1>1, TriggerIs DEF SignalsInv
  <2>2. /\ Cardinality(events') \in Nat /\ Cardinality(events) <= Cardinality(events')
        /\ Cardinality(ByHand') + Cardinality(events) <= Cardinality(ByHand) + Cardinality(events')
        /\ trigger'.total + Cardinality(ByHand') <= Cardinality(events')
    BY <1>1, <1>3, <1>4, <1>5
  <2>. QED BY <1>1, <1>2, <2>1, <2>2, StaysCounted
<1>7. SignalsTyped' /\ ScoreMade'
  BY <1>1, <1>3, <1>4 DEF SignalsInv, SignalsTyped, ScoreMade
<1>. QED BY <1>3, <1>6, <1>7 DEF SignalsInv

(* A request that rests has nothing to count.                                 *)
LEMMA StopTyped == AtRest \in ScoutWork /\ AtRest.op \notin {"manual", "check"}
  BY DEF AtRest, ScoutWork

(* Counting an event noted by hand: it leaves the requests that have one to   *)
(* count, and the total takes it (triggers.service.ts, createManualEvent).    *)
LEMMA CountManualEventKeeps == ASSUME SignalsInv, NEW u \in Scouts, CountManualEvent(u) PROVE SignalsInv'
<1>1. /\ scout[u].op = "manual" /\ Set(u, AtRest) /\ events' = events /\ icps' = icps /\ score' = score /\ list' = list /\ now' = now
      /\ trigger' = IF Is(trigger) THEN [trigger EXCEPT !.total = @ + 1] ELSE trigger
  BY DEF CountManualEvent, Stop
<1>2. AtRest \in ScoutWork /\ AtRest.op \notin {"manual", "check"}
  BY StopTyped
<1>3. /\ scout' \in [Scouts -> ScoutWork] /\ Cardinality(ByHand) \in Nat /\ Cardinality(ByHand') \in Nat
      /\ Cardinality(ByHand') = Cardinality(ByHand) - 1 /\ Cardinality(events) \in Nat
  BY <1>1, <1>2, HandsIs, FS_CardinalityType DEF SignalsInv, Uncounted, SignalsTyped
<1>4. /\ trigger' \in TriggerRow \cup {Unmade, Dropped} /\ (Is(trigger') => Is(trigger) /\ trigger'.total = trigger.total + 1)
      /\ trigger' = Unmade => trigger = Unmade
  <2>1. CASE Is(trigger)
    <3>1. trigger \in TriggerRow /\ trigger' = [trigger EXCEPT !.total = trigger.total + 1]
      BY <1>1, <2>1, TriggerIs DEF SignalsInv
    <3>2. trigger' \in TriggerRow /\ trigger'.total = trigger.total + 1
      BY <3>1 DEF TriggerRow
    <3>. QED BY <2>1, <3>2 DEF TriggerRow, Unmade
  <2>2. CASE ~Is(trigger)
    BY <1>1, <2>2 DEF SignalsInv, SignalsTyped
  <2>. QED BY <2>1, <2>2
<1>5. Is(trigger) => trigger.total \in Nat /\ trigger.total + Cardinality(ByHand) <= Cardinality(events)
  BY TriggerIs DEF SignalsInv, Uncounted
<1>6. Uncounted'
  <2>1. /\ Cardinality(events') \in Nat /\ Cardinality(events) <= Cardinality(events')
        /\ Cardinality(ByHand') + Cardinality(events) <= Cardinality(ByHand) + Cardinality(events')
        /\ Is(trigger') => trigger'.total + Cardinality(ByHand') <= Cardinality(events')
    BY <1>1, <1>3, <1>4, <1>5
  <2>. QED BY <1>1, <1>2, <1>4, <2>1, StaysCounted
<1>7. SignalsTyped' /\ ScoreMade' /\ EventsNumbered'
  BY <1>1, <1>3, <1>4 DEF SignalsInv, SignalsTyped, ScoreMade, EventsNumbered
<1>. QED BY <1>6, <1>7 DEF SignalsInv

--------------------------------------------------------------------------------
(* A check begins with the count there is.                                    *)
LEMMA BeginCheckKeeps == ASSUME SignalsInv, NEW u \in Scouts, BeginCheck(u) PROVE SignalsInv'
<1>. DEFINE work == [op |-> "check", total |-> trigger.total, day |-> now, left |-> Watched, created |-> 0]
<1>1. /\ scout[u] = AtRest /\ Is(trigger) /\ Set(u, work)
      /\ trigger' = trigger /\ events' = events /\ icps' = icps /\ score' = score /\ list' = list /\ now' = now
  BY DEF BeginCheck
<1>2. trigger.total \in Nat /\ now \in 0..LastNow /\ trigger # Unmade
  BY <1>1, TriggerIs DEF SignalsInv, SignalsTyped
<1>3. work \in ScoutWork /\ work.op = "check" /\ work.total = trigger.total /\ work.created = 0 /\ scout[u].op # "manual"
  <2>1. PICK total \in Nat : total = trigger.total
    BY <1>2
  <2>2. work = [op |-> "check", total |-> total, day |-> now, left |-> Watched, created |-> 0]
    BY <2>1
  <2>3. work \in [op: {"check"}, total: Nat, day: 0..LastNow, left: SUBSET Watched, created: Nat]
    BY <1>2, <2>2
  <2>. QED BY <1>1, <2>1, <2>2, <2>3 DEF ScoutWork, AtRest
<1>. HIDE DEF work
<1>4. /\ scout' \in [Scouts -> ScoutWork] /\ Cardinality(ByHand) \in Nat
      /\ Cardinality(ByHand') = Cardinality(ByHand) /\ Cardinality(events) \in Nat
  BY <1>1, <1>3, HandsIs, FS_CardinalityType DEF SignalsInv, Uncounted, SignalsTyped
<1>5. trigger.total + Cardinality(ByHand) <= Cardinality(events)
  BY <1>1 DEF SignalsInv, Uncounted
<1>6. Uncounted'
  <2>1. /\ Cardinality(events') \in Nat /\ Cardinality(events) <= Cardinality(events')
        /\ Cardinality(ByHand') + Cardinality(events) <= Cardinality(ByHand) + Cardinality(events')
        /\ trigger'.total + Cardinality(ByHand') <= Cardinality(events')
        /\ work.total + work.created + Cardinality(ByHand') <= Cardinality(events')
    BY <1>1, <1>2, <1>3, <1>4, <1>5
  <2>. QED BY <1>1, <1>2, <1>3, <2>1, StaysCounted
<1>7. SignalsTyped' /\ ScoreMade' /\ EventsNumbered'
  BY <1>1, <1>4 DEF SignalsInv, SignalsTyped, ScoreMade, EventsNumbered
<1>. QED BY <1>6, <1>7 DEF SignalsInv

(* A company at a time, a check notes and counts together.                    *)
LEMMA CheckCompanyKeeps == ASSUME SignalsInv, NEW u \in Scouts, NEW c \in Watched, CheckCompany(u, c) PROVE SignalsInv'
<1>1. /\ scout[u].op = "check" /\ trigger' = trigger /\ icps' = icps /\ score' = score /\ list' = list /\ now' = now
  BY DEF CheckCompany
<1>2. PICK old \in [op: {"check"}, total: Nat, day: 0..LastNow, left: SUBSET Watched, created: Nat] : old = scout[u]
  BY <1>1, ScoutIs DEF SignalsInv
<1>3. trigger # Unmade
  BY <1>1 DEF SignalsInv, Uncounted
<1>4. Cardinality(events) \in Nat /\ Cardinality(ByHand) \in Nat
  BY FS_CardinalityType DEF SignalsInv, Uncounted, SignalsTyped
<1>5. Is(trigger) => /\ old.total + old.created + Cardinality(ByHand) <= Cardinality(events)
                     /\ trigger.total + Cardinality(ByHand) <= Cardinality(events) /\ trigger.total \in Nat
  BY <1>1, <1>2, TriggerIs DEF SignalsInv, Uncounted
<1>6. ASSUME NEW work \in ScoutWork, Set(u, work), work.op \in {"check", "rest"},
             events' = events \/ Note(c, old.day),
             Is(trigger) /\ work.op = "check" => work.total = old.total /\
                 work.created = old.created + (IF Note(c, old.day) /\ events' # events THEN 1 ELSE 0)
      PROVE  SignalsInv'
  <2>1. /\ scout' \in [Scouts -> ScoutWork] /\ Cardinality(ByHand') = Cardinality(ByHand)
    BY <1>1, <1>6, HandsIs DEF SignalsInv, Uncounted
  <2>2. PICK made \in {0, 1} : /\ events' \subseteq TriggerEventRow /\ IsFiniteSet(events') /\ EventsNumbered'
                               /\ Cardinality(events') = Cardinality(events) + made
                               /\ Is(trigger) /\ work.op = "check" => work.total = old.total /\ work.created <= old.created + made
                                                                      /\ work.created \in Nat
    <3>1. CASE events' = events
      <4>1. /\ events' \subseteq TriggerEventRow /\ IsFiniteSet(events') /\ EventsNumbered'
            /\ Cardinality(events') = Cardinality(events) + 0
        BY <1>4, <3>1 DEF SignalsInv, SignalsTyped, EventsNumbered
      <4>2. Is(trigger) /\ work.op = "check" => work.total = old.total /\ work.created <= old.created + 0 /\ work.created \in Nat
        BY <1>6, <3>1
      <4>. QED BY <4>1, <4>2
    <3>2. CASE events' # events
      <4>1. Note(c, old.day)
        BY <1>6, <3>2
      <4>2. /\ events' \subseteq TriggerEventRow /\ IsFiniteSet(events') /\ EventsNumbered'
            /\ Cardinality(events') = Cardinality(events) + 1
        BY <4>1, NotedIsLast DEF SignalsInv
      <4>3. Is(trigger) /\ work.op = "check" => work.total = old.total /\ work.created <= old.created + 1 /\ work.created \in Nat
        BY <1>6, <3>2, <4>1
      <4>. QED BY <4>2, <4>3
    <3>. QED BY <3>1, <3>2
  <2>3. Uncounted'
    <3>1. /\ Cardinality(events') \in Nat /\ Cardinality(events) <= Cardinality(events')
          /\ Cardinality(ByHand') + Cardinality(events) <= Cardinality(ByHand) + Cardinality(events')
          /\ Is(trigger') => trigger'.total + Cardinality(ByHand') <= Cardinality(events')
      BY <1>1, <1>4, <1>5, <2>1, <2>2
    <3>2. Is(trigger') /\ work.op = "check" => work.total + work.created + Cardinality(ByHand') <= Cardinality(events')
      <4>. SUFFICES ASSUME Is(trigger), work.op = "check"
                    PROVE  work.total + work.created + Cardinality(ByHand') <= Cardinality(events')
        BY <1>1
      <4>1. work.total = old.total /\ work.created <= old.created + made /\ work.created \in Nat
        BY <2>2
      <4>. QED BY <1>4, <1>5, <2>1, <2>2, <4>1
    <3>. QED BY <1>1, <1>3, <1>6, <3>1, <3>2, StaysCounted
  <2>4. SignalsTyped' /\ ScoreMade'
    BY <1>1, <2>1, <2>2 DEF SignalsInv, SignalsTyped, ScoreMade
  <2>. QED BY <2>2, <2>3, <2>4 DEF SignalsInv
<1>7. CASE Known(u, c)
  <2>1. PICK work : work = [old EXCEPT !.left = old.left \ {c}]
    OBVIOUS
  <2>2. events' = events /\ Set(u, work)
    BY <1>2, <1>7, <2>1 DEF CheckCompany
  <2>3. /\ work \in [op: {"check"}, total: Nat, day: 0..LastNow, left: SUBSET Watched, created: Nat]
        /\ work.op = "check" /\ work.total = old.total /\ work.created = old.created
    BY <2>1
  <2>4. work \in ScoutWork
    BY <2>3 DEF ScoutWork
  <2>. QED BY <1>6, <2>2, <2>3, <2>4
<1>8. CASE ~Known(u, c) /\ ~Is(trigger)
  <2>1. events' = events /\ Set(u, AtRest)
    BY <1>8 DEF CheckCompany, Stop
  <2>2. AtRest \in ScoutWork /\ AtRest.op = "rest"
    BY StopTyped DEF AtRest
  <2>. QED BY <1>6, <2>1, <2>2
<1>9. CASE ~Known(u, c) /\ Is(trigger)
  <2>1. PICK work : work = [old EXCEPT !.left = old.left \ {c}, !.created = old.created + 1]
    OBVIOUS
  <2>2. Note(c, old.day) /\ Set(u, work)
    BY <1>2, <1>9, <2>1 DEF CheckCompany
  <2>3. /\ work \in [op: {"check"}, total: Nat, day: 0..LastNow, left: SUBSET Watched, created: Nat]
        /\ work.op = "check" /\ work.total = old.total /\ work.created = old.created + 1
    <3>1. PICK n \in Nat : n = old.created + 1
      OBVIOUS
    <3>2. work = [old EXCEPT !.left = old.left \ {c}, !.created = n]
      BY <2>1, <3>1
    <3>. QED BY <3>1, <3>2
  <2>4. work \in ScoutWork
    BY <2>3 DEF ScoutWork
  <2>5. events' # events
    <3>1. Cardinality(events') = Cardinality(events) + 1
      BY <2>2, NotedIsLast DEF SignalsInv
    <3>. QED BY <1>4, <3>1
  <2>. QED BY <1>6, <2>2, <2>3, <2>4, <2>5
<1>. QED BY <1>7, <1>8, <1>9

(* A check that ends writes what it read and what it counted.                 *)
LEMMA FinishCheckKeeps == ASSUME SignalsInv, NEW u \in Scouts, FinishCheck(u) PROVE SignalsInv'
<1>1. /\ scout[u].op = "check" /\ Set(u, AtRest) /\ events' = events /\ icps' = icps /\ score' = score /\ list' = list /\ now' = now
      /\ trigger' = IF Is(trigger) THEN [trigger EXCEPT !.total = scout[u].total + scout[u].created] ELSE trigger
  BY DEF FinishCheck, Stop
<1>2. AtRest \in ScoutWork /\ AtRest.op \notin {"manual", "check"}
  BY StopTyped
<1>3. /\ scout' \in [Scouts -> ScoutWork] /\ Cardinality(ByHand) \in Nat
      /\ Cardinality(ByHand') = Cardinality(ByHand) /\ Cardinality(events) \in Nat
  BY <1>1, <1>2, HandsIs, FS_CardinalityType DEF SignalsInv, Uncounted, SignalsTyped
<1>4. scout[u].total \in Nat /\ scout[u].created \in Nat
  BY <1>1, ScoutIs DEF SignalsInv
<1>5. PICK total \in Nat : total = scout[u].total + scout[u].created
  BY <1>4
<1>6. /\ trigger' \in TriggerRow \cup {Unmade, Dropped} /\ (Is(trigger') => Is(trigger) /\ trigger'.total = total)
      /\ trigger' = Unmade => trigger = Unmade
  <2>1. CASE Is(trigger)
    <3>1. trigger \in TriggerRow /\ trigger' = [trigger EXCEPT !.total = total]
      BY <1>1, <1>5, <2>1, TriggerIs DEF SignalsInv
    <3>2. trigger' \in TriggerRow /\ trigger'.total = total
      BY <3>1 DEF TriggerRow
    <3>. QED BY <2>1, <3>2 DEF TriggerRow, Unmade
  <2>2. CASE ~Is(trigger)
    BY <1>1, <2>2 DEF SignalsInv, SignalsTyped
  <2>. QED BY <2>1, <2>2
<1>7. Is(trigger) => total + Cardinality(ByHand) <= Cardinality(events)
  BY <1>1, <1>5 DEF SignalsInv, Uncounted
<1>8. Uncounted'
  <2>1. /\ Cardinality(events') \in Nat /\ Cardinality(events) <= Cardinality(events')
        /\ Cardinality(ByHand') + Cardinality(events) <= Cardinality(ByHand) + Cardinality(events')
        /\ Is(trigger') => trigger'.total + Cardinality(ByHand') <= Cardinality(events')
    BY <1>1, <1>3, <1>6, <1>7
  <2>. QED BY <1>1, <1>2, <1>6, <2>1, StaysCounted
<1>9. SignalsTyped' /\ ScoreMade' /\ EventsNumbered'
  BY <1>1, <1>3, <1>6 DEF SignalsInv, SignalsTyped, ScoreMade, EventsNumbered
<1>. QED BY <1>8, <1>9 DEF SignalsInv

(* A request that breaks off leaves what it noted, and counts nothing.        *)
LEMMA BreakOffKeeps == ASSUME SignalsInv, NEW u \in Scouts, BreakOff(u) PROVE SignalsInv'
<1>1. /\ Set(u, AtRest) /\ trigger' = trigger /\ events' = events /\ icps' = icps /\ score' = score /\ list' = list /\ now' = now
  BY DEF BreakOff, Stop
<1>2. AtRest \in ScoutWork /\ AtRest.op \notin {"manual", "check"}
  BY StopTyped
<1>3. Uncounted' /\ EventsNumbered' /\ scout' \in [Scouts -> ScoutWork]
  BY <1>1, <1>2, NothingCounted
<1>. QED BY <1>1, <1>3 DEF SignalsInv, SignalsTyped, ScoreMade

\* What the steps of profiles, ratings and lists leave alone.
OnlyRates == UNCHANGED <<trigger, events, now>>
OnlyWorks == \/ scout' = scout
             \/ \E u \in Scouts, work \in ScoutWork : work.op \notin {"manual", "check"} /\ Set(u, work)

(* They note and count nothing.                                               *)
LEMMA RatesKeep ==
    ASSUME SignalsInv, OnlyRates, OnlyWorks, icps' \in [Profiles -> IcpRow \cup {Unmade, Dropped}],
           list' \in ListRow \cup {Unmade, Dropped}, ScoreMade'
    PROVE  SignalsInv'
<1>1. trigger' = trigger /\ events' = events /\ now' = now
  BY DEF OnlyRates
<1>2. Uncounted' /\ EventsNumbered' /\ scout' \in [Scouts -> ScoutWork]
  <2>1. CASE scout' = scout
    <3>1. ByHand' = ByHand
      BY <2>1 DEF ByHand
    <3>. QED BY <1>1, <2>1, <3>1 DEF SignalsInv, Uncounted, EventsNumbered, SignalsTyped
  <2>2. ASSUME NEW u \in Scouts, NEW work \in ScoutWork, work.op \notin {"manual", "check"}, Set(u, work)
        PROVE  Uncounted' /\ EventsNumbered' /\ scout' \in [Scouts -> ScoutWork]
    BY <1>1, <2>2, NothingCounted
  <2>. QED BY <2>1, <2>2 DEF OnlyWorks
<1>. QED BY <1>1, <1>2 DEF SignalsInv, SignalsTyped

(* Profiles are written without a score in sight.                             *)
LEMMA ProfileKeeps ==
    ASSUME SignalsInv,
           \/ \E i \in Profiles : \/ RemoveProfile(i)
                                  \/ \E u \in Scouts, isDefault, isActive \in BOOLEAN : BeginProfile(u, i, isDefault, isActive)
           \/ \E u \in Scouts : SaveProfile(u)
    PROVE  SignalsInv'
<1>1. OnlyRates /\ score' = score /\ list' = list
  BY DEF RemoveProfile, BeginProfile, SaveProfile, OnlyRates
<1>2. ScoreMade' /\ list' \in ListRow \cup {Unmade, Dropped}
  BY <1>1 DEF SignalsInv, ScoreMade, SignalsTyped
<1>3. icps \in [Profiles -> IcpRow \cup {Unmade, Dropped}]
  BY DEF SignalsInv, SignalsTyped
<1>4. ASSUME NEW i \in Profiles, RemoveProfile(i) PROVE SignalsInv'
  <2>1. icps' \in [Profiles -> IcpRow \cup {Unmade, Dropped}] /\ scout' = scout
    BY <1>3, <1>4 DEF RemoveProfile
  <2>. QED BY <1>1, <1>2, <2>1, RatesKeep DEF OnlyWorks
<1>5. ASSUME NEW i \in Profiles, NEW u \in Scouts, NEW isDefault \in BOOLEAN, NEW isActive \in BOOLEAN,
             BeginProfile(u, i, isDefault, isActive)
      PROVE  SignalsInv'
  <2>1. PICK row, seen, isNew :
            /\ row = [state |-> "kept", isDefault |-> isDefault, isActive |-> isActive]
            /\ seen = {j \in Profiles \ {i} : isDefault /\ Is(icps[j]) /\ icps[j].isDefault}
            /\ isNew = (icps[i] = Unmade)
    OBVIOUS
  <2>2. PICK work : work = [op |-> "profile", of |-> i, row |-> row, seen |-> seen, isNew |-> isNew]
    OBVIOUS
  <2>3. Set(u, work) /\ icps' = icps
    BY <1>5, <2>1, <2>2 DEF BeginProfile
  <2>4. row \in IcpRow /\ seen \in SUBSET Profiles /\ isNew \in BOOLEAN
    BY <2>1 DEF IcpRow
  <2>5. work \in ScoutWork /\ work.op = "profile"
    BY <2>2, <2>4 DEF ScoutWork
  <2>. QED BY <1>1, <1>2, <1>3, <2>3, <2>5, RatesKeep DEF OnlyWorks
<1>6. ASSUME NEW u \in Scouts, SaveProfile(u) PROVE SignalsInv'
  <2>1. scout[u].op = "profile" /\ Set(u, AtRest)
    BY <1>6 DEF SaveProfile, Stop
  <2>2. PICK work \in [op: {"profile"}, of: Profiles, row: IcpRow, seen: SUBSET Profiles, isNew: BOOLEAN] : work = scout[u]
    BY <2>1, ScoutIs DEF SignalsInv
  <2>3. PICK unmarked : unmarked = [j \in Profiles |->
               IF j \in work.seen /\ Is(icps[j]) THEN [icps[j] EXCEPT !.isDefault = FALSE] ELSE icps[j]]
    OBVIOUS
  <2>4. \/ icps' = icps \/ icps' = unmarked \/ icps' = [unmarked EXCEPT ![work.of] = work.row]
    BY <1>6, <2>2, <2>3 DEF SaveProfile
  <2>5. \A j \in Profiles : unmarked[j] \in IcpRow \cup {Unmade, Dropped}
    <3>. SUFFICES ASSUME NEW j \in Profiles PROVE unmarked[j] \in IcpRow \cup {Unmade, Dropped}
      OBVIOUS
    <3>1. CASE j \in work.seen /\ Is(icps[j])
      <4>1. icps[j] \in IcpRow
        BY <1>3, <3>1 DEF Is, Unmade, Dropped
      <4>2. unmarked[j] = [icps[j] EXCEPT !.isDefault = FALSE]
        BY <2>3, <3>1
      <4>3. unmarked[j] \in IcpRow
        BY <4>1, <4>2 DEF IcpRow
      <4>. QED BY <4>3
    <3>2. CASE ~(j \in work.seen /\ Is(icps[j]))
      BY <1>3, <2>3, <3>2
    <3>. QED BY <3>1, <3>2
  <2>6. unmarked \in [Profiles -> IcpRow \cup {Unmade, Dropped}]
    BY <2>3, <2>5
  <2>7. icps' \in [Profiles -> IcpRow \cup {Unmade, Dropped}]
    BY <1>3, <2>2, <2>4, <2>6
  <2>8. OnlyWorks
    BY <2>1, StopTyped DEF OnlyWorks
  <2>. QED BY <1>1, <1>2, <2>7, <2>8, RatesKeep
<1>. QED BY <1>4, <1>5, <1>6

(* A person rated takes the score computed of the profile and of what is      *)
(* known (icps.service.ts).                                                   *)
LEMMA RatingKeeps ==
    ASSUME SignalsInv,
           \/ \E i \in Profiles : \/ \E facts \in [Criteria -> Facts] : RecalculatePerson(i, facts)
                                  \/ \E u \in Scouts : BeginRecalculation(u, i)
           \/ \E u \in Scouts : \E facts \in [Criteria -> Facts] : RecalculateAll(u, facts)
    PROVE  SignalsInv'
<1>1. OnlyRates /\ icps' = icps /\ list' = list
  BY DEF RecalculatePerson, BeginRecalculation, RecalculateAll, OnlyRates
<1>2. icps' \in [Profiles -> IcpRow \cup {Unmade, Dropped}] /\ list' \in ListRow \cup {Unmade, Dropped}
  BY <1>1 DEF SignalsInv, SignalsTyped
<1>3. ASSUME NEW i \in Profiles, NEW facts \in [Criteria -> Facts], RecalculatePerson(i, facts) PROVE SignalsInv'
  <2>1. scout' = scout /\ score' = [points |-> ComputeScore(i, facts), by |-> i, facts |-> facts]
    BY <1>3 DEF RecalculatePerson
  <2>2. ScoreMade'
    BY <2>1 DEF ScoreMade
  <2>. QED BY <1>1, <1>2, <2>1, <2>2, RatesKeep DEF OnlyWorks
<1>4. ASSUME NEW i \in Profiles, NEW u \in Scouts, BeginRecalculation(u, i) PROVE SignalsInv'
  <2>1. PICK work : work = [op |-> "rate", by |-> i]
    OBVIOUS
  <2>2. Set(u, work) /\ score' = score
    BY <1>4, <2>1 DEF BeginRecalculation
  <2>3. work \in ScoutWork /\ work.op = "rate"
    BY <2>1 DEF ScoutWork
  <2>4. ScoreMade'
    BY <2>2 DEF SignalsInv, ScoreMade
  <2>. QED BY <1>1, <1>2, <2>2, <2>3, <2>4, RatesKeep DEF OnlyWorks
<1>5. ASSUME NEW u \in Scouts, NEW facts \in [Criteria -> Facts], RecalculateAll(u, facts) PROVE SignalsInv'
  <2>1. scout[u].op = "rate" /\ Set(u, AtRest)
        /\ score' = [points |-> ComputeScore(scout[u].by, facts), by |-> scout[u].by, facts |-> facts]
    BY <1>5 DEF RecalculateAll, Stop
  <2>2. scout[u].by \in Profiles
    BY <2>1, ScoutIs DEF SignalsInv
  <2>3. ScoreMade'
    BY <2>1, <2>2 DEF ScoreMade
  <2>4. OnlyWorks
    BY <2>1, StopTyped DEF OnlyWorks
  <2>. QED BY <1>1, <1>2, <2>3, <2>4, RatesKeep
<1>. QED BY <1>3, <1>4, <1>5

(* The lists count nothing of the triggers.                                   *)
LEMMA ListKeeps == ASSUME SignalsInv, KeepList PROVE SignalsInv'
<1>1. OnlyRates /\ icps' = icps /\ score' = score
  BY DEF KeepList, SaveList, RemoveList, BeginAddItems, AddItems, RemoveItem, OnlyRates
<1>2. icps' \in [Profiles -> IcpRow \cup {Unmade, Dropped}] /\ ScoreMade'
  BY <1>1 DEF SignalsInv, SignalsTyped, ScoreMade
<1>3. list \in ListRow \cup {Unmade, Dropped} /\ (Is(list) <=> list \in ListRow)
  BY DEF SignalsInv, SignalsTyped, ListRow, Unmade, Dropped, Is
<1>4. ASSUME list' \in ListRow \cup {Unmade, Dropped}, OnlyWorks PROVE SignalsInv'
  BY <1>1, <1>2, <1>4, RatesKeep
<1>5. CASE RemoveList
  BY <1>4, <1>5 DEF RemoveList, OnlyWorks
<1>6. ASSUME NEW archived \in BOOLEAN, SaveList(archived) PROVE SignalsInv'
  <2>1. CASE Is(list)
    <3>1. list' = [list EXCEPT !.archived = archived] /\ scout' = scout
      BY <1>6, <2>1 DEF SaveList
    <3>2. list' \in ListRow
      BY <1>3, <2>1, <3>1 DEF ListRow
    <3>. QED BY <1>4, <3>1, <3>2 DEF OnlyWorks
  <2>2. CASE ~Is(list)
    <3>1. list' = [state |-> "kept", archived |-> FALSE, items |-> {}] /\ scout' = scout
      BY <1>6, <2>2 DEF SaveList
    <3>2. list' \in ListRow
      BY <3>1 DEF ListRow
    <3>. QED BY <1>4, <3>1, <3>2 DEF OnlyWorks
  <2>. QED BY <2>1, <2>2
<1>7. ASSUME NEW x \in Listable, RemoveItem(x) PROVE SignalsInv'
  <2>1. Is(list) /\ list' = [list EXCEPT !.items = list.items \ {x}] /\ scout' = scout
    BY <1>7 DEF RemoveItem
  <2>2. list' \in ListRow
    BY <1>3, <2>1 DEF ListRow
  <2>. QED BY <1>4, <2>1, <2>2 DEF OnlyWorks
<1>8. ASSUME NEW u \in Scouts, AddItems(u) PROVE SignalsInv'
  <2>1. /\ scout[u].op = "add" /\ Set(u, AtRest)
        /\ list' = IF Is(list) THEN [list EXCEPT !.items = list.items \cup scout[u].items] ELSE list
    BY <1>8 DEF AddItems, Stop
  <2>2. PICK items \in SUBSET Listable : items = scout[u].items
    BY <2>1, ScoutIs DEF SignalsInv
  <2>3. Is(list) => list' \in ListRow
    <3>. SUFFICES ASSUME Is(list) PROVE list' \in ListRow
      OBVIOUS
    <3>1. list' = [list EXCEPT !.items = list.items \cup items] /\ list \in ListRow
      BY <1>3, <2>1, <2>2
    <3>. QED BY <3>1 DEF ListRow
  <2>4. OnlyWorks
    BY <2>1, StopTyped DEF OnlyWorks
  <2>. QED BY <1>3, <1>4, <2>1, <2>3, <2>4
<1>9. ASSUME NEW u \in Scouts, NEW items \in SUBSET Listable, BeginAddItems(u, items) PROVE SignalsInv'
  <2>1. PICK work : work = [op |-> "add", items |-> items]
    OBVIOUS
  <2>2. Set(u, work) /\ list' = list
    BY <1>9, <2>1 DEF BeginAddItems
  <2>3. work \in ScoutWork /\ work.op = "add"
    BY <2>1 DEF ScoutWork
  <2>. QED BY <1>3, <1>4, <2>2, <2>3 DEF OnlyWorks
<1>. QED BY <1>5, <1>6, <1>7, <1>8, <1>9 DEF KeepList

--------------------------------------------------------------------------------
\* What a score is.

(* The rounded share of what is known: a half, up.                            *)
LEMMA RoundedShare ==
    ASSUME NEW met \in Nat, NEW total \in Nat, total > 0, met <= total, NEW points,
           points = (200 * met + total) \div (2 * total)
    PROVE  points \in 0..100 /\ 2 * (points * total - 100 * met) \in (1 - total)..total
<1>. DEFINE a == 200 * met + total
            b == 2 * total
<1>1. a \in Nat /\ b \in Nat /\ b > 0
  OBVIOUS
<1>. HIDE DEF a, b
<1>2. /\ (a \div b) \in Int /\ b * (a \div b) <= a /\ a < b * (a \div b) + b
  <2>1. a = b * (a \div b) + (a % b) /\ a % b \in 0..(b - 1) /\ (a \div b) \in Int
    BY <1>1
  <2>2. PICK r \in 0..(b - 1) : r = a % b
    BY <2>1
  <2>3. PICK q \in Int : q = a \div b
    BY <2>1
  <2>4. PICK m \in Int : m = b * q
    BY <1>1
  <2>5. a = m + r
    BY <2>1, <2>2, <2>3, <2>4
  <2>6. m <= a /\ a < m + b
    BY <1>1, <2>5
  <2>. QED BY <2>3, <2>4, <2>6
<1>3. PICK q \in Int : q = points /\ b * q <= a /\ a < b * q + b
  BY <1>2 DEF a, b
<1>4. PICK w \in Int : w = q * total
  OBVIOUS
<1>5. b * q = 2 * w
  BY <1>4 DEF b
<1>6. 2 * w <= 200 * met + total /\ 200 * met + total < 2 * w + 2 * total
  BY <1>3, <1>5 DEF a, b
<1>7. q >= 0
  <2>. SUFFICES ASSUME q <= -1 PROVE FALSE
    OBVIOUS
  <2>1. w <= -total
    BY <1>4
  <2>. QED BY <1>6, <2>1
<1>8. q <= 100
  <2>. SUFFICES ASSUME q >= 101 PROVE FALSE
    OBVIOUS
  <2>1. w >= 101 * total
    BY <1>4
  <2>. QED BY <1>6, <2>1
<1>9. 2 * (w - 100 * met) \in (1 - total)..total
  BY <1>6
<1>. QED BY <1>3, <1>4, <1>7, <1>8, <1>9

(* Criteria that weigh nothing add nothing.                                   *)
LEMMA WeightyOnly ==
    ASSUME NEW i \in Profiles, NEW S \in SUBSET DOMAIN Weights[i]
    PROVE  /\ WeightOf(i, S) \in Nat /\ WeightOf(i, {c \in S : Weights[i][c] > 0}) = WeightOf(i, S)
           /\ \A T \in SUBSET S : WeightOf(i, T) <= WeightOf(i, S)
           /\ WeightOf(i, S) = 0 <=> {c \in S : Weights[i][c] > 0} = {}
<1>. DEFINE w == Weights[i]
            P == {c \in S : w[c] > 0}
<1>1. IsFiniteSet(S) /\ \A c \in S : w[c] \in Nat
  BY SignalsAssumption, FS_Subset
<1>. HIDE DEF w
<1>2. \A T \in SUBSET S : /\ IsFiniteSet(T) /\ SumOver(w, T) \in Nat /\ SumOver(w, S \ T) \in Nat
                          /\ SumOver(w, S) = SumOver(w, T) + SumOver(w, S \ T)
  <2>. SUFFICES ASSUME NEW T \in SUBSET S
                PROVE  /\ IsFiniteSet(T) /\ SumOver(w, T) \in Nat /\ SumOver(w, S \ T) \in Nat
                       /\ SumOver(w, S) = SumOver(w, T) + SumOver(w, S \ T)
    OBVIOUS
  <2>1. \A c \in S : w[c] \in Int
    BY <1>1
  <2>2. SumOver(w, S) = SumOver(w, T) + SumOver(w, S \ T) /\ IsFiniteSet(T) /\ IsFiniteSet(S \ T)
    BY <1>1, <2>1, SumSplit
  <2>3. SumOver(w, T) \in Nat /\ SumOver(w, S \ T) \in Nat
    BY <1>1, <2>2, SumNat
  <2>. QED BY <2>2, <2>3
<1>3. P \in SUBSET S
  OBVIOUS
<1>4. \A c \in S \ P : w[c] = 0
  BY <1>1
<1>5. IsFiniteSet(S \ P)
  BY <1>1, FS_Subset
<1>6. SumOver(w, S \ P) = 0
  BY <1>4, <1>5, SumZero
<1>7. SumOver(w, S) \in Nat
  BY <1>1, SumNat
<1>8. SumOver(w, P) = SumOver(w, S)
  BY <1>2, <1>3, <1>6, <1>7
<1>9. ASSUME NEW T \in SUBSET S PROVE SumOver(w, T) <= SumOver(w, S)
  <2>1. SumOver(w, T) \in Nat /\ SumOver(w, S \ T) \in Nat /\ SumOver(w, S) = SumOver(w, T) + SumOver(w, S \ T)
    BY <1>2
  <2>2. PICK x \in Nat, y \in Nat : x = SumOver(w, T) /\ y = SumOver(w, S \ T)
    BY <2>1
  <2>. QED BY <2>1, <2>2
<1>10. P # {} => SumOver(w, S) # 0
  <2>. SUFFICES ASSUME P # {} PROVE SumOver(w, S) # 0
    OBVIOUS
  <2>1. PICK c \in S : w[c] > 0
    OBVIOUS
  <2>2. SumOver(w, S) = w[c] + SumOver(w, S \ {c})
    BY <1>1, SumRemove
  <2>3. SumOver(w, S \ {c}) \in Nat
    BY <1>2
  <2>. QED BY <1>1, <2>1, <2>2, <2>3
<1>11. P = {} => SumOver(w, S) = 0
  <2>. SUFFICES ASSUME P = {} PROVE SumOver(w, S) = 0
    OBVIOUS
  <2>1. SumOver(w, P) = 0
    BY SumEmpty
  <2>. QED BY <1>8, <2>1
<1>. QED BY <1>7, <1>8, <1>9, <1>10, <1>11 DEF w, WeightOf

(* A score that was made is the share.                                        *)
LEMMA MadeIsShare == ASSUME ScoreMade PROVE ScoreIsShare
<1>. SUFFICES ASSUME score # NoScore PROVE ScoreIsShare
  BY DEF ScoreIsShare
<1>1. PICK i \in Profiles, facts \in [Criteria -> Facts] :
          score = [points |-> ComputeScore(i, facts), by |-> i, facts |-> facts]
  BY DEF ScoreMade
<1>. DEFINE known == {c \in DOMAIN Weights[i] : facts[c] # "unknown" /\ Weights[i][c] > 0}
            met == {c \in known : facts[c] = "match"}
            A == Applicable(i, facts)
            M == Matched(i, facts)
<1>2. A \in SUBSET DOMAIN Weights[i] /\ M \in SUBSET A /\ known = {c \in A : Weights[i][c] > 0} /\ met = {c \in M : Weights[i][c] > 0}
  BY DEF Applicable, Matched
<1>. HIDE DEF known, met, A, M
<1>3. /\ WeightOf(i, A) \in Nat /\ WeightOf(i, known) = WeightOf(i, A) /\ WeightOf(i, M) <= WeightOf(i, A)
      /\ WeightOf(i, A) = 0 <=> known = {}
  BY <1>2, WeightyOnly
<1>4. WeightOf(i, M) \in Nat /\ WeightOf(i, met) = WeightOf(i, M)
  BY <1>2, WeightyOnly
<1>5. PICK points : points = ComputeScore(i, facts)
  OBVIOUS
<1>6. points = IF A = {} \/ WeightOf(i, A) = 0 THEN 50 ELSE (200 * WeightOf(i, M) + WeightOf(i, A)) \div (2 * WeightOf(i, A))
  BY <1>5 DEF ComputeScore, A, M
<1>7. /\ points \in 0..100
      /\ IF known = {} THEN points = 50
         ELSE 2 * (points * WeightOf(i, known) - 100 * WeightOf(i, met)) \in (1 - WeightOf(i, known))..WeightOf(i, known)
  <2>1. CASE known = {}
    BY <1>3, <1>6, <2>1
  <2>2. CASE known # {}
    <3>1. A # {} /\ WeightOf(i, A) # 0
      BY <1>2, <1>3, <2>2
    <3>2. PICK total \in Nat, m \in Nat : total = WeightOf(i, A) /\ m = WeightOf(i, M)
      BY <1>3, <1>4
    <3>3. points = (200 * m + total) \div (2 * total) /\ total > 0 /\ m <= total
      BY <1>3, <1>6, <3>1, <3>2
    <3>4. points \in 0..100 /\ 2 * (points * total - 100 * m) \in (1 - total)..total
      BY <3>3, RoundedShare
    <3>5. WeightOf(i, known) = total /\ WeightOf(i, met) = m
      BY <1>3, <1>4, <3>2
    <3>. QED BY <2>2, <3>4, <3>5
  <2>. QED BY <2>1, <2>2
<1>8. score.points = points /\ score.by = i /\ score.facts = facts
  BY <1>1, <1>5
<1>. QED BY <1>7, <1>8 DEF ScoreIsShare, known, met

--------------------------------------------------------------------------------
(* At first there is no trigger, no event and no score.                       *)
LEMMA SignalsStart == SignalsInit => SignalsInv
<1>. SUFFICES ASSUME SignalsInit PROVE SignalsInv
  OBVIOUS
<1>1. /\ trigger = Unmade /\ events = {} /\ now = 0 /\ icps = [i \in Profiles |-> Unmade] /\ score = NoScore
      /\ list = Unmade /\ scout = [u \in Scouts |-> AtRest]
  BY DEF SignalsInit
<1>2. SignalsTyped
  BY <1>1, FS_EmptySet, SignalsAssumption, StopTyped DEF SignalsTyped
<1>3. \A u \in Scouts : scout[u].op \notin {"manual", "check"}
  BY <1>1, StopTyped
<1>4. ByHand = {} /\ ~Is(trigger)
  BY <1>1, <1>3 DEF ByHand, Is, Unmade
<1>5. IsFiniteSet(ByHand)
  BY <1>4, FS_EmptySet
<1>. QED BY <1>1, <1>2, <1>3, <1>4, <1>5 DEF SignalsInv, EventsNumbered, Uncounted, ScoreMade

(* Every step keeps the triggers counted and the scores made.                 *)
LEMMA SignalsStep == ASSUME SignalsInv, [SignalsNext]_signalVars PROVE SignalsInv'
<1>1. CASE UNCHANGED signalVars
  BY <1>1, TriggerKeeps
<1>2. CASE Watch
  <2>1. CASE (\E active \in BOOLEAN : CreateTrigger(active) \/ UpdateTrigger(active)) \/ RemoveTrigger \/ NewDay
    BY <2>1, TriggerKeeps
  <2>2. ASSUME NEW u \in Scouts, CreateManualEvent(u) PROVE SignalsInv'
    BY <2>2, CreateManualEventKeeps
  <2>3. ASSUME NEW u \in Scouts, CountManualEvent(u) PROVE SignalsInv'
    BY <2>3, CountManualEventKeeps
  <2>4. ASSUME NEW u \in Scouts, BeginCheck(u) PROVE SignalsInv'
    BY <2>4, BeginCheckKeeps
  <2>5. ASSUME NEW u \in Scouts, NEW c \in Watched, CheckCompany(u, c) PROVE SignalsInv'
    BY <2>5, CheckCompanyKeeps
  <2>6. ASSUME NEW u \in Scouts, FinishCheck(u) PROVE SignalsInv'
    BY <2>6, FinishCheckKeeps
  <2>7. ASSUME NEW u \in Scouts, BreakOff(u) PROVE SignalsInv'
    BY <2>7, BreakOffKeeps
  <2>. QED BY <1>2, <2>1, <2>2, <2>3, <2>4, <2>5, <2>6, <2>7 DEF Watch
<1>3. CASE Rate
  <2>1. ASSUME NEW i \in Profiles, RemoveProfile(i) PROVE SignalsInv'
    BY <2>1, ProfileKeeps
  <2>2. ASSUME NEW i \in Profiles, NEW facts \in [Criteria -> Facts], RecalculatePerson(i, facts) PROVE SignalsInv'
    BY <2>2, RatingKeeps
  <2>3. ASSUME NEW i \in Profiles, NEW u \in Scouts, NEW isDefault \in BOOLEAN, NEW isActive \in BOOLEAN,
               BeginProfile(u, i, isDefault, isActive)
        PROVE  SignalsInv'
    BY <2>3, ProfileKeeps
  <2>4. ASSUME NEW i \in Profiles, NEW u \in Scouts, BeginRecalculation(u, i) PROVE SignalsInv'
    BY <2>4, RatingKeeps
  <2>5. ASSUME NEW u \in Scouts, SaveProfile(u) PROVE SignalsInv'
    BY <2>5, ProfileKeeps
  <2>6. ASSUME NEW u \in Scouts, NEW facts \in [Criteria -> Facts], RecalculateAll(u, facts) PROVE SignalsInv'
    BY <2>6, RatingKeeps
  <2>. QED BY <1>3, <2>1, <2>2, <2>3, <2>4, <2>5, <2>6 DEF Rate
<1>4. CASE KeepList
  BY <1>4, ListKeeps
<1>. QED BY <1>1, <1>2, <1>3, <1>4 DEF SignalsNext

(* What the invariant says of the rows.                                       *)
LEMMA SignalsInvSays == SignalsInv => SignalsAgree
<1>. SUFFICES ASSUME SignalsInv PROVE SignalsTypeOK /\ CountedWereNoted /\ ScoreIsShare
  BY DEF SignalsAgree
<1>1. SignalsTypeOK
  BY DEF SignalsInv, SignalsTyped, SignalsTypeOK
<1>2. CountedWereNoted
  <2>. SUFFICES ASSUME Is(trigger) PROVE trigger.total <= Cardinality(events)
    BY DEF CountedWereNoted
  <2>1. trigger.total + Cardinality(ByHand) <= Cardinality(events) /\ trigger.total \in Nat
    BY TriggerIs DEF SignalsInv, Uncounted
  <2>2. Cardinality(ByHand) \in Nat /\ Cardinality(events) \in Nat
    BY FS_CardinalityType DEF SignalsInv, Uncounted, SignalsTyped
  <2>. QED BY <2>1, <2>2
<1>3. ScoreIsShare
  BY MadeIsShare DEF SignalsInv
<1>. QED BY <1>1, <1>2, <1>3

(* A trigger counts no event that was not noted, however checks, events by    *)
(* hand and checks that break off overlap (triggers.service.ts); and a score  *)
(* is the share of what is known of a person that matches, to half a point    *)
(* (the fit score of icps.service.ts), for any profiles, weights and facts.   *)
THEOREM SignalsStayTrue == SignalsSpec => []SignalsAgree
<1>1. SignalsInit => SignalsInv
  BY SignalsStart
<1>2. SignalsInv /\ [SignalsNext]_signalVars => SignalsInv'
  BY SignalsStep
<1>. QED BY <1>1, <1>2, SignalsInvSays, PTL DEF SignalsSpec
================================================================================
