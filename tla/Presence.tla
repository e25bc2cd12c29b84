------------------------------- MODULE Presence -------------------------------
(* The websocket gateway of the chat (src/modules/chat/chat.gateway.ts): who is *)
(* in the room of one channel, who is counted there and who is shown as typing. *)
(* The handlers of a socket are asynchronous: several of them, and its          *)
(* disconnection, may interleave at their awaits.                               *)
EXTENDS FiniteSets

CONSTANTS Sockets, Owners, OwnerOf      \* a user may have several sockets

ASSUME PresenceAssumption == OwnerOf \in [Sockets -> Owners]

VARIABLES
    socket,     \* new, online, offline: a reconnection is another socket
    room,       \* the sockets in the room: kept by socket.io
    presence,   \* channelPresence, the sockets counted
    typing,     \* channelTyping, users
    pending,    \* handlers between two awaits: (socket, what comes next)
    \* History.
    crossed     \* sockets whose joining and leaving overlapped

presenceVars == <<socket, room, presence, typing, pending, crossed>>

Handlers == {"join", "joined", "leave", "left", "typing"}
Online(k) == socket[k] = "online"

PresenceInit ==
    /\ socket = [k \in Sockets |-> "new"] /\ room = {} /\ presence = {} /\ typing = {}
    /\ pending = {} /\ crossed = {}

\* A handler of socket k goes on from one await to the next.
Under(k, kinds, steps) == \E h \in kinds : <<k, h>> \in steps
Crossing(k, steps) == Under(k, {"join", "joined"}, steps) /\ Under(k, {"leave", "left"}, steps)
Move(k, from, to) ==
    /\ pending' = (pending \ {<<k, h>> : h \in from}) \cup {<<k, h>> : h \in to}
    /\ crossed' = IF Crossing(k, pending') THEN crossed \cup {k} ELSE crossed

\* A message whose handler begins; a message of a kind under way is not told apart from it.
Receive(k, h) ==
    /\ Online(k) /\ <<k, h>> \notin pending /\ Move(k, {}, {h})
    /\ UNCHANGED <<socket, room, presence, typing>>

\* handleConnection: an invalid token disconnects.
Connect(k, valid) ==
    /\ socket[k] = "new" /\ socket' = [socket EXCEPT ![k] = IF valid THEN "online" ELSE "offline"]
    /\ UNCHANGED <<room, presence, typing, pending, crossed>>

\* Any outcome of the access check goes on: a conversation of WhatsApp has no channel.
\* A socket that has gone joins nothing (socket.io), but its handler goes on.
JoinRoom(k) ==
    /\ <<k, "join">> \in pending /\ Move(k, {"join"}, {"joined"})
    /\ room' = IF Online(k) THEN room \cup {k} ELSE room
    /\ UNCHANGED <<socket, presence, typing>>

Count(k) ==
    /\ <<k, "joined">> \in pending /\ Move(k, {"joined"}, {})
    /\ presence' = presence \cup {k}
    /\ UNCHANGED <<socket, room, typing>>

LeaveRoom(k) ==
    /\ <<k, "leave">> \in pending /\ Move(k, {"leave"}, {"left"})
    /\ room' = room \ {k}
    /\ UNCHANGED <<socket, presence, typing>>

\* Faulty variant: leaving stops the typing only.
UncountTyping(k) ==
    /\ <<k, "left">> \in pending /\ Move(k, {"left"}, {})
    /\ typing' = typing \ {OwnerOf[k]}
    /\ UNCHANGED <<socket, room, presence>>

\* The typing of the user, whichever of the user's sockets it came from.
Uncount(k) ==
    /\ <<k, "left">> \in pending /\ Move(k, {"left"}, {})
    /\ presence' = presence \ {k} /\ typing' = typing \ {OwnerOf[k]}
    /\ UNCHANGED <<socket, room>>

\* The handler needs access to the channel, not to have joined the room.
StartTyping(k, allowed) ==
    /\ <<k, "typing">> \in pending /\ Move(k, {"typing"}, {})
    /\ typing' = IF allowed THEN typing \cup {OwnerOf[k]} ELSE typing
    /\ UNCHANGED <<socket, room, presence>>

StopTyping(k) ==
    /\ Online(k) /\ typing' = typing \ {OwnerOf[k]}
    /\ UNCHANGED <<socket, room, presence, pending, crossed>>

\* socket.io leaves the rooms before it reports the disconnection.
RoomsAtDisconnect(k) == {}

\* handleDisconnect goes through client.rooms.
Disconnect(k) ==
    /\ Online(k) /\ socket' = [socket EXCEPT ![k] = "offline"] /\ room' = room \ {k}
    /\ presence' = IF k \in RoomsAtDisconnect(k) THEN presence \ {k} ELSE presence
    /\ typing' = IF k \in RoomsAtDisconnect(k) THEN typing \ {OwnerOf[k]} ELSE typing
    /\ UNCHANGED <<pending, crossed>>

Gateway ==
    \E k \in Sockets :
        \/ \E valid \in BOOLEAN : Connect(k, valid)
        \/ \E h \in {"join", "leave", "typing"} : Receive(k, h)
        \/ JoinRoom(k) \/ Count(k) \/ LeaveRoom(k) \/ Uncount(k)
        \/ \E allowed \in BOOLEAN : StartTyping(k, allowed)
        \/ StopTyping(k) \/ Disconnect(k)

PresenceSpec == PresenceInit /\ [][Gateway]_presenceVars

--------------------------------------------------------------------------------
PresenceTypeOK ==
    /\ socket \in [Sockets -> {"new", "online", "offline"}]
    /\ room \subseteq Sockets /\ presence \subseteq Sockets /\ typing \subseteq Owners
    /\ pending \subseteq Sockets \X Handlers /\ crossed \subseteq Sockets

\* The room and its counter agree about every connected socket between handlers, unless a join and a
\* leave of that socket overlapped; and whoever is in the room was let in and is still connected.
\* (Of those that disconnected nothing is claimed: their count and their typing are never taken back.)
PresenceIsRoom ==
    /\ PresenceTypeOK
    /\ \A k \in room : Online(k)
    /\ \A k \in Sockets \ crossed :
          Online(k) /\ (\A h \in Handlers \ {"typing"} : <<k, h>> \notin pending) => (k \in presence <=> k \in room)
================================================================================
