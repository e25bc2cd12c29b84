--------------------------------- MODULE Chat ---------------------------------
(* The internal chat (src/modules/chat/services/chat.service.ts): channels of  *)
(* one name, their members, messages with reactions, polls and read marks. No  *)
(* operation has a transaction and no table a foreign key: a request is a      *)
(* sequence of statements, which others come between and which may break off.  *)
(* The texts, files and links of a message are left out.                       *)
EXTENDS Integers, Sequences, FiniteSets

CONSTANTS
    Colleagues, Admins,      \* of one organization, and those with organization-wide access
    Tabs, UserOf,       \* a user may have several requests under way
    PollChoices,        \* the options of a poll
    Stated,     \* what the metadata of a client's body may say of a message's reactions
    MaxChannels, MaxMessages, MaxPolls   \* bounds: rows ever created

ASSUME ChatAssumption ==
    /\ Admins \subseteq Colleagues /\ UserOf \in [Tabs -> Colleagues] /\ Stated \subseteq SUBSET Colleagues
    /\ MaxChannels \in Nat /\ MaxMessages \in Nat /\ MaxPolls \in Nat

VARIABLES
    channels, messages, polls,  \* rows in the order of their creation
    members,    \* chat_channel_members: (channel, user) to a row
    reads,      \* chat_message_reads: (message, user)
    votes,      \* chat_poll_votes: (poll, option, user)
    calls,      \* channels with a chat_call_sessions row; no code ends or deletes one
    handler,    \* what the request of each tab is about to do
    \* History.
    toggled,    \* (message, user): the reaction was stated, or clicked, and not clicked away since
    edited,     \* messages edited while nobody else was writing
    mixed,      \* (message, user): the reaction was written while somebody else was about to write
    doubled,    \* (poll, user) with two votes under way at once
    raced,      \* channels where a deletion overlapped what it deletes
    broken      \* channels whose creation or deletion broke off

chatVars == <<channels, messages, polls, members, reads, votes, calls, handler,
              toggled, edited, mixed, doubled, raced, broken>>
rows == <<channels, messages, polls, members, reads, votes, calls>>
clicks == <<toggled, edited, mixed>>

ChannelIds == 1..MaxChannels
NotMember == [role |-> "none"]
Roles == {"member", "moderator", "owner"}
ChannelRow == [state: {"kept", "gone"}, by: Colleagues, last: 0..MaxMessages]
\* lastRead is no foreign key: it may point to a message that is gone.
MemberRow == [role: Roles, lastRead: 0..MaxMessages]
\* metadata is one column: the reactions of everybody and edited_at.
MessageRow == [state: {"kept", "gone"}, channel: ChannelIds, sender: Colleagues,
               reactions: SUBSET Colleagues, editedAt: BOOLEAN]
PollRow == [state: {"kept", "gone"}, channel: ChannelIds, multiple: BOOLEAN,
            options: SUBSET PollChoices, expired: BOOLEAN]

StillThere(table, id) == id \in DOMAIN table /\ table[id].state = "kept"
Drop(table, c) ==
    [id \in DOMAIN table |-> IF table[id].channel = c THEN [table[id] EXCEPT !.state = "gone"] ELSE table[id]]

Quiet == [op |-> "rest"]
Me(t) == UserOf[t]

\* What a step shows of requests that overlap: Proceed leaves tab t with the work it has next.
Writing(work, m) == work.op \in {"react", "edit"} /\ work.message = m
Voting(t, work) == IF work.op \in {"clear", "vote"} THEN {<<work.poll, Me(t)>>} ELSE {}
DeletesChannel(work, c) == work.op = "drop" /\ work.channel = c
Touches(work, c) == work.op \notin {"rest", "drop", "create", "own", "add"} /\ work.channel = c
Races(x, y, c) ==
    \/ DeletesChannel(x, c) /\ Touches(y, c)
    \/ x.op \in {"unread", "unsend"} /\ y.op \in {"point", "read"} /\ x.message = y.message /\ x.channel = c
Proceed(t, work) ==
    /\ handler' = [handler EXCEPT ![t] = work]
    /\ doubled' = doubled \cup UNION {Voting(t, work) \cap Voting(s, handler[s]) : s \in Tabs \ {t}}
    /\ raced' = raced \cup {c \in ChannelIds :
                              \E s \in Tabs \ {t} : Races(work, handler[s], c) \/ Races(handler[s], work, c)}
Answered(t) == Proceed(t, Quiet)

ChatInit ==
    /\ channels = <<>> /\ messages = <<>> /\ polls = <<>>
    /\ members = [r \in ChannelIds \X Colleagues |-> NotMember]
    /\ reads = {} /\ votes = {} /\ calls = {} /\ handler = [t \in Tabs |-> Quiet]
    /\ toggled = {} /\ edited = {} /\ mixed = {} /\ doubled = {} /\ raced = {} /\ broken = {}

--------------------------------------------------------------------------------
\* Channels and members.

IsMember(c, u) == members[<<c, u>>] # NotMember
Access(c, u) == StillThere(channels, c) /\ (u \in Admins \/ IsMember(c, u))
\* An administrator is let through before the channel is looked for.
MayManage(c, u) == u \in Admins \/ (IsMember(c, u) /\ members[<<c, u>>].role \in {"owner", "moderator"})
NameTaken == \E c \in DOMAIN channels : StillThere(channels, c)

\* A step that begins a request: the checks, and what is read for later.
Begin(t, work) == handler[t] = Quiet /\ Proceed(t, work) /\ UNCHANGED <<rows, clicks, broken>>

BeginCreate(t) == ~NameTaken /\ Begin(t, [op |-> "create"])

InsertChannel(t) ==
    /\ handler[t].op = "create"
    /\ IF NameTaken THEN UNCHANGED channels /\ Answered(t)                   \* the unique index refuses it
       ELSE /\ Len(channels) < MaxChannels
            /\ channels' = Append(channels, [state |-> "kept", by |-> Me(t), last |-> 0])
            /\ Proceed(t, [op |-> "own", channel |-> Len(channels')])
    /\ UNCHANGED <<messages, polls, members, reads, votes, calls, clicks, broken>>

\* Fails, and leaves the channel without an owner, when the creator was added meanwhile.
InsertOwner(t) ==
    /\ handler[t].op = "own"
    /\ LET c == handler[t].channel IN
       IF IsMember(c, Me(t)) THEN broken' = broken \cup {c} /\ UNCHANGED members
       ELSE members' = [members EXCEPT ![<<c, Me(t)>>] = [role |-> "owner", lastRead |-> 0]] /\ UNCHANGED broken
    /\ Answered(t)
    /\ UNCHANGED <<channels, messages, polls, reads, votes, calls, clicks>>

BeginAddMember(t, c, u, role) ==
    /\ MayManage(c, Me(t))
    /\ Begin(t, [op |-> "add", channel |-> c, user |-> u, role |-> role])

InsertMember(t) ==
    /\ handler[t].op = "add"
    /\ LET work == handler[t] IN
       members' = IF IsMember(work.channel, work.user) THEN members
                  ELSE [members EXCEPT ![<<work.channel, work.user>>] = [role |-> work.role, lastRead |-> 0]]
    /\ Answered(t)
    /\ UNCHANGED <<channels, messages, polls, reads, votes, calls, clicks, broken>>

\* Faulty variant: the messages are deleted before their read marks.
TablesMessagesFirst == <<"messages", "reads", "votes", "options", "polls", "members", "channel">>
Tables == <<"reads", "votes", "options", "polls", "messages", "members", "channel">>
BeginDeleteChannel(t, c) ==
    /\ StillThere(channels, c) /\ (channels[c].by = Me(t) \/ Me(t) \in Admins)
    /\ Begin(t, [op |-> "drop", channel |-> c, step |-> 1])

\* One statement of the seven.
DeleteTable(t) ==
    /\ handler[t].op = "drop"
    /\ LET c == handler[t].channel
           table == Tables[handler[t].step]
           On(row) == row.channel = c
       IN  /\ reads' = IF table # "reads" THEN reads
                       ELSE {r \in reads : ~(StillThere(messages, r[1]) /\ On(messages[r[1]]))}
           /\ votes' = IF table # "votes" THEN votes
                       ELSE {v \in votes : ~(StillThere(polls, v[1]) /\ On(polls[v[1]]))}
           /\ polls' = IF table = "polls" THEN Drop(polls, c)
                       ELSE IF table # "options" THEN polls
                       ELSE [p \in DOMAIN polls |-> IF On(polls[p]) /\ StillThere(polls, p)
                                                    THEN [polls[p] EXCEPT !.options = {}] ELSE polls[p]]
           /\ messages' = IF table = "messages" THEN Drop(messages, c) ELSE messages
           /\ members' = IF table # "members" THEN members
                         ELSE [r \in DOMAIN members |-> IF r[1] = c THEN NotMember ELSE members[r]]
           /\ channels' = IF table = "channel" THEN [channels EXCEPT ![c].state = "gone"] ELSE channels
    /\ IF handler[t].step = Len(Tables) THEN Answered(t) ELSE Proceed(t, [handler[t] EXCEPT !.step = @ + 1])
    /\ UNCHANGED <<calls, clicks, broken>>

--------------------------------------------------------------------------------
\* Messages.

\* The metadata of a client's body is taken as it is. It may name reactions, or none.
Statements == {{}} \cup {{users} : users \in Stated}

\* sendMessage, sendAudioMessage, uploadAttachment: only the first takes metadata of the client.
BeginSend(t, c, given) ==
    Access(c, Me(t)) /\ Begin(t, [op |-> "send", channel |-> c, given |-> given])

\* createMessage: the message, then the time of the channel's last one. (A client may also put an
\* edited_at on what it sends, which is left out.)
InsertMessage(t) ==
    /\ handler[t].op = "send" /\ Len(messages) < MaxMessages
    /\ messages' = Append(messages, [state |-> "kept", channel |-> handler[t].channel, sender |-> Me(t),
                                     reactions |-> UNION handler[t].given, editedAt |-> FALSE])
    /\ toggled' = toggled \cup ({Len(messages')} \X UNION handler[t].given)
    /\ Proceed(t, [op |-> "touch", channel |-> handler[t].channel, message |-> Len(messages')])
    /\ UNCHANGED <<channels, polls, members, reads, votes, calls, edited, mixed, broken>>

TouchChannel(t) ==
    /\ handler[t].op = "touch"
    /\ channels' = IF StillThere(channels, handler[t].channel)
                   THEN [channels EXCEPT ![handler[t].channel].last = handler[t].message] ELSE channels
    /\ Answered(t)
    /\ UNCHANGED <<messages, polls, members, reads, votes, calls, clicks, broken>>

Found(c, m) == StillThere(messages, m) /\ messages[m].channel = c
MayChange(u, m) == messages[m].sender = u \/ u \in Admins
Metadata(m) == [reactions |-> messages[m].reactions, editedAt |-> messages[m].editedAt]

BeginReact(t, c, m) ==
    /\ Access(c, Me(t)) /\ Found(c, m)
    /\ Begin(t, [op |-> "react", channel |-> c, message |-> m, saw |-> Metadata(m), given |-> {}])

BeginEdit(t, c, m, given) ==
    /\ Access(c, Me(t)) /\ Found(c, m) /\ MayChange(Me(t), m)
    /\ Begin(t, [op |-> "edit", channel |-> c, message |-> m, saw |-> Metadata(m), given |-> given])

Toggle(users, u) == IF u \in users THEN users \ {u} ELSE users \cup {u}
ToggledMetadata(saw, u) == [saw EXCEPT !.reactions = Toggle(@, u)]
\* Faulty variant: the metadata of an edit is the client's alone.
EditedMetadataDropsRead(saw, given) == [reactions |-> UNION given, editedAt |-> TRUE]
\* The metadata that was read, under what the client's says, and edited_at.
EditedMetadata(saw, given) ==
    [reactions |-> IF given = {} THEN saw.reactions ELSE UNION given, editedAt |-> TRUE]

\* The reactions of message m that a request is to set.
Sets(t, m) ==
    LET work == handler[t] IN
    IF work.op = "react" THEN {<<m, Me(t)>>} ELSE IF work.given = {} THEN {} ELSE {m} \X Colleagues
NowToggled(t, m) ==
    LET work == handler[t] IN
    IF work.op = "react" THEN Toggle(toggled, <<m, Me(t)>>)
    ELSE (toggled \ Sets(t, m)) \cup ({m} \X UNION work.given)

\* The whole column is written from what was read.
WriteMetadata(t) ==
    /\ handler[t].op \in {"react", "edit"}
    /\ LET work == handler[t]
           m == work.message
           isEdit == work.op = "edit"
           metadata == IF isEdit THEN EditedMetadata(work.saw, work.given) ELSE ToggledMetadata(work.saw, Me(t))
           overlapped == \E s \in Tabs \ {t} : Writing(handler[s], m)
       IN  /\ messages' = IF ~StillThere(messages, m) THEN messages
                          ELSE [messages EXCEPT ![m].reactions = metadata.reactions,
                                                ![m].editedAt = metadata.editedAt]
           /\ toggled' = NowToggled(t, m)
           /\ mixed' = IF overlapped THEN mixed \cup Sets(t, m) ELSE mixed
           /\ edited' = IF isEdit /\ ~overlapped THEN edited \cup {m} ELSE edited
    /\ Answered(t)
    /\ UNCHANGED <<channels, polls, members, reads, votes, calls, broken>>

BeginRead(t, c, m) ==
    /\ Access(c, Me(t)) /\ Found(c, m)
    /\ Begin(t, [op |-> "point", channel |-> c, message |-> m])

\* markMessageRead: the pointer of a member, then the mark.
PointRead(t) ==
    /\ handler[t].op = "point"
    /\ LET c == handler[t].channel IN
       members' = IF IsMember(c, Me(t)) THEN [members EXCEPT ![<<c, Me(t)>>].lastRead = handler[t].message] ELSE members
    /\ Proceed(t, [handler[t] EXCEPT !.op = "read"])
    /\ UNCHANGED <<channels, messages, polls, reads, votes, calls, clicks, broken>>

InsertRead(t) ==
    /\ handler[t].op = "read"
    /\ reads' = reads \cup {<<handler[t].message, Me(t)>>} /\ Answered(t)
    /\ UNCHANGED <<channels, messages, polls, members, votes, calls, clicks, broken>>

BeginDeleteMessage(t, c, m) ==
    /\ Access(c, Me(t)) /\ Found(c, m) /\ MayChange(Me(t), m)
    /\ Begin(t, [op |-> "unread", channel |-> c, message |-> m])

DeleteReads(t) ==
    /\ handler[t].op = "unread"
    /\ reads' = {r \in reads : r[1] # handler[t].message}
    /\ Proceed(t, [handler[t] EXCEPT !.op = "unsend"])
    /\ UNCHANGED <<channels, messages, polls, members, votes, calls, clicks, broken>>

DeleteMessage(t) ==
    /\ handler[t].op = "unsend"
    /\ messages' = [messages EXCEPT ![handler[t].message].state = "gone"] /\ Answered(t)
    /\ UNCHANGED <<channels, polls, members, reads, votes, calls, clicks, broken>>

--------------------------------------------------------------------------------
\* Polls and calls.

BeginPoll(t, c, multiple) ==
    /\ Access(c, Me(t)) /\ Begin(t, [op |-> "poll", channel |-> c, multiple |-> multiple])

InsertPoll(t) ==
    /\ handler[t].op = "poll" /\ Len(polls) < MaxPolls
    /\ polls' = Append(polls, [state |-> "kept", channel |-> handler[t].channel,
                               multiple |-> handler[t].multiple, options |-> {}, expired |-> FALSE])
    /\ Proceed(t, [op |-> "options", channel |-> handler[t].channel, poll |-> Len(polls')])
    /\ UNCHANGED <<channels, messages, members, reads, votes, calls, clicks, broken>>

InsertOptions(t) ==
    /\ handler[t].op = "options"
    /\ polls' = [polls EXCEPT ![handler[t].poll].options = PollChoices]
    /\ Proceed(t, [op |-> "send", channel |-> handler[t].channel, given |-> {}])
    /\ UNCHANGED <<channels, messages, members, reads, votes, calls, clicks, broken>>

\* ends_at passes. is_closed is read, but no code sets it.
PollExpires(p) ==
    /\ StillThere(polls, p) /\ ~polls[p].expired /\ polls' = [polls EXCEPT ![p].expired = TRUE]
    /\ UNCHANGED <<channels, messages, members, reads, votes, calls, handler, clicks, doubled, raced, broken>>

BeginVote(t, c, p, o) ==
    /\ Access(c, Me(t)) /\ StillThere(polls, p) /\ polls[p].channel = c /\ ~polls[p].expired /\ o \in polls[p].options
    /\ Begin(t, [op |-> IF polls[p].multiple THEN "vote" ELSE "clear", channel |-> c, poll |-> p, option |-> o])

ClearVotes(t) ==
    /\ handler[t].op = "clear"
    /\ votes' = {v \in votes : v[1] # handler[t].poll \/ v[3] # Me(t)}
    /\ Proceed(t, [handler[t] EXCEPT !.op = "vote"])
    /\ UNCHANGED <<channels, messages, polls, members, reads, calls, clicks, broken>>

InsertVote(t) ==
    /\ handler[t].op = "vote"
    /\ votes' = votes \cup {<<handler[t].poll, handler[t].option, Me(t)>>} /\ Answered(t)
    /\ UNCHANGED <<channels, messages, polls, members, reads, calls, clicks, broken>>

BeginCall(t, c) == Access(c, Me(t)) /\ Begin(t, [op |-> "call", channel |-> c])

InsertCall(t) ==
    /\ handler[t].op = "call"
    /\ calls' = calls \cup {handler[t].channel} /\ Proceed(t, [op |-> "send", channel |-> handler[t].channel, given |-> {}])
    /\ UNCHANGED <<channels, messages, polls, members, reads, votes, clicks, broken>>

\* The process stops, or the database refuses a statement: what was written stays.
LoseRequest(t) ==
    /\ handler[t].op # "rest"
    /\ broken' = IF handler[t].op \in {"own", "drop"} THEN broken \cup {handler[t].channel} ELSE broken
    /\ Answered(t) /\ UNCHANGED <<rows, clicks>>

--------------------------------------------------------------------------------
\* Requests of the three kinds, by whom they concern.
Manage(t) ==
    \/ BeginCreate(t) \/ InsertChannel(t) \/ InsertOwner(t)
    \/ \E c \in DOMAIN channels, u \in Colleagues, role \in {"member", "moderator"} : BeginAddMember(t, c, u, role)
    \/ InsertMember(t)
    \/ \E c \in DOMAIN channels : BeginDeleteChannel(t, c)
    \/ DeleteTable(t) \/ LoseRequest(t)

Talk(t) ==
    \/ \E c \in DOMAIN channels, given \in Statements : BeginSend(t, c, given)
    \/ InsertMessage(t) \/ TouchChannel(t)
    \/ \E c \in DOMAIN channels, m \in DOMAIN messages :
          \/ BeginReact(t, c, m) \/ BeginRead(t, c, m) \/ BeginDeleteMessage(t, c, m)
          \/ \E given \in Statements : BeginEdit(t, c, m, given)
    \/ WriteMetadata(t) \/ PointRead(t) \/ InsertRead(t) \/ DeleteReads(t) \/ DeleteMessage(t)

AskChannel(t) ==
    \/ \E c \in DOMAIN channels : BeginCall(t, c) \/ \E multiple \in BOOLEAN : BeginPoll(t, c, multiple)
    \/ InsertPoll(t) \/ InsertOptions(t) \/ InsertMessage(t) \/ TouchChannel(t) \/ InsertCall(t)
    \/ \E c \in DOMAIN channels, p \in DOMAIN polls, o \in PollChoices : BeginVote(t, c, p, o)
    \/ ClearVotes(t) \/ InsertVote(t)

ChatNext ==
    \/ \E t \in Tabs : Manage(t) \/ Talk(t) \/ AskChannel(t)
    \/ \E p \in DOMAIN polls : PollExpires(p)
ChatSpec == ChatInit /\ [][ChatNext]_chatVars

--------------------------------------------------------------------------------
ChatTypeOK ==
    /\ channels \in Seq(ChannelRow) /\ messages \in Seq(MessageRow) /\ polls \in Seq(PollRow)
    /\ members \in [ChannelIds \X Colleagues -> MemberRow \cup {NotMember}]
    /\ reads \subseteq (1..MaxMessages) \X Colleagues /\ votes \subseteq (1..MaxPolls) \X PollChoices \X Colleagues
    /\ calls \subseteq ChannelIds /\ DOMAIN handler = Tabs

\* A person has one vote in a single-choice poll, unless two of their votes were under way at once
\* (both clear, both insert: the unique index is per option).
OneVoteEach ==
    \A p \in DOMAIN polls, u \in Colleagues :
        ~polls[p].multiple /\ <<p, u>> \notin doubled => Cardinality({v \in votes : v[1] = p /\ v[3] = u}) <= 1

\* Whether a person's reaction shows is what was last stated of it, turned by their clicks since, whoever else
\* reacted or edited meanwhile and however their writes overlapped, unless it was written while somebody else
\* was about to write. An edit that nobody else's write overlapped shows for good.
ReactionsFollowClicks ==
    \A m \in DOMAIN messages : messages[m].state = "kept" =>
        /\ \A u \in Colleagues : <<m, u>> \notin mixed => (u \in messages[m].reactions <=> <<m, u>> \in toggled)
        /\ m \in edited => messages[m].editedAt

\* Rows are well formed; clicks are kept as they were made: votes and reactions.
ClicksAreKept == ChatTypeOK /\ OneVoteEach /\ ReactionsFollowClicks

\* Nothing outlives what it belongs to without a foreign key to say so: of a deleted channel no message, poll,
\* option or vote is left, and of a deleted message no read mark, however often a deletion broke off
\* and was asked for again, unless a request on the same channel or message overlapped it.
LeftoversWereRaced ==
    \A c \in DOMAIN channels \ raced :
        /\ channels[c].state = "gone" =>
             /\ \A m \in DOMAIN messages : messages[m].channel = c => messages[m].state = "gone"
             /\ \A p \in DOMAIN polls : polls[p].channel = c => polls[p].state = "gone" /\ polls[p].options = {}
             /\ \A v \in votes : polls[v[1]].channel # c
        /\ \A r \in reads : messages[r[1]].channel = c => messages[r[1]].state = "kept"

\* The creator of a channel is its owner from the end of the creation to the deletion, whoever is
\* added meanwhile, unless one of the two broke off half-way.
CreatorOwns ==
    \A c \in DOMAIN channels :
        \/ c \in broken \/ channels[c].state = "gone"
        \/ \E t \in Tabs : handler[t].op \in {"own", "drop"} /\ handler[t].channel = c
        \/ members[<<c, channels[c].by>>] # NotMember /\ members[<<c, channels[c].by>>].role = "owner"

\* Requests in several statements leave whole channels behind, made or deleted.
ChannelsAreWhole == LeftoversWereRaced /\ CreatorOwns
================================================================================
