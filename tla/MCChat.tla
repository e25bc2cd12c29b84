-------------------------------- MODULE MCChat --------------------------------
(* Instances of Chat and Presence. A run is about one desk: managing channels,  *)
(* the conversation, one that is deleted, a poll, or the gateway; the rest      *)
(* stays as it is. Ann has two tabs, the administrator one.                     *)
EXTENDS Chat, Presence, Desks

CONSTANTS ann, boss, a1, a2, b1, o1, o2

TabUser == [t \in {a1, a2, b1} |-> IF t = b1 THEN boss ELSE ann]
SocketUser == [k \in {a1, a2} |-> ann]

\* A client may erase the reactions, or put the boss's.
StatedReactions == {{}, {boss}}

\* The channel of the boss, with Ann in it.
OneChannel ==
    /\ channels = <<[state |-> "kept", by |-> boss, last |-> 0]>>
    /\ members = [r \in ChannelIds \X Colleagues |->
                    IF r[1] # 1 THEN NotMember
                    ELSE [role |-> IF r[2] = boss THEN "owner" ELSE "member", lastRead |-> 0]]
    /\ messages = <<>> /\ polls = <<>>
    /\ reads = {} /\ votes = {} /\ calls = {} /\ handler = [t \in Tabs |-> Quiet]
    /\ toggled = {} /\ edited = {} /\ mixed = {} /\ doubled = {} /\ raced = {} /\ broken = {}

Deletion(t) == (\E c \in DOMAIN channels : BeginDeleteChannel(t, c)) \/ DeleteTable(t) \/ LoseRequest(t)

MCChatInit ==
    /\ desk \in {"channels", "talk", "deletion", "poll", "gateway"}
    /\ IF desk \in {"channels", "gateway"} THEN ChatInit ELSE OneChannel
    /\ PresenceInit

MCChatNext ==
    /\ desk' = desk
    /\ \/ desk = "gateway" /\ Gateway /\ UNCHANGED chatVars
       \/ /\ UNCHANGED presenceVars
          /\ \/ desk = "channels" /\ \E t \in {a1, b1} : Manage(t)
             \/ desk = "talk" /\ \E t \in {a1, b1} : Talk(t)
             \/ desk = "deletion" /\ \E t \in {a1} : Talk(t) \/ AskChannel(t)
             \/ desk = "deletion" /\ Deletion(b1)
             \/ desk = "poll" /\ \E t \in Tabs : AskChannel(t) \/ LoseRequest(t)
             \/ desk = "poll" /\ \E p \in DOMAIN polls : PollExpires(p)
================================================================================
