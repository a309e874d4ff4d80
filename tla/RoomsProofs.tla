----------------------------- MODULE RoomsProofs -----------------------------
(***************************************************************************)
(* WebSocketHub implements Rooms: every step of the hub is one step of the *)
(* rooms, as RoomService sees them, or changes none of what they show.     *)
(***************************************************************************)
EXTENDS WebSocketHubProofs

USE DEF clientVars, endpointVars, managerVars, redisVars, readerVars

\* The connections, and the chats left without a word, as RoomService gives them to Rooms.
Client == [s \in Socket |-> ClientState(s)]

LeftChat(s) == IF pc[s] = "offline" THEN {op[s].chat} ELSE {}

Parting == [s \in Socket |-> LeftChat(s)]

\* Where an endpoint serves its connection, as far as it knows.
Serving == {"opening", "joining", "subscribing", "ready", "storing", "publishing", "notifying"}

RoomsView == <<Client, members, Parting, published, heard>>

\* The substitution of RoomService, with the names of this module.
LEMMA ViewIsTheRooms == RoomsView = RoomService!vars /\ RoomsView' = (RoomService!vars)'
BY DEF RoomsView, RoomService!vars, Client, Parting, LeftChat

\* A hub nobody has connected to is a house of empty rooms.
LEMMA InitRooms ==
  ASSUME Init
  PROVE  RoomService!Init
BY DEF Init, RoomService!Init, ClientState

-----------------------------------------------------------------------------
(***************************************************************************)
(* What a step of one coroutine shows.                                     *)
(***************************************************************************)

\* A step that leaves the other coroutines and clients alone changes one connection at most.
LEMMA OneConnection ==
  ASSUME NEW s \in Socket,
         \A t \in Socket \ {s} : pc'[t] = pc[t] /\ op'[t] = op[t] /\ (t \in open' <=> t \in open)
  PROVE  /\ Client' = [Client EXCEPT ![s] = ClientState(s)']
         /\ Parting' = [Parting EXCEPT ![s] = LeftChat(s)']
<1>1. \A t \in Socket \ {s} : ClientState(t)' = ClientState(t) /\ LeftChat(t)' = LeftChat(t)
  BY DEF ClientState, LeftChat
<1> QED
  BY <1>1 DEF Client, Parting

\* A coroutine that goes on serving shows nothing by it.
LEMMA StillServing ==
  ASSUME NEW s \in Socket, open' = open, pc[s] \in Serving, pc'[s] \in Serving,
         \A t \in Socket \ {s} : pc'[t] = pc[t] /\ op'[t] = op[t]
  PROVE  Client' = Client /\ Parting' = Parting /\ Client[s] \in {"here", "away"}
<1>1. /\ ClientState(s)' = ClientState(s) /\ ClientState(s) \in {"here", "away"}
      /\ LeftChat(s)' = {} /\ LeftChat(s) = {}
  BY DEF Serving, ClientState, LeftChat
<1>2. \A t \in Socket \ {s} : ClientState(t)' = ClientState(t) /\ LeftChat(t)' = LeftChat(t)
  BY DEF ClientState, LeftChat
<1> QED
  BY <1>1, <1>2 DEF Client, Parting

\* Steps that show nothing.
LEMMA NothingSeen ==
  ASSUME UNCHANGED <<Client, Parting, members, published, heard>>
  PROVE  [RoomService!Next]_(RoomService!vars)
BY ViewIsTheRooms DEF RoomsView

\* An exception loses the connection wherever the coroutine was.
LEMMA CrashLoses ==
  ASSUME TypeOK, NEW s \in Socket, Crash(s), pc[s] \notin {"closed", "gone", "crashed"}
  PROVE  RoomService!Lose(s)
<1>1. /\ pc' = [pc EXCEPT ![s] = "crashed"] /\ open' = open \ {s}
      /\ UNCHANGED <<op, members, published, heard>>
  BY DEF Crash
<1>2. ClientState(s)' = "lost" /\ LeftChat(s)' = {}
  BY <1>1 DEF ClientState, LeftChat, TypeOK
<1>3. Client' = [Client EXCEPT ![s] = "lost"] /\ Parting' = [Parting EXCEPT ![s] = {}]
  <2>1. \A t \in Socket \ {s} : pc'[t] = pc[t] /\ op'[t] = op[t] /\ (t \in open' <=> t \in open)
    BY <1>1 DEF TypeOK
  <2> QED
    BY <1>2, <2>1, OneConnection
<1>4. Client[s] \in {"here", "away", "leaving"}
  BY DEF Client, ClientState, TypeOK, Location
<1> QED
  BY <1>1, <1>3, <1>4 DEF RoomService!Lose, RoomService!Becomes, Client, Parting, LeftChat

\* add_user_to_chat brings the socket into the room, if it is not there already.
LEMMA AddUserToChatEnters ==
  ASSUME TypeOK, NEW s \in Socket, NEW c \in Chat, NEW next \in {"joining", "storing", "publishing"},
         AddUserToChat(s, c, next), pc[s] \in Serving, UNCHANGED <<open, published, heard>>
  PROVE  [RoomService!Next]_(RoomService!vars)
<1>1. members' = [members EXCEPT ![c] = @ \cup {s}]
  BY AddUserToChatMembers
<1>2. pc'[s] \in Serving
  BY AddUserToChatLands DEF Serving
<1>3. \A t \in Socket \ {s} : pc'[t] = pc[t] /\ op'[t] = op[t]
  BY DEF AddUserToChat, TypeOK
<1>4. Client' = Client /\ Parting' = Parting /\ Client[s] \in {"here", "away"}
  BY <1>2, <1>3, StillServing
<1>5. CASE s \in members[c]
  <2>1. members' = members
    BY <1>1, <1>5 DEF TypeOK
  <2> QED
    BY <1>4, <2>1, NothingSeen
<1>6. CASE s \notin members[c]
  <2>1. RoomService!Enter(s, c)
    BY <1>1, <1>4, <1>6 DEF RoomService!Enter, Client, Parting, LeftChat
  <2> QED
    BY <2>1 DEF RoomService!Next
<1> QED
  BY <1>5, <1>6

\* broadcast_to_chat posts to the room of the chat.
LEMMA PublishPosts ==
  ASSUME IInv, NEW s \in Socket, Publish(s)
  PROVE  \E c \in Chat : RoomService!Post(s, c)
<1> DEFINE c == op[s].chat
<1>1. TypeOK /\ MembersAreJoined /\ ClientOK(s) /\ EndpointOK(s)
  BY DEF IInv
<1>2. /\ pc[s] = "publishing"
      /\ published' = Append(published, c)
      /\ UNCHANGED <<open, members, heard>>
      /\ \E next \in {"publishing", "notifying", "ready"} :
            /\ pc' = [pc EXCEPT ![s] = next]
            /\ op' = IF next = "ready" THEN [op EXCEPT ![s] = Idle] ELSE op
  BY DEF Publish, Broadcast
<1>3. c \in chats[s] /\ c \in Chat
  BY <1>1, <1>2 DEF ClientOK, TypeOK
<1>4. s \in members[c]
  BY <1>1, <1>2, <1>3 DEF MembersAreJoined, Joined, EndpointOK
<1>5. pc'[s] \in Serving /\ \A t \in Socket \ {s} : pc'[t] = pc[t] /\ op'[t] = op[t]
  BY <1>1, <1>2 DEF Serving, TypeOK
<1>6. Client' = Client /\ Parting' = Parting /\ Client[s] \in {"here", "away"}
  BY <1>2, <1>5, StillServing DEF Serving
<1> QED
  BY <1>2, <1>3, <1>4, <1>6 DEF RoomService!Post, Client, Parting, LeftChat

\* The cleanup leaves one room after the other.
LEMMA LeaveChatLeaves ==
  ASSUME IInv, NEW s \in Socket, NEW c \in Chat, LeaveChat(s, c)
  PROVE  RoomService!Leave(s, c)
<1>1. TypeOK /\ MembersAreJoined
  BY DEF IInv
<1>2. /\ pc[s] = "leaving" /\ c \in todo[s]
      /\ members' = [members EXCEPT ![c] = @ \ {s}]
      /\ pc' = [pc EXCEPT ![s] = "offline"]
      /\ op' = [op EXCEPT ![s] = Call(c, 0, "leaving")]
      /\ UNCHANGED <<open, published, heard>>
  BY DEF LeaveChat, RemoveUserFromChat, MembersWithout
<1>3. s \in members[c]
  BY <1>1, <1>2 DEF MembersAreJoined, Joined
<1>4. /\ ClientState(s) = "leaving" /\ ClientState(s)' = "leaving"
      /\ LeftChat(s) = {} /\ LeftChat(s)' = {c}
  BY <1>1, <1>2 DEF ClientState, LeftChat, Call, TypeOK
<1>5. /\ Client' = [Client EXCEPT ![s] = "leaving"]
      /\ Parting' = [Parting EXCEPT ![s] = {c}]
  BY <1>1, <1>2, <1>4, OneConnection DEF TypeOK
<1>6. Client' = Client /\ Client[s] = "leaving" /\ Parting[s] = {}
  BY <1>4, <1>5 DEF Client, Parting
<1> QED
  BY <1>2, <1>3, <1>5, <1>6 DEF RoomService!Leave, Client, Parting, LeftChat

\* mark_user_as_offline tells the room that was left last.
LEMMA PublishOfflineTakesLeave ==
  ASSUME IInv, NEW s \in Socket, PublishOffline(s)
  PROVE  \E c \in Chat : RoomService!TakeLeave(s, c)
<1>1. TypeOK /\ ClientOK(s)
  BY DEF IInv
<1>2. /\ pc[s] = "offline"
      /\ published' = Append(published, op[s].chat)
      /\ pc' = [pc EXCEPT ![s] = "leaving"]
      /\ op' = [op EXCEPT ![s] = Idle]
      /\ UNCHANGED <<open, members, heard>>
  BY DEF PublishOffline, Broadcast
<1>3. /\ ClientState(s) = "leaving" /\ ClientState(s)' = "leaving"
      /\ LeftChat(s) = {op[s].chat} /\ LeftChat(s)' = {}
  BY <1>1, <1>2 DEF ClientState, LeftChat, TypeOK
<1>4. Client' = [Client EXCEPT ![s] = "leaving"] /\ Parting' = [Parting EXCEPT ![s] = {}]
  BY <1>1, <1>2, <1>3, OneConnection DEF TypeOK
<1>5. Client' = Client /\ Parting[s] = {op[s].chat}
  BY <1>3, <1>4 DEF Client, Parting
<1>6. op[s].chat \in Chat
  BY <1>1, <1>2 DEF ClientOK
<1> QED
  BY <1>2, <1>4, <1>5, <1>6 DEF RoomService!TakeLeave, Client, Parting, LeftChat

\* The coroutine only returns when it has left every room.
LEMMA FinishEnds ==
  ASSUME IInv, NEW s \in Socket, Finish(s)
  PROVE  RoomService!End(s)
<1>1. TypeOK /\ MembersAreJoined
  BY DEF IInv
<1>2. /\ pc[s] = "leaving" /\ todo[s] = {}
      /\ pc' = [pc EXCEPT ![s] = "gone"]
      /\ UNCHANGED <<open, op, members, published, heard>>
  BY DEF Finish
<1>3. \A c \in Chat : s \notin members[c]
  BY <1>1, <1>2 DEF MembersAreJoined, Joined
<1>4. /\ ClientState(s) = "leaving" /\ ClientState(s)' = "gone"
      /\ LeftChat(s) = {} /\ LeftChat(s)' = {}
  BY <1>1, <1>2 DEF ClientState, LeftChat, TypeOK
<1>5. Client' = [Client EXCEPT ![s] = "gone"] /\ Parting' = [Parting EXCEPT ![s] = {}]
  BY <1>1, <1>2, <1>4, OneConnection DEF TypeOK
<1>6. Client[s] = "leaving" /\ Parting[s] = {} /\ Parting' = Parting
  BY <1>4, <1>5 DEF Client, Parting
<1> QED
  BY <1>2, <1>3, <1>5, <1>6 DEF RoomService!End, RoomService!Becomes, Client, Parting, LeftChat

\* A connection is accepted, closed by its client, and missed by the server.
LEMMA ConnectionMoves ==
  ASSUME IInv, NEW s \in Socket
  PROVE  /\ Accept(s) => RoomService!Come(s)
         /\ ClientCloses(s) => RoomService!Go(s)
         /\ Disconnect(s) => RoomService!Notice(s)
<1>1. TypeOK /\ ClientOK(s)
  BY DEF IInv
<1> USE <1>1
<1>2. ASSUME NEW from, NEW to, ClientState(s) = from, ClientState(s)' = to,
             LeftChat(s)' = LeftChat(s), UNCHANGED <<op, members, published, heard>>,
             \A t \in Socket \ {s} : pc'[t] = pc[t] /\ (t \in open' <=> t \in open)
      PROVE  /\ RoomService!Becomes(s, {from}, to)
             /\ Parting' = Parting
             /\ UNCHANGED <<members, published, heard>>
  <2>1. Client' = [Client EXCEPT ![s] = to] /\ Parting' = [Parting EXCEPT ![s] = LeftChat(s)']
    BY <1>2, OneConnection
  <2>2. Client[s] = from /\ Parting' = Parting
    BY <1>2, <2>1 DEF Client, Parting
  <2> QED
    BY <1>2, <2>1, <2>2 DEF RoomService!Becomes, Client
<1>3. ASSUME Accept(s) PROVE RoomService!Come(s)
  <2>1. /\ ClientState(s) = "new" /\ ClientState(s)' = "here" /\ LeftChat(s)' = LeftChat(s)
        /\ UNCHANGED <<op, members, published, heard>>
        /\ \A t \in Socket \ {s} : pc'[t] = pc[t] /\ (t \in open' <=> t \in open)
    BY <1>3 DEF Accept, ClientState, LeftChat, TypeOK
  <2> QED
    BY <1>2, <2>1 DEF RoomService!Come, Parting, LeftChat
<1>4. ASSUME ClientCloses(s) PROVE RoomService!Go(s)
  <2>1. pc[s] \in Serving /\ s \in open /\ open' = open \ {s} /\ pc' = pc
    BY <1>4 DEF ClientCloses, ClientOK, Noticed, Serving, TypeOK, Location
  <2>2. /\ ClientState(s) = "here" /\ ClientState(s)' = "away" /\ LeftChat(s)' = LeftChat(s)
        /\ UNCHANGED <<op, members, published, heard>>
        /\ \A t \in Socket \ {s} : pc'[t] = pc[t] /\ (t \in open' <=> t \in open)
    BY <1>4, <2>1 DEF ClientCloses, ClientState, LeftChat, Serving
  <2> QED
    BY <1>2, <2>2 DEF RoomService!Go, Parting, LeftChat
<1>5. ASSUME Disconnect(s) PROVE RoomService!Notice(s)
  <2>1. /\ ClientState(s) = "away" /\ ClientState(s)' = "leaving" /\ LeftChat(s)' = LeftChat(s)
        /\ UNCHANGED <<op, members, published, heard>>
        /\ \A t \in Socket \ {s} : pc'[t] = pc[t] /\ (t \in open' <=> t \in open)
    BY <1>5 DEF Disconnect, Disconnected, ClientState, LeftChat, TypeOK
  <2> QED
    BY <1>2, <2>1 DEF RoomService!Notice, Parting, LeftChat
<1> QED
  BY <1>3, <1>4, <1>5

\* What a reader sends is heard in the room it was posted to, in order.
LEMMA ReaderHears ==
  ASSUME IInv, NEW p \in PubSub, ReaderStep(p) \/ ReaderCollides(p) \/ ReaderFails(p)
  PROVE  [RoomService!Next]_(RoomService!vars)
<1>1. UNCHANGED <<pc, op, open, members, published>>
  BY ReaderSends
<1>2. Client' = Client /\ Parting' = Parting
  BY <1>1 DEF Client, ClientState, Parting, LeftChat
<1>3. CASE heard' = heard
  BY <1>1, <1>2, <1>3, NothingSeen
<1>4. CASE heard' # heard
  <2>1. PICK m \in DOMAIN published : Carries(p, m)
    BY <1>4, ReaderSends
  <2>2. PICK s \in Socket : /\ s \in open
                            /\ s \in members[published[m]]
                            /\ heard[s][p] < m
                            /\ heard' = [heard EXCEPT ![s][p] = m]
    BY <1>4, <2>1 DEF Carries, Sends
  <2>3. Client[s] = "here"
    <3>1. ClientOK(s) /\ pc[s] \in Location
      BY DEF IInv, TypeOK
    <3>2. pc[s] \notin {"closed", "leaving", "offline", "gone", "crashed"}
      BY <2>2, <3>1 DEF ClientOK, Noticed
    <3> QED
      BY <2>2, <3>2 DEF Client, ClientState
  <2>4. \A t \in Socket : heard[t][p] # 0 =>
           heard[t][p] <= m /\ published[heard[t][p]] = published[m]
    BY <2>1, CarriedParts DEF Carries, HeardCarried
  <2>5. RoomService!Hear(s, p, m)
    BY <1>1, <1>2, <2>2, <2>3, <2>4 DEF RoomService!Hear, Client, Parting, LeftChat
  <2> QED
    BY <2>5 DEF RoomService!Next
<1> QED
  BY <1>3, <1>4

-----------------------------------------------------------------------------
(***************************************************************************)
(* The refinement.                                                         *)
(***************************************************************************)

\* Every step of the hub is a step of the rooms, or shows nothing.
LEMMA RoomsStep ==
  ASSUME IInv, [Next]_vars
  PROVE  [RoomService!Next]_(RoomService!vars)
<1> DEFINE Seen == [RoomService!Next]_(RoomService!vars)
<1> SUFFICES Seen
  OBVIOUS
<1>1. TypeOK /\ \A s \in Socket : EndpointOK(s) /\ ClientOK(s)
  BY DEF IInv
<1>2. ASSUME NEW s \in Socket, pc[s] \in Serving, pc'[s] \in Serving,
             \A t \in Socket \ {s} : pc'[t] = pc[t] /\ op'[t] = op[t],
             UNCHANGED <<open, members, published, heard>>
      PROVE  Seen
  BY <1>2, StillServing, NothingSeen
<1>3. ASSUME NEW s \in Socket, Crash(s), pc[s] \notin {"closed", "gone", "crashed"} PROVE Seen
  <2>1. RoomService!Lose(s)
    BY <1>1, <1>3, CrashLoses
  <2> QED
    BY <2>1 DEF RoomService!Next
<1>4. ASSUME NEW s \in Socket, pc[s] \in {"ready", "storing", "notifying"}, NEW targets, SendDirectly(s, targets)
      PROVE  Seen
  <2>1. CASE ~ Crash(s)
    <3>1. pc' = [pc EXCEPT ![s] = "ready"] /\ op' = [op EXCEPT ![s] = Idle]
          /\ UNCHANGED <<open, members, published, heard>>
      BY <1>4, <2>1 DEF SendDirectly
    <3>2. pc'[s] \in Serving /\ \A t \in Socket \ {s} : pc'[t] = pc[t] /\ op'[t] = op[t]
      BY <1>1, <3>1 DEF TypeOK, Serving
    <3> QED
      BY <1>2, <1>4, <3>1, <3>2 DEF Serving
  <2> QED
    BY <1>3, <1>4, <2>1
<1>5. ASSUME NEW s \in Socket, NEW c \in Chat, NEW next \in {"storing", "publishing"},
             Handle(s, c, next), pc[s] = "ready", UNCHANGED <<open, published, heard>>
      PROVE  Seen
  <2>1. pc' = [pc EXCEPT ![s] = next] /\ op' = [op EXCEPT ![s] = Call(c, 0, next)] /\ members' = members
    BY <1>5 DEF Handle
  <2>2. pc'[s] \in Serving /\ \A t \in Socket \ {s} : pc'[t] = pc[t] /\ op'[t] = op[t]
    BY <1>1, <2>1 DEF TypeOK, Serving
  <2> QED
    BY <1>2, <1>5, <2>1, <2>2 DEF Serving
<1>a. ASSUME NEW s \in Socket, Accept(s) \/ ClientCloses(s) \/ Disconnect(s) \/ Finish(s) PROVE Seen
  <2>1. RoomService!Come(s) \/ RoomService!Go(s) \/ RoomService!Notice(s) \/ RoomService!End(s)
    BY <1>a, ConnectionMoves, FinishEnds
  <2> QED
    BY <2>1 DEF RoomService!Next
<1>b. ASSUME NEW s \in Socket, LoadChats(s) \/ StartReceiving(s) \/ Store(s) PROVE Seen
  <2>1. /\ pc[s] \in Serving /\ UNCHANGED <<open, members, published, heard>>
        /\ \E next \in Serving : pc' = [pc EXCEPT ![s] = next]
        /\ op' = op \/ op' = [op EXCEPT ![s] = Idle]
    BY <1>b DEF LoadChats, StartReceiving, Store, Serving
  <2>2. pc'[s] \in Serving /\ \A t \in Socket \ {s} : pc'[t] = pc[t] /\ op'[t] = op[t]
    BY <1>1, <2>1 DEF TypeOK
  <2> QED
    BY <1>2, <2>1, <2>2
<1>c. ASSUME NEW s \in Socket, Subscribed(s) PROVE Seen
  <2>1. /\ pc[s] = "subscribing" /\ UNCHANGED <<open, members, published, heard>>
        /\ pc' = [pc EXCEPT ![s] = op[s].next]
        /\ op' = [op EXCEPT ![s] = Call(op[s].chat, 0, op[s].next)]
    BY <1>c DEF Subscribed
  <2>2. op[s].next \in Serving
    BY <1>1, <2>1 DEF EndpointOK, Serving
  <2>3. pc'[s] \in Serving /\ \A t \in Socket \ {s} : pc'[t] = pc[t] /\ op'[t] = op[t]
    BY <1>1, <2>1, <2>2 DEF TypeOK
  <2> QED
    BY <1>2, <2>1, <2>3 DEF Serving
<1>d. ASSUME NEW s \in Socket, NEW c \in Chat, JoinNext(s, c) PROVE Seen
  BY <1>1, <1>d, AddUserToChatEnters DEF JoinNext, Serving
<1>e. ASSUME NEW s \in Socket, NEW c \in Chat, LeaveChat(s, c) PROVE Seen
  BY <1>e, LeaveChatLeaves DEF RoomService!Next
<1>f. ASSUME NEW s \in Socket, Publish(s) \/ PublishOffline(s) PROVE Seen
  <2>1. PICK c \in Chat : RoomService!Post(s, c) \/ RoomService!TakeLeave(s, c)
    BY <1>f, PublishPosts, PublishOfflineTakesLeave
  <2> QED
    BY <2>1 DEF RoomService!Next
<1>g. ASSUME NEW s \in Socket, StoreFindsNone(s) \/ NotifyFriend(s) PROVE Seen
  BY <1>4, <1>g DEF StoreFindsNone, NotifyFriend
<1>h. ASSUME NEW s \in Socket, ErrorReplyRaises(s) \/ EndpointFails(s) PROVE Seen
  BY <1>3, <1>h DEF ErrorReplyRaises, EndpointFails
<1>i. ASSUME NEW s \in Socket, NEW c \in Chat, NewMessage(s, c) PROVE Seen
  <2>1. pc[s] = "ready" /\ UNCHANGED <<open, published, heard>>
    BY <1>i DEF NewMessage, Receive
  <2>2. Handle(s, c, "storing") \/ AddUserToChat(s, c, "storing")
    BY <1>i DEF NewMessage
  <2> QED
    BY <1>1, <1>5, <2>1, <2>2, AddUserToChatEnters DEF Serving
<1>j. ASSUME NEW s \in Socket, NEW c \in Chat, MessageRead(s, c) \/ UserTyping(s, c) PROVE Seen
  BY <1>5, <1>j DEF MessageRead, UserTyping, Receive
<1>k. ASSUME NEW s \in Socket, NEW c \in Chat, AddUserToChatRequest(s, c) PROVE Seen
  BY <1>1, <1>k, AddUserToChatEnters DEF AddUserToChatRequest, Receive, Serving
<1>l. ASSUME NEW s \in Socket, NEW c \in Chat, ChatDeleted(s, c) PROVE Seen
  BY <1>4, <1>l DEF ChatDeleted
<1>m. ASSUME NEW p \in PubSub, RedisApplies(p) PROVE Seen
  <2>1. UNCHANGED <<pc, op, open, members, published, heard>>
    BY <1>m DEF RedisApplies
  <2>2. Client' = Client /\ Parting' = Parting
    BY <2>1 DEF Client, ClientState, Parting, LeftChat
  <2> QED
    BY <2>1, <2>2, NothingSeen
<1>n. ASSUME NEW p \in PubSub, ReaderStep(p) \/ ReaderCollides(p) \/ ReaderFails(p) PROVE Seen
  BY <1>n, ReaderHears
<1>o. ASSUME UNCHANGED vars PROVE Seen
  <2>1. UNCHANGED <<pc, op, open, members, published, heard>>
    BY <1>o DEF vars
  <2>2. Client' = Client /\ Parting' = Parting
    BY <2>1 DEF Client, ClientState, Parting, LeftChat
  <2> QED
    BY <2>1, <2>2, NothingSeen
<1> HIDE DEF Seen
<1>p. ASSUME NEW s \in Socket, ClientStep(s) PROVE Seen
  <2>1. CASE Request(s)
    BY <1>i, <1>j, <1>k, <1>l, <2>1 DEF Request
  <2> QED
    BY <1>a, <1>h, <1>p, <2>1 DEF ClientStep
<1>q. ASSUME NEW s \in Socket, EndpointStep(s) PROVE Seen
  BY <1>a, <1>b, <1>c, <1>d, <1>e, <1>f, <1>g, <1>q DEF EndpointStep
<1>r. CASE Next
  BY <1>h, <1>m, <1>n, <1>p, <1>q, <1>r DEF Next
<1> QED
  BY <1>o, <1>r

\* The hub keeps the promises of Rooms for every number of connections, chats and requests:
\* rooms change only as their members come and go, messages come from members, or from one
\* that takes leave, and are heard by members, in the order that they were posted.
THEOREM HubImplementsRooms == Spec => RoomsSpec
<1>1. Init => RoomService!Init
  BY InitRooms
<1>2. IInv /\ [Next]_vars => [RoomService!Next]_(RoomService!vars)
  BY RoomsStep
<1> QED
  BY <1>1, <1>2, Invariance, PTL DEF Spec, RoomsSpec, RoomService!Spec
=============================================================================
