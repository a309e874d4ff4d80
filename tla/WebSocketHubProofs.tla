------------------------- MODULE WebSocketHubProofs -------------------------
(***************************************************************************)
(* The safety properties of WebSocketHub for any number of sockets, chats  *)
(* and requests: IInv is inductive and implies them.                       *)
(***************************************************************************)
EXTENDS WebSocketHub, TLAPS

USE DEF clientVars, endpointVars, managerVars, redisVars, readerVars

\* A hub nobody has connected to satisfies the invariant.
THEOREM InitIInv == Init => IInv
<1> SUFFICES ASSUME Init PROVE IInv
  OBVIOUS
<1> USE HubAssumption DEF Init, PubSub
<1>1. TypeOK
  BY DEF TypeOK, Location, LinkState, Iteration, NoIteration, Loop, Operation, Idle, Call
<1>2. \A s \in Socket : EndpointOK(s)
  BY DEF EndpointOK
<1>3. CreationsApart /\ \A p \in PubSub : ReaderOK(p)
  BY DEF ReaderOK, CreationsApart
<1>4. MembersAreJoined
  BY DEF MembersAreJoined, Joined
<1>5. GoneIsForgotten
  BY DEF GoneIsForgotten
<1>6. LiveChatSubscribed
  BY DEF LiveChatSubscribed
<1>7. EachReaderInOrder
  BY DEF EachReaderInOrder
<1>8. (\A p \in PubSub : CarriedOK(p)) /\ \A s \in Socket : ClientOK(s)
  BY DEF CarriedOK, ClientOK, Noticed
<1> QED
  BY <1>1, <1>2, <1>3, <1>4, <1>5, <1>6, <1>7, <1>8 DEF IInv

-----------------------------------------------------------------------------
(***************************************************************************)
(* The operations the actions share keep the types of what they assign.    *)
(***************************************************************************)

\* add_user_to_chat assigns values of the right types.
LEMMA AddUserToChatType ==
  ASSUME TypeOK, NEW s \in Socket, NEW c \in Chat, NEW next \in Location,
         AddUserToChat(s, c, next)
  PROVE  /\ members' \in [Chat -> SUBSET Socket]
         /\ pc' \in [Socket -> Location]
         /\ op' \in [Socket -> Operation]
         /\ latest' \in 0..MaxPubSub
         /\ home' \in [Chat -> Nat]
         /\ topic' \in [PubSub -> Chat \cup {NoChat}]
         /\ link' \in [PubSub -> LinkState]
<1> USE HubAssumption DEF PubSub
<1>1. "subscribing" \in Location /\ "new" \in LinkState
  BY DEF Location, LinkState
<1>2. /\ Call(c, 0, next) \in Operation
      /\ Call(c, latest + 1, next) \in Operation
  BY DEF Call, Operation, TypeOK
<1>3. CASE members[c] # {}
  <2>1. /\ members' = [members EXCEPT ![c] = @ \cup {s}]
        /\ pc' = [pc EXCEPT ![s] = next]
        /\ op' = [op EXCEPT ![s] = Call(c, 0, next)]
        /\ UNCHANGED <<latest, home, topic, link>>
    BY <1>3 DEF AddUserToChat
  <2> QED
    BY <1>2, <2>1 DEF TypeOK
<1>4. CASE members[c] = {}
  <2>1. /\ latest < MaxPubSub
        /\ members' = [members EXCEPT ![c] = {s}]
        /\ pc' = [pc EXCEPT ![s] = "subscribing"]
        /\ op' = [op EXCEPT ![s] = Call(c, latest + 1, next)]
        /\ latest' = latest + 1
        /\ home' = [home EXCEPT ![c] = latest + 1]
        /\ topic' = [topic EXCEPT ![latest + 1] = c]
        /\ link' = [link EXCEPT ![latest + 1] = "new"]
    BY <1>4 DEF AddUserToChat
  <2>2. latest \in 0..MaxPubSub /\ latest + 1 \in 1..MaxPubSub /\ latest + 1 \in Nat
    BY <2>1 DEF TypeOK
  <2>3. latest' \in 0..MaxPubSub /\ home' \in [Chat -> Nat]
    BY <2>1, <2>2 DEF TypeOK
  <2>4. topic' \in [PubSub -> Chat \cup {NoChat}] /\ link' \in [PubSub -> LinkState]
    BY <1>1, <2>1, <2>2 DEF TypeOK
  <2>5. /\ members' \in [Chat -> SUBSET Socket]
        /\ pc' \in [Socket -> Location]
        /\ op' \in [Socket -> Operation]
    BY <1>1, <1>2, <2>1 DEF TypeOK
  <2> QED
    BY <2>3, <2>4, <2>5
<1> QED
  BY <1>3, <1>4

\* broadcast_to_chat only appends numbers to queues.
LEMMA BroadcastType ==
  ASSUME TypeOK, NEW c \in Chat, Broadcast(c)
  PROVE  published' \in Seq(Chat) /\ queue' \in [PubSub -> Seq(Nat)]
BY DEF Broadcast, TypeOK

\* `await socket.send_text` of the reader assigns values of the right types.
LEMMA SendTextType ==
  ASSUME TypeOK, NEW p \in PubSub, NEW s \in Socket, NEW it \in Iteration, SendText(p, s, it)
  PROVE  /\ rpc' \in [PubSub -> {"none", "polling", "sending", "dead"}]
         /\ iter' \in [PubSub -> Iteration]
         /\ heard' \in [Socket -> [PubSub -> Nat]]
<1>1. /\ Loop(it.msg, it.obj, it.start, it.seen \cup {s}) \in Iteration
      /\ NoIteration \in Iteration
      /\ it.msg \in Nat
  BY DEF Loop, NoIteration, Iteration
<1>2. \/ /\ rpc' = [rpc EXCEPT ![p] = "sending"]
         /\ iter' = [iter EXCEPT ![p] = Loop(it.msg, it.obj, it.start, it.seen \cup {s})]
      \/ /\ rpc' = [rpc EXCEPT ![p] = "dead"]
         /\ iter' = [iter EXCEPT ![p] = NoIteration]
  BY DEF SendText
<1>3. heard' = [heard EXCEPT ![s][p] = it.msg] \/ heard' = heard
  BY DEF SendText
<1>4. rpc' \in [PubSub -> {"none", "polling", "sending", "dead"}]
  BY <1>2 DEF TypeOK
<1>5. iter' \in [PubSub -> Iteration]
  BY <1>1, <1>2 DEF TypeOK
<1>6. heard' \in [Socket -> [PubSub -> Nat]]
  <2>1. heard \in [Socket -> [PubSub -> Nat]]
    BY DEF TypeOK
  <2>2. [heard EXCEPT ![s][p] = it.msg] \in [Socket -> [PubSub -> Nat]]
    BY <1>1, <2>1
  <2> QED
    BY <1>3, <2>1, <2>2
<1> QED
  BY <1>4, <1>5, <1>6

\* A handler that only broadcasts to a chat the socket is in.
LEMMA HandleType ==
  ASSUME TypeOK, NEW s \in Socket, NEW c \in Chat, NEW next \in {"storing", "publishing"},
         Receive(s, 2), Handle(s, c, next),
         UNCHANGED <<open, todo, userSockets, queue, published, readerVars>>
  PROVE  TypeOK'
<1>1. Call(c, 0, next) \in Operation /\ next \in Location
  BY DEF Call, Operation, Location
<1> QED
  BY <1>1 DEF Receive, Handle, TypeOK

\* An exception that ends the endpoint leaves every variable well typed.
LEMMA CrashType ==
  ASSUME TypeOK, NEW s \in Socket, Crash(s)
  PROVE  TypeOK'
BY DEF Crash, TypeOK, Location

\* The gather over direct sends leaves every variable well typed.
LEMMA SendDirectlyType ==
  ASSUME TypeOK, NEW s \in Socket, NEW targets, SendDirectly(s, targets)
  PROVE  TypeOK'
<1>1. Idle \in Operation
  BY DEF Idle, Call, Operation, Location
<1>2. CASE Crash(s)
  BY <1>2, CrashType
<1>3. CASE ~ Crash(s)
  <2>1. /\ pc' = [pc EXCEPT ![s] = "ready"]
        /\ op' = [op EXCEPT ![s] = Idle]
        /\ outbox' = [outbox EXCEPT ![s] = 0]
        /\ notify' = [notify EXCEPT ![s] = FALSE]
        /\ UNCHANGED <<clientVars, chats, todo, managerVars, redisVars, readerVars>>
    BY <1>3 DEF SendDirectly
  <2> QED
    BY <1>1, <2>1 DEF TypeOK, Location
<1> QED
  BY <1>2, <1>3

\* The end of a reader task leaves every variable well typed.
LEMMA ReaderDiesType ==
  ASSUME TypeOK, NEW p \in PubSub, ReaderDies(p)
  PROVE  TypeOK'
BY DEF ReaderDies, TypeOK, Iteration, NoIteration, Loop

\* A reader polls a PubSub that exists, and takes messages of one chat.
LEMMA ChannelIsChat ==
  ASSUME TypeOK, \A q \in PubSub : ReaderOK(q), NEW p \in PubSub, rpc[p] # "none"
  PROVE  source[p] \in PubSub /\ source[p] <= latest /\ ChannelOf(p) \in Chat
<1>1. source[p] \in 1..latest
  BY DEF ReaderOK
<1>2. source[p] \in PubSub
  BY <1>1, HubAssumption DEF TypeOK, PubSub
<1> QED
  BY <1>1, <1>2 DEF ReaderOK, ChannelOf, TypeOK

\* Every step of the hub preserves the type invariant.
LEMMA TypeStep ==
  ASSUME IInv, [Next]_vars
  PROVE  TypeOK'
<1> USE HubAssumption
<1>1. TypeOK /\ \A s \in Socket : EndpointOK(s)
  BY DEF IInv
<1> USE <1>1
<1>2. \A c \in Chat \cup {NoChat}, next \in Location : Call(c, 0, next) \in Operation
  BY DEF Call, Operation
<1>3. Idle \in Operation
  BY <1>2 DEF Idle, Location
<1> CASE UNCHANGED vars
  BY DEF vars, TypeOK
<1>a. ASSUME NEW s \in Socket, Accept(s) PROVE TypeOK'
  BY <1>a DEF Accept, Location, TypeOK
<1>b. ASSUME NEW s \in Socket, ClientCloses(s) PROVE TypeOK'
  BY <1>b DEF ClientCloses, TypeOK
<1>c. ASSUME NEW s \in Socket, LoadChats(s) PROVE TypeOK'
  <2> PICK C \in SUBSET Chat : chats' = [chats EXCEPT ![s] = C] /\ todo' = [todo EXCEPT ![s] = C]
    BY <1>c DEF LoadChats
  <2> QED
    BY <1>c DEF LoadChats, Location, TypeOK
<1>d. ASSUME NEW s \in Socket, NEW c \in Chat, JoinNext(s, c) PROVE TypeOK'
  BY <1>d, AddUserToChatType DEF JoinNext, Location, TypeOK
<1>e. ASSUME NEW s \in Socket, StartReceiving(s) PROVE TypeOK'
  BY <1>e, <1>3 DEF StartReceiving, Location, TypeOK
<1>f. ASSUME NEW s \in Socket, Subscribed(s) PROVE TypeOK'
  <2> /\ op[s].chat \in Chat
      /\ op[s].pubsub \in PubSub
      /\ op[s].next \in Location
      /\ latest \in Nat
    <3>1. EndpointOK(s) /\ pc[s] = "subscribing"
      BY <1>f DEF Subscribed
    <3>2. op[s] \in Operation /\ latest \in 0..MaxPubSub
      BY DEF TypeOK
    <3> QED
      BY <3>1, <3>2 DEF EndpointOK, Operation, PubSub
  <2> QED
    BY <1>f, <1>2 DEF Subscribed, ChatsWithJoined, LinkState, TypeOK
<1>g. ASSUME NEW s \in Socket, NEW c \in Chat, NewMessage(s, c) PROVE TypeOK'
  <2>1. CASE c \in chats[s]
    BY <1>g, <2>1, HandleType DEF NewMessage
  <2>2. CASE c \notin chats[s]
    <3>1. /\ AddUserToChat(s, c, "storing")
          /\ requests' = requests + 1
          /\ outbox' = [outbox EXCEPT ![s] = 2]
          /\ chats' = [chats EXCEPT ![s] = @ \cup {c}]
          /\ notify' = [notify EXCEPT ![s] = TRUE]
          /\ UNCHANGED <<open, todo, userSockets, queue, published, readerVars>>
      BY <1>g, <2>2 DEF NewMessage, Receive
    <3> QED
      BY <3>1, AddUserToChatType DEF Location, TypeOK
  <2> QED
    BY <2>1, <2>2
<1>h. ASSUME NEW s \in Socket, NEW c \in Chat, MessageRead(s, c) \/ UserTyping(s, c) PROVE TypeOK'
  BY <1>h, HandleType DEF MessageRead, UserTyping
<1>i. ASSUME NEW s \in Socket, NEW c \in Chat, AddUserToChatRequest(s, c) PROVE TypeOK'
  BY <1>i, AddUserToChatType DEF AddUserToChatRequest, Receive, Location, TypeOK
<1>j. ASSUME NEW s \in Socket, NEW c \in Chat, ChatDeleted(s, c) PROVE TypeOK'
  BY <1>j, SendDirectlyType DEF ChatDeleted
<1>k. ASSUME NEW s \in Socket, ErrorReplyRaises(s) \/ EndpointFails(s) PROVE TypeOK'
  BY <1>k, CrashType DEF ErrorReplyRaises, EndpointFails
<1>l. ASSUME NEW s \in Socket, Store(s) PROVE TypeOK'
  BY <1>l DEF Store, Location, TypeOK
<1>m. ASSUME NEW s \in Socket, Publish(s) PROVE TypeOK'
  <2> outbox[s] - 1 \in Nat
    BY <1>m DEF Publish, EndpointOK, TypeOK
  <2> op[s].chat \in Chat
    BY <1>m DEF Publish, ClientOK, IInv, TypeOK
  <2> QED
    BY <1>m, <1>3, BroadcastType DEF Publish, Location, TypeOK
<1>n. ASSUME NEW s \in Socket, StoreFindsNone(s) \/ NotifyFriend(s) PROVE TypeOK'
  BY <1>n, SendDirectlyType DEF StoreFindsNone, NotifyFriend
<1>o. ASSUME NEW s \in Socket, Disconnect(s) PROVE TypeOK'
  BY <1>o DEF Disconnect, Location, TypeOK
<1>p. ASSUME NEW s \in Socket, NEW c \in Chat, LeaveChat(s, c) PROVE TypeOK'
  <2>1. Call(c, 0, "leaving") \in Operation
    BY <1>2 DEF Location
  <2>2. link' \in [PubSub -> LinkState]
    BY <1>p DEF LeaveChat, RemoveUserFromChat, Unsubscribe, LinkState, TypeOK
  <2>3. home' \in [Chat -> Nat]
    <3>1. home' = [home EXCEPT ![c] = 0] \/ home' = home
      BY <1>p DEF LeaveChat, RemoveUserFromChat
    <3> QED
      BY <3>1 DEF TypeOK
  <2> QED
    BY <1>p, <2>1, <2>2, <2>3 DEF LeaveChat, RemoveUserFromChat, MembersWithout, Location, TypeOK
<1>q. ASSUME NEW s \in Socket, PublishOffline(s) PROVE TypeOK'
  <2> op[s].chat \in Chat
    BY <1>q DEF PublishOffline, ClientOK, IInv
  <2> QED
    BY <1>q, <1>3, BroadcastType DEF PublishOffline, Location, TypeOK
<1>r. ASSUME NEW s \in Socket, Finish(s) PROVE TypeOK'
  BY <1>r DEF Finish, RegistryWithout, Location, TypeOK
<1>s. ASSUME NEW p \in PubSub, RedisApplies(p) PROVE TypeOK'
  BY <1>s DEF RedisApplies, LinkState, TypeOK
<1>t. ASSUME NEW p \in PubSub, ReaderTakes(p) PROVE TypeOK'
  <2>1. source[p] \in PubSub /\ ChannelOf(p) \in Chat
    BY <1>t, ChannelIsChat DEF ReaderTakes, IInv
  <2>2. queue' \in [PubSub -> Seq(Nat)] /\ Head(queue[source[p]]) \in Nat
    BY <1>t, <2>1 DEF ReaderTakes, TakenQueue, TypeOK
  <2>3. CASE members[ChannelOf(p)] = {}
    BY <1>t, <2>2, <2>3 DEF ReaderTakes, TypeOK
  <2>4. ASSUME NEW s \in Socket, NEW it \in Iteration, SendText(p, s, it) PROVE TypeOK'
    BY <1>t, <2>2, <2>4, SendTextType DEF ReaderTakes, TypeOK
  <2>5. CASE members[ChannelOf(p)] # {}
    <3>1. PICK s \in members[ChannelOf(p)] :
             SendText(p, s, Loop(Head(queue[source[p]]), home[ChannelOf(p)], members[ChannelOf(p)], {}))
      BY <1>t, <2>5 DEF ReaderTakes
    <3>2. /\ s \in Socket
          /\ Loop(Head(queue[source[p]]), home[ChannelOf(p)], members[ChannelOf(p)], {}) \in Iteration
      BY <2>1, <2>2 DEF Loop, Iteration, TypeOK
    <3> QED
      BY <2>4, <3>1, <3>2
  <2> QED
    BY <2>3, <2>5
<1>u. ASSUME NEW p \in PubSub, ReaderContinues(p) PROVE TypeOK'
  <2> PICK s \in Socket : SendText(p, s, iter[p])
    <3>1. ChannelOf(p) \in Chat
      BY <1>u, ChannelIsChat DEF ReaderContinues, IInv
    <3> QED
      BY <1>u, <3>1 DEF ReaderContinues, StillToVisit, TypeOK
  <2> QED
    BY <1>u, SendTextType DEF ReaderContinues, TypeOK
<1>v. ASSUME NEW p \in PubSub, ReaderFinishes(p) PROVE TypeOK'
  BY <1>v DEF ReaderFinishes, TypeOK, Iteration, NoIteration, Loop
<1>w. ASSUME NEW p \in PubSub, \/ ReaderDiesOnSetChange(p) \/ ReaderWithoutConnection(p)
                               \/ ReaderCollides(p) \/ ReaderFails(p)
      PROVE TypeOK'
  BY <1>w, ReaderDiesType
     DEF ReaderDiesOnSetChange, ReaderWithoutConnection, ReaderCollides, ReaderFails
<1> QED
  BY <1>a, <1>b, <1>c, <1>d, <1>e, <1>f, <1>g, <1>h, <1>i, <1>j, <1>k, <1>l, <1>m, <1>n, <1>o,
     <1>p, <1>q, <1>r, <1>s, <1>t, <1>u, <1>v, <1>w
     DEF Next, ClientStep, EndpointStep, Request, ReaderStep

-----------------------------------------------------------------------------
(***************************************************************************)
(* The locals of the endpoints.                                            *)
(***************************************************************************)

\* An endpoint whose locals a step leaves alone is as right as before.
LEMMA EndpointKept ==
  ASSUME latest \in Nat, latest' \in Nat, latest' >= latest, NEW t, EndpointOK(t),
         pc'[t] = pc[t], chats'[t] = chats[t], todo'[t] = todo[t],
         op'[t] = op[t], outbox'[t] = outbox[t]
  PROVE  EndpointOK(t)'
BY DEF EndpointOK

\* add_user_to_chat leaves the socket at `next`, or waiting for a PubSub that exists.
LEMMA AddUserToChatEndpoint ==
  ASSUME TypeOK, NEW s \in Socket, NEW c \in Chat, NEW next \in Location,
         AddUserToChat(s, c, next)
  PROVE  /\ \/ pc'[s] = next
            \/ /\ pc'[s] = "subscribing"
               /\ op'[s] = Call(c, latest', next)
               /\ latest' \in 1..latest'
         /\ \A t \in Socket \ {s} : pc'[t] = pc[t] /\ op'[t] = op[t]
         /\ latest' >= latest
<1>1. CASE members[c] # {}
  BY <1>1 DEF AddUserToChat, TypeOK
<1>2. CASE members[c] = {}
  <2>1. /\ pc' = [pc EXCEPT ![s] = "subscribing"]
        /\ op' = [op EXCEPT ![s] = Call(c, latest + 1, next)]
        /\ latest' = latest + 1
    BY <1>2 DEF AddUserToChat
  <2> QED
    BY <2>1 DEF TypeOK
<1> QED
  BY <1>1, <1>2

\* Every step preserves what the locals of each endpoint are worth.
LEMMA EndpointPreserved ==
  ASSUME IInv, [Next]_vars
  PROVE  \A t \in Socket : EndpointOK(t)'
<1>1. TypeOK /\ TypeOK' /\ \A t \in Socket : EndpointOK(t)
  BY TypeStep DEF IInv
<1>2. latest \in Nat /\ latest' \in Nat
  BY <1>1 DEF TypeOK
<1> USE <1>1, <1>2
<1> SUFFICES ASSUME NEW t \in Socket PROVE EndpointOK(t)'
  OBVIOUS
<1>3. CASE UNCHANGED vars
  BY <1>3 DEF vars, EndpointOK
<1>4. ASSUME UNCHANGED <<pc, chats, todo, op, outbox, latest>> PROVE EndpointOK(t)'
  BY <1>4 DEF EndpointOK
<1>5. ASSUME NEW s \in Socket, t # s, latest' >= latest,
             pc'[t] = pc[t], chats'[t] = chats[t], todo'[t] = todo[t],
             op'[t] = op[t], outbox'[t] = outbox[t]
      PROVE  EndpointOK(t)'
  BY <1>5, EndpointKept
<1>6. ASSUME NEW s \in Socket, Crash(s) PROVE EndpointOK(t)'
  BY <1>6 DEF Crash, EndpointOK, TypeOK, managerVars
<1>7. ASSUME NEW s \in Socket, pc[s] \in {"ready", "storing", "notifying"}, NEW targets, SendDirectly(s, targets)
      PROVE EndpointOK(t)'
  <2>1. CASE ~ Crash(s)
    <3>1. /\ pc' = [pc EXCEPT ![s] = "ready"]
          /\ op' = [op EXCEPT ![s] = Idle]
          /\ outbox' = [outbox EXCEPT ![s] = 0]
          /\ UNCHANGED <<chats, todo, latest>>
      BY <1>7, <2>1 DEF SendDirectly
    <3> QED
      BY <1>7, <3>1 DEF EndpointOK, TypeOK
  <2> QED
    BY <1>6, <2>1
<1>8. ASSUME NEW s \in Socket, NEW c, NEW next \in {"storing", "publishing"},
             Receive(s, 2), Handle(s, c, next), UNCHANGED todo
      PROVE  EndpointOK(t)'
  <2>1. /\ pc[s] = "ready"
        /\ pc' = [pc EXCEPT ![s] = next]
        /\ op' = [op EXCEPT ![s] = Call(c, 0, next)]
        /\ outbox' = [outbox EXCEPT ![s] = 2]
        /\ UNCHANGED <<chats, todo, latest>>
    BY <1>8 DEF Receive, Handle
  <2>2. CASE t = s
    <3>1. pc'[s] = next /\ outbox'[s] = 2 /\ todo'[s] = {}
      BY <2>1 DEF EndpointOK, TypeOK
    <3> QED
      BY <2>2, <3>1 DEF EndpointOK
  <2>3. CASE t # s
    BY <2>1, <2>3, EndpointKept DEF TypeOK
  <2> QED
    BY <2>2, <2>3
<1>a. ASSUME NEW s \in Socket, Accept(s) PROVE EndpointOK(t)'
  BY <1>a DEF Accept, EndpointOK, TypeOK
<1>b. ASSUME NEW s \in Socket, ClientCloses(s) PROVE EndpointOK(t)'
  BY <1>b, <1>4 DEF ClientCloses
<1>c. ASSUME NEW s \in Socket, LoadChats(s) PROVE EndpointOK(t)'
  BY <1>c DEF LoadChats, EndpointOK, TypeOK
<1>d. ASSUME NEW s \in Socket, NEW c \in Chat, JoinNext(s, c) PROVE EndpointOK(t)'
  <2>a. "joining" \in Location
    BY DEF Location
  <2>b. /\ AddUserToChat(s, c, "joining") /\ pc[s] = "joining" /\ c \in todo[s]
        /\ todo' = [todo EXCEPT ![s] = @ \ {c}] /\ chats' = chats /\ outbox' = outbox
    BY <1>d DEF JoinNext
  <2>c. /\ \/ pc'[s] = "joining"
           \/ /\ pc'[s] = "subscribing"
              /\ op'[s] = Call(c, latest', "joining")
              /\ latest' \in 1..latest'
        /\ \A u \in Socket \ {s} : pc'[u] = pc[u] /\ op'[u] = op[u]
        /\ latest' >= latest
    BY <2>a, <2>b, AddUserToChatEndpoint
  <2>1. CASE t = s
    <3>1. todo[s] \subseteq chats[s] /\ todo'[s] = todo[s] \ {c}
      BY <2>b DEF EndpointOK, TypeOK
    <3> QED
      BY <2>1, <2>b, <2>c, <3>1 DEF EndpointOK, Call
  <2>2. CASE t # s
    <3>1. /\ pc'[t] = pc[t] /\ op'[t] = op[t] /\ todo'[t] = todo[t]
          /\ chats'[t] = chats[t] /\ outbox'[t] = outbox[t]
      BY <2>2, <2>b, <2>c DEF TypeOK
    <3> QED
      BY <1>5, <2>2, <2>c, <3>1
  <2> QED
    BY <2>1, <2>2
<1>e. ASSUME NEW s \in Socket, StartReceiving(s) PROVE EndpointOK(t)'
  BY <1>e DEF StartReceiving, EndpointOK, TypeOK
<1>f. ASSUME NEW s \in Socket, Subscribed(s) PROVE EndpointOK(t)'
  BY <1>f DEF Subscribed, ChatsWithJoined, EndpointOK, TypeOK, Call
<1>g. ASSUME NEW s \in Socket, NEW c \in Chat, NewMessage(s, c) PROVE EndpointOK(t)'
  <2>1. CASE c \in chats[s]
    BY <1>g, <1>8, <2>1 DEF NewMessage
  <2>2. CASE c \notin chats[s]
    <3>1. AddUserToChat(s, c, "storing") /\ outbox' = [outbox EXCEPT ![s] = 2]
          /\ chats' = [chats EXCEPT ![s] = @ \cup {c}] /\ UNCHANGED todo /\ pc[s] = "ready"
      BY <1>g, <2>2 DEF NewMessage, Receive
    <3>2. CASE t = s
      <4> "storing" \in Location
        BY DEF Location
      <4>1. \/ pc'[s] = "storing"
            \/ /\ pc'[s] = "subscribing"
               /\ op'[s] = Call(c, latest', "storing")
               /\ latest' \in 1..latest'
        BY <3>1, AddUserToChatEndpoint
      <4>2. outbox'[s] = 2 /\ todo'[s] = {}
        BY <3>1 DEF EndpointOK, TypeOK
      <4> QED
        BY <3>2, <4>1, <4>2 DEF EndpointOK, Call
    <3>3. CASE t # s
      BY <3>1, <3>3, AddUserToChatEndpoint, EndpointKept DEF TypeOK, Location
    <3> QED
      BY <3>2, <3>3
  <2> QED
    BY <2>1, <2>2
<1>h. ASSUME NEW s \in Socket, NEW c \in Chat, MessageRead(s, c) \/ UserTyping(s, c)
      PROVE  EndpointOK(t)'
  BY <1>h, <1>8 DEF MessageRead, UserTyping
<1>i. ASSUME NEW s \in Socket, NEW c \in Chat, AddUserToChatRequest(s, c) PROVE EndpointOK(t)'
  <2>1. AddUserToChat(s, c, "publishing") /\ outbox' = [outbox EXCEPT ![s] = 1]
        /\ UNCHANGED todo /\ pc[s] = "ready" /\ todo[s] = {}
        /\ chats' \in {chats, [chats EXCEPT ![s] = @ \cup {c}]}
    BY <1>i DEF AddUserToChatRequest, Receive, EndpointOK
  <2>a. "publishing" \in Location
    BY DEF Location
  <2>b. /\ \/ pc'[s] = "publishing"
           \/ /\ pc'[s] = "subscribing"
              /\ op'[s] = Call(c, latest', "publishing")
              /\ latest' \in 1..latest'
        /\ \A u \in Socket \ {s} : pc'[u] = pc[u] /\ op'[u] = op[u]
        /\ latest' >= latest
    BY <2>a, <2>1, AddUserToChatEndpoint
  <2>2. CASE t = s
    <3>1. todo'[s] = {} /\ outbox'[s] = 1
      BY <2>1 DEF TypeOK
    <3> QED
      BY <2>2, <2>b, <3>1 DEF EndpointOK, Call
  <2>3. CASE t # s
    <3>1. /\ pc'[t] = pc[t] /\ op'[t] = op[t] /\ todo'[t] = todo[t]
          /\ chats'[t] = chats[t] /\ outbox'[t] = outbox[t]
      BY <2>1, <2>3, <2>b DEF TypeOK
    <3> QED
      BY <1>5, <2>3, <2>b, <3>1
  <2> QED
    BY <2>2, <2>3
<1>j. ASSUME NEW s \in Socket, NEW c \in Chat, ChatDeleted(s, c) PROVE EndpointOK(t)'
  BY <1>j, <1>7 DEF ChatDeleted
<1>k. ASSUME NEW s \in Socket, ErrorReplyRaises(s) \/ EndpointFails(s) PROVE EndpointOK(t)'
  BY <1>k, <1>6 DEF ErrorReplyRaises, EndpointFails
<1>l. ASSUME NEW s \in Socket, Store(s) PROVE EndpointOK(t)'
  BY <1>l DEF Store, EndpointOK, TypeOK
<1>m. ASSUME NEW s \in Socket, Publish(s) PROVE EndpointOK(t)'
  BY <1>m DEF Publish, MoreToPublish, EndpointOK, TypeOK
<1>n. ASSUME NEW s \in Socket, StoreFindsNone(s) \/ NotifyFriend(s) PROVE EndpointOK(t)'
  BY <1>n, <1>7 DEF StoreFindsNone, NotifyFriend
<1>o. ASSUME NEW s \in Socket, Disconnect(s) PROVE EndpointOK(t)'
  BY <1>o DEF Disconnect, Disconnected, EndpointOK, TypeOK
<1>p. ASSUME NEW s \in Socket, NEW c \in Chat, LeaveChat(s, c) PROVE EndpointOK(t)'
  BY <1>p DEF LeaveChat, EndpointOK, TypeOK
<1>q. ASSUME NEW s \in Socket, PublishOffline(s) PROVE EndpointOK(t)'
  BY <1>q DEF PublishOffline, EndpointOK, TypeOK
<1>r. ASSUME NEW s \in Socket, Finish(s) PROVE EndpointOK(t)'
  BY <1>r DEF Finish, EndpointOK, TypeOK
<1>s. ASSUME NEW p \in PubSub, RedisApplies(p) \/ ReaderStep(p) \/ ReaderCollides(p) \/ ReaderFails(p)
      PROVE  EndpointOK(t)'
  BY <1>s, <1>4 DEF RedisApplies, ReaderStep, ReaderTakes, ReaderContinues, ReaderFinishes, ReaderDies,
       ReaderDiesOnSetChange, ReaderWithoutConnection, ReaderCollides, ReaderFails
<1> QED
  BY <1>3, <1>a, <1>b, <1>c, <1>d, <1>e, <1>f, <1>g, <1>h, <1>i, <1>j, <1>k, <1>l, <1>m, <1>n, <1>o,
     <1>p, <1>q, <1>r, <1>s
     DEF Next, ClientStep, EndpointStep, Request

-----------------------------------------------------------------------------
(***************************************************************************)
(* The manager's sets against the endpoints' locals.                       *)
(***************************************************************************)

\* add_user_to_chat enters the socket in the set of the chat, new or not.
LEMMA AddUserToChatMembers ==
  ASSUME TypeOK, NEW s \in Socket, NEW c \in Chat, NEW next, AddUserToChat(s, c, next)
  PROVE  members' = [members EXCEPT ![c] = @ \cup {s}]
BY DEF AddUserToChat, TypeOK

\* After add_user_to_chat's first step the socket is past the call or awaits the SUBSCRIBE.
LEMMA AddUserToChatLands ==
  ASSUME TypeOK, NEW s \in Socket, NEW c \in Chat, NEW next, AddUserToChat(s, c, next)
  PROVE  pc'[s] \in {next, "subscribing"} /\ op'[s].chat = c
<1>1. PICK p : op' = [op EXCEPT ![s] = Call(c, p, next)]
  BY DEF AddUserToChat
<1>2. op'[s] = Call(c, p, next)
  BY <1>1 DEF TypeOK
<1>3. pc' = [pc EXCEPT ![s] = next] \/ pc' = [pc EXCEPT ![s] = "subscribing"]
  BY DEF AddUserToChat
<1> QED
  BY <1>2, <1>3 DEF Call, TypeOK

\* MembersAreJoined for one socket.
Agrees(t) == pc[t] # "crashed" => \A d \in Chat : t \in members[d] <=> d \in Joined(t)

\* A step that touches neither a socket's locals nor its memberships keeps them in agreement.
LEMMA AgreesKept ==
  ASSUME NEW t, Agrees(t), pc'[t] = pc[t], chats'[t] = chats[t], todo'[t] = todo[t],
         op'[t] = op[t], \A d \in Chat : t \in members'[d] <=> t \in members[d]
  PROVE  Agrees(t)'
BY DEF Agrees, Joined

\* Every step keeps the manager's sets in agreement with the endpoints' `chats`.
LEMMA MembersPreserved ==
  ASSUME IInv, [Next]_vars
  PROVE  MembersAreJoined'
<1>1. TypeOK /\ \A t \in Socket : EndpointOK(t) /\ Agrees(t)
  BY DEF IInv, MembersAreJoined, Agrees
<1> USE <1>1
<1> SUFFICES ASSUME NEW t \in Socket PROVE Agrees(t)'
  BY DEF MembersAreJoined, Agrees
<1>2. ASSUME UNCHANGED <<pc, chats, todo, op, members>> PROVE Agrees(t)'
  BY <1>2 DEF Agrees, Joined
<1>3. ASSUME NEW s \in Socket, t # s, pc' = [pc EXCEPT ![s] = pc'[s]],
             chats'[t] = chats[t], todo'[t] = todo[t], op'[t] = op[t],
             \A d \in Chat : t \in members'[d] <=> t \in members[d]
      PROVE  Agrees(t)'
  BY <1>3, AgreesKept DEF TypeOK
<1>4. ASSUME NEW s \in Socket, Crash(s) PROVE Agrees(t)'
  BY <1>4 DEF Crash, Agrees, Joined, TypeOK
<1>5. ASSUME NEW s \in Socket, pc[s] \in {"ready", "storing", "notifying"}, NEW targets, SendDirectly(s, targets)
      PROVE Agrees(t)'
  <2>1. CASE ~ Crash(s)
    <3>1. /\ pc' = [pc EXCEPT ![s] = "ready"]
          /\ op' = [op EXCEPT ![s] = Idle]
          /\ UNCHANGED <<chats, todo, members>>
      BY <1>5, <2>1 DEF SendDirectly
    <3> QED
      BY <1>5, <3>1 DEF Agrees, Joined, TypeOK
  <2> QED
    BY <1>4, <1>5, <2>1
<1>6. ASSUME NEW s \in Socket, NEW c, NEW next \in {"storing", "publishing"},
             Receive(s, 2), Handle(s, c, next), UNCHANGED todo
      PROVE  Agrees(t)'
  <2>1. /\ pc[s] = "ready"
        /\ pc' = [pc EXCEPT ![s] = next]
        /\ op' = [op EXCEPT ![s] = Call(c, 0, next)]
        /\ UNCHANGED <<chats, todo, members>>
    BY <1>6 DEF Receive, Handle
  <2> QED
    BY <2>1 DEF Agrees, Joined, TypeOK
<1>7. ASSUME NEW s \in Socket, NEW c \in Chat, NEW next \in Location, AddUserToChat(s, c, next),
             t # s, chats'[t] = chats[t], todo'[t] = todo[t]
      PROVE  Agrees(t)'
  <2>1. \A d \in Chat : t \in members'[d] <=> t \in members[d]
    <3>1. members' = [members EXCEPT ![c] = @ \cup {s}]
      BY <1>7, AddUserToChatMembers
    <3> QED
      BY <1>7, <3>1 DEF TypeOK
  <2> QED
    BY <1>7, <2>1, AddUserToChatEndpoint, AgreesKept
<1>a. ASSUME NEW s \in Socket, Accept(s) PROVE Agrees(t)'
  BY <1>a DEF Accept, Agrees, Joined, TypeOK
<1>b. ASSUME NEW s \in Socket, ClientCloses(s) PROVE Agrees(t)'
  BY <1>b, <1>2 DEF ClientCloses
<1>c. ASSUME NEW s \in Socket, LoadChats(s) PROVE Agrees(t)'
  BY <1>c DEF LoadChats, Agrees, Joined, EndpointOK, TypeOK
<1>d. ASSUME NEW s \in Socket, NEW c \in Chat, JoinNext(s, c) PROVE Agrees(t)'
  <2>1. CASE t = s
    <3>1. /\ members' = [members EXCEPT ![c] = @ \cup {s}]
          /\ todo' = [todo EXCEPT ![s] = @ \ {c}]
          /\ chats' = chats /\ c \in chats[s] /\ pc[s] = "joining"
      BY <1>d, AddUserToChatMembers DEF JoinNext, EndpointOK
    <3>2. pc'[s] \in {"joining", "subscribing"} /\ op'[s].chat = c
      BY <1>d, AddUserToChatLands DEF JoinNext
    <3> QED
      BY <2>1, <3>1, <3>2 DEF Agrees, Joined, TypeOK
  <2>2. CASE t # s
    BY <1>d, <1>7, <2>2 DEF JoinNext, TypeOK, Location
  <2> QED
    BY <2>1, <2>2
<1>e. ASSUME NEW s \in Socket, StartReceiving(s) PROVE Agrees(t)'
  BY <1>e DEF StartReceiving, Agrees, Joined, TypeOK
<1>f. ASSUME NEW s \in Socket, Subscribed(s) PROVE Agrees(t)'
  <2>1. /\ chats' = [chats EXCEPT ![s] = @ \cup {op[s].chat}]
        /\ pc' = [pc EXCEPT ![s] = op[s].next]
        /\ op' = [op EXCEPT ![s] = Call(op[s].chat, 0, op[s].next)]
        /\ UNCHANGED <<todo, members>>
    BY <1>f DEF Subscribed, ChatsWithJoined
  <2>2. CASE t = s
    <3>1. /\ op[s].chat \in Chat \ todo[s]
          /\ op[s].next \in {"joining", "storing", "publishing"}
          /\ pc[s] = "subscribing"
      BY <1>f DEF Subscribed, EndpointOK
    <3>2. Joined(s) = (chats[s] \ todo[s]) \cup {op[s].chat}
      BY <3>1 DEF Joined
    <3>3. pc'[s] = op[s].next /\ chats'[s] = chats[s] \cup {op[s].chat} /\ todo'[s] = todo[s]
      BY <2>1 DEF TypeOK
    <3>4. Joined(s)' = (chats[s] \cup {op[s].chat}) \ todo[s]
      BY <3>1, <3>3 DEF Joined
    <3>5. Joined(s)' = Joined(s)
      BY <3>1, <3>2, <3>4
    <3> QED
      BY <2>1, <2>2, <3>1, <3>5 DEF Agrees
  <2>3. CASE t # s
    BY <2>1, <2>3, AgreesKept DEF TypeOK
  <2> QED
    BY <2>2, <2>3
<1>g. ASSUME NEW s \in Socket, NEW c \in Chat, NewMessage(s, c) PROVE Agrees(t)'
  <2>1. CASE c \in chats[s]
    BY <1>g, <1>6, <2>1 DEF NewMessage
  <2>2. CASE c \notin chats[s]
    <3>1. AddUserToChat(s, c, "storing") /\ chats' = [chats EXCEPT ![s] = @ \cup {c}]
          /\ UNCHANGED todo /\ pc[s] = "ready" /\ todo[s] = {}
      BY <1>g, <2>2 DEF NewMessage, Receive, EndpointOK
    <3>2. members' = [members EXCEPT ![c] = @ \cup {s}]
      BY <3>1, AddUserToChatMembers
    <3>3. pc'[s] \in {"storing", "subscribing"} /\ op'[s].chat = c
      BY <3>1, AddUserToChatLands
    <3>4. CASE t = s
      BY <3>1, <3>2, <3>3, <3>4 DEF Agrees, Joined, TypeOK
    <3>5. CASE t # s
      BY <1>7, <3>1, <3>5 DEF TypeOK, Location
    <3> QED
      BY <3>4, <3>5
  <2> QED
    BY <2>1, <2>2
<1>h. ASSUME NEW s \in Socket, NEW c \in Chat, MessageRead(s, c) \/ UserTyping(s, c)
      PROVE  Agrees(t)'
  BY <1>h, <1>6 DEF MessageRead, UserTyping
<1>i. ASSUME NEW s \in Socket, NEW c \in Chat, AddUserToChatRequest(s, c) PROVE Agrees(t)'
  <2>1. AddUserToChat(s, c, "publishing") /\ UNCHANGED todo /\ pc[s] = "ready" /\ todo[s] = {}
    BY <1>i DEF AddUserToChatRequest, Receive, EndpointOK
  <2>2. members' = [members EXCEPT ![c] = @ \cup {s}]
    BY <2>1, AddUserToChatMembers
  <2>3. CASE members[c] # {}
    <3>1. pc' = [pc EXCEPT ![s] = "publishing"] /\ chats' = [chats EXCEPT ![s] = @ \cup {c}]
      BY <1>i, <2>3 DEF AddUserToChatRequest, AddUserToChat
    <3>2. CASE t = s
      BY <2>1, <2>2, <3>1, <3>2 DEF Agrees, Joined, TypeOK
    <3>3. CASE t # s
      BY <1>7, <2>1, <3>1, <3>3 DEF TypeOK, Location
    <3> QED
      BY <3>2, <3>3
  <2>4. CASE members[c] = {}
    <3>1. /\ pc' = [pc EXCEPT ![s] = "subscribing"]
          /\ op' = [op EXCEPT ![s] = Call(c, latest + 1, "publishing")]
          /\ chats' = chats
      BY <1>i, <2>4 DEF AddUserToChatRequest, AddUserToChat
    <3>2. CASE t = s
      BY <2>1, <2>2, <3>1, <3>2 DEF Agrees, Joined, Call, TypeOK
    <3>3. CASE t # s
      BY <1>7, <2>1, <3>1, <3>3 DEF TypeOK, Location
    <3> QED
      BY <3>2, <3>3
  <2> QED
    BY <2>3, <2>4
<1>j. ASSUME NEW s \in Socket, NEW c \in Chat, ChatDeleted(s, c) PROVE Agrees(t)'
  BY <1>j, <1>5 DEF ChatDeleted
<1>k. ASSUME NEW s \in Socket, ErrorReplyRaises(s) \/ EndpointFails(s) PROVE Agrees(t)'
  BY <1>k, <1>4 DEF ErrorReplyRaises, EndpointFails
<1>l. ASSUME NEW s \in Socket, Store(s) PROVE Agrees(t)'
  BY <1>l DEF Store, Agrees, Joined, TypeOK
<1>m. ASSUME NEW s \in Socket, Publish(s) PROVE Agrees(t)'
  BY <1>m DEF Publish, Agrees, Joined, TypeOK
<1>n. ASSUME NEW s \in Socket, StoreFindsNone(s) \/ NotifyFriend(s) PROVE Agrees(t)'
  BY <1>n, <1>5 DEF StoreFindsNone, NotifyFriend
<1>o. ASSUME NEW s \in Socket, Disconnect(s) PROVE Agrees(t)'
  BY <1>o DEF Disconnect, Disconnected, Agrees, Joined, EndpointOK, TypeOK
<1>p. ASSUME NEW s \in Socket, NEW c \in Chat, LeaveChat(s, c) PROVE Agrees(t)'
  BY <1>p DEF LeaveChat, RemoveUserFromChat, MembersWithout, Agrees, Joined, TypeOK
<1>q. ASSUME NEW s \in Socket, PublishOffline(s) PROVE Agrees(t)'
  BY <1>q DEF PublishOffline, Agrees, Joined, TypeOK
<1>r. ASSUME NEW s \in Socket, Finish(s) PROVE Agrees(t)'
  BY <1>r DEF Finish, Agrees, Joined, TypeOK
<1>s. ASSUME NEW p \in PubSub, RedisApplies(p) \/ ReaderStep(p) \/ ReaderCollides(p) \/ ReaderFails(p)
      PROVE  Agrees(t)'
  BY <1>s, <1>2 DEF RedisApplies, ReaderStep, ReaderTakes, ReaderContinues, ReaderFinishes, ReaderDies,
       ReaderDiesOnSetChange, ReaderWithoutConnection, ReaderCollides, ReaderFails
<1>t. CASE UNCHANGED vars
  BY <1>2, <1>t DEF vars
<1> QED
  BY <1>a, <1>b, <1>c, <1>d, <1>e, <1>f, <1>g, <1>h, <1>i, <1>j, <1>k, <1>l, <1>m, <1>n, <1>o,
     <1>p, <1>q, <1>r, <1>s, <1>t
     DEF Next, ClientStep, EndpointStep, Request

\* No step brings a connection that ended back into a chat or the registry.
LEMMA GonePreserved ==
  ASSUME IInv, [Next]_vars
  PROVE  GoneIsForgotten'
<1>1. TypeOK /\ TypeOK' /\ GoneIsForgotten /\ MembersAreJoined' /\ \A t \in Socket : EndpointOK(t)'
  BY TypeStep, EndpointPreserved, MembersPreserved DEF IInv
<1> SUFFICES ASSUME NEW t \in Socket, pc'[t] = "gone"
             PROVE  (\A d \in Chat : t \notin members'[d]) /\ t \notin userSockets'[Owner[t]]
  BY DEF GoneIsForgotten
<1>2. \A d \in Chat : t \notin members'[d]
  BY <1>1 DEF MembersAreJoined, Joined, EndpointOK
<1>3. Owner[t] \in User
  BY HubAssumption
<1>4. t \notin userSockets'[Owner[t]]
  <2>1. CASE \E s \in Socket : Finish(s)
    BY <1>1, <1>3, <2>1 DEF Finish, RegistryWithout, GoneIsForgotten, TypeOK
  <2>2. CASE \E s \in Socket : Accept(s)
    BY <1>1, <1>3, <2>2, HubAssumption DEF Accept, GoneIsForgotten, TypeOK
  <2>3. CASE UNCHANGED <<pc, userSockets>>
    BY <1>1, <2>3 DEF GoneIsForgotten
  <2>4. ASSUME NEW s \in Socket, NEW next, next # "gone", UNCHANGED userSockets,
               pc' = [pc EXCEPT ![s] = next]
        PROVE  t \notin userSockets'[Owner[t]]
    BY <1>1, <2>4 DEF GoneIsForgotten, TypeOK
  <2>5. ASSUME NEW s \in Socket, NEW targets, SendDirectly(s, targets)
        PROVE  t \notin userSockets'[Owner[t]]
    BY <2>4, <2>5 DEF SendDirectly, Crash
  <2>6. ASSUME NEW s \in Socket, NEW c \in Chat, NEW next, next # "gone", UNCHANGED userSockets,
               AddUserToChat(s, c, next)
        PROVE  t \notin userSockets'[Owner[t]]
    BY <2>4, <2>6 DEF AddUserToChat
  <2>7. ASSUME NEW s \in Socket, NEW c \in Chat, Request(s)
        PROVE  t \notin userSockets'[Owner[t]]
    BY <2>4, <2>5, <2>6, <2>7 DEF Request, NewMessage, MessageRead, UserTyping, Handle,
       AddUserToChatRequest, ChatDeleted
  <2>8. ASSUME NEW s \in Socket, Subscribed(s)
        PROVE  t \notin userSockets'[Owner[t]]
    BY <1>1, <2>4, <2>8 DEF Subscribed, EndpointOK, IInv
  <2>9. ASSUME NEW s \in Socket, EndpointStep(s), ~ Finish(s), ~ Subscribed(s)
        PROVE  t \notin userSockets'[Owner[t]]
    BY <2>4, <2>5, <2>6, <2>9 DEF EndpointStep, LoadChats, StartReceiving, JoinNext, LeaveChat, Store,
       Publish, StoreFindsNone, NotifyFriend, Disconnect, PublishOffline
  <2>10. ASSUME NEW s \in Socket, ClientCloses(s) \/ ErrorReplyRaises(s) \/ EndpointFails(s)
        PROVE  t \notin userSockets'[Owner[t]]
    BY <2>3, <2>4, <2>10 DEF ClientCloses, ErrorReplyRaises, EndpointFails, Crash
  <2>11. ASSUME NEW p \in PubSub, RedisApplies(p) \/ ReaderStep(p) \/ ReaderCollides(p) \/ ReaderFails(p)
         PROVE  t \notin userSockets'[Owner[t]]
    BY <2>3, <2>11 DEF RedisApplies, ReaderStep, ReaderTakes, ReaderContinues, ReaderFinishes, ReaderDies,
         ReaderDiesOnSetChange, ReaderWithoutConnection, ReaderCollides, ReaderFails
  <2> QED
    BY <2>1, <2>2, <2>3, <2>7, <2>8, <2>9, <2>10, <2>11 DEF Next, ClientStep, vars, Request
<1> QED
  BY <1>2, <1>4

-----------------------------------------------------------------------------
(***************************************************************************)
(* The subscription of a chat in use.                                      *)
(***************************************************************************)

\* LiveChatSubscribed for one chat.
Subscription(d) ==
    members[d] # {} =>
        /\ home[d] \in 1..latest
        /\ topic[home[d]] = d
        /\ \/ link[home[d]] \in {"asked", "on"}
           \/ /\ link[home[d]] = "new"
              /\ \E s \in members[d] : op[s].pubsub = home[d] /\ pc[s] \in {"subscribing", "crashed"}

\* A step that lets no endpoint out of add_user_to_chat.
Waits(t) == pc[t] \in {"subscribing", "crashed"} => pc'[t] \in {"subscribing", "crashed"} /\ op'[t] = op[t]

\* A step that touches neither a chat's set nor its PubSub keeps the chat subscribed.
LEMMA SubscriptionKept ==
  ASSUME NEW d, Subscription(d), members[d] \subseteq Socket, \A t \in Socket : Waits(t),
         members'[d] # {} => members[d] # {},
         \A t \in members[d] : pc[t] \in {"subscribing", "crashed"} => t \in members'[d],
         UNCHANGED latest, home'[d] = home[d],
         topic'[home[d]] = topic[home[d]], link'[home[d]] = link[home[d]]
  PROVE  Subscription(d)'
BY DEF Subscription, Waits

\* Every step keeps every chat with members subscribed.
LEMMA SubscriptionPreserved ==
  ASSUME IInv, [Next]_vars
  PROVE  LiveChatSubscribed'
<1>1. TypeOK /\ (\A t \in Socket : EndpointOK(t)) /\ \A d \in Chat : Subscription(d)
  BY DEF IInv, LiveChatSubscribed, Subscription
<1> USE <1>1
<1> SUFFICES ASSUME NEW d \in Chat PROVE Subscription(d)'
  BY DEF LiveChatSubscribed, Subscription
<1>0. members[d] \subseteq Socket
  BY DEF TypeOK
<1>8. members[d] # {} => home[d] \in 1..latest /\ home[d] \in PubSub /\ topic[home[d]] = d
  <2> latest \in Nat /\ latest <= MaxPubSub
    BY HubAssumption DEF TypeOK
  <2> QED
    BY HubAssumption DEF Subscription, PubSub
<1>2. ASSUME UNCHANGED <<members, latest, home, topic, link>>, \A t \in Socket : Waits(t)
      PROVE  Subscription(d)'
  BY <1>0, <1>2, SubscriptionKept
<1>3. ASSUME UNCHANGED <<pc, op>> PROVE \A t \in Socket : Waits(t)
  BY <1>3 DEF Waits
<1>4. ASSUME NEW s \in Socket, pc[s] \notin {"subscribing", "crashed"},
             \E x : pc' = [pc EXCEPT ![s] = x],
             op' = op \/ \E y : op' = [op EXCEPT ![s] = y]
      PROVE  \A t \in Socket : Waits(t)
  BY <1>4 DEF Waits, TypeOK
<1>5. ASSUME NEW s \in Socket, Crash(s) PROVE Subscription(d)'
  <2>1. \A t \in Socket : Waits(t)
    BY <1>5 DEF Crash, Waits, TypeOK
  <2> QED
    BY <1>2, <1>5, <2>1 DEF Crash
<1>6. ASSUME NEW s \in Socket, pc[s] \in {"ready", "storing", "notifying"}, NEW targets, SendDirectly(s, targets)
      PROVE Subscription(d)'
  <2>1. CASE ~ Crash(s)
    <3>1. /\ pc' = [pc EXCEPT ![s] = "ready"]
          /\ op' = [op EXCEPT ![s] = Idle]
          /\ UNCHANGED <<members, latest, home, topic, link>>
      BY <1>6, <2>1 DEF SendDirectly
    <3> QED
      BY <1>2, <1>4, <1>6, <3>1
  <2> QED
    BY <1>5, <1>6, <2>1
<1>7. ASSUME NEW s \in Socket, NEW c \in Chat, NEW next, AddUserToChat(s, c, next),
             pc[s] \notin {"subscribing", "crashed"}
      PROVE  Subscription(d)'
  <2>1. \A t \in Socket : Waits(t)
    BY <1>4, <1>7 DEF AddUserToChat
  <2>2. CASE members[c] # {}
    <3>1. members' = [members EXCEPT ![c] = @ \cup {s}] /\ UNCHANGED <<latest, home, topic, link>>
      BY <1>7, <2>2 DEF AddUserToChat
    <3>2. (members'[d] # {} => members[d] # {}) /\ members[d] \subseteq members'[d]
      BY <2>2, <3>1 DEF TypeOK
    <3> QED
      BY <1>0, <2>1, <3>1, <3>2, SubscriptionKept
  <2>3. CASE members[c] = {}
    <3>1. /\ members' = [members EXCEPT ![c] = {s}]
          /\ pc' = [pc EXCEPT ![s] = "subscribing"]
          /\ op' = [op EXCEPT ![s] = Call(c, latest + 1, next)]
          /\ latest' = latest + 1
          /\ home' = [home EXCEPT ![c] = latest + 1]
          /\ topic' = [topic EXCEPT ![latest + 1] = c]
          /\ link' = [link EXCEPT ![latest + 1] = "new"]
          /\ latest < MaxPubSub
      BY <1>7, <2>3 DEF AddUserToChat
    <3>2. latest + 1 \in PubSub
      BY <3>1, HubAssumption DEF PubSub, TypeOK
    <3>3. CASE d = c
      <4>1. /\ members'[d] = {s} /\ home'[d] = latest + 1 /\ topic'[latest + 1] = d
            /\ link'[latest + 1] = "new" /\ pc'[s] = "subscribing" /\ op'[s].pubsub = latest + 1
        BY <3>1, <3>2, <3>3 DEF Call, TypeOK
      <4>2. latest + 1 \in 1..latest'
        BY <3>1 DEF TypeOK
      <4> QED
        BY <4>1, <4>2 DEF Subscription
    <3>4. CASE d # c /\ members[d] # {}
      <4>1. home[d] \in 1..latest /\ home[d] \in PubSub /\ home[d] # latest + 1
        BY <1>8, <3>4 DEF TypeOK
      <4>2. /\ members'[d] = members[d] /\ home'[d] = home[d]
            /\ topic'[home[d]] = topic[home[d]] /\ link'[home[d]] = link[home[d]]
        BY <3>1, <3>4, <4>1 DEF TypeOK
      <4>3. home[d] \in 1..latest'
        BY <3>1, <4>1 DEF TypeOK
      <4> QED
        BY <1>0, <2>1, <3>4, <4>2, <4>3 DEF Subscription, Waits
    <3>5. CASE d # c /\ members[d] = {}
      BY <3>1, <3>5 DEF Subscription, TypeOK
    <3> QED
      BY <3>3, <3>4, <3>5
  <2> QED
    BY <2>2, <2>3
<1>a. ASSUME NEW s \in Socket, Subscribed(s) PROVE Subscription(d)'
  <2>1. /\ link' = [link EXCEPT ![op[s].pubsub] = "asked"]
        /\ pc' = [pc EXCEPT ![s] = op[s].next]
        /\ op' = [op EXCEPT ![s] = Call(op[s].chat, 0, op[s].next)]
        /\ UNCHANGED <<members, latest, home, topic>>
    BY <1>a DEF Subscribed
  <2>2. CASE members[d] # {}
    <3>1. home[d] \in 1..latest /\ home[d] \in PubSub
      BY <1>8, <2>2
    <3>2. CASE home[d] = op[s].pubsub
      <4> link'[home[d]] = "asked"
        BY <2>1, <3>1, <3>2 DEF TypeOK
      <4> QED
        BY <2>1, <2>2, <3>1, <3>2 DEF Subscription
    <3>3. CASE home[d] # op[s].pubsub
      <4>1. link'[home[d]] = link[home[d]]
        BY <2>1, <3>1, <3>3 DEF TypeOK
      <4>2. \A t \in Socket \ {s} : pc'[t] = pc[t] /\ op'[t] = op[t]
        BY <2>1 DEF TypeOK
      <4> QED
        BY <1>0, <2>1, <2>2, <3>1, <3>3, <4>1, <4>2 DEF Subscription
    <3> QED
      BY <3>2, <3>3
  <2> QED
    BY <2>1, <2>2 DEF Subscription
<1>b. ASSUME NEW s \in Socket, NEW c \in Chat, LeaveChat(s, c) PROVE Subscription(d)'
  <2>1. /\ pc[s] = "leaving"
        /\ pc' = [pc EXCEPT ![s] = "offline"]
        /\ op' = [op EXCEPT ![s] = Call(c, 0, "leaving")]
        /\ members' = [members EXCEPT ![c] = @ \ {s}]
        /\ UNCHANGED <<latest, topic>>
    BY <1>b DEF LeaveChat, RemoveUserFromChat, MembersWithout
  <2>2. \A t \in Socket : Waits(t)
    BY <1>4, <2>1
  <2>3. CASE ~ LastOut(s, c)
    <3>1. UNCHANGED <<home, link>>
      BY <1>b, <2>3 DEF LeaveChat, RemoveUserFromChat
    <3> QED
      BY <1>0, <2>1, <2>2, <3>1, SubscriptionKept DEF TypeOK
  <2>4. CASE LastOut(s, c) /\ d = c
    BY <2>1, <2>4 DEF LastOut, Subscription, TypeOK
  <2>5. CASE LastOut(s, c) /\ d # c
    <3>1. home' = [home EXCEPT ![c] = 0] /\ Unsubscribe(c)
      BY <1>b, <2>5 DEF LeaveChat, RemoveUserFromChat
    <3>2. members'[d] = members[d] /\ home'[d] = home[d]
      BY <2>1, <2>5, <3>1 DEF TypeOK
    <3>3. CASE members[d] # {}
      <4>1. home[d] \in PubSub /\ topic[home[d]] = d
        BY <1>8, <3>3
      <4>2. link'[home[d]] = link[home[d]]
        BY <2>5, <3>1, <4>1 DEF Unsubscribe, Hits
      <4> QED
        BY <1>0, <2>1, <2>2, <3>2, <4>2, SubscriptionKept
    <3> QED
      BY <3>2, <3>3 DEF Subscription
  <2> QED
    BY <2>3, <2>4, <2>5
<1>c. ASSUME NEW p \in PubSub, RedisApplies(p) PROVE Subscription(d)'
  <2>1. link' = [link EXCEPT ![p] = link'[p]] /\ (link[p] = "asked" => link'[p] = "on")
        /\ link[p] \in {"asked", "cancelled", "quitting"}
        /\ UNCHANGED <<pc, op, members, latest, home, topic>>
    BY <1>c DEF RedisApplies, TypeOK
  <2>2. CASE members[d] # {}
    <3>1. home[d] \in 1..latest /\ home[d] \in PubSub
      BY <1>8, <2>2
    <3>2. CASE home[d] = p
      BY <2>1, <2>2, <3>1, <3>2 DEF Subscription
    <3>3. CASE home[d] # p
      <4> link'[home[d]] = link[home[d]]
        BY <2>1, <3>1, <3>3 DEF TypeOK
      <4> QED
        BY <2>1, <2>2, <3>1 DEF Subscription
    <3> QED
      BY <3>2, <3>3
  <2> QED
    BY <2>1, <2>2 DEF Subscription
<1>d. ASSUME NEW s \in Socket, Request(s) PROVE Subscription(d)'
  <2> PICK c \in Chat : \/ NewMessage(s, c) \/ MessageRead(s, c) \/ UserTyping(s, c)
                         \/ AddUserToChatRequest(s, c) \/ ChatDeleted(s, c)
    BY <1>d DEF Request
  <2>1. pc[s] = "ready"
    BY DEF NewMessage, MessageRead, UserTyping, AddUserToChatRequest, ChatDeleted, Receive
  <2>2. ASSUME NEW next, Handle(s, c, next) PROVE Subscription(d)'
    <3>1. \A t \in Socket : Waits(t)
      BY <1>4, <2>1, <2>2 DEF Handle
    <3> QED
      BY <1>2, <2>2, <3>1 DEF Handle
  <2> QED
    BY <1>6, <1>7, <2>1, <2>2
       DEF NewMessage, MessageRead, UserTyping, AddUserToChatRequest, ChatDeleted
<1>e. ASSUME NEW s \in Socket, ErrorReplyRaises(s) \/ EndpointFails(s) PROVE Subscription(d)'
  BY <1>5, <1>e DEF ErrorReplyRaises, EndpointFails
<1>f. ASSUME NEW s \in Socket, NEW c \in Chat, JoinNext(s, c) PROVE Subscription(d)'
  BY <1>7, <1>f DEF JoinNext
<1>g. ASSUME NEW s \in Socket, StoreFindsNone(s) \/ NotifyFriend(s) PROVE Subscription(d)'
  BY <1>6, <1>g DEF StoreFindsNone, NotifyFriend
<1>h. ASSUME NEW s \in Socket,
             \/ Accept(s) \/ LoadChats(s) \/ StartReceiving(s) \/ Store(s) \/ Publish(s)
             \/ Disconnect(s) \/ PublishOffline(s) \/ Finish(s)
      PROVE  Subscription(d)'
  <2>1. UNCHANGED <<members, latest, home, topic, link>>
    BY <1>h DEF Accept, LoadChats, StartReceiving, Store, Publish, Disconnect, PublishOffline, Finish
  <2>2. /\ pc[s] \notin {"subscribing", "crashed"}
        /\ \E x : pc' = [pc EXCEPT ![s] = x]
        /\ op' = op \/ \E y : op' = [op EXCEPT ![s] = y]
    BY <1>h DEF Accept, LoadChats, StartReceiving, Store, Publish, Disconnect, Disconnected,
       PublishOffline, Finish
  <2> QED
    BY <1>2, <1>4, <2>1, <2>2
<1>i. ASSUME NEW s \in Socket, ClientCloses(s) PROVE Subscription(d)'
  BY <1>2, <1>3, <1>i DEF ClientCloses
<1>j. ASSUME NEW p \in PubSub, ReaderStep(p) \/ ReaderCollides(p) \/ ReaderFails(p)
      PROVE  Subscription(d)'
  BY <1>2, <1>3, <1>j DEF ReaderStep, ReaderTakes, ReaderContinues, ReaderFinishes, ReaderDies,
     ReaderDiesOnSetChange, ReaderWithoutConnection, ReaderCollides, ReaderFails
<1>k. CASE UNCHANGED vars
  BY <1>2, <1>3, <1>k DEF vars
<1> QED
  BY <1>a, <1>b, <1>c, <1>d, <1>e, <1>f, <1>g, <1>h, <1>i, <1>j, <1>k
     DEF Next, ClientStep, EndpointStep

-----------------------------------------------------------------------------
(***************************************************************************)
(* The creations of PubSub objects that are under way.                     *)
(***************************************************************************)

\* Every step keeps the pending SUBSCRIBEs on PubSub objects of their own.
LEMMA CreationsPreserved ==
  ASSUME IInv, [Next]_vars
  PROVE  CreationsApart'
<1>1. TypeOK /\ (\A t \in Socket : EndpointOK(t)) /\ CreationsApart
  BY DEF IInv
<1> USE <1>1
<1> DEFINE FreshKept ==
             /\ \A p \in PubSub : link[p] \in {"none", "new"} => link'[p] = link[p]
             /\ \A p \in PubSub : link'[p] \in {"none", "new"} => link'[p] = link[p]
           ReadersKept == \A p \in PubSub : rpc[p] = "none" => rpc'[p] = "none"
           NoCreation == \A t \in Socket : pc'[t] = "subscribing" =>
                            pc[t] = "subscribing" /\ op'[t] = op[t]
<1>2. ASSUME latest' = latest, FreshKept, ReadersKept, NoCreation
      PROVE  CreationsApart'
  <2>1. \A t \in Socket : pc[t] = "subscribing" => op[t].pubsub \in PubSub
    BY HubAssumption DEF EndpointOK, PubSub, TypeOK
  <2>2. \A p \in PubSub : link'[p] \in {"none", "new"} => rpc'[p] = "none"
    BY <1>2 DEF CreationsApart
  <2>3. \A p \in PubSub : p > latest' => link'[p] = "none"
    BY <1>2 DEF CreationsApart
  <2>4. \A t \in Socket : pc'[t] = "subscribing" => link'[op'[t].pubsub] = "new"
    BY <1>2, <2>1 DEF CreationsApart
  <2>5. \A t, u \in Socket : t # u /\ pc'[t] = "subscribing" /\ pc'[u] = "subscribing"
                              => op'[u].pubsub # op'[t].pubsub
    BY <1>2 DEF CreationsApart
  <2> QED
    BY <2>2, <2>3, <2>4, <2>5 DEF CreationsApart
<1>3. ASSUME NEW s \in Socket, NEW x, x # "subscribing", pc' = [pc EXCEPT ![s] = x],
             op' = op \/ \E y : op' = [op EXCEPT ![s] = y]
      PROVE  NoCreation
  BY <1>3 DEF TypeOK
<1>4. ASSUME NEW s \in Socket, NEW x, x # "subscribing", pc' = [pc EXCEPT ![s] = x],
             op' = op \/ \E y : op' = [op EXCEPT ![s] = y],
             latest' = latest, link' = link, rpc' = rpc
      PROVE  CreationsApart'
  <2>1. NoCreation
    BY <1>3, <1>4
  <2> QED
    BY <1>2, <1>4, <2>1
<1>5. ASSUME NEW s \in Socket, NEW targets, SendDirectly(s, targets) PROVE CreationsApart'
  <2>1. latest' = latest /\ link' = link /\ rpc' = rpc
    BY <1>5 DEF SendDirectly, Crash
  <2>2. CASE pc' = [pc EXCEPT ![s] = "ready"] /\ op' = [op EXCEPT ![s] = Idle]
    BY <1>4, <2>1, <2>2
  <2>3. CASE pc' = [pc EXCEPT ![s] = "crashed"] /\ op' = op
    BY <1>4, <2>1, <2>3
  <2> QED
    BY <1>5, <2>2, <2>3 DEF SendDirectly, Crash
<1>6. ASSUME NEW s \in Socket, NEW c \in Chat, NEW next, next # "subscribing",
             AddUserToChat(s, c, next), rpc' = rpc
      PROVE  CreationsApart'
  <2>1. CASE members[c] # {}
    <3>1. /\ pc' = [pc EXCEPT ![s] = next]
          /\ op' = [op EXCEPT ![s] = Call(c, 0, next)]
          /\ latest' = latest /\ link' = link
      BY <1>6, <2>1 DEF AddUserToChat
    <3> QED
      BY <1>4, <1>6, <3>1
  <2>2. CASE members[c] = {}
    <3>1. /\ pc' = [pc EXCEPT ![s] = "subscribing"]
          /\ op' = [op EXCEPT ![s] = Call(c, latest + 1, next)]
          /\ latest' = latest + 1
          /\ link' = [link EXCEPT ![latest + 1] = "new"]
          /\ latest < MaxPubSub
      BY <1>6, <2>2 DEF AddUserToChat
    <3>2. latest \in Nat /\ latest + 1 \in PubSub
      BY <3>1, HubAssumption DEF PubSub, TypeOK
    <3>3. link[latest + 1] = "none" /\ rpc[latest + 1] = "none"
      BY <3>2 DEF CreationsApart
    <3>4. op'[s].pubsub = latest + 1 /\ pc'[s] = "subscribing" /\ link'[latest + 1] = "new"
      BY <3>1, <3>2 DEF Call, TypeOK
    <3>5. \A t \in Socket \ {s} : pc'[t] = pc[t] /\ op'[t] = op[t]
      BY <3>1 DEF TypeOK
    <3>6. \A t \in Socket : pc[t] = "subscribing" => op[t].pubsub \in 1..latest
      BY DEF EndpointOK
    <3>7. \A t \in Socket : pc[t] = "subscribing" =>
            op[t].pubsub \in PubSub /\ op[t].pubsub # latest + 1
      <4>1. latest + 1 <= MaxPubSub /\ MaxPubSub \in Nat
        BY <3>2, HubAssumption DEF PubSub
      <4>2. \A n \in 1..latest : n \in PubSub /\ n # latest + 1
        BY <3>2, <4>1 DEF PubSub
      <4> QED
        BY <3>6, <4>2
    <3>8. \A p \in PubSub : p # latest + 1 => link'[p] = link[p]
      BY <3>1 DEF TypeOK
    <3>9. \A t \in Socket : pc'[t] = "subscribing" => link'[op'[t].pubsub] = "new"
      BY <3>4, <3>5, <3>7, <3>8 DEF CreationsApart
    <3>10. \A t, u \in Socket : t # u /\ pc'[t] = "subscribing" /\ pc'[u] = "subscribing"
                                 => op'[u].pubsub # op'[t].pubsub
      BY <3>4, <3>5, <3>7 DEF CreationsApart
    <3>11. \A p \in PubSub : link'[p] \in {"none", "new"} => rpc'[p] = "none"
      BY <1>6, <3>3, <3>8 DEF CreationsApart
    <3>12. \A p \in PubSub : p > latest' => link'[p] = "none"
      BY <3>1, <3>2, <3>8 DEF CreationsApart, PubSub
    <3> QED
      BY <3>9, <3>10, <3>11, <3>12 DEF CreationsApart
  <2> QED
    BY <2>1, <2>2
<1>a. ASSUME NEW s \in Socket, Subscribed(s) PROVE CreationsApart'
  <2>1. /\ pc[s] = "subscribing"
        /\ link' = [link EXCEPT ![op[s].pubsub] = "asked"]
        /\ rpc' = [rpc EXCEPT ![op[s].pubsub] = "polling"]
        /\ pc' = [pc EXCEPT ![s] = op[s].next]
        /\ op' = [op EXCEPT ![s] = Call(op[s].chat, 0, op[s].next)]
        /\ latest' = latest
    BY <1>a DEF Subscribed
  <2>2. op[s].next # "subscribing"
    BY <2>1 DEF EndpointOK
  <2>3. pc'[s] # "subscribing"
    BY <2>1, <2>2 DEF TypeOK
  <2>4. \A t \in Socket \ {s} : pc'[t] = pc[t] /\ op'[t] = op[t]
    BY <2>1 DEF TypeOK
  <2>5. \A t \in Socket : pc[t] = "subscribing" => op[t].pubsub \in 1..latest
    BY DEF EndpointOK
  <2>6. latest \in Nat /\ latest <= MaxPubSub /\ MaxPubSub \in Nat
    BY HubAssumption DEF TypeOK
  <2>7. \A t \in Socket : pc[t] = "subscribing" => op[t].pubsub \in PubSub /\ op[t].pubsub <= latest
    BY <2>5, <2>6 DEF PubSub
  <2>8. \A p \in PubSub : p # op[s].pubsub => link'[p] = link[p] /\ rpc'[p] = rpc[p]
    BY <2>1 DEF TypeOK
  <2>9. link'[op[s].pubsub] = "asked"
    BY <2>1, <2>7 DEF TypeOK
  <2>10. \A p \in PubSub : link'[p] \in {"none", "new"} => rpc'[p] = "none"
    BY <2>8, <2>9 DEF CreationsApart
  <2>11. \A p \in PubSub : p > latest' => link'[p] = "none"
    <3>1. \A p \in PubSub : p > latest => p # op[s].pubsub
      BY <2>1, <2>6, <2>7 DEF PubSub
    <3> QED
      BY <2>1, <2>8, <3>1 DEF CreationsApart
  <2>12. \A t \in Socket : pc'[t] = "subscribing" => link'[op'[t].pubsub] = "new"
    <3>1. \A t \in Socket \ {s} : pc[t] = "subscribing" => op[t].pubsub # op[s].pubsub
      BY <2>1 DEF CreationsApart
    <3> QED
      BY <2>3, <2>4, <2>7, <2>8, <3>1 DEF CreationsApart
  <2>13. \A t, u \in Socket : t # u /\ pc'[t] = "subscribing" /\ pc'[u] = "subscribing"
                               => op'[u].pubsub # op'[t].pubsub
    BY <2>3, <2>4 DEF CreationsApart
  <2> QED
    BY <2>10, <2>11, <2>12, <2>13 DEF CreationsApart
<1>b. ASSUME NEW s \in Socket, NEW c \in Chat, LeaveChat(s, c) PROVE CreationsApart'
  <2>1. FreshKept
    <3>1. CASE link' = link
      BY <3>1
    <3>2. CASE Unsubscribe(c)
      BY <3>2 DEF Unsubscribe
    <3> QED
      BY <1>b, <3>1, <3>2 DEF LeaveChat, RemoveUserFromChat
  <2>2. NoCreation
    BY <1>3, <1>b DEF LeaveChat
  <2>3. ReadersKept /\ latest' = latest
    BY <1>b DEF LeaveChat
  <2> QED
    BY <1>2, <2>1, <2>2, <2>3
<1>c. ASSUME NEW p \in PubSub, RedisApplies(p) PROVE CreationsApart'
  <2>1. /\ link[p] \in {"asked", "cancelled", "quitting"}
        /\ \A q \in PubSub : q # p => link'[q] = link[q]
        /\ link'[p] \in {"on", "quitting", "off"}
    BY <1>c DEF RedisApplies, TypeOK
  <2>2. FreshKept
    BY <2>1
  <2>3. ReadersKept /\ NoCreation /\ latest' = latest
    BY <1>c DEF RedisApplies
  <2> QED
    BY <1>2, <2>2, <2>3
<1>d. ASSUME NEW s \in Socket, Request(s) PROVE CreationsApart'
  <2> PICK c \in Chat : \/ NewMessage(s, c) \/ MessageRead(s, c) \/ UserTyping(s, c)
                         \/ AddUserToChatRequest(s, c) \/ ChatDeleted(s, c)
    BY <1>d DEF Request
  <2>1. ASSUME NEW next, next # "subscribing", Handle(s, c, next), rpc' = rpc PROVE CreationsApart'
    <3>1. /\ pc' = [pc EXCEPT ![s] = next]
          /\ op' = [op EXCEPT ![s] = Call(c, 0, next)]
          /\ latest' = latest /\ link' = link
      BY <2>1 DEF Handle
    <3> QED
      BY <1>4, <2>1, <3>1
  <2>2. CASE NewMessage(s, c)
    BY <1>6, <2>1, <2>2 DEF NewMessage
  <2>3. CASE MessageRead(s, c) \/ UserTyping(s, c)
    BY <2>1, <2>3 DEF MessageRead, UserTyping
  <2>4. CASE AddUserToChatRequest(s, c)
    BY <1>6, <2>4 DEF AddUserToChatRequest
  <2>5. CASE ChatDeleted(s, c)
    BY <1>5, <2>5 DEF ChatDeleted
  <2> QED
    BY <2>2, <2>3, <2>4, <2>5
<1>e. ASSUME NEW s \in Socket, ErrorReplyRaises(s) \/ EndpointFails(s) PROVE CreationsApart'
  <2>1. /\ pc' = [pc EXCEPT ![s] = "crashed"]
        /\ op' = op
        /\ latest' = latest /\ link' = link /\ rpc' = rpc
    BY <1>e DEF ErrorReplyRaises, EndpointFails, Crash
  <2> QED
    BY <1>4, <2>1
<1>f. ASSUME NEW s \in Socket, NEW c \in Chat, JoinNext(s, c) PROVE CreationsApart'
  BY <1>6, <1>f DEF JoinNext
<1>g. ASSUME NEW s \in Socket, StoreFindsNone(s) \/ NotifyFriend(s) PROVE CreationsApart'
  BY <1>5, <1>g DEF StoreFindsNone, NotifyFriend
<1>h. ASSUME NEW s \in Socket,
             \/ Accept(s) \/ LoadChats(s) \/ StartReceiving(s) \/ Store(s) \/ Publish(s)
             \/ Disconnect(s) \/ PublishOffline(s) \/ Finish(s)
      PROVE  CreationsApart'
  <2>1. latest' = latest /\ link' = link /\ rpc' = rpc
    BY <1>h DEF Accept, LoadChats, StartReceiving, Store, Publish, Disconnect, PublishOffline, Finish
  <2>2. op' = op \/ \E y : op' = [op EXCEPT ![s] = y]
    BY <1>h DEF Accept, LoadChats, StartReceiving, Store, Publish, Disconnect, PublishOffline, Finish
  <2>3. \E x : x # "subscribing" /\ pc' = [pc EXCEPT ![s] = x]
    <3>1. CASE Publish(s)
      <4> DEFINE next == IF MoreToPublish(s) THEN "publishing"
                         ELSE IF notify[s] THEN "notifying" ELSE "ready"
      <4>1. pc' = [pc EXCEPT ![s] = next] /\ next # "subscribing"
        BY <3>1 DEF Publish
      <4> QED
        BY <4>1
    <3> QED
      BY <1>h, <3>1 DEF Accept, LoadChats, StartReceiving, Store, Disconnect, PublishOffline, Finish
  <2> QED
    BY <1>4, <2>1, <2>2, <2>3
<1>i. ASSUME NEW s \in Socket, ClientCloses(s) PROVE CreationsApart'
  BY <1>2, <1>i DEF ClientCloses
<1>j. ASSUME NEW p \in PubSub, ReaderStep(p) \/ ReaderCollides(p) \/ ReaderFails(p)
      PROVE  CreationsApart'
  <2>1. UNCHANGED <<pc, op, latest, link>>
    BY <1>j DEF ReaderStep, ReaderTakes, ReaderContinues, ReaderFinishes, ReaderDies,
     ReaderDiesOnSetChange, ReaderWithoutConnection, ReaderCollides, ReaderFails
  <2>2. rpc[p] # "none" /\ (rpc' = rpc \/ \E x : rpc' = [rpc EXCEPT ![p] = x])
    BY <1>j DEF ReaderStep, ReaderTakes, ReaderContinues, ReaderFinishes, ReaderDies, SendText,
     ReaderDiesOnSetChange, ReaderWithoutConnection, ReaderCollides, ReaderFails
  <2>3. ReadersKept
    BY <2>2 DEF TypeOK
  <2>4. FreshKept /\ NoCreation
    BY <2>1
  <2> QED
    BY <1>2, <2>1, <2>3, <2>4
<1>k. CASE UNCHANGED vars
  BY <1>2, <1>k DEF vars
<1> QED
  BY <1>a, <1>b, <1>c, <1>d, <1>e, <1>f, <1>g, <1>h, <1>i, <1>j, <1>k
     DEF Next, ClientStep, EndpointStep

-----------------------------------------------------------------------------
(***************************************************************************)
(* Queues and what the readers have sent.                                  *)
(***************************************************************************)

Increasing(q) == \A i, j \in DOMAIN q : i < j => q[i] < q[j]
UpTo(q, n) == \A i \in DOMAIN q : q[i] \in 1..n
Above(q, n) == \A i \in DOMAIN q : n < q[i]

\* A message newer than all that were published goes last in any queue.
LEMMA AppendOrder ==
  ASSUME NEW q \in Seq(Nat), NEW n \in Nat, Increasing(q), UpTo(q, n)
  PROVE  /\ Increasing(Append(q, n + 1))
         /\ UpTo(Append(q, n + 1), n + 1)
         /\ \A m \in Nat : m <= n /\ Above(q, m) => Above(Append(q, n + 1), m)
<1> DEFINE r == Append(q, n + 1)
<1>1. /\ DOMAIN r = 1..(Len(q) + 1)
      /\ DOMAIN q = 1..Len(q)
      /\ Len(q) \in Nat
      /\ \A i \in DOMAIN q : r[i] = q[i]
      /\ r[Len(q) + 1] = n + 1
  OBVIOUS
<1>2. \A i \in DOMAIN r : i \in DOMAIN q \/ i = Len(q) + 1
  BY <1>1
<1>3. \A i \in DOMAIN q : q[i] \in Nat
  BY <1>1
<1> HIDE DEF r
<1>4. Increasing(r)
  BY <1>1, <1>2, <1>3 DEF Increasing, UpTo
<1>5. UpTo(r, n + 1)
  BY <1>1, <1>2, <1>3 DEF UpTo
<1>6. \A m \in Nat : m <= n /\ Above(q, m) => Above(r, m)
  BY <1>1, <1>2, <1>3 DEF Above
<1> QED
  BY <1>4, <1>5, <1>6 DEF r

\* The message taken from a queue is older than all that stay, newer than all sent before.
LEMMA TailOrder ==
  ASSUME NEW q \in Seq(Nat), NEW n \in Nat, q # <<>>, Increasing(q), UpTo(q, n)
  PROVE  /\ Increasing(Tail(q))
         /\ UpTo(Tail(q), n)
         /\ \A m \in Nat : Above(q, m) => Above(Tail(q), m) /\ m < Head(q)
         /\ Above(Tail(q), Head(q))
         /\ Head(q) \in 1..n
<1> DEFINE r == Tail(q)
<1>1. /\ DOMAIN r = 1..(Len(q) - 1)
      /\ DOMAIN q = 1..Len(q)
      /\ Len(q) \in Nat /\ Len(q) > 0
      /\ \A i \in DOMAIN r : r[i] = q[i + 1]
      /\ Head(q) = q[1]
  OBVIOUS
<1>2. \A i \in DOMAIN r : i + 1 \in DOMAIN q /\ i \in Nat /\ 1 < i + 1
  BY <1>1
<1>3. 1 \in DOMAIN q /\ \A i \in DOMAIN q : q[i] \in Nat
  BY <1>1
<1> HIDE DEF r
<1>4. Increasing(r)
  BY <1>1, <1>2, <1>3 DEF Increasing
<1>5. UpTo(r, n)
  BY <1>1, <1>2, <1>3 DEF UpTo
<1>6. \A m \in Nat : Above(q, m) => Above(r, m) /\ m < Head(q)
  BY <1>1, <1>2, <1>3 DEF Above
<1>7. Above(r, Head(q))
  BY <1>1, <1>2, <1>3 DEF Above, Increasing
<1>8. Head(q) \in 1..n
  BY <1>1, <1>3 DEF UpTo
<1> QED
  BY <1>4, <1>5, <1>6, <1>7, <1>8 DEF r

\* ReaderOK and EachReaderInOrder, cut into what a step of Redis and what a step of the reader
\* itself disturbs.
QueueOK(q) ==
  /\ q <= latest => topic[q] \in Chat
  /\ Increasing(queue[q])
  /\ UpTo(queue[q], Len(published))

SenderOK(p) ==
  /\ \A s \in Socket : heard[s][p] <= Len(published)
  /\ rpc[p] = "none" => \A s \in Socket : heard[s][p] = 0
  /\ rpc[p] # "none" => source[p] \in 1..latest
  /\ rpc[p] = "sending" => iter[p].msg <= Len(published) /\ Above(queue[source[p]], iter[p].msg)
  /\ rpc[p] \in {"polling", "sending"} => \A s \in Socket : Above(queue[source[p]], heard[s][p])
  /\ rpc[p] = "sending" => \A s \in Socket : s \notin iter[p].seen => heard[s][p] < iter[p].msg

\* The two parts together say what ReaderOK and EachReaderInOrder say, now and after a step.
LEMMA OrderParts ==
  /\ (\A p \in PubSub : ReaderOK(p)) /\ EachReaderInOrder
     <=> \A p \in PubSub : QueueOK(p) /\ SenderOK(p)
  /\ (\A p \in PubSub : ReaderOK(p)') /\ EachReaderInOrder'
     <=> \A p \in PubSub : QueueOK(p)' /\ SenderOK(p)'
BY DEF ReaderOK, EachReaderInOrder, QueueOK, SenderOK, Increasing, UpTo, Above

\* What the order of the messages depends on, for steps that leave it alone.
LEMMA OrderKept ==
  ASSUME TypeOK, \A p \in PubSub : QueueOK(p) /\ SenderOK(p),
         UNCHANGED <<queue, published, readerVars>>,
         latest' = latest /\ topic' = topic
  PROVE  \A p \in PubSub : QueueOK(p)' /\ SenderOK(p)'
BY DEF QueueOK, SenderOK

\* add_user_to_chat gives the new PubSub its channel and leaves the order alone.
LEMMA AddUserToChatOrder ==
  ASSUME TypeOK, \A p \in PubSub : QueueOK(p) /\ SenderOK(p),
         NEW s \in Socket, NEW c \in Chat, NEW next, AddUserToChat(s, c, next),
         UNCHANGED <<queue, published, readerVars>>
  PROVE  \A p \in PubSub : QueueOK(p)' /\ SenderOK(p)'
<1>1. CASE members[c] # {}
  <2>1. latest' = latest /\ topic' = topic
    BY <1>1 DEF AddUserToChat
  <2> QED
    BY <2>1, OrderKept
<1>2. CASE members[c] = {}
  <2>1. latest' = latest + 1 /\ topic' = [topic EXCEPT ![latest + 1] = c]
    BY <1>2 DEF AddUserToChat
  <2>2. latest \in Nat /\ PubSub \subseteq Nat
    BY HubAssumption DEF TypeOK, PubSub
  <2>3. \A p \in PubSub : p <= latest' => topic'[p] \in Chat
    <3>1. \A p \in PubSub : p <= latest' => p <= latest \/ p = latest + 1
      BY <2>1, <2>2
    <3>2. \A p \in PubSub : p # latest + 1 => topic'[p] = topic[p]
      BY <2>1 DEF TypeOK
    <3>3. latest + 1 \in PubSub => topic'[latest + 1] = c
      BY <2>1 DEF TypeOK
    <3> QED
      BY <3>1, <3>2, <3>3 DEF QueueOK
  <2>4. \A p \in PubSub : QueueOK(p)'
    BY <2>3 DEF QueueOK
  <2>5. 1..latest \subseteq 1..latest'
    BY <2>1, <2>2
  <2>6. \A p \in PubSub : SenderOK(p)'
    BY <2>5 DEF SenderOK
  <2> QED
    BY <2>4, <2>6
<1> QED
  BY <1>1, <1>2

\* broadcast_to_chat appends the newest message to the queues it reaches.
LEMMA BroadcastOrder ==
  ASSUME TypeOK, \A p \in PubSub : QueueOK(p) /\ SenderOK(p),
         NEW c, Broadcast(c),
         UNCHANGED <<readerVars, latest, topic>>
  PROVE  \A p \in PubSub : QueueOK(p)' /\ SenderOK(p)'
<1>1. /\ Len(published) \in Nat
      /\ Len(published') = Len(published) + 1
      /\ \A q \in PubSub : queue[q] \in Seq(Nat)
      /\ \A q \in PubSub : queue'[q] = queue[q] \/ queue'[q] = Append(queue[q], Len(published) + 1)
  BY DEF TypeOK, Broadcast
<1>2. \A q \in PubSub :
        /\ Increasing(queue'[q])
        /\ UpTo(queue'[q], Len(published) + 1)
        /\ \A m \in Nat : m <= Len(published) /\ Above(queue[q], m) => Above(queue'[q], m)
  <2> SUFFICES ASSUME NEW q \in PubSub
               PROVE  /\ Increasing(queue'[q])
                      /\ UpTo(queue'[q], Len(published) + 1)
                      /\ \A m \in Nat : m <= Len(published) /\ Above(queue[q], m) => Above(queue'[q], m)
    OBVIOUS
  <2>1. Increasing(queue[q]) /\ UpTo(queue[q], Len(published))
    BY DEF QueueOK
  <2>2. CASE queue'[q] = queue[q]
    BY <1>1, <2>1, <2>2 DEF UpTo
  <2>3. CASE queue'[q] = Append(queue[q], Len(published) + 1)
    BY <1>1, <2>1, <2>3, AppendOrder
  <2> QED
    BY <1>1, <2>2, <2>3
<1>3. \A p \in PubSub : QueueOK(p)'
  BY <1>1, <1>2 DEF QueueOK
<1>4. ASSUME NEW p \in PubSub PROVE SenderOK(p)'
  <2>1. \A s \in Socket : heard[s][p] \in Nat /\ heard[s][p] <= Len(published)
    BY DEF SenderOK, TypeOK
  <2>2. iter[p].msg \in Nat
    BY DEF TypeOK, Iteration
  <2>3. rpc[p] # "none" => source[p] \in PubSub
    BY HubAssumption DEF SenderOK, TypeOK, PubSub
  <2>4. \A s \in Socket : heard'[s][p] <= Len(published')
    BY <1>1, <2>1
  <2>5. rpc[p] = "sending" => iter[p].msg <= Len(published') /\ Above(queue'[source[p]], iter[p].msg)
    BY <1>1, <1>2, <2>2, <2>3 DEF SenderOK
  <2>6. rpc[p] \in {"polling", "sending"} => \A s \in Socket : Above(queue'[source[p]], heard[s][p])
    BY <1>2, <2>1, <2>3 DEF SenderOK
  <2> QED
    BY <2>4, <2>5, <2>6 DEF SenderOK
<1> QED
  BY <1>3, <1>4

\* A reader starts on a queue from which it has sent nothing yet, be it another chat's.
LEMMA SubscribedOrder ==
  ASSUME TypeOK, CreationsApart, \A p \in PubSub : QueueOK(p) /\ SenderOK(p),
         NEW s \in Socket, EndpointOK(s), Subscribed(s)
  PROVE  \A p \in PubSub : QueueOK(p)' /\ SenderOK(p)'
<1> DEFINE n == op[s].pubsub
<1>1. /\ n \in 1..latest
      /\ link[n] = "new"
      /\ rpc' = [rpc EXCEPT ![n] = "polling"]
      /\ source' = [source EXCEPT ![n] = latest]
      /\ UNCHANGED <<latest, topic, queue, published, iter, heard>>
  BY DEF Subscribed, EndpointOK, CreationsApart
<1>2. latest \in Nat /\ latest <= MaxPubSub /\ MaxPubSub \in Nat
  BY HubAssumption DEF TypeOK
<1>3. n \in PubSub /\ latest \in PubSub /\ latest \in 1..latest
  BY <1>1, <1>2 DEF PubSub
<1>4. rpc[n] = "none" /\ \A t \in Socket : heard[t][n] = 0
  BY <1>1, <1>3 DEF CreationsApart, SenderOK
<1>5. \A p \in PubSub : QueueOK(p)'
  BY <1>1 DEF QueueOK
<1>6. \A p \in PubSub : p # n => SenderOK(p)'
  <2>1. \A p \in PubSub : p # n => rpc'[p] = rpc[p] /\ source'[p] = source[p]
    BY <1>1 DEF TypeOK
  <2> QED
    BY <1>1, <2>1 DEF SenderOK
<1>7. ASSUME NEW p \in PubSub, p = n PROVE SenderOK(p)'
  <2>1. rpc'[p] = "polling" /\ source'[p] = latest
    BY <1>1, <1>7 DEF TypeOK
  <2>2. \A i \in DOMAIN queue[latest] : 0 < queue[latest][i]
    <3>1. Len(published) \in Nat /\ UpTo(queue[latest], Len(published))
      BY <1>3 DEF QueueOK, TypeOK
    <3> QED
      BY <3>1 DEF UpTo
  <2>3. \A t \in Socket : Above(queue'[source'[p]], heard'[t][p])
    BY <1>1, <1>4, <1>7, <2>1, <2>2 DEF Above
  <2>4. \A t \in Socket : heard'[t][p] <= Len(published')
    BY <1>1 DEF SenderOK
  <2> QED
    BY <1>1, <1>3, <2>1, <2>3, <2>4 DEF SenderOK
<1> QED
  BY <1>5, <1>6, <1>7

\* SendText of a message that is older than all that waits: who had not been sent it has only
\* been sent older ones.
LEMMA SendTextOrder ==
  ASSUME TypeOK, \A p \in PubSub : SenderOK(p),
         NEW p \in PubSub, rpc[p] # "none",
         NEW s \in Socket, NEW it \in Iteration, SendText(p, s, it),
         UNCHANGED <<source, latest, published>>,
         \A q \in PubSub : queue'[q] \in Seq(Nat)
                         /\ \A m \in Nat : Above(queue[q], m) => Above(queue'[q], m),
         it.msg <= Len(published),
         Above(queue'[source[p]], it.msg),
         \A t \in Socket : t \notin it.seen => heard[t][p] < it.msg,
         \A t \in Socket : Above(queue[source[p]], heard[t][p])
  PROVE  \A q \in PubSub : SenderOK(q)'
<1>1. /\ it.msg \in Nat
      /\ \A t \in Socket, q \in PubSub : heard[t][q] \in Nat
      /\ \A q \in PubSub : iter[q].msg \in Nat
  BY DEF TypeOK, Iteration
<1>2. \A q \in PubSub : rpc[q] # "none" => source[q] \in PubSub
  BY HubAssumption DEF SenderOK, TypeOK, PubSub
<1>3. ASSUME NEW q \in PubSub, q # p PROVE SenderOK(q)'
  <2>1. rpc'[q] = rpc[q] /\ iter'[q] = iter[q] /\ source'[q] = source[q]
    BY <1>3 DEF SendText, TypeOK
  <2>2. \A t \in Socket : heard'[t][q] = heard[t][q]
    <3>1. CASE heard' = [heard EXCEPT ![s][p] = it.msg]
      <4>1. \A t \in Socket : heard[t] \in [PubSub -> Nat]
        BY DEF TypeOK
      <4>2. \A t \in Socket : heard'[t] = IF t = s THEN [heard[t] EXCEPT ![p] = it.msg] ELSE heard[t]
        BY <3>1 DEF TypeOK
      <4> QED
        BY <1>3, <4>1, <4>2
    <3> QED
      BY <3>1 DEF SendText
  <2>3. rpc[q] = "sending" => Above(queue'[source[q]], iter[q].msg)
    BY <1>1, <1>2 DEF SenderOK
  <2>4. rpc[q] \in {"polling", "sending"} => \A t \in Socket : Above(queue'[source[q]], heard[t][q])
    BY <1>1, <1>2 DEF SenderOK
  <2> QED
    BY <2>1, <2>2, <2>3, <2>4 DEF SenderOK
<1>4. CASE rpc' = [rpc EXCEPT ![p] = "dead"] /\ heard' = heard
  <2>1. rpc'[p] = "dead" /\ source'[p] = source[p]
    BY <1>4 DEF TypeOK
  <2>2. SenderOK(p)'
    BY <1>4, <2>1 DEF SenderOK
  <2> QED
    BY <1>3, <2>2
<1>5. CASE /\ rpc' = [rpc EXCEPT ![p] = "sending"]
           /\ iter' = [iter EXCEPT ![p] = Loop(it.msg, it.obj, it.start, it.seen \cup {s})]
           /\ heard' = heard \/ heard' = [heard EXCEPT ![s][p] = it.msg]
  <2>1. /\ rpc'[p] = "sending"
        /\ iter'[p].msg = it.msg
        /\ iter'[p].seen = it.seen \cup {s}
        /\ source'[p] = source[p]
    BY <1>5 DEF TypeOK, Loop
  <2>2. \A t \in Socket : heard'[t][p] = heard[t][p] \/ (t = s /\ heard'[t][p] = it.msg)
    <3>1. CASE heard' = [heard EXCEPT ![s][p] = it.msg]
      <4>1. \A t \in Socket : heard[t] \in [PubSub -> Nat]
        BY DEF TypeOK
      <4>2. \A t \in Socket : heard'[t] = IF t = s THEN [heard[t] EXCEPT ![p] = it.msg] ELSE heard[t]
        BY <3>1 DEF TypeOK
      <4>3. heard'[s][p] = it.msg
        BY <4>1, <4>2
      <4> QED
        BY <4>2, <4>3
    <3>2. CASE heard' = heard
      BY <3>2
    <3> QED
      BY <1>5, <3>1, <3>2
  <2>3. \A t \in Socket : heard'[t][p] <= Len(published')
    BY <2>2 DEF SenderOK
  <2>4. \A t \in Socket : Above(queue'[source[p]], heard'[t][p])
    BY <1>1, <1>2, <2>2
  <2>5. \A t \in Socket : t \notin iter'[p].seen => heard'[t][p] < iter'[p].msg
    BY <2>1, <2>2
  <2>6. SenderOK(p)'
    BY <2>1, <2>3, <2>4, <2>5 DEF SenderOK
  <2> QED
    BY <1>3, <2>6
<1> QED
  BY <1>4, <1>5 DEF SendText

\* A step of a reader task keeps the order, also of the readers that share its queue.
LEMMA ReaderOrder ==
  ASSUME TypeOK, \A p \in PubSub : QueueOK(p) /\ SenderOK(p),
         NEW p \in PubSub, ReaderStep(p) \/ ReaderCollides(p) \/ ReaderFails(p)
  PROVE  \A q \in PubSub : QueueOK(q)' /\ SenderOK(q)'
<1>1. UNCHANGED <<source, latest, topic, published>>
  BY DEF ReaderStep, ReaderTakes, ReaderContinues, ReaderFinishes, ReaderDies,
     ReaderDiesOnSetChange, ReaderWithoutConnection, ReaderCollides, ReaderFails
<1>2. \A q \in PubSub : queue[q] \in Seq(Nat) /\ Len(published) \in Nat
  BY DEF TypeOK
<1>3. rpc[p] # "none" => source[p] \in PubSub
  <2>1. 1..latest \subseteq PubSub
    BY HubAssumption DEF TypeOK, PubSub
  <2> QED
    BY <2>1 DEF SenderOK
<1>4. CASE ReaderTakes(p)
  <2> DEFINE q0 == source[p]
             loop == Loop(Head(queue[q0]), home[ChannelOf(p)], members[ChannelOf(p)], {})
  <2>1. /\ rpc[p] = "polling"
        /\ queue[q0] # <<>>
        /\ queue' = [queue EXCEPT ![q0] = Tail(queue[q0])]
        /\ \/ UNCHANGED <<rpc, iter, heard>>
           \/ \E s \in members[ChannelOf(p)] : SendText(p, s, loop)
    BY <1>4 DEF ReaderTakes, TakenQueue
  <2>2. q0 \in PubSub
    BY <1>3, <2>1
  <2>3. /\ queue'[q0] = Tail(queue[q0])
        /\ \A q \in PubSub : q # q0 => queue'[q] = queue[q]
    BY <2>1, <2>2 DEF TypeOK
  <2>4. Increasing(queue[q0]) /\ UpTo(queue[q0], Len(published))
    BY <2>2 DEF QueueOK
  <2>5. /\ Increasing(queue'[q0])
        /\ UpTo(queue'[q0], Len(published))
        /\ \A m \in Nat : Above(queue[q0], m) => Above(queue'[q0], m) /\ m < Head(queue[q0])
        /\ Above(queue'[q0], Head(queue[q0]))
        /\ Head(queue[q0]) \in 1..Len(published)
    BY <1>2, <2>1, <2>2, <2>3, <2>4, TailOrder
  <2>6. \A q \in PubSub : QueueOK(q)'
    BY <1>1, <2>3, <2>5 DEF QueueOK
  <2>7. \A q \in PubSub : queue'[q] \in Seq(Nat)
                        /\ \A m \in Nat : Above(queue[q], m) => Above(queue'[q], m)
    <3>1. queue'[q0] \in Seq(Nat)
      BY <1>2, <2>1, <2>2, <2>3
    <3> HIDE DEF q0
    <3> QED
      BY <1>2, <2>3, <2>5, <3>1
  <2>8. CASE UNCHANGED <<rpc, iter, heard>>
    <3>1. /\ \A t \in Socket, q \in PubSub : heard[t][q] \in Nat
          /\ \A q \in PubSub : iter[q].msg \in Nat
          /\ \A q \in PubSub : rpc[q] # "none" => source[q] \in PubSub
      BY HubAssumption DEF SenderOK, TypeOK, Iteration, PubSub
    <3> \A q \in PubSub : SenderOK(q)'
      <4> SUFFICES ASSUME NEW q \in PubSub PROVE SenderOK(q)'
        OBVIOUS
      <4>1. rpc[q] = "sending" => Above(queue'[source[q]], iter[q].msg)
        BY <2>7, <3>1 DEF SenderOK
      <4>2. rpc[q] \in {"polling", "sending"} => \A t \in Socket : Above(queue'[source[q]], heard[t][q])
        BY <2>7, <3>1 DEF SenderOK
      <4> QED
        BY <1>1, <2>8, <4>1, <4>2 DEF SenderOK
    <3> QED
      BY <2>6
  <2>9. CASE \E s \in members[ChannelOf(p)] : SendText(p, s, loop)
    <3> PICK s \in members[ChannelOf(p)] : SendText(p, s, loop)
      BY <2>9
    <3>1. ChannelOf(p) \in Chat
      BY <2>1, <2>2 DEF ChannelOf, QueueOK, SenderOK
    <3>2. s \in Socket
      BY <3>1 DEF TypeOK
    <3>3. loop \in Iteration
      <4>1. Head(queue[q0]) \in Nat
        BY <1>2, <2>5
      <4>2. home[ChannelOf(p)] \in Nat /\ members[ChannelOf(p)] \in SUBSET Socket
        BY <3>1 DEF TypeOK
      <4> QED
        BY <4>1, <4>2 DEF Loop, Iteration
    <3>4. loop.msg = Head(queue[q0]) /\ loop.seen = {}
      BY DEF Loop
    <3>5. \A t \in Socket : heard[t][p] \in Nat /\ Above(queue[q0], heard[t][p])
      BY <2>1 DEF SenderOK, TypeOK
    <3>6. loop.msg <= Len(published)
      BY <1>2, <2>2, <2>5, <3>4
    <3>7. \A t \in Socket : heard[t][p] < loop.msg
      BY <2>5, <3>4, <3>5
    <3>8. Above(queue'[source[p]], loop.msg)
      BY <2>5, <3>4
    <3>9. UNCHANGED <<source, latest, published>>
      BY <1>1
    <3> HIDE DEF loop
    <3>10. \A q \in PubSub : SenderOK(q)'
      BY <2>1, <2>7, <3>2, <3>3, <3>5, <3>6, <3>7, <3>8, <3>9, SendTextOrder
    <3> QED
      BY <2>6, <3>10
  <2> QED
    BY <2>1, <2>8, <2>9
<1>5. ASSUME queue' = queue PROVE \A q \in PubSub : QueueOK(q)'
  BY <1>1, <1>5 DEF QueueOK
<1>6. CASE ReaderContinues(p)
  <2>1. /\ rpc[p] = "sending" /\ queue' = queue
        /\ \E s \in StillToVisit(p) : SendText(p, s, iter[p])
    BY <1>6 DEF ReaderContinues
  <2> PICK s \in StillToVisit(p) : SendText(p, s, iter[p])
    BY <2>1
  <2>2. ChannelOf(p) \in Chat
    BY <1>3, <2>1 DEF ChannelOf, QueueOK, SenderOK
  <2>3. s \in Socket
    BY <2>2 DEF StillToVisit, TypeOK
  <2>4. iter[p] \in Iteration
    BY DEF TypeOK
  <2>5. \A q \in PubSub : queue'[q] \in Seq(Nat)
                        /\ \A m \in Nat : Above(queue[q], m) => Above(queue'[q], m)
    BY <1>2, <2>1
  <2>6. /\ iter[p].msg <= Len(published)
        /\ Above(queue'[source[p]], iter[p].msg)
        /\ \A t \in Socket : t \notin iter[p].seen => heard[t][p] < iter[p].msg
        /\ \A t \in Socket : Above(queue[source[p]], heard[t][p])
    BY <2>1 DEF SenderOK
  <2>7. UNCHANGED <<source, latest, published>>
    BY <1>1
  <2>8. \A q \in PubSub : SenderOK(q)'
    BY <2>1, <2>3, <2>4, <2>5, <2>6, <2>7, SendTextOrder
  <2> QED
    BY <1>5, <2>1, <2>8
<1>7. ASSUME rpc' = [rpc EXCEPT ![p] = "dead"] \/ rpc' = [rpc EXCEPT ![p] = "polling"],
             rpc[p] \in {"polling", "sending"},
             iter' = [iter EXCEPT ![p] = NoIteration],
             queue' = queue, heard' = heard
      PROVE  \A q \in PubSub : QueueOK(q)' /\ SenderOK(q)'
  <2>1. rpc'[p] \in {"dead", "polling"} /\ \A q \in PubSub : q # p => rpc'[q] = rpc[q] /\ iter'[q] = iter[q]
    BY <1>7 DEF TypeOK
  <2>2. \A q \in PubSub : SenderOK(q)'
    BY <1>1, <1>7, <2>1 DEF SenderOK
  <2> QED
    BY <1>5, <1>7, <2>2
<1>8. CASE ReaderFinishes(p)
  BY <1>7, <1>8 DEF ReaderFinishes
<1>9. CASE \/ ReaderDiesOnSetChange(p) \/ ReaderWithoutConnection(p)
           \/ ReaderCollides(p) \/ ReaderFails(p)
  BY <1>7, <1>9 DEF ReaderDiesOnSetChange, ReaderWithoutConnection, ReaderCollides, ReaderFails,
     ReaderDies
<1> QED
  BY <1>4, <1>6, <1>8, <1>9 DEF ReaderStep

\* Every step keeps each reader's messages in the order of publication.
LEMMA OrderPreserved ==
  ASSUME IInv, [Next]_vars
  PROVE  (\A p \in PubSub : ReaderOK(p)') /\ EachReaderInOrder'
<1>1. /\ TypeOK /\ CreationsApart
      /\ \A t \in Socket : EndpointOK(t)
      /\ \A p \in PubSub : QueueOK(p) /\ SenderOK(p)
  BY OrderParts DEF IInv
<1> USE <1>1
<1> DEFINE Ordered == \A p \in PubSub : QueueOK(p)' /\ SenderOK(p)'
<1> SUFFICES Ordered
  BY OrderParts
<1>2. ASSUME UNCHANGED <<queue, published, readerVars, latest, topic>> PROVE Ordered
  BY <1>2, OrderKept
<1>3. ASSUME NEW s \in Socket, NEW targets, SendDirectly(s, targets) PROVE Ordered
  BY <1>2, <1>3 DEF SendDirectly, Crash
<1>a. ASSUME NEW s \in Socket, Subscribed(s) PROVE Ordered
  BY <1>a, SubscribedOrder
<1>b. ASSUME NEW s \in Socket, NEW c \in Chat, JoinNext(s, c) PROVE Ordered
  BY <1>b, AddUserToChatOrder DEF JoinNext
<1>c. ASSUME NEW s \in Socket, Publish(s) \/ PublishOffline(s) PROVE Ordered
  BY <1>c, BroadcastOrder DEF Publish, PublishOffline
<1>d. ASSUME NEW s \in Socket, Request(s) PROVE Ordered
  <2> PICK c \in Chat : \/ NewMessage(s, c) \/ MessageRead(s, c) \/ UserTyping(s, c)
                         \/ AddUserToChatRequest(s, c) \/ ChatDeleted(s, c)
    BY <1>d DEF Request
  <2>1. CASE \E next : Handle(s, c, next) /\ UNCHANGED <<queue, published, readerVars>>
    BY <1>2, <2>1 DEF Handle
  <2>2. CASE \E next : AddUserToChat(s, c, next) /\ UNCHANGED <<queue, published, readerVars>>
    BY <2>2, AddUserToChatOrder
  <2>3. CASE NewMessage(s, c)
    BY <2>1, <2>2, <2>3 DEF NewMessage
  <2>4. CASE MessageRead(s, c) \/ UserTyping(s, c)
    BY <2>1, <2>4 DEF MessageRead, UserTyping
  <2>5. CASE AddUserToChatRequest(s, c)
    BY <2>2, <2>5 DEF AddUserToChatRequest
  <2>6. CASE ChatDeleted(s, c)
    BY <1>3, <2>6 DEF ChatDeleted
  <2> QED
    BY <2>3, <2>4, <2>5, <2>6
<1>e. ASSUME NEW s \in Socket, StoreFindsNone(s) \/ NotifyFriend(s) PROVE Ordered
  BY <1>3, <1>e DEF StoreFindsNone, NotifyFriend
<1>f. ASSUME NEW s \in Socket, NEW c \in Chat, LeaveChat(s, c) PROVE Ordered
  BY <1>2, <1>f DEF LeaveChat
<1>g. ASSUME NEW s \in Socket,
             \/ Accept(s) \/ ClientCloses(s) \/ ErrorReplyRaises(s) \/ EndpointFails(s)
             \/ LoadChats(s) \/ StartReceiving(s) \/ Store(s) \/ Disconnect(s) \/ Finish(s)
      PROVE  Ordered
  BY <1>2, <1>g DEF Accept, ClientCloses, ErrorReplyRaises, EndpointFails, Crash, LoadChats,
     StartReceiving, Store, Disconnect, Finish
<1>h. ASSUME NEW p \in PubSub, RedisApplies(p) PROVE Ordered
  BY <1>2, <1>h DEF RedisApplies
<1>i. ASSUME NEW p \in PubSub, ReaderStep(p) \/ ReaderCollides(p) \/ ReaderFails(p) PROVE Ordered
  BY <1>i, ReaderOrder
<1>j. CASE UNCHANGED vars
  BY <1>2, <1>j DEF vars
<1> QED
  BY <1>a, <1>b, <1>c, <1>d, <1>e, <1>f, <1>g, <1>h, <1>i, <1>j
     DEF Next, ClientStep, EndpointStep

-----------------------------------------------------------------------------
(***************************************************************************)
(* Clients and handlers.                                                   *)
(***************************************************************************)

\* A step of another coroutine takes nothing away from what an endpoint knows of its client.
LEMMA ClientKept ==
  ASSUME NEW t \in Socket, ClientOK(t), t \in open' => t \in open,
         pc'[t] = pc[t], op'[t] = op[t], chats[t] \subseteq chats'[t]
  PROVE  ClientOK(t)'
BY DEF ClientOK, Noticed

\* Every step keeps the client's connection, the endpoint and its handler in agreement.
LEMMA ClientPreserved ==
  ASSUME IInv, [Next]_vars
  PROVE  \A t \in Socket : ClientOK(t)'
<1>1. TypeOK /\ \A t \in Socket : EndpointOK(t) /\ ClientOK(t)
  BY DEF IInv
<1> USE <1>1
<1> SUFFICES ASSUME NEW t \in Socket PROVE ClientOK(t)'
  OBVIOUS
<1>2. ASSUME UNCHANGED <<pc, op, chats, open>> PROVE ClientOK(t)'
  BY <1>2, ClientKept
<1>3. ASSUME NEW s \in Socket, t # s, open' \subseteq open,
             pc'[t] = pc[t], op'[t] = op[t], chats'[t] = chats[t]
      PROVE  ClientOK(t)'
  BY <1>3, ClientKept
<1>4. ASSUME NEW s \in Socket, Crash(s) PROVE ClientOK(t)'
  BY <1>4 DEF Crash, ClientOK, Noticed, TypeOK
<1>5. ASSUME NEW s \in Socket, pc[s] \in {"ready", "storing", "notifying"}, NEW targets, SendDirectly(s, targets)
      PROVE ClientOK(t)'
  <2>1. CASE ~ Crash(s)
    <3>1. pc' = [pc EXCEPT ![s] = "ready"] /\ op' = [op EXCEPT ![s] = Idle] /\ UNCHANGED <<open, chats>>
      BY <1>5, <2>1 DEF SendDirectly
    <3> QED
      BY <1>5, <3>1 DEF ClientOK, Noticed, TypeOK
  <2> QED
    BY <1>4, <2>1
<1>6. ASSUME NEW s \in Socket, NEW c \in Chat, NEW next \in {"joining", "storing", "publishing"},
             AddUserToChat(s, c, next), open' = open, pc[s] \in {"joining", "ready"},
             \A w \in Socket \ {s} : chats'[w] = chats[w],
             next # "joining" /\ members[c] # {} => c \in chats'[s]
      PROVE  ClientOK(t)'
  <2>1. /\ \A w \in Socket \ {s} : pc'[w] = pc[w] /\ op'[w] = op[w]
        /\ \/ pc'[s] = next /\ op'[s] = Call(c, 0, next) /\ members[c] # {}
           \/ pc'[s] = "subscribing"
    BY <1>6 DEF AddUserToChat, TypeOK
  <2>2. CASE t = s
    BY <1>6, <2>1, <2>2 DEF ClientOK, Noticed, Call
  <2>3. CASE t # s
    BY <1>3, <1>6, <2>1, <2>3
  <2> QED
    BY <2>2, <2>3
<1>7. ASSUME NEW s \in Socket, NEW c \in Chat, NEW next \in {"storing", "publishing"},
             Handle(s, c, next), c \in chats[s], pc[s] = "ready", open' = open
      PROVE  ClientOK(t)'
  BY <1>7 DEF Handle, ClientOK, Noticed, Call, TypeOK
<1>a. ASSUME NEW s \in Socket, Accept(s) PROVE ClientOK(t)'
  BY <1>a DEF Accept, ClientOK, Noticed, TypeOK
<1>b. ASSUME NEW s \in Socket, ClientCloses(s) PROVE ClientOK(t)'
  BY <1>b, ClientKept DEF ClientCloses
<1>c. ASSUME NEW s \in Socket, LoadChats(s) PROVE ClientOK(t)'
  <2>1. pc[s] = "opening" /\ pc' = [pc EXCEPT ![s] = "joining"] /\ UNCHANGED <<op, open>>
        /\ \A w \in Socket \ {s} : chats'[w] = chats[w]
    BY <1>c DEF LoadChats, TypeOK
  <2> QED
    BY <2>1 DEF ClientOK, Noticed, TypeOK
<1>d. ASSUME NEW s \in Socket, NEW c \in Chat, JoinNext(s, c) PROVE ClientOK(t)'
  BY <1>d, <1>6 DEF JoinNext
<1>e. ASSUME NEW s \in Socket, StartReceiving(s) PROVE ClientOK(t)'
  BY <1>e DEF StartReceiving, ClientOK, Noticed, TypeOK
<1>f. ASSUME NEW s \in Socket, Subscribed(s) PROVE ClientOK(t)'
  BY <1>f DEF Subscribed, ChatsWithJoined, EndpointOK, ClientOK, Noticed, Call, TypeOK
<1>g. ASSUME NEW s \in Socket, NEW c \in Chat, NewMessage(s, c) PROVE ClientOK(t)'
  <2>1. CASE c \in chats[s]
    BY <1>g, <1>7, <2>1 DEF NewMessage, Receive
  <2>2. CASE c \notin chats[s]
    <3>1. /\ AddUserToChat(s, c, "storing") /\ open' = open /\ pc[s] = "ready"
          /\ chats' = [chats EXCEPT ![s] = @ \cup {c}]
      BY <1>g, <2>2 DEF NewMessage, Receive
    <3> QED
      BY <1>6, <3>1 DEF TypeOK
  <2> QED
    BY <2>1, <2>2
<1>h. ASSUME NEW s \in Socket, NEW c \in Chat, MessageRead(s, c) \/ UserTyping(s, c)
      PROVE  ClientOK(t)'
  BY <1>h, <1>7 DEF MessageRead, UserTyping, Receive
<1>i. ASSUME NEW s \in Socket, NEW c \in Chat, AddUserToChatRequest(s, c) PROVE ClientOK(t)'
  <2>1. /\ AddUserToChat(s, c, "publishing") /\ open' = open /\ pc[s] = "ready"
        /\ chats' = IF members[c] # {} THEN [chats EXCEPT ![s] = @ \cup {c}] ELSE chats
    BY <1>i DEF AddUserToChatRequest, Receive
  <2> QED
    BY <1>6, <2>1 DEF TypeOK
<1>j. ASSUME NEW s \in Socket, NEW c \in Chat, ChatDeleted(s, c) PROVE ClientOK(t)'
  BY <1>5, <1>j DEF ChatDeleted
<1>k. ASSUME NEW s \in Socket, ErrorReplyRaises(s) \/ EndpointFails(s) PROVE ClientOK(t)'
  BY <1>4, <1>k DEF ErrorReplyRaises, EndpointFails
<1>l. ASSUME NEW s \in Socket, Store(s) PROVE ClientOK(t)'
  BY <1>l DEF Store, ClientOK, Noticed, TypeOK
<1>m. ASSUME NEW s \in Socket, Publish(s) PROVE ClientOK(t)'
  <2>1. /\ pc[s] = "publishing" /\ UNCHANGED <<open, chats>>
        /\ \E next \in {"publishing", "notifying", "ready"} :
              /\ pc' = [pc EXCEPT ![s] = next]
              /\ op' = IF next = "ready" THEN [op EXCEPT ![s] = Idle] ELSE op
    BY <1>m DEF Publish
  <2> QED
    BY <2>1 DEF ClientOK, Noticed, TypeOK
<1>n. ASSUME NEW s \in Socket, StoreFindsNone(s) \/ NotifyFriend(s) PROVE ClientOK(t)'
  BY <1>5, <1>n DEF StoreFindsNone, NotifyFriend
<1>o. ASSUME NEW s \in Socket, Disconnect(s) PROVE ClientOK(t)'
  BY <1>o DEF Disconnect, Disconnected, ClientOK, Noticed, TypeOK
<1>p. ASSUME NEW s \in Socket, NEW c \in Chat, LeaveChat(s, c) PROVE ClientOK(t)'
  BY <1>p DEF LeaveChat, ClientOK, Noticed, Call, TypeOK
<1>q. ASSUME NEW s \in Socket, PublishOffline(s) PROVE ClientOK(t)'
  BY <1>q DEF PublishOffline, ClientOK, Noticed, TypeOK
<1>r. ASSUME NEW s \in Socket, Finish(s) PROVE ClientOK(t)'
  BY <1>r DEF Finish, ClientOK, Noticed, TypeOK
<1>s. ASSUME NEW p \in PubSub,
             RedisApplies(p) \/ ReaderStep(p) \/ ReaderCollides(p) \/ ReaderFails(p)
      PROVE  ClientOK(t)'
  BY <1>2, <1>s DEF RedisApplies, ReaderStep, ReaderTakes, ReaderContinues, ReaderFinishes,
     ReaderDies, ReaderDiesOnSetChange, ReaderWithoutConnection, ReaderCollides, ReaderFails
<1>t. CASE UNCHANGED vars
  BY <1>2, <1>t DEF vars
<1> QED
  BY <1>a, <1>b, <1>c, <1>d, <1>e, <1>f, <1>g, <1>h, <1>i, <1>j, <1>k, <1>l, <1>m, <1>n, <1>o,
     <1>p, <1>q, <1>r, <1>s, <1>t DEF Next, ClientStep, EndpointStep, Request

-----------------------------------------------------------------------------
(***************************************************************************)
(* Messages and the chats they were published to.                          *)
(***************************************************************************)

\* CarriedOK, cut into what a broadcast and what a step of the reader itself disturbs.
QueueCarried(q) ==
  /\ q > latest => queue[q] = <<>>
  /\ \A i \in DOMAIN queue[q] : queue[q][i] \in DOMAIN published /\ published[queue[q][i]] = topic[q]

HeardCarried(p) ==
  /\ rpc[p] = "sending" => /\ iter[p].msg \in DOMAIN published
                           /\ published[iter[p].msg] = ChannelOf(p)
  /\ \A s \in Socket : heard[s][p] # 0 =>
        /\ heard[s][p] \in DOMAIN published
        /\ published[heard[s][p]] = ChannelOf(p)
        /\ rpc[p] = "sending" => heard[s][p] <= iter[p].msg

\* The facts about messages and readers that the steps below start from, and the two parts.
LEMMA CarriedParts ==
  ASSUME IInv
  PROVE  /\ \A p \in PubSub : QueueCarried(p) /\ HeardCarried(p)
         /\ \A p \in PubSub : rpc[p] # "none" => source[p] \in PubSub /\ source[p] <= latest
         /\ \A p \in PubSub, s \in Socket : heard[s][p] # 0 => rpc[p] # "none"
<1>1. /\ TypeOK
      /\ \A p \in PubSub : ReaderOK(p) /\ CarriedOK(p)
  BY DEF IInv
<1>2. DOMAIN published = 1..Len(published) /\ latest \in 0..MaxPubSub /\ MaxPubSub \in Nat
  BY <1>1, HubAssumption DEF TypeOK
<1>3. \A p \in PubSub : QueueCarried(p) /\ HeardCarried(p)
  BY <1>1, <1>2 DEF ReaderOK, CarriedOK, QueueCarried, HeardCarried
<1>4. \A p \in PubSub : rpc[p] # "none" => source[p] \in PubSub /\ source[p] <= latest
  BY <1>1, <1>2 DEF ReaderOK, PubSub
<1>5. \A p \in PubSub, s \in Socket : heard[s][p] # 0 => rpc[p] # "none"
  BY <1>1 DEF ReaderOK
<1> QED
  BY <1>3, <1>4, <1>5

\* After a step the two parts give CarriedOK back.
LEMMA CarriedAgain ==
  ASSUME NEW p \in PubSub, QueueCarried(p)', HeardCarried(p)'
  PROVE  CarriedOK(p)'
BY DEF QueueCarried, HeardCarried, CarriedOK

\* Steps that leave messages and readers alone.
LEMMA CarriedKept ==
  ASSUME IInv, UNCHANGED <<queue, published, readerVars, latest, topic>>
  PROVE  \A p \in PubSub : CarriedOK(p)'
<1>1. \A p \in PubSub : CarriedOK(p)
  BY DEF IInv
<1> QED
  BY <1>1 DEF CarriedOK, ChannelOf

\* The new PubSub of add_user_to_chat has no messages yet, and no reader polls it yet.
LEMMA AddUserToChatCarried ==
  ASSUME IInv, NEW s \in Socket, NEW c \in Chat, NEW next, AddUserToChat(s, c, next),
         UNCHANGED <<queue, published, readerVars>>
  PROVE  \A p \in PubSub : CarriedOK(p)'
<1>1. CASE members[c] # {}
  BY <1>1, CarriedKept DEF AddUserToChat
<1>2. CASE members[c] = {}
  <2>1. latest' = latest + 1 /\ topic' = [topic EXCEPT ![latest + 1] = c]
    BY <1>2 DEF AddUserToChat
  <2>2. latest \in Nat /\ PubSub \subseteq Nat /\ topic \in [PubSub -> Chat \cup {NoChat}]
    BY HubAssumption DEF IInv, TypeOK, PubSub
  <2>3. \A p \in PubSub : p <= latest => topic'[p] = topic[p]
    BY <2>1, <2>2
  <2>4. \A p \in PubSub : p > latest => queue[p] = <<>>
    BY CarriedParts DEF QueueCarried
  <2>5. ASSUME NEW p \in PubSub PROVE QueueCarried(p)'
    <3>1. CASE p <= latest
      <4>1. ~ p > latest' /\ topic'[p] = topic[p]
        BY <2>1, <2>2, <2>3, <3>1
      <4> QED
        BY <4>1, CarriedParts DEF QueueCarried
    <3>2. CASE p > latest
      BY <2>4, <3>2 DEF QueueCarried
    <3> QED
      BY <2>2, <3>1, <3>2
  <2>6. ASSUME NEW p \in PubSub PROVE HeardCarried(p)'
    <3>1. HeardCarried(p)
      BY CarriedParts
    <3>2. rpc[p] # "none" => ChannelOf(p)' = ChannelOf(p)
      BY <2>3, CarriedParts DEF ChannelOf
    <3>3. \A t \in Socket : heard[t][p] # 0 => rpc[p] # "none"
      BY CarriedParts
    <3> QED
      BY <3>1, <3>2, <3>3 DEF HeardCarried
  <2> QED
    BY <2>5, <2>6, CarriedAgain
<1> QED
  BY <1>1, <1>2

\* broadcast_to_chat reaches the connections that are subscribed to the chat.
LEMMA BroadcastCarried ==
  ASSUME IInv, NEW c \in Chat, Broadcast(c), UNCHANGED <<readerVars, latest, topic>>
  PROVE  \A p \in PubSub : CarriedOK(p)'
<1> DEFINE n == Len(published) + 1
<1>1. /\ published \in Seq(Chat)
      /\ queue \in [PubSub -> Seq(Nat)]
      /\ published' = Append(published, c)
      /\ queue' = [p \in PubSub |-> IF topic[p] = c /\ link[p] \in {"on", "quitting"}
                                    THEN Append(queue[p], n) ELSE queue[p]]
  BY DEF Broadcast, IInv, TypeOK
<1>2. /\ Len(published) \in Nat
      /\ n \in DOMAIN published' /\ published'[n] = c
      /\ \A m \in DOMAIN published : m \in DOMAIN published' /\ published'[m] = published[m]
  BY <1>1
<1> HIDE DEF n
<1>3. ASSUME NEW p \in PubSub PROVE QueueCarried(p)'
  <2>1. QueueCarried(p)
    BY CarriedParts
  <2>2. CASE topic[p] = c /\ link[p] \in {"on", "quitting"}
    <3>1. ~ p > latest
      BY <2>2 DEF IInv, CreationsApart
    <3>2. queue'[p] = Append(queue[p], n) /\ queue[p] \in Seq(Nat)
      BY <1>1, <2>2
    <3>3. \A i \in DOMAIN queue'[p] :
             queue'[p][i] = n \/ (i \in DOMAIN queue[p] /\ queue'[p][i] = queue[p][i])
      BY <3>2
    <3> QED
      BY <1>2, <2>1, <2>2, <3>1, <3>3 DEF QueueCarried
  <2>3. CASE queue'[p] = queue[p]
    BY <1>2, <2>1, <2>3 DEF QueueCarried
  <2> QED
    BY <1>1, <2>2, <2>3
<1>4. ASSUME NEW p \in PubSub PROVE HeardCarried(p)'
  <2>1. HeardCarried(p)
    BY CarriedParts
  <2> QED
    BY <1>2, <2>1 DEF HeardCarried, ChannelOf
<1> QED
  BY <1>3, <1>4, CarriedAgain

\* A reader that starts has not sent anything yet.
LEMMA SubscribedCarried ==
  ASSUME IInv, NEW s \in Socket, Subscribed(s)
  PROVE  \A p \in PubSub : CarriedOK(p)'
<1> DEFINE n == op[s].pubsub
<1>1. /\ rpc' = [rpc EXCEPT ![n] = "polling"]
      /\ source' = [source EXCEPT ![n] = latest]
      /\ UNCHANGED <<latest, topic, queue, published, iter, heard>>
      /\ link[n] = "new" /\ n \in PubSub
  <2>1. n \in 1..latest /\ latest \in 0..MaxPubSub /\ MaxPubSub \in Nat
    BY HubAssumption DEF Subscribed, IInv, EndpointOK, TypeOK
  <2> QED
    BY <2>1 DEF Subscribed, IInv, CreationsApart, PubSub
<1>2. \A t \in Socket : heard[t][n] = 0
  BY <1>1, CarriedParts DEF IInv, CreationsApart
<1>3. \A p \in PubSub : QueueCarried(p)'
  BY <1>1, CarriedParts DEF QueueCarried
<1>4. ASSUME NEW p \in PubSub, p # n PROVE HeardCarried(p)'
  <2>1. rpc'[p] = rpc[p] /\ source'[p] = source[p]
    BY <1>1, <1>4 DEF IInv, TypeOK
  <2> QED
    BY <1>1, <2>1, CarriedParts DEF HeardCarried, ChannelOf
<1>5. ASSUME NEW p \in PubSub, p = n PROVE HeardCarried(p)'
  <2>1. rpc'[p] = "polling"
    BY <1>1, <1>5 DEF IInv, TypeOK
  <2> QED
    BY <1>1, <1>2, <1>5, <2>1 DEF HeardCarried
<1> QED
  BY <1>3, <1>4, <1>5, CarriedAgain

\* What `await socket.send_text` does to what the clients have heard.
Sends(p, m) ==
  \/ heard' = heard
  \/ \E s \in Socket :
        /\ s \in open
        /\ s \in members[published[m]]
        /\ heard[s][p] < m
        /\ heard' = [heard EXCEPT ![s][p] = m]

\* The reader p is at message m, which is no older than what it has sent to anybody, and sends
\* it to at most one client.
Carries(p, m) ==
  /\ iter'[p].msg = m
  /\ published[m] = ChannelOf(p)
  /\ \A t \in Socket : heard[t][p] # 0 => heard[t][p] <= m
  /\ Sends(p, m)

\* A step of a reader sends at most one client at most one message: one that was published to
\* a chat the client is in, and no older than what the reader has sent to anybody.
LEMMA ReaderSends ==
  ASSUME IInv, NEW p \in PubSub, ReaderStep(p) \/ ReaderCollides(p) \/ ReaderFails(p)
  PROVE  /\ UNCHANGED <<clientVars, endpointVars, managerVars, topic, link, published, source>>
         /\ \A q \in PubSub : q # p => rpc'[q] = rpc[q] /\ iter'[q] = iter[q]
         /\ \A q \in PubSub : queue'[q] \in {queue[q], Tail(queue[q])} /\ (queue[q] = <<>> => queue'[q] = queue[q])
         /\ \/ rpc'[p] # "sending" /\ heard' = heard
            \/ \E m \in DOMAIN published : Carries(p, m)
            \/ UNCHANGED <<rpc, iter, heard>>
<1>1. TypeOK /\ EachReaderInOrder
  BY DEF IInv
<1> USE <1>1
<1>2. ASSUME NEW s \in Socket, NEW it \in Iteration, SendText(p, s, it),
             s \in members[ChannelOf(p)], it.msg \in DOMAIN published,
             published[it.msg] = ChannelOf(p), heard[s][p] < it.msg,
             \A t \in Socket : heard[t][p] # 0 => heard[t][p] <= it.msg
      PROVE  /\ \A q \in PubSub : q # p => rpc'[q] = rpc[q] /\ iter'[q] = iter[q]
             /\ (rpc'[p] # "sending" /\ heard' = heard) \/ \E m \in DOMAIN published : Carries(p, m)
  <2>1. CASE rpc' = [rpc EXCEPT ![p] = "dead"] /\ iter' = [iter EXCEPT ![p] = NoIteration]
             /\ heard' = heard
    BY <2>1 DEF TypeOK
  <2>2. CASE /\ rpc' = [rpc EXCEPT ![p] = "sending"]
             /\ iter' = [iter EXCEPT ![p] = Loop(it.msg, it.obj, it.start, it.seen \cup {s})]
             /\ heard' = heard \/ (s \in open /\ heard' = [heard EXCEPT ![s][p] = it.msg])
    <3>1. iter'[p].msg = it.msg
      BY <2>2 DEF TypeOK, Loop
    <3>2. Sends(p, it.msg)
      BY <1>2, <2>2 DEF Sends
    <3> QED
      BY <1>2, <2>2, <3>1, <3>2 DEF TypeOK, Carries
  <2> QED
    BY <1>2, <2>1, <2>2 DEF SendText
<1>3. CASE ReaderTakes(p)
  <2> DEFINE q0 == source[p]
             m0 == Head(queue[q0])
             loop == Loop(m0, home[ChannelOf(p)], members[ChannelOf(p)], {})
  <2>1. /\ rpc[p] = "polling" /\ queue[q0] # <<>>
        /\ queue' = [queue EXCEPT ![q0] = Tail(queue[q0])]
        /\ \/ UNCHANGED <<rpc, iter, heard>>
           \/ \E s \in members[ChannelOf(p)] : SendText(p, s, loop)
        /\ UNCHANGED <<clientVars, endpointVars, managerVars, topic, link, published, source>>
    BY <1>3 DEF ReaderTakes, TakenQueue
  <2>2. q0 \in PubSub
    BY <2>1, CarriedParts
  <2>3. \A q \in PubSub : queue'[q] \in {queue[q], Tail(queue[q])} /\ (queue[q] = <<>> => queue'[q] = queue[q])
    BY <2>1, <2>2 DEF TypeOK
  <2>4. m0 = queue[q0][1] /\ 1 \in DOMAIN queue[q0] /\ m0 \in Nat
    BY <2>1, <2>2 DEF TypeOK
  <2>5. m0 \in DOMAIN published /\ published[m0] = ChannelOf(p)
    BY <2>2, <2>4, CarriedParts DEF QueueCarried, ChannelOf
  <2>6. \A t \in Socket : heard[t][p] < m0
    BY <2>1, <2>4 DEF EachReaderInOrder
  <2>7. ASSUME NEW s \in members[ChannelOf(p)], SendText(p, s, loop)
        PROVE  s \in Socket /\ loop \in Iteration
    <3>1. ChannelOf(p) \in Chat
      BY <2>1, ChannelIsChat DEF IInv
    <3>2. members[ChannelOf(p)] \in SUBSET Socket /\ home[ChannelOf(p)] \in Nat
      BY <3>1 DEF TypeOK
    <3> QED
      BY <2>4, <3>2 DEF Loop, Iteration
  <2>8. \A t \in Socket : heard[t][p] <= m0
    BY <2>4, <2>6 DEF TypeOK
  <2>9. loop.msg = m0
    BY DEF Loop
  <2>10. CASE UNCHANGED <<rpc, iter, heard>>
    BY <2>1, <2>3, <2>10
  <2>11. CASE \E s \in members[ChannelOf(p)] : SendText(p, s, loop)
    <3> PICK s \in members[ChannelOf(p)] : SendText(p, s, loop)
      BY <2>11
    <3>1. s \in Socket /\ loop \in Iteration /\ SendText(p, s, loop)
      BY <2>7
    <3> HIDE DEF loop, m0
    <3>2. /\ \A q \in PubSub : q # p => rpc'[q] = rpc[q] /\ iter'[q] = iter[q]
          /\ (rpc'[p] # "sending" /\ heard' = heard) \/ \E m \in DOMAIN published : Carries(p, m)
      BY <1>2, <2>5, <2>6, <2>8, <2>9, <3>1
    <3> QED
      BY <2>1, <2>3, <3>2
  <2> QED
    BY <2>1, <2>10, <2>11
<1>4. CASE ReaderContinues(p)
  <2>1. /\ rpc[p] = "sending" /\ queue' = queue
        /\ \E s \in StillToVisit(p) : SendText(p, s, iter[p])
        /\ UNCHANGED <<clientVars, endpointVars, managerVars, topic, link, published, source>>
    BY <1>4 DEF ReaderContinues
  <2> PICK s \in StillToVisit(p) : SendText(p, s, iter[p])
    BY <2>1
  <2>2. s \in members[ChannelOf(p)] /\ s \notin iter[p].seen
    BY DEF StillToVisit
  <2>3. ChannelOf(p) \in Chat
    BY <2>1, ChannelIsChat DEF IInv
  <2>4. s \in Socket /\ iter[p] \in Iteration
    BY <2>2, <2>3 DEF TypeOK
  <2>5. heard[s][p] < iter[p].msg
    BY <2>1, <2>2, <2>4 DEF EachReaderInOrder
  <2>6. HeardCarried(p)
    BY CarriedParts
  <2> QED
    BY <1>2, <2>1, <2>2, <2>4, <2>5, <2>6 DEF HeardCarried
<1>5. CASE \/ ReaderFinishes(p) \/ ReaderDiesOnSetChange(p) \/ ReaderWithoutConnection(p)
           \/ ReaderCollides(p) \/ ReaderFails(p)
  <2>1. /\ rpc' = [rpc EXCEPT ![p] = "dead"] \/ rpc' = [rpc EXCEPT ![p] = "polling"]
        /\ iter' = [iter EXCEPT ![p] = NoIteration]
        /\ UNCHANGED <<clientVars, endpointVars, managerVars, redisVars, source, heard>>
    BY <1>5 DEF ReaderFinishes, ReaderDiesOnSetChange, ReaderWithoutConnection, ReaderCollides,
       ReaderFails, ReaderDies
  <2> QED
    BY <2>1 DEF TypeOK
<1> QED
  BY <1>3, <1>4, <1>5 DEF ReaderStep

\* A step of a reader keeps messages with their chats.
LEMMA ReaderCarried ==
  ASSUME IInv, NEW p \in PubSub, ReaderStep(p) \/ ReaderCollides(p) \/ ReaderFails(p)
  PROVE  \A q \in PubSub : CarriedOK(q)'
<1>1. TypeOK /\ UNCHANGED <<latest, topic, published, source>>
  BY ReaderSends DEF IInv
<1>2. ASSUME NEW q \in PubSub PROVE QueueCarried(q)'
  <2>1. QueueCarried(q) /\ queue[q] \in Seq(Nat)
    BY <1>1, CarriedParts DEF TypeOK
  <2>2. CASE queue'[q] = queue[q]
    BY <1>1, <2>1, <2>2 DEF QueueCarried
  <2>3. CASE queue[q] # <<>> /\ queue'[q] = Tail(queue[q])
    <3>1. \A i \in DOMAIN queue'[q] : i + 1 \in DOMAIN queue[q] /\ queue'[q][i] = queue[q][i + 1]
      BY <2>1, <2>3
    <3> QED
      BY <1>1, <2>1, <2>3, <3>1 DEF QueueCarried
  <2> QED
    BY <2>2, <2>3, ReaderSends
<1>3. ASSUME NEW q \in PubSub PROVE HeardCarried(q)'
  <2>1. HeardCarried(q) /\ ChannelOf(q)' = ChannelOf(q)
    BY <1>1, CarriedParts DEF ChannelOf
  <2>2. CASE q # p
    <3>1. rpc'[q] = rpc[q] /\ iter'[q] = iter[q]
      BY <2>2, ReaderSends
    <3>2. \A t \in Socket : heard'[t][q] = heard[t][q]
      <4>1. ASSUME NEW m, NEW s \in Socket, heard' = [heard EXCEPT ![s][p] = m]
            PROVE  \A t \in Socket : heard'[t][q] = heard[t][q]
        <5>1. \A t \in Socket : heard[t] \in [PubSub -> Nat]
          BY <1>1 DEF TypeOK
        <5>2. \A t \in Socket : heard'[t] = IF t = s THEN [heard[t] EXCEPT ![p] = m] ELSE heard[t]
          BY <1>1, <4>1 DEF TypeOK
        <5> QED
          BY <2>2, <5>1, <5>2
      <4> QED
        <5>1. heard' = heard \/ \E m \in DOMAIN published : Carries(p, m)
          BY ReaderSends
        <5>2. CASE heard' = heard
          BY <5>2
        <5>3. CASE \E m \in DOMAIN published, s \in Socket : heard' = [heard EXCEPT ![s][p] = m]
          BY <4>1, <5>3
        <5> QED
          BY <5>1, <5>2, <5>3 DEF Carries, Sends
    <3> QED
      BY <1>1, <2>1, <3>1, <3>2 DEF HeardCarried
  <2>3. CASE q = p
    <3>1. CASE rpc'[p] # "sending" /\ heard' = heard
      BY <1>1, <2>1, <2>3, <3>1 DEF HeardCarried
    <3>2. CASE UNCHANGED <<rpc, iter, heard>>
      BY <1>1, <2>1, <2>3, <3>2 DEF HeardCarried
    <3>3. ASSUME NEW m \in DOMAIN published, Carries(p, m)
          PROVE  HeardCarried(p)'
      <4>1. m \in Nat
        BY <1>1 DEF TypeOK
      <4>2. \A t \in Socket : heard'[t][p] = heard[t][p] \/ heard'[t][p] = m
        <5>1. ASSUME NEW s \in Socket, heard' = [heard EXCEPT ![s][p] = m]
              PROVE  \A t \in Socket : heard'[t][p] = heard[t][p] \/ heard'[t][p] = m
          <6>1. \A t \in Socket : heard[t] \in [PubSub -> Nat]
            BY <1>1 DEF TypeOK
          <6>2. \A t \in Socket : heard'[t] = IF t = s THEN [heard[t] EXCEPT ![p] = m] ELSE heard[t]
            BY <1>1, <5>1 DEF TypeOK
          <6> QED
            BY <6>1, <6>2
        <5> QED
          BY <3>3, <5>1 DEF Carries, Sends
      <4>3. \A t \in Socket : heard'[t][p] # 0 =>
               /\ heard'[t][p] \in DOMAIN published
               /\ published[heard'[t][p]] = ChannelOf(p)
               /\ heard'[t][p] <= m
        BY <2>1, <2>3, <3>3, <4>1, <4>2 DEF HeardCarried, Carries
      <4> QED
        BY <1>1, <2>1, <2>3, <3>3, <4>3 DEF HeardCarried, Carries
    <3> QED
      BY <2>3, <3>1, <3>2, <3>3, ReaderSends
  <2> QED
    BY <2>2, <2>3
<1> QED
  BY <1>2, <1>3, CarriedAgain

\* Every step keeps messages with the chats they were published to.
LEMMA CarriedPreserved ==
  ASSUME IInv, [Next]_vars
  PROVE  \A p \in PubSub : CarriedOK(p)'
<1> DEFINE Carried == \A p \in PubSub : CarriedOK(p)'
<1>2. ASSUME UNCHANGED <<queue, published, readerVars, latest, topic>> PROVE Carried
  BY <1>2, CarriedKept
<1>3. ASSUME NEW s \in Socket, NEW targets, SendDirectly(s, targets) PROVE Carried
  BY <1>2, <1>3 DEF SendDirectly, Crash
<1>a. ASSUME NEW s \in Socket, Subscribed(s) PROVE Carried
  BY <1>a, SubscribedCarried
<1>b. ASSUME NEW s \in Socket, NEW c \in Chat, JoinNext(s, c) PROVE Carried
  BY <1>b, AddUserToChatCarried DEF JoinNext
<1>c. ASSUME NEW s \in Socket, Publish(s) \/ PublishOffline(s) PROVE Carried
  <2>1. op[s].chat \in Chat
    BY <1>c DEF Publish, PublishOffline, ClientOK, IInv, TypeOK
  <2> QED
    BY <1>c, <2>1, BroadcastCarried DEF Publish, PublishOffline
<1>d. ASSUME NEW s \in Socket, Request(s) PROVE Carried
  <2> PICK c \in Chat : \/ NewMessage(s, c) \/ MessageRead(s, c) \/ UserTyping(s, c)
                         \/ AddUserToChatRequest(s, c) \/ ChatDeleted(s, c)
    BY <1>d DEF Request
  <2>1. CASE \E next : Handle(s, c, next) /\ UNCHANGED <<queue, published, readerVars>>
    BY <1>2, <2>1 DEF Handle
  <2>2. CASE \E next : AddUserToChat(s, c, next) /\ UNCHANGED <<queue, published, readerVars>>
    BY <2>2, AddUserToChatCarried
  <2>3. CASE NewMessage(s, c)
    BY <2>1, <2>2, <2>3 DEF NewMessage
  <2>4. CASE MessageRead(s, c) \/ UserTyping(s, c)
    BY <2>1, <2>4 DEF MessageRead, UserTyping
  <2>5. CASE AddUserToChatRequest(s, c)
    BY <2>2, <2>5 DEF AddUserToChatRequest
  <2>6. CASE ChatDeleted(s, c)
    BY <1>3, <2>6 DEF ChatDeleted
  <2> QED
    BY <2>3, <2>4, <2>5, <2>6
<1>e. ASSUME NEW s \in Socket, StoreFindsNone(s) \/ NotifyFriend(s) PROVE Carried
  BY <1>3, <1>e DEF StoreFindsNone, NotifyFriend
<1>f. ASSUME NEW s \in Socket, NEW c \in Chat, LeaveChat(s, c) PROVE Carried
  BY <1>2, <1>f DEF LeaveChat
<1>g. ASSUME NEW s \in Socket,
             \/ Accept(s) \/ ClientCloses(s) \/ ErrorReplyRaises(s) \/ EndpointFails(s)
             \/ LoadChats(s) \/ StartReceiving(s) \/ Store(s) \/ Disconnect(s) \/ Finish(s)
      PROVE  Carried
  BY <1>2, <1>g DEF Accept, ClientCloses, ErrorReplyRaises, EndpointFails, Crash, LoadChats,
     StartReceiving, Store, Disconnect, Finish
<1>h. ASSUME NEW p \in PubSub, RedisApplies(p) PROVE Carried
  BY <1>2, <1>h DEF RedisApplies
<1>i. ASSUME NEW p \in PubSub, ReaderStep(p) \/ ReaderCollides(p) \/ ReaderFails(p) PROVE Carried
  BY <1>i, ReaderCarried
<1>j. CASE UNCHANGED vars
  BY <1>2, <1>j DEF vars
<1> QED
  BY <1>a, <1>b, <1>c, <1>d, <1>e, <1>f, <1>g, <1>h, <1>i, <1>j
     DEF Next, ClientStep, EndpointStep

-----------------------------------------------------------------------------
(***************************************************************************)
(* The theorems.                                                           *)
(***************************************************************************)

\* IInv holds in every reachable state of the hub.
THEOREM Invariance == Spec => []IInv
<1>1. IInv /\ [Next]_vars => IInv'
  BY TypeStep, EndpointPreserved, MembersPreserved, GonePreserved, SubscriptionPreserved,
     CreationsPreserved, OrderPreserved, CarriedPreserved, ClientPreserved DEF IInv
<1> QED
  BY <1>1, InitIInv, PTL DEF Spec

\* Every variable of the hub keeps the values its code gives it.
THEOREM TypeCorrect == Spec => []TypeOK
BY Invariance, PTL DEF IInv

\* The manager's sets and the `chats` of the running endpoints agree at every suspension, so
\* the `remove` of remove_user_from_chat never raises.
THEOREM MembersAgree == Spec => []MembersAreJoined
BY Invariance, PTL DEF IInv

\* The cleanup of websocket_endpoint leaves nothing of the connection in the manager.
THEOREM CleanupIsComplete == Spec => []GoneIsForgotten
BY Invariance, PTL DEF IInv

\* remove_user_from_chat never unsubscribes a chat that has members, although the UNSUBSCRIBE
\* goes to whatever PubSub was created last.
THEOREM LiveChatsStaySubscribed == Spec => []LiveChatSubscribed
BY Invariance, PTL DEF IInv

\* _pubsub_data_reader sends no message of its queue late or twice.
THEOREM ReadersKeepOrder == Spec => []EachReaderInOrder
BY Invariance, PTL DEF IInv

\* _pubsub_data_reader sends nothing to a connection that is not in the chat at that moment.
THEOREM NoSendToStrangers == Spec => OnlyMembersHear
<1> DEFINE Members == \A s \in Socket, p \in PubSub :
                         heard'[s][p] # heard[s][p] => s \in members[published[heard'[s][p]]]
<1>1. ASSUME IInv, [Next]_vars PROVE Members
  <2>1. CASE heard' = heard
    BY <2>1
  <2>2. ASSUME NEW p \in PubSub, ReaderStep(p) \/ ReaderCollides(p) \/ ReaderFails(p)
        PROVE  Members
    <3>1. CASE heard' # heard
      <4>1. PICK m \in DOMAIN published, t \in Socket :
               t \in members[published[m]] /\ heard' = [heard EXCEPT ![t][p] = m]
        <5>1. \E m \in DOMAIN published : Carries(p, m)
          BY <1>1, <2>2, <3>1, ReaderSends
        <5> QED
          BY <3>1, <5>1 DEF Carries, Sends
      <4>2. \A s \in Socket : heard[s] \in [PubSub -> Nat]
        BY <1>1 DEF IInv, TypeOK
      <4>3. \A s \in Socket : heard'[s] = IF s = t THEN [heard[s] EXCEPT ![p] = m] ELSE heard[s]
        BY <1>1, <4>1 DEF IInv, TypeOK
      <4>4. \A s \in Socket, q \in PubSub :
               heard'[s][q] # heard[s][q] => s = t /\ q = p /\ heard'[s][q] = m
        BY <4>2, <4>3
      <4> QED
        BY <4>1, <4>4
    <3> QED
      BY <2>1, <3>1
  <2>3. ASSUME NEW s \in Socket, ClientStep(s) \/ EndpointStep(s) \/ EndpointFails(s)
        PROVE  heard' = heard
    <3>1. CASE ClientStep(s) \/ EndpointFails(s)
      BY <3>1 DEF ClientStep, Accept, ClientCloses, Request, NewMessage, MessageRead, UserTyping,
         AddUserToChatRequest, ChatDeleted, SendDirectly, ErrorReplyRaises, EndpointFails, Crash
    <3>2. CASE EndpointStep(s)
      BY <3>2 DEF EndpointStep, LoadChats, StartReceiving, Subscribed, JoinNext, LeaveChat, Store,
         Publish, StoreFindsNone, NotifyFriend, SendDirectly, Crash, Disconnect, PublishOffline, Finish
    <3> QED
      BY <2>3, <3>1, <3>2
  <2>4. CASE UNCHANGED vars \/ \E p \in PubSub : RedisApplies(p)
    BY <2>1, <2>4 DEF vars, RedisApplies
  <2> QED
    BY <1>1, <2>1, <2>2, <2>3, <2>4 DEF Next
<1>2. OnlyMembersHear <=> [][Members]_vars
  BY PTL DEF OnlyMembersHear
<1> QED
  BY <1>1, <1>2, Invariance, PTL DEF Spec
=============================================================================
