---------------------------- MODULE WebSocketHub ----------------------------
(***************************************************************************)
(* The websocket hub of the chat backend: WebSocketManager and             *)
(* RedisPubSubManager (src/managers), the lifecycle of websocket_endpoint   *)
(* (src/websocket/router.py) with the effect every handler of              *)
(* src/websocket/handlers.py has on the hub, and the reader tasks that     *)
(* carry what Redis publishes to the sockets of a chat.                    *)
(*                                                                         *)
(* All of it runs on the event loop of one uvicorn worker, so a step here  *)
(* is the code between two awaits and the steps of different coroutines    *)
(* interleave.  A Socket connects once: a client that comes back is        *)
(* another Socket.  A message is the number of its PUBLISH.                *)
(***************************************************************************)
EXTENDS Naturals, Sequences, FiniteSets

CONSTANTS
    Socket,        \* websocket connections
    Chat,          \* chat guids
    User,          \* user guids
    Owner,         \* the user a socket authenticated as
    Participants,  \* the users of each chat in the database
    NoChat,        \* not a chat
    MaxPubSub,     \* bound: PubSub objects ever created
    MaxRequests,   \* bound: messages the clients send
    Faults         \* whether Redis and database calls may fail

ASSUME HubAssumption ==
    /\ IsFiniteSet(Socket)
    /\ Owner \in [Socket -> User]
    /\ Participants \in [Chat -> SUBSET User]
    /\ NoChat \notin Chat
    /\ MaxPubSub \in Nat
    /\ MaxRequests \in Nat
    /\ Faults \in BOOLEAN

PubSub == 1..MaxPubSub

\* An operation on chat c, awaiting the SUBSCRIBE of p if p > 0.
Call(c, p, next) == [chat |-> c, pubsub |-> p, next |-> next]
Idle == Call(NoChat, 0, "ready")

\* A `for socket in sockets` loop over the set obj, for message m.
Loop(m, obj, start, seen) == [msg |-> m, obj |-> obj, start |-> start, seen |-> seen]
NoIteration == Loop(0, 0, {}, {})

VARIABLES
    \* the clients' side of the connections
    open,         \* sockets whose client is still there
    requests,     \* messages the clients have sent so far
    \* websocket_endpoint and its handlers, one coroutine per socket
    pc,           \* where the coroutine is
    chats,        \* its local dict `chats`
    todo,         \* chats the loop at router.py:50 or :102 has still to visit
    op,           \* the operation under way: its chat_guid, the PubSub object whose
                  \* SUBSCRIBE it awaits, and where add_user_to_chat returns to
    outbox,       \* broadcast_to_chat calls the handler has still to make
    notify,       \* notify_friend_about_new_chat
    \* WebSocketManager and RedisPubSubManager
    members,      \* WebSocketManager.chats, {} for an absent key
    userSockets,  \* WebSocketManager.user_guid_to_websocket
    latest,       \* RedisPubSubManager.pubsub: PubSub objects in order of creation
    home,         \* the PubSub created together with the set members[c], 0 for an absent key
    \* PubSub objects and Redis
    topic,        \* the channel the PubSub was created for
    link,         \* none, new, asked, on, cancelled, quitting, off
    queue,        \* messages Redis delivered to it and nobody has taken
    published,    \* the chat of each PUBLISH command so far
    \* _pubsub_data_reader tasks, named after the PubSub whose creation spawned them
    rpc,          \* none, polling, sending, dead
    source,       \* the PubSub the reader polls
    iter,         \* its `for socket in sockets` loop
    heard         \* the last message each reader sent to each client

clientVars   == <<open, requests>>
endpointVars == <<pc, chats, todo, op, outbox, notify>>
managerVars  == <<members, userSockets, latest, home>>
redisVars    == <<topic, link, queue, published>>
readerVars   == <<rpc, source, iter, heard>>
vars == <<clientVars, endpointVars, managerVars, redisVars, readerVars>>

Location == {"closed", "opening", "joining", "subscribing", "ready", "storing", "publishing",
             "notifying", "leaving", "offline", "gone", "crashed"}
LinkState == {"none", "new", "asked", "on", "cancelled", "quitting", "off"}
Operation == [chat : Chat \cup {NoChat}, pubsub : Nat, next : Location]
Iteration == [msg : Nat, obj : Nat, start : SUBSET Socket, seen : SUBSET Socket]

TypeOK ==
    /\ open \in SUBSET Socket
    /\ requests \in Nat
    /\ pc \in [Socket -> Location]
    /\ chats \in [Socket -> SUBSET Chat]
    /\ todo \in [Socket -> SUBSET Chat]
    /\ op \in [Socket -> Operation]
    /\ outbox \in [Socket -> Nat]
    /\ notify \in [Socket -> BOOLEAN]
    /\ members \in [Chat -> SUBSET Socket]
    /\ userSockets \in [User -> SUBSET Socket]
    /\ latest \in 0..MaxPubSub
    /\ home \in [Chat -> Nat]
    /\ topic \in [PubSub -> Chat \cup {NoChat}]
    /\ link \in [PubSub -> LinkState]
    /\ queue \in [PubSub -> Seq(Nat)]
    /\ published \in Seq(Chat)
    /\ rpc \in [PubSub -> {"none", "polling", "sending", "dead"}]
    /\ source \in [PubSub -> Nat]
    /\ iter \in [PubSub -> Iteration]
    /\ heard \in [Socket -> [PubSub -> Nat]]

Init ==
    /\ open = {}
    /\ requests = 0
    /\ pc = [s \in Socket |-> "closed"]
    /\ chats = [s \in Socket |-> {}]
    /\ todo = [s \in Socket |-> {}]
    /\ op = [s \in Socket |-> Idle]
    /\ outbox = [s \in Socket |-> 0]
    /\ notify = [s \in Socket |-> FALSE]
    /\ members = [c \in Chat |-> {}]
    /\ userSockets = [u \in User |-> {}]
    /\ latest = 0
    /\ home = [c \in Chat |-> 0]
    /\ topic = [p \in PubSub |-> NoChat]
    /\ link = [p \in PubSub |-> "none"]
    /\ queue = [p \in PubSub |-> <<>>]
    /\ published = <<>>
    /\ rpc = [p \in PubSub |-> "none"]
    /\ source = [p \in PubSub |-> 0]
    /\ iter = [p \in PubSub |-> NoIteration]
    /\ heard = [s \in Socket |-> [p \in PubSub |-> 0]]

-----------------------------------------------------------------------------
(***************************************************************************)
(* Operations of the two managers.                                         *)
(***************************************************************************)

\* add_user_to_chat up to its first suspension.  The first member of a chat creates the set
\* and then, still in the same step, the PubSub object that becomes self.pubsub; it comes
\* back from the SUBSCRIBE in Subscribed.  Later members are only added to the set.
AddUserToChat(s, c, next) ==
    IF members[c] # {}
    THEN /\ members' = [members EXCEPT ![c] = @ \cup {s}]
         /\ pc' = [pc EXCEPT ![s] = next]
         /\ op' = [op EXCEPT ![s] = Call(c, 0, next)]
         /\ UNCHANGED <<latest, home, topic, link>>
    ELSE /\ latest < MaxPubSub
         /\ members' = [members EXCEPT ![c] = {s}]
         /\ pc' = [pc EXCEPT ![s] = "subscribing"]
         /\ op' = [op EXCEPT ![s] = Call(c, latest + 1, next)]
         /\ latest' = latest + 1
         /\ home' = [home EXCEPT ![c] = latest + 1]
         /\ topic' = [topic EXCEPT ![latest + 1] = c]
         /\ link' = [link EXCEPT ![latest + 1] = "new"]

\* broadcast_to_chat: Redis hands the message to every connection it has subscribed.
Broadcast(c) ==
    /\ published' = Append(published, c)
    /\ queue' = [p \in PubSub |->
                    IF topic[p] = c /\ link[p] \in {"on", "quitting"}
                    THEN Append(queue[p], Len(published) + 1)
                    ELSE queue[p]]

\* Variant: UNSUBSCRIBE without a channel, which ends every subscription of the connection.
HitsEvery(c, p) == p = latest

Hits(c, p) == p = latest /\ topic[p] = c

\* UNSUBSCRIBE goes to whatever self.pubsub is by now.  It changes nothing on a connection
\* that is subscribed to another channel, or to none yet.
Unsubscribe(c) ==
    link' = [p \in PubSub |->
                CASE Hits(c, p) /\ link[p] = "on"    -> "quitting"
                  [] Hits(c, p) /\ link[p] = "asked" -> "cancelled"
                  [] OTHER                           -> link[p]]

\* Variant: the key is deleted whoever else is in the chat.
MembersReset(s, c) == [members EXCEPT ![c] = {}]

MembersWithout(s, c) == [members EXCEPT ![c] = @ \ {s}]

\* Variant: unsubscribes with members left.
AnyoneOut(s, c) == TRUE

LastOut(s, c) == members[c] \subseteq {s}

\* remove_user_from_chat: the last one out deletes the key and unsubscribes.
RemoveUserFromChat(s, c) ==
    /\ members' = MembersWithout(s, c)
    /\ IF LastOut(s, c)
       THEN /\ home' = [home EXCEPT ![c] = 0]
            /\ Unsubscribe(c)
       ELSE UNCHANGED <<home, link>>

\* The endpoint has seen the end of the connection, so sending on it raises.  Before that a
\* send to a client that is gone may raise or be lost without notice.
Noticed(s) == pc[s] \in {"leaving", "offline", "gone", "crashed"}

-----------------------------------------------------------------------------
(***************************************************************************)
(* websocket_endpoint.                                                     *)
(***************************************************************************)

\* connect_socket and add_user_socket_connection, once a client opens the connection.
Accept(s) ==
    /\ pc[s] = "closed"
    /\ pc' = [pc EXCEPT ![s] = "opening"]
    /\ open' = open \cup {s}
    /\ userSockets' = [userSockets EXCEPT ![Owner[s]] = @ \cup {s}]
    /\ UNCHANGED <<requests, chats, todo, op, outbox, notify,
                   members, latest, home, redisVars, readerVars>>

\* get_user_active_direct_chats: some of the user's chats, the others being deleted or not
\* created yet.
LoadChats(s) ==
    /\ pc[s] = "opening"
    /\ \E C \in SUBSET {c \in Chat : Owner[s] \in Participants[c]} :
          /\ chats' = [chats EXCEPT ![s] = C]
          /\ todo' = [todo EXCEPT ![s] = C]
    /\ pc' = [pc EXCEPT ![s] = "joining"]
    /\ UNCHANGED <<clientVars, op, outbox, notify, managerVars, redisVars, readerVars>>

JoinNext(s, c) ==
    /\ pc[s] = "joining"
    /\ c \in todo[s]
    /\ AddUserToChat(s, c, "joining")
    /\ todo' = [todo EXCEPT ![s] = @ \ {c}]
    /\ UNCHANGED <<clientVars, chats, outbox, notify, userSockets, queue, published, readerVars>>

StartReceiving(s) ==
    /\ pc[s] = "joining"
    /\ todo[s] = {}
    /\ pc' = [pc EXCEPT ![s] = "ready"]
    /\ op' = [op EXCEPT ![s] = Idle]
    /\ UNCHANGED <<clientVars, chats, todo, outbox, notify, managerVars, redisVars, readerVars>>

\* Variant: add_user_to_chat_handler does not enter the chat in `chats`.
ChatsAsBefore(s) == chats

ChatsWithJoined(s) == [chats EXCEPT ![s] = @ \cup {op[s].chat}]

\* `await self.pubsub.subscribe` returns with the SUBSCRIBE sent, `return self.pubsub` reads
\* the attribute again, and the reader task is created on what it holds now.
Subscribed(s) ==
    /\ pc[s] = "subscribing"
    /\ LET p == op[s].pubsub
       IN  /\ link' = [link EXCEPT ![p] = "asked"]
           /\ rpc' = [rpc EXCEPT ![p] = "polling"]
           /\ source' = [source EXCEPT ![p] = latest]
    /\ chats' = ChatsWithJoined(s)
    /\ pc' = [pc EXCEPT ![s] = op[s].next]
    /\ op' = [op EXCEPT ![s] = Call(op[s].chat, 0, op[s].next)]
    /\ UNCHANGED <<clientVars, todo, outbox, notify, managerVars,
                   topic, queue, published, iter, heard>>

\* The client is gone; nobody on the server knows yet.
ClientCloses(s) ==
    /\ s \in open
    /\ open' = open \ {s}
    /\ UNCHANGED <<requests, endpointVars, managerVars, redisVars, readerVars>>

\* Variant: the cleanup only runs for a socket that is in a chat.
DisconnectedFromChats(s) == pc[s] = "ready" /\ s \notin open /\ chats[s] # {}

Disconnected(s) == pc[s] = "ready" /\ s \notin open

\* receive_json raises WebSocketDisconnect, the only exception with a cleanup.
Disconnect(s) ==
    /\ Disconnected(s)
    /\ pc' = [pc EXCEPT ![s] = "leaving"]
    /\ todo' = [todo EXCEPT ![s] = chats[s]]
    /\ UNCHANGED <<clientVars, chats, op, outbox, notify, managerVars, redisVars, readerVars>>

LeaveChat(s, c) ==
    /\ pc[s] = "leaving"
    /\ c \in todo[s]
    /\ RemoveUserFromChat(s, c)
    /\ pc' = [pc EXCEPT ![s] = "offline"]
    /\ todo' = [todo EXCEPT ![s] = @ \ {c}]
    /\ op' = [op EXCEPT ![s] = Call(c, 0, "leaving")]
    /\ UNCHANGED <<clientVars, chats, outbox, notify, userSockets, latest,
                   topic, queue, published, readerVars>>

\* mark_user_as_offline
PublishOffline(s) ==
    /\ pc[s] = "offline"
    /\ Broadcast(op[s].chat)
    /\ pc' = [pc EXCEPT ![s] = "leaving"]
    /\ op' = [op EXCEPT ![s] = Idle]
    /\ UNCHANGED <<clientVars, chats, todo, outbox, notify, managerVars, topic, link, readerVars>>

\* Variant: remove_user_guid_to_websocket is not called.
RegistryAsBefore(s) == userSockets

RegistryWithout(s) == [userSockets EXCEPT ![Owner[s]] = @ \ {s}]

\* remove_user_guid_to_websocket, and the coroutine returns with its locals.
Finish(s) ==
    /\ pc[s] = "leaving"
    /\ todo[s] = {}
    /\ userSockets' = RegistryWithout(s)
    /\ chats' = [chats EXCEPT ![s] = {}]
    /\ pc' = [pc EXCEPT ![s] = "gone"]
    /\ UNCHANGED <<clientVars, todo, op, outbox, notify,
                   members, latest, home, redisVars, readerVars>>

\* Any other exception ends the coroutine at once: nothing is cleaned up, and uvicorn closes
\* the connection.
Crash(s) ==
    /\ pc' = [pc EXCEPT ![s] = "crashed"]
    /\ open' = open \ {s}
    /\ chats' = [chats EXCEPT ![s] = {}]
    /\ todo' = [todo EXCEPT ![s] = {}]
    /\ outbox' = [outbox EXCEPT ![s] = 0]
    /\ notify' = [notify EXCEPT ![s] = FALSE]
    /\ UNCHANGED <<requests, op, managerVars, redisVars, readerVars>>

\* send_error to a client that left after it sent the message: what it raises is not a
\* WebSocketDisconnect.
ErrorReplyRaises(s) ==
    /\ pc[s] = "ready"
    /\ s \notin open
    /\ requests < MaxRequests
    /\ Crash(s)

\* A Redis or database call of the coroutine raises.
EndpointFails(s) ==
    /\ Faults
    /\ pc[s] \in {"opening", "subscribing", "ready", "storing", "publishing", "offline"}
    /\ Crash(s)

-----------------------------------------------------------------------------
(***************************************************************************)
(* The handlers.  A client can have sent its message before it closed, so  *)
(* they also run for a socket that is not open any more.  Requests that    *)
(* only earn an error reply change nothing here.                           *)
(***************************************************************************)

\* A message of the client, whose handler makes n broadcasts.
Receive(s, n) ==
    /\ pc[s] = "ready"
    /\ requests < MaxRequests
    /\ requests' = requests + 1
    /\ outbox' = [outbox EXCEPT ![s] = n]

\* A handler that goes on at `next`, for a chat the socket is in.
Handle(s, c, next) ==
    /\ pc' = [pc EXCEPT ![s] = next]
    /\ op' = [op EXCEPT ![s] = Call(c, 0, next)]
    /\ UNCHANGED <<chats, notify, members, latest, home, topic, link>>

NewMessage(s, c) ==
    /\ Receive(s, 2)
    /\ \/ c \in chats[s] /\ Handle(s, c, "storing")
       \/ /\ c \notin chats[s]
          /\ chats' = [chats EXCEPT ![s] = @ \cup {c}]
          /\ notify' = [notify EXCEPT ![s] = TRUE]
          /\ AddUserToChat(s, c, "storing")
    /\ UNCHANGED <<open, todo, userSockets, queue, published, readerVars>>

\* Only the first read of a message is broadcast; a later one is a no-op for the hub.
MessageRead(s, c) ==
    /\ c \in chats[s]
    /\ Receive(s, 2)
    /\ Handle(s, c, "storing")
    /\ UNCHANGED <<open, todo, userSockets, queue, published, readerVars>>

UserTyping(s, c) ==
    /\ c \in chats[s]
    /\ Receive(s, 2)
    /\ Handle(s, c, "publishing")
    /\ UNCHANGED <<open, todo, userSockets, queue, published, readerVars>>

\* add_user_to_chat_handler: `chats` is updated once add_user_to_chat has returned.
AddUserToChatRequest(s, c) ==
    /\ Receive(s, 1)
    /\ AddUserToChat(s, c, "publishing")
    /\ chats' = IF members[c] # {} THEN [chats EXCEPT ![s] = @ \cup {c}] ELSE chats
    /\ UNCHANGED <<open, todo, notify, userSockets, queue, published, readerVars>>

\* Direct sends at the end of a handler, whose locals go with it.  One that raises is raised
\* again in the sender's coroutine.
SendDirectly(s, targets) ==
    \/ /\ ~ \E t \in targets : Noticed(t)
       /\ pc' = [pc EXCEPT ![s] = "ready"]
       /\ op' = [op EXCEPT ![s] = Idle]
       /\ outbox' = [outbox EXCEPT ![s] = 0]
       /\ notify' = [notify EXCEPT ![s] = FALSE]
       /\ UNCHANGED <<clientVars, chats, todo, managerVars, redisVars, readerVars>>
    \/ /\ ~ targets \subseteq open
       /\ Crash(s)

\* The request is not counted: it leaves nothing behind but, perhaps, the crash.
ChatDeleted(s, c) ==
    /\ pc[s] = "ready"
    /\ requests < MaxRequests
    /\ c \in chats[s]
    /\ SendDirectly(s, members[c] \ {s})

\* The database part of new_message and message_read.
Store(s) ==
    /\ pc[s] = "storing"
    /\ pc' = [pc EXCEPT ![s] = "publishing"]
    /\ UNCHANGED <<clientVars, chats, todo, op, outbox, notify,
                   managerVars, redisVars, readerVars>>

\* A request over HTTP has deleted the chat and its messages: the AttributeError over the None that
\* was found is answered with an error reply, and nothing is broadcast.
StoreFindsNone(s) ==
    /\ pc[s] = "storing"
    /\ SendDirectly(s, {s})

\* Variant: one too many.
MoreToPublishOrDone(s) == outbox[s] >= 1

\* Is another broadcast due after this one?
MoreToPublish(s) == outbox[s] > 1

\* The broadcasts of a handler: the status first, then the message.
Publish(s) ==
    /\ pc[s] = "publishing"
    /\ Broadcast(op[s].chat)
    /\ outbox' = [outbox EXCEPT ![s] = @ - 1]
    /\ LET next == IF MoreToPublish(s) THEN "publishing"
                   ELSE IF notify[s] THEN "notifying" ELSE "ready"
       IN  /\ pc' = [pc EXCEPT ![s] = next]
           /\ op' = IF next = "ready" THEN [op EXCEPT ![s] = Idle] ELSE op
    /\ UNCHANGED <<clientVars, chats, todo, notify, managerVars, topic, link, readerVars>>

\* send_new_chat_created_ws_message, to every connection of the other participant.
NotifyFriend(s) ==
    /\ pc[s] = "notifying"
    /\ LET friends == Participants[op[s].chat] \ {Owner[s]}
       IN  IF friends = {} THEN SendDirectly(s, {})
           ELSE \E friend \in friends : SendDirectly(s, userSockets[friend])

-----------------------------------------------------------------------------
(***************************************************************************)
(* Redis and the reader tasks.                                             *)
(***************************************************************************)

\* Redis executes what the connection of p sent, SUBSCRIBE before UNSUBSCRIBE.
RedisApplies(p) ==
    /\ link' = [link EXCEPT ![p] = CASE link[p] = "asked"     -> "on"
                                     [] link[p] = "cancelled" -> "quitting"
                                     [] link[p] = "quitting"  -> "off"
                                     [] OTHER                 -> link[p]]
    /\ link[p] \in {"asked", "cancelled", "quitting"}
    /\ UNCHANGED <<clientVars, endpointVars, managerVars, topic, queue, published, readerVars>>

\* Variant: the chat that the reader was started for.
ChannelStartedFor(p) == topic[p]

\* The chat of the messages that the reader p takes: their channel.
ChannelOf(p) == topic[source[p]]

\* `await socket.send_text` to one member, within the iteration `it`.
SendText(p, s, it) ==
    LET sent == /\ rpc' = [rpc EXCEPT ![p] = "sending"]
                /\ iter' = [iter EXCEPT ![p] = Loop(it.msg, it.obj, it.start, it.seen \cup {s})]
    IN  \/ /\ s \in open
           /\ sent
           /\ heard' = [heard EXCEPT ![s][p] = it.msg]
        \/ /\ s \notin open
           /\ ~ Noticed(s)
           /\ sent
           /\ UNCHANGED heard
        \/ /\ s \notin open
           /\ rpc' = [rpc EXCEPT ![p] = "dead"]
           /\ iter' = [iter EXCEPT ![p] = NoIteration]
           /\ UNCHANGED heard

\* Variant: the message stays in the queue.
PeekedQueue(q) == queue[q]

TakenQueue(q) == Tail(queue[q])

\* get_message takes a message and the loop over the chat's sockets starts with any of them;
\* a chat nobody is in has no entry in the manager and the message is dropped.
ReaderTakes(p) ==
    /\ rpc[p] = "polling"
    /\ queue[source[p]] # <<>>
    /\ queue' = [queue EXCEPT ![source[p]] = TakenQueue(source[p])]
    /\ LET sockets == members[ChannelOf(p)]
           loop == Loop(Head(queue[source[p]]), home[ChannelOf(p)], sockets, {})
       IN  IF sockets = {} THEN UNCHANGED <<rpc, iter, heard>>
           ELSE \E s \in sockets : SendText(p, s, loop)
    /\ UNCHANGED <<clientVars, endpointVars, managerVars, topic, link, published, source>>

\* The set being iterated is still the one in the manager, with as many sockets as when the
\* loop began: all that Python checks.
SetUnchanged(p) ==
    /\ home[ChannelOf(p)] = iter[p].obj
    /\ Cardinality(members[ChannelOf(p)]) = Cardinality(iter[p].start)

\* The loop runs over the live set: who took the place of another may be visited, who left
\* is not.
StillToVisit(p) == IF SetUnchanged(p) THEN members[ChannelOf(p)] \ iter[p].seen ELSE {}

ReaderContinues(p) ==
    /\ rpc[p] = "sending"
    /\ \E s \in StillToVisit(p) : SendText(p, s, iter[p])
    /\ UNCHANGED <<clientVars, endpointVars, managerVars, redisVars, source>>

\* Variant: the loop ends after the first socket.
VisitedOne(p) == iter[p].seen # {}

\* A member that took the place of another in the set may be passed over.
VisitedAll(p) == iter[p].start \cap members[ChannelOf(p)] \subseteq iter[p].seen

ReaderFinishes(p) ==
    /\ rpc[p] = "sending"
    /\ SetUnchanged(p)
    /\ VisitedAll(p)
    /\ rpc' = [rpc EXCEPT ![p] = "polling"]
    /\ iter' = [iter EXCEPT ![p] = NoIteration]
    /\ UNCHANGED <<clientVars, endpointVars, managerVars, redisVars, source, heard>>

\* Any exception ends the reader: it is logged, and nobody starts another.
ReaderDies(p) ==
    /\ rpc' = [rpc EXCEPT ![p] = "dead"]
    /\ iter' = [iter EXCEPT ![p] = NoIteration]
    /\ UNCHANGED <<clientVars, endpointVars, managerVars, redisVars, source, heard>>

\* "Set changed size during iteration"
ReaderDiesOnSetChange(p) ==
    /\ rpc[p] = "sending"
    /\ ~ SetUnchanged(p)
    /\ ReaderDies(p)

\* "pubsub connection not set": the PubSub it got from line 21 has not subscribed yet.
ReaderWithoutConnection(p) ==
    /\ rpc[p] = "polling"
    /\ link[source[p]] = "new"
    /\ ReaderDies(p)

\* Two tasks waiting on one connection: the second read raises.
ReaderCollides(p) ==
    /\ rpc[p] = "polling"
    /\ \E q \in PubSub \ {p} : rpc[q] = "polling" /\ source[q] = source[p]
    /\ ReaderDies(p)

\* The connection to Redis fails under the reader.
ReaderFails(p) ==
    /\ Faults
    /\ rpc[p] = "polling"
    /\ ReaderDies(p)

-----------------------------------------------------------------------------
EndpointStep(s) ==
    \/ LoadChats(s) \/ StartReceiving(s) \/ Subscribed(s)
    \/ \E c \in Chat : JoinNext(s, c) \/ LeaveChat(s, c)
    \/ Store(s) \/ StoreFindsNone(s) \/ Publish(s) \/ NotifyFriend(s)
    \/ Disconnect(s) \/ PublishOffline(s) \/ Finish(s)

Request(s) ==
    \E c \in Chat : \/ NewMessage(s, c) \/ MessageRead(s, c) \/ UserTyping(s, c)
                    \/ AddUserToChatRequest(s, c) \/ ChatDeleted(s, c)

ClientStep(s) == Accept(s) \/ ClientCloses(s) \/ Request(s) \/ ErrorReplyRaises(s)

ReaderStep(p) ==
    \/ ReaderTakes(p) \/ ReaderContinues(p) \/ ReaderFinishes(p)
    \/ ReaderDiesOnSetChange(p) \/ ReaderWithoutConnection(p)

Next ==
    \/ \E s \in Socket : ClientStep(s) \/ EndpointStep(s) \/ EndpointFails(s)
    \/ \E p \in PubSub : RedisApplies(p) \/ ReaderStep(p) \/ ReaderCollides(p) \/ ReaderFails(p)

Spec == Init /\ [][Next]_vars

\* The event loop runs every coroutine that can go on, and Redis answers.  Clients need not
\* do anything, and no failure has to happen.
Fairness ==
    /\ \A s \in Socket : WF_vars(EndpointStep(s))
    /\ \A p \in PubSub : WF_vars(RedisApplies(p)) /\ WF_vars(ReaderStep(p))

FairSpec == Spec /\ Fairness

-----------------------------------------------------------------------------
(***************************************************************************)
(* Properties.                                                             *)
(***************************************************************************)

\* The chats a running endpoint is in, from its own locals.
Joined(s) ==
    IF pc[s] \in {"leaving", "offline"} THEN todo[s]
    ELSE (chats[s] \ todo[s]) \cup (IF pc[s] = "subscribing" THEN {op[s].chat} ELSE {})

\* The endpoint's `chats` and the manager's sets, updated by different code in different
\* orders, agree in every state, a connection still joining or already leaving included.  In
\* particular the `remove` of remove_user_from_chat always finds its socket.
MembersAreJoined ==
    \A s \in Socket, c \in Chat : pc[s] # "crashed" => (s \in members[c] <=> c \in Joined(s))

\* A connection that ended through WebSocketDisconnect is in no chat and no longer in the
\* registry of its user's connections.
GoneIsForgotten ==
    \A s \in Socket : pc[s] = "gone" =>
        /\ \A c \in Chat : s \notin members[c]
        /\ s \notin userSockets[Owner[s]]

\* A chat with members has a PubSub of its own whose SUBSCRIBE was sent and which was not
\* unsubscribed, or the member that created it is still at it, or ended while it was:
\* misdirected UNSUBSCRIBEs never hit a chat that is in use.
LiveChatSubscribed ==
    \A c \in Chat : members[c] # {} =>
        /\ home[c] \in 1..latest
        /\ topic[home[c]] = c
        /\ \/ link[home[c]] \in {"asked", "on"}
           \/ /\ link[home[c]] = "new"
              /\ \E s \in members[c] : op[s].pubsub = home[c] /\ pc[s] \in {"subscribing", "crashed"}

\* What a reader has still to send to a client is newer than all it has sent to it: each
\* reader hands over its messages in the order they were published, and none twice.
EachReaderInOrder ==
    \A s \in Socket, p \in PubSub : rpc[p] \in {"polling", "sending"} =>
        /\ \A i \in DOMAIN queue[source[p]] : heard[s][p] < queue[source[p]][i]
        /\ rpc[p] = "sending" /\ s \notin iter[p].seen => heard[s][p] < iter[p].msg

\* Whoever hears a message is at that moment in the chat it was published to, although the
\* reader may poll another chat's connection and members join and leave during its loop.
OnlyMembersHear ==
    [][\A s \in Socket, p \in PubSub :
          heard'[s][p] # heard[s][p] => s \in members[published[heard'[s][p]]]]_vars

\* Once its client is gone an endpoint comes to an end, with or without the cleanup.
DisconnectRunsToEnd ==
    \A s \in Socket : pc[s] # "closed" /\ s \notin open ~> pc[s] \in {"gone", "crashed"}

-----------------------------------------------------------------------------
(***************************************************************************)
(* The inductive invariant.                                                *)
(***************************************************************************)

\* What the locals of an endpoint are worth where it stands.
EndpointOK(s) ==
    /\ pc[s] \in {"closed", "opening", "gone"} => chats[s] = {}
    /\ pc[s] \notin {"joining", "subscribing", "leaving", "offline"} => todo[s] = {}
    /\ pc[s] = "joining" => todo[s] \subseteq chats[s]
    /\ pc[s] \in {"storing", "publishing"} => outbox[s] > 0
    /\ pc[s] = "subscribing" =>
          /\ op[s].chat \in Chat \ todo[s]
          /\ op[s].pubsub \in 1..latest
          /\ \/ op[s].next = "joining" /\ todo[s] \subseteq chats[s]
             \/ op[s].next \in {"storing", "publishing"} /\ todo[s] = {} /\ outbox[s] > 0

\* Every coroutine in subscribe has a PubSub of its own, unconnected and without a reader.
CreationsApart ==
    /\ \A s \in Socket : pc[s] = "subscribing" =>
          /\ link[op[s].pubsub] = "new"
          /\ \A t \in Socket \ {s} : pc[t] = "subscribing" => op[t].pubsub # op[s].pubsub
    /\ \A p \in PubSub : link[p] \in {"none", "new"} => rpc[p] = "none"
    /\ \A p \in PubSub : p > latest => link[p] = "none"

\* A PubSub that was created has a channel.  Its queue is in the order of publication, nobody
\* has been sent a message that was not published, and a reader polls a PubSub that exists.
ReaderOK(p) ==
    /\ p <= latest => topic[p] \in Chat
    /\ \A i, j \in DOMAIN queue[p] : i < j => queue[p][i] < queue[p][j]
    /\ \A i \in DOMAIN queue[p] : queue[p][i] \in 1..Len(published)
    /\ \A s \in Socket : heard[s][p] <= Len(published)
    /\ rpc[p] = "none" => \A s \in Socket : heard[s][p] = 0
    /\ rpc[p] # "none" => source[p] \in 1..latest
    /\ rpc[p] = "sending" => /\ iter[p].msg <= Len(published)
                             /\ \A i \in DOMAIN queue[source[p]] : iter[p].msg < queue[source[p]][i]

\* Where a message stands, in a queue, in a reader's loop, or with a client, it is one of the
\* channel that the reader takes its messages from, and a reader's loop is not behind what its
\* clients have heard.  A PubSub that was not created yet has no messages.
CarriedOK(p) ==
    /\ p > latest => queue[p] = <<>>
    /\ \A i \in DOMAIN queue[p] : published[queue[p][i]] = topic[p]
    /\ rpc[p] = "sending" => /\ iter[p].msg \in DOMAIN published
                             /\ published[iter[p].msg] = ChannelOf(p)
    /\ \A s \in Socket : heard[s][p] # 0 =>
          /\ heard[s][p] \in DOMAIN published
          /\ published[heard[s][p]] = ChannelOf(p)
          /\ rpc[p] = "sending" => heard[s][p] <= iter[p].msg

\* A client is there only as long as its endpoint has not noticed that it is gone, a handler
\* broadcasts to a chat that its endpoint is in, and the cleanup to the chat that it has left.
ClientOK(s) ==
    /\ pc[s] = "closed" \/ Noticed(s) => s \notin open
    /\ pc[s] \in {"storing", "publishing", "notifying"} => op[s].chat \in chats[s]
    /\ pc[s] = "offline" => op[s].chat \in Chat

\* The state every safety property above follows from.
IInv ==
    /\ TypeOK
    /\ \A s \in Socket : EndpointOK(s)
    /\ CreationsApart
    /\ \A p \in PubSub : ReaderOK(p)
    /\ MembersAreJoined
    /\ GoneIsForgotten
    /\ LiveChatSubscribed
    /\ EachReaderInOrder
    /\ \A p \in PubSub : CarriedOK(p)
    /\ \A s \in Socket : ClientOK(s)

-----------------------------------------------------------------------------
(***************************************************************************)
(* The hub as the rooms that it implements.                                *)
(***************************************************************************)

\* How the rooms see the connection of a socket.
ClientState(s) ==
    CASE pc[s] = "closed"                 -> "new"
      [] pc[s] \in {"leaving", "offline"} -> "leaving"
      [] pc[s] = "gone"                   -> "gone"
      [] pc[s] = "crashed"                -> "lost"
      [] OTHER                            -> IF s \in open THEN "here" ELSE "away"

RoomService == INSTANCE Rooms WITH
    Carrier <- PubSub,
    client  <- [s \in Socket |-> ClientState(s)],
    room    <- members,
    parting <- [s \in Socket |-> IF pc[s] = "offline" THEN {op[s].chat} ELSE {}],
    posted  <- published

\* Whatever the coroutines, the shared sets and the readers do, clients only see the steps of
\* Rooms: nobody connected is put out of a chat, messages come from members and are heard by
\* members, each reader carries one chat's messages in order, and whoever leaves says so.
RoomsSpec == RoomService!Spec

-----------------------------------------------------------------------------
Messages == 1..(2 * MaxRequests + Cardinality(Socket) * Cardinality(Chat))

\* The reader p is alive and message m waits on its connection.
Waiting(m, p) ==
    /\ rpc[p] \in {"polling", "sending"}
    /\ \E i \in DOMAIN queue[source[p]] : queue[source[p]][i] = m

Served(s, p, m) == heard[s][p] >= m \/ s \notin open

\* A message that reached the subscription of a chat reaches every member whose client is
\* there, unless the reader dies or shares its connection with another.
WaitingIsServed ==
    \A s \in Socket, p \in PubSub, m \in Messages :
        Waiting(m, p) /\ s \in members[ChannelOf(p)]
            ~> \/ Served(s, p, m)
               \/ rpc[p] = "dead"
               \/ \E q \in PubSub \ {p} : rpc[q] # "none" /\ source[q] = source[p]

-----------------------------------------------------------------------------
(***************************************************************************)
(* What comments of the code say and the code does not do.  Each of these  *)
(* is refuted by a run of its own.                                         *)
(***************************************************************************)

\* router.py:49, "subscribe this websocket instance to all Redis PubSub channels": when
\* nobody is in the middle of add_user_to_chat, every chat with members has a reader on the
\* subscription that was made for it.
EveryChannelHasReader ==
    (\A s \in Socket : pc[s] # "subscribing") =>
        \A c \in Chat : members[c] # {} =>
            \E p \in PubSub : rpc[p] # "none" /\ source[p] = home[c]

\* websocket_manager.py:50, "Removing user from PubSub channel": a subscription that is
\* neither new nor given up belongs to a chat that has members.
LeftMeansUnsubscribed ==
    \A p \in PubSub : link[p] \in {"asked", "on"} => members[topic[p]] # {}

\* router.py:100, "unsubscribe user websocket connection from all chats": no ended endpoint
\* is still in a chat.
EndedMeansRemoved ==
    \A s \in Socket, c \in Chat : pc[s] \in {"gone", "crashed"} => s \notin members[c]

\* handlers.py:47, "broadcasted to all users": a message that a handler published, with every
\* connection still in place, and that reached the chat's subscription reaches the members.
BroadcastToAllUsers ==
    \A s \in Socket, p \in PubSub, m \in Messages :
        (Waiting(m, p) /\ s \in members[ChannelOf(p)] /\ \A t \in Socket : ~ Noticed(t))
            ~> Served(s, p, m)
=============================================================================
