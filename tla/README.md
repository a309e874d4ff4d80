# TLA+ model of the chat application

The repository is a chat application for direct messages: a FastAPI backend (`src/src`) with
PostgreSQL and Redis behind it, and a React frontend (`src/frontend`). This directory models the
parts whose correctness depends on the order in which things happen, checks them with TLC and
proves the most important safety properties with TLAPS.

Paths below are relative to the repository's root `src/`, so `src/websocket/router.py` is the
file `src/src/websocket/router.py` of a checkout that contains the repository in `src/`.

## 1. The system

One uvicorn worker (Dockerfile) runs one event loop. Everything the backend keeps in memory is
changed by coroutines of that loop, so a step is the code between two suspensions. PostgreSQL runs
every statement in a transaction of its own (`isolation_level="AUTOCOMMIT"`, database.py:41-43).
Redis serves three purposes: publish/subscribe between the endpoints, the presence keys, and a cache
of HTTP responses.

| Component | State it keeps | Operations | Interacts through |
|---|---|---|---|
| WebSocket hub (`managers/*`, `websocket/router.py`, `websocket/handlers.py`) | `chats`: chat to set of sockets; `user_guid_to_websocket`; `self.pubsub`, the PubSub created last; per endpoint its dict `chats`; per reader its loop | connect, join, leave, the five handlers, broadcast, reader loop | Redis pub/sub, direct sends, the sets shared by all coroutines |
| Presence (`check_user_statuses`, `mark_user_as_online/offline`) | one Redis key per user, TTL 60 s; one task per connection | set, delete, poll, broadcast | hub broadcasts, the endpoint's dict |
| Direct chats (`chat/router.py`, `create_direct_chat`) | tables chat, chat_participant, read_status, message | create, delete, list, store a message | statements of several requests interleave; the lists are cached |
| Read status (`mark_last_read_message`, counts in `chat/services.py`) | `last_read_message_id` per user and chat | mark, count, flag | handlers of several connections of a user |
| Response cache (`utils.py`, views) | Redis keys `messages_*`, `direct_chats_*`, `*_all_users` with a TTL | fill, serve, scan-and-delete, expire | views race with the invalidations of handlers |
| History paging (`get_chat_messages`, `get_older_chat_messages`) | none | page by `created_at` | message table |
| Registration and login (`registration/*`, `authentication/*`, `dependencies.py`) | table user, tokens at the clients | register, login, Google login, refresh, logout | unique constraints, the identifier in a token |
| Migrations (`alembic/*`) | the schema and its version | upgrade, downgrade | a transaction, which revision 0006 ends early |
| Contacts, settings | table user | list, update one JSON column | response cache |
| Frontend chat page (`Chat.tsx`) | list of messages, selected chat | fetch, receive, optimistic append, merge | HTTP answers in any order, websocket events |
| Frontend connection (`useChatSocket.ts`) | one websocket, a reconnect timer, a poll timer | connect, close, reconnect | timers and close events |
| Frontend API client (`api.ts`) | access token, one refresh promise | request, 401, refresh, retry | concurrent requests |

What makes the system hard to get right:

* the hub's sets are iterated across `await`s while other coroutines change them;
* `RedisPubSubManager.pubsub` is one attribute for all chats, read again after an `await`;
* a key of `chats` is registered before the SUBSCRIBE is sent;
* only `WebSocketDisconnect` has a cleanup; every other exception ends an endpoint as it stands;
* direct sends to other connections raise in the sender's coroutine;
* check-then-act and read-modify-write sequences run over an AUTOCOMMIT connection;
* cached responses are filled by views that read the database before somebody else's write;
* in the browser, answers of superseded requests arrive late.

What makes each component correct is stated as properties in its module; the complete list of
hazards, each at its line, is in `PROJECT.json`.

## 2. Modules

| Module | Contents |
|---|---|
| `WebSocketHub` | the hub: state, actions, properties, inductive invariant |
| `Rooms` | what the hub promises to its connections: the abstract specification of `WebSocketHub` |
| `ReadStatus` | the read statuses of a chat: its creation, the `message_read` handlers, the counts |
| `ReadMarks` | what reading a chat promises: the abstract specification of `ReadStatus` |
| `DirectChats` | chats of a pair, created, deleted, listed through the cache, and written to |
| `MessageViews` | the cached page of a chat, the older messages, and the writes that clear the cache |
| `Accounts` | registrations, logins, refreshes and what a token finds |
| `Migrations` | the schema under upgrades and downgrades that fail and are retried |
| `ClientSession` | the browser's API client, tokens and websocket |

`MC<module>` has values of the constants for TLC, `<module>Proofs` the proofs about a module;
`RoomsProofs` proves that the hub implements `Rooms`. The
modules do not share variables: a handler is in `WebSocketHub` as what it does to sockets and channels,
in `ReadStatus`, `DirectChats` and `MessageViews` as what it does to the tables and to the cache.
`MessageViews` takes over from `ReadMarks` that a user with one tab has one mark that only moves
forward, and from `DirectChats` that a chat that is open is not deleted.

Definitions called "Variant" in a comment are not part of any specification. Each one is a plausible
mistake in the definition that follows it and shows that a property notices the mistake.

Twelve runs check the modules. All but `HubReaderRace` pass; section 9 lists formulas that the code's
comments suggest and TLC refutes.

## 3. The hub

### State

`WebSocketHub` keeps the names of the code where it can: `members` is `WebSocketManager.chats` (an
absent key is the empty set: the code deletes a key when its set becomes empty), `userSockets` is
`user_guid_to_websocket`, `latest` is `RedisPubSubManager.pubsub`. PubSub objects are numbered in the
order of their creation; the reader task that `add_user_to_chat` spawns has the number of the object
created in the same call, and `source` is the object it really polls. `home[c]` identifies the Python
set of chat `c` by the PubSub created with it, so a set that was deleted and created again is another
set.

Per endpoint, `pc` is where the coroutine is suspended, `chats` its local dict, `todo` what is left
of a join or leave loop, `op` the call under way, `outbox` and `notify` what the current handler has
still to send.

### Steps

| Action | Code |
|---|---|
| `Accept`, `LoadChats`, `JoinNext`, `StartReceiving` | router.py:37-58, services.py:126-142 |
| `AddUserToChat`, `Subscribed` | websocket_manager.py:32-39, pubsub_manager.py:15-21 |
| `NewMessage`, `MessageRead`, `UserTyping`, `AddUserToChatRequest`, `ChatDeleted` | handlers.py |
| `Store`, `Publish`, `NotifyFriend` | the rest of those handlers, services.py:153-196 |
| `StoreFindsNone` | the chat or the message is gone (handlers.py:79-91): the AttributeError gets an error reply (router.py:86-89), and the endpoint goes on |
| `Disconnect`, `LeaveChat`, `PublishOffline`, `Finish` | router.py:98-110, services.py:57-64 |
| `ErrorReplyRaises`, `EndpointFails` | an exception without a cleanup |
| `RedisApplies` | Redis executes SUBSCRIBE and UNSUBSCRIBE |
| `ReaderTakes`, `ReaderContinues`, `ReaderFinishes` | websocket_manager.py:58-68 |
| `ReaderDies...`, `ReaderWithoutConnection`, `ReaderCollides`, `ReaderFails` | websocket_manager.py:69-70 |

A message is the number of its PUBLISH, and `published` the chats of all messages in that order. That is
all the properties need: order and duplication are visible in the numbers, and a message that reaches
members of another chat in its entry of `published`.

### Abstractions and their limits

* One connection is one `Socket` and connects once. A client that reconnects is another socket.
* `LoadChats` returns any set of the user's chats, because chats are created and deleted over HTTP.
* Error replies that succeed before a handler has begun to store, and repeated reads, change nothing of
  the hub and are left out; an error reply that raises is `ErrorReplyRaises`.
* The periodic status task is left out. It only publishes.
* An UNSUBSCRIBE on a PubSub that has no connection yet would open one; the model lets it have no
  effect, as for any other channel the object is not subscribed to.
* `iter` compares sizes the way CPython does. The resize of a set's hash table during an iteration is
  abstracted to "a member that took the place of another may be visited or not".
* `pubsub_client.disconnect` releases a connection the shared client does not hold: no effect.
* `MaxPubSub` bounds the objects ever created. Where it is at least the number of sockets times the
  number of chats it never blocks a step; `HubTwoChats` and `HubServes` use it as a real bound on
  re-creations.

### Fairness

`FairSpec` assumes weak fairness of each endpoint, of Redis, and of each reader: the event loop
resumes every coroutine whose await is over, and Redis answers. Clients, failures and the collision
of two readers on one connection are unfair: nothing makes them happen. `CHECK_DEADLOCK FALSE` is
set in every configuration because clients may all leave for good.

### Runs

| Run | Instance | Shows |
|---|---|---|
| `HubTwoChats` | 2 connections of one user, 2 chats, no requests, 3 PubSub objects, symmetry | `EachReaderInOrder`, `OnlyMembersHear`, `IInv` (which contains `MembersAreJoined` and `LiveChatSubscribed`) while PubSub objects of two chats replace each other and the iterated sets change |
| `HubRequests` | 2 users, 1 chat, 2 requests, Redis and database may fail | `TypeOK`, `MembersAreJoined`, `LiveChatSubscribed`, `GoneIsForgotten` with every handler interleaved with joins, cleanups, failures and crashes |
| `HubEnds` | 2 users, 1 chat, 1 request, fair | `RoomsSpec`, `DisconnectRunsToEnd` |
| `HubServes` | 2 users, 1 chat, 1 request, 1 PubSub, fair | `WaitingIsServed` |
| `HubReaderRace` | 2 users, 2 chats | refutes `EveryChannelHasReader` |

Two chats are enough for one PubSub to replace another, and two sockets for two coroutines to race in
one chat, or for a set to change its member but not its size under an iteration. Symmetry is used
only where all sockets belong to one user and no liveness is checked.

### What the hub implements

`Rooms` has neither coroutines nor Redis: a room for each chat, connections that enter it, post, hear and
leave, and carriers that bring what was posted. It promises

* that only who is in a room posts to it, and only who is in it hears what was posted to it;
* that a carrier serves one room and never brings a message after a later one, to nobody;
* that nobody is put out of a room while the server does not know of the client's end, and that an
  orderly end leaves every room and says so in each, in the room that was left and before the next one.

It does not promise that a message is heard: a SUBSCRIBE that is under way, a reader that dies, and an
endpoint that crashes lose messages (`Lose`, and no fairness). `RoomService` is the refinement mapping: the
rooms are `members`, the carriers the readers, a connection's state is read off `pc` and `open`, and
who stands between the discard and the broadcast of "inactive" is `parting`.

### What the code does other than its comments say

1. `subscribe` returns `self.pubsub` as it is after the await (pubsub_manager.py:21). When two first
   members join different chats at the same time both reader tasks poll the second chat's connection:
   the first chat gets nothing, and the two readers collide (`HubReaderRace`). router.py:49 says every
   channel is subscribed for the websocket.
2. `unsubscribe` uses whatever PubSub was created last (pubsub_manager.py:24), so the subscription of
   an emptied chat usually stays (`LeftMeansUnsubscribed`); websocket_manager.py:50 logs its removal.
   The dangerous opposite, an UNSUBSCRIBE that hits a chat in use, cannot happen
   (`LiveChatSubscribed`, proved).
3. An endpoint that ends by any exception but `WebSocketDisconnect` stays in its chats for ever
   (`EndedMeansRemoved`); router.py:100 promises the opposite.
4. A reader that iterates the set while a member joins or leaves dies with "Set changed size during
   iteration", also when it sends to a connection that was closed; the chat then is silent until its
   set is empty and created again (`BroadcastToAllUsers`). handlers.py:47 says messages are broadcasted to
   all users.

### Proofs

`WebSocketHubProofs` proves, for any finite set of sockets, any chats and users and any bounds,
with failures or without (`HubAssumption`):

* `TypeCorrect`: `Spec => []TypeOK`
* `MembersAgree`: `Spec => []MembersAreJoined`
* `CleanupIsComplete`: `Spec => []GoneIsForgotten`
* `LiveChatsStaySubscribed`: `Spec => []LiveChatSubscribed`
* `ReadersKeepOrder`: `Spec => []EachReaderInOrder`
* `NoSendToStrangers`: `Spec => OnlyMembersHear`: what a reader sends goes to members of the chat that
  the message was published to, also where readers share a connection.

All of them follow from `Invariance`, `Spec => []IInv`. None of the properties is inductive alone:

* `MembersAreJoined` needs `EndpointOK`: what `todo` and `op` mean at each `pc`. Without it a join
  loop might visit a chat that is not in `chats`, or a handler be suspended with chats left to join.
* `LiveChatSubscribed` needs `MembersAreJoined` (the last member is really the last) and
  `EndpointOK`. The argument why a misdirected UNSUBSCRIBE is harmless: it acts only on the newest
  PubSub and only if the channel is the chat being emptied, so the PubSub it ends is the home of that
  very chat, or of nobody.
* `EachReaderInOrder` needs `ReaderOK` (queues are increasing, nothing is heard that was not published)
  and `CreationsApart`: a reader starts with `heard = 0` because its PubSub had no reader before, even
  if it then polls the queue of another chat's PubSub.

* `OnlyMembersHear` needs `CarriedOK`: what lies in the queue of a PubSub was published to the chat of
  that PubSub, and what a reader sends to the chat of the PubSub it polls, whose set it iterates.

`RoomsProofs` proves `HubImplementsRooms`: `Spec => RoomsSpec`, for the same constants. The initial state is
`InitRooms`; `RoomsStep` has one case per action and maps it to one step of `Rooms` or to a stutter. The
lemmas before it say what one coroutine can show: `OneConnection` (its step changes the client of
one socket at most), `StillServing`, `CrashLoses`, `AddUserToChatEnters`, `PublishPosts`, `LeaveChatLeaves`,
`PublishOfflineTakesLeave`, `FinishEnds`, `ReaderHears`. They need `IInv`: that a broadcast comes from a member is
`MembersAreJoined` and `ClientOK`, that the end is in no room is `GoneIsForgotten` and
`MembersAreJoined`, that a carrier keeps its room and its order is `CarriedOK`, `ReaderOK` and
`EachReaderInOrder`, and that nobody enters after the server has noticed the client's end is `ClientOK`.

The step lemmas (`TypeStep`, `EndpointPreserved`, `MembersPreserved`, `GonePreserved`,
`SubscriptionPreserved`, `CreationsPreserved`, `OrderPreserved`) treat one conjunct of `IInv` each and
have one step per action. TLC checks `IInv` itself in `HubTwoChats`. Liveness
(`DisconnectRunsToEnd`, `WaitingIsServed`) is model-checked only: the prover has no rule for
fairness with ENABLED.

## 4. The read statuses

### State and steps

One chat and its participants. `rows[u]` is what the table `read_status` holds for user `u`, one
pointer per row, in the order of insertion; `author` is the table `message`, a message
being its id. Per connection, `pc`, `req` and `saw` are the local state of `message_read_handler`
(handlers.py:121-168) around its suspensions: `looking` before the SELECT of `mark_last_read_message`,
`saving` before its commit, `announcing` before the broadcast. `told[u]` is the last `message_read`
that was broadcast for `u`. `get_message_by_guid` finds a message of any chat and the handler does not
compare (websocket/services.py:84-89): `author` also holds messages of other chats (`Elsewhere`), a pointer may
stand on one of them, and the counts, which are per chat, see only `Messages`.

| Action | Code |
|---|---|
| `CreateChat`, `CreateReadStatuses`, `CreateFails` | chat/services.py:15-34: the flush is committed at once, the rows come later, the rollback undoes nothing |
| `NewMessage` | handlers.py:69-91 |
| `MessageRead`, `Look`, `Save`, `Announce` | handlers.py:132-168, websocket/services.py:92-115 |
| `Fails` | any exception: the endpoint ends, the client connects again |
| `New`, `Unread`, `FirstPage` | chat/services.py:84-102 and 316-336, chat/router.py:91-111 |

Abstractions: messages are not deleted; ids grow in the order of the inserts; a `message_read` whose
message is not found earns an error reply and changes nothing, so it is no step; `Fails` covers a
commit whose answer was lost, as a failure after `Save`. An object of the session does not outlive its handler, so every handler reads the row
from the database although `expire_on_commit` is off (database.py:44).

### Properties and runs

| Run | Instance | Shows |
|---|---|---|
| `ReadTabs` | 2 users, one of them with two tabs, 2 messages of this chat or another, page size 1, failures | `TypeOK`, `NewOnFirstPage`, `FallsBackOnlyInARace`, `MarksSpec` |
| `ReadAnnounced` | the same without failures, fair | `MarkIsAnnounced` |

Two messages are the least that two tabs can mark in the wrong order, and allow a mark to move and to be
marked back; page size 1 makes the unread messages decide the size of the page. `FairSpec` is weak
fairness of each handler's next statement: the event loop resumes it when the database has answered.

* `FallsBackOnlyInARace`: SELECT, compare and commit are separate, and two tabs of one user may lose an
  update. The property says what the code does guarantee: a pointer moves back only when a handler writes
  over a row that another tab has moved since its SELECT, never because a message is marked late or again.
* `NewOnFirstPage`: the page is enlarged by a count of other messages than those counted as new.
* `MarkIsAnnounced` (liveness) and `MarksSpec` are about every user with one tab (`OneTabUser`), among
  others whose tabs race: two tabs do announce and move backwards (5.), so no more is true of them.

`ReadMarks` promises that each user has one mark that only moves forward, over messages that exist,
and that what is announced is a mark that was set, once. The refinement mapping takes the largest of a
user's pointers, so that rows which are missing, late or doubled do not matter.

What the code does other than its comments say:

5. Two tabs of one user that mark different messages at the same time both compare with the old row;
   the later commit wins (`NewAreUnread`). The pointer moves back, and messages that the peer sees as
   read count as new again; chat/services.py:78 excludes that.
6. A `message_read` between the flush and the commit of `create_direct_chat` inserts a row of its own;
   with two rows `scalar_one_or_none` raises in every later one (`OneRowEach`). chat/services.py:172
   assumes one row for each of the two users.

### Proofs

`ReadStatusProofs` proves, for any users, connections, number of messages and page size, with failures
or without, and whatever the tabs do:

* `TypeCorrect`: `Spec => []TypeOK`: the pointers stand on messages there are, though not always of this
  chat.
* `FirstPageHasTheNew`: `Spec => []NewOnFirstPage`. The page reaches back over as many messages of the
  chat as lie after the pointer, wherever the pointer stands.
* `FallsBackOnlyInARaceHolds`: `Spec => FallsBackOnlyInARace`.
* `ReadStatusImplementsReadMarks`: `Spec => MarksSpec`, for the users with one tab.

The last two use `IInv`. For every connection (`SeenOK`): a handler that is about to write over a row has
seen it below its message, and if the row has moved since, another tab of its user has moved it. For
the users with one tab (`HandlerOK`): a handler that is about to write stands above every pointer of its user
(nobody else can have written since its SELECT but the creation of the chat, which writes 0), one that
is about to announce stands at the mark, and no user is announced beyond the mark. That a user has a
mark at all, a largest pointer, is part of the invariant (`ToldOK`); it would otherwise need an
induction over the rows. `MarkIsAnnounced` is liveness and only model-checked.

## 5. The direct chats

### State and steps

The tables chat (`there`), chat_participant (`members`), read_status (`rows`, as one fact per chat) and
message (`stored`), and the cached lists `direct_chats_{user}` (`list`). A chat is named by the request
that inserts it, a message by the request that stores it. Because every statement commits by itself, a
step is one statement, and `Fails` may follow each of them: a rollback undoes nothing.

| Action | Code |
|---|---|
| `Check`, `InsertChat`, `InsertMembers`, `InsertRows` | chat/router.py:49-66, chat/services.py:15-34 and 142-153 |
| `Load`, `DeleteDependents`, `DeleteChat` | chat/router.py:168-174: SQLAlchemy deletes what the SELECT had loaded, in an order of its own, and the chat last |
| `Open`, `Store`, `Touch` | a message: the chat gets into the endpoint's dict, the flush, the chat read again (handlers.py:51-86) |
| `Clear` | utils.py:26-30, for each user of the chat |
| `Read`, `Put` | `get_user_chats_view`, chat/router.py:135-157 |
| `Expire` | Redis: the entry has a time to live |

Abstractions: the foreign keys are `HasKey` (an insert needs the chat) and `Referenced` (the chat cannot
go while something refers to it). No code sets `Chat.is_deleted`. The scan and the delete of `Clear` are
one step, because a view uses one key only: when the scan finds the key the delete decides, when it
does not the scan does. A deletion names a chat whose participants have been inserted once, since
nobody else has been told its guid. The read statuses a handler inserts when it finds none belong to
`ReadStatus`; here they would be one more dependent that arrives late, as the messages are.

### Properties, run and fairness

`DirectChats` runs both users' creations of a chat with the other, one of a chat with oneself, a deletion, a message
and a view. `MaxCreations` lets any two of the three creations begin: two are the least that make two
chats of a pair, and a chat with oneself meets each of the others. The deletion may hit either.

* `NoSecondAfterAnswer`: the check only protects against chats that are already there. Requests that
  overlap make two chats for one pair (TLC reaches that state, and `direct_chat_exists` then raises
  MultipleResultsFound), but never when one began after the other was answered.
* `OrphansAreReported`: a deletion that loses the race against a message has removed the participants
  before the foreign key refuses the chat, and a creation can stop after the first insert; one of a chat
  with oneself always does (the TODO at chat/router.py:53: the second row of the one participant violates
  the primary key, and the chat stays). The chat
  then is out of everybody's reach, but some client was told of an error.
* `DeletedIsGone`: what was answered 204 stays deleted, with everything that belonged to it.
* `ListsBecomeTrue` (liveness): a view may store a list that it read before a write whose request has
  cleared the entry already. Such an entry is wrong until it expires, not longer. The fairness is that
  of the event loop for requests that have begun and of Redis for the expiry; creations, deletions and
  messages need not begin, and views need not read.

### Proofs

`DirectChatsProofs` proves `TypeOK`, `NoSecondAfterAnswer`, `OrphansAreReported` and `DeletedIsGone` for
any users and requests. They follow from one inductive invariant, whose parts say what the position of a request
tells about the tables: participants are those of the pair or none; who was answered "ok" has inserted
its chat; a deletion that has begun names a chat that was complete; after its last statement the
chat is gone, and nothing can be inserted for it. There is one lemma per action.

## 6. The messages of a chat

### State and steps

One chat and its two users. A message is named by the order of `created_at`, which PostgreSQL takes
when the INSERT begins; `visible` is what has been committed, so a message with an earlier time can
become visible later. `cache` holds the pages `messages_{chat}_{size}`. A client (`client`) shows one
response and what it has scrolled to since.

| Action | Code |
|---|---|
| `Send`, `Insert` | handlers.py:69-91 |
| `Save` | websocket/services.py:92-115, as `ReadMarks` allows it |
| `Clear` | utils.py:19-23 |
| `Open`, `Count`, `Lookup`, `Select`, `Put` | `get_user_messages_in_chat`, chat/router.py:77-123: the pointers, the count and the page are three statements |
| `OpenOlder`, `SelectOlder` | `get_older_messages`, chat/router.py:181-210 |
| `Expire`, `Fails`, `HandlerFails` | Redis, and an exception at any step |

`snap` in a response is history: the messages there were when the page was read. Abstractions: every
message has its own `created_at`; ids have the same order; both users have a read status. The users
have one tab each and mark messages of this chat: races of two tabs, and pointers on messages of another
chat, are in `ReadStatus` only.

### Properties, run and fairness

`MessageViews` has one client that opens the chat for either user, page size 1, older pages of 1, and 3
messages by both authors: enough for a page of unread messages, a message in between that appears
late, and two older pages.

* `WalkIsComplete`: a client that scrolls up misses none of the messages there were when its first page
  was read, although that page may be a cached one, computed for the other user, and sizes, pointers
  and messages are read in different statements. A message that becomes visible later with an earlier
  time may be missed; the property says so by its `snap`.
* `MoreIsTrue`: `has_more_messages` is kept by a next page that is not empty.
* `ReadIsTrue`: a message shown as read has been read by its recipient, also on the page of the other
  user: the flag depends on author and recipient, not on who asks.
* `PagesBecomeCurrent` (liveness): as `ListsBecomeTrue`, under the fairness of the expiry alone.

`MessageViewsProofs` proves `TypeOK`, `WalkIsComplete`, `MoreIsTrue` and `ReadIsTrue` for any numbers.
The invariant says of each response, in a view, in the cache or on its way there, that it shows the
newest messages of its `snap`, that `snap` is part of what is visible, and that its flags are covered by
the pointers; pointers only grow, and those loaded by a request stay below the present ones. That the
number of messages after some message decides whether it is on the page needs cardinalities of finite
sets (`FiniteSetTheorems`).

## 7. The accounts, the sessions, and the schema

### Accounts

`rows` is the table user; `session[q]` is what the client of a login holds, with the subject of its
tokens and their times of expiry. `Check`, `Insert`, `Clear` are `register_user`; `LogIn`, `Lookup` and
`Create` the two logins; `Refresh`, `Logout` and `Accepted` what is done with a session. Identifiers are model
values with a function to lower case. Passwords and the verification by Google are left out: whoever logs in
is the owner of the account that is found. No code deletes an account or sets `is_deleted`.

The run `Accounts` has three registrations, two Google logins and one login, among them an address in
upper and lower case, which Google returns in either, and an address that is the name of somebody else.

* `NoTwins`: `register_user` looks for what was typed but inserts lower case, so its check misses
  accounts; the unique constraints do not.
* `SessionFindsItsAccount`: a token carries only the identifier, which finds its account anew at every
  use. A username may be another's address; then two rows match, and the token is refused
  (MultipleResultsFound), but it never finds only the wrong account.
* `SessionEnds`: a chain of refreshes is accepted no longer than the refresh token and one access token.

The first two name an exception: `create_user_from_google_credentials` stores the address as it came,
although authentication/router.py:58 looks for it in lower case. If Google returns capitals (`MixedCase`), the login
that follows does not find the account, two accounts differ in case only, and the token of that login finds
nobody or somebody else. The exception is per account and per token: everybody else's are covered while
such accounts are there, as they are in the run. config.py's lifetimes are constants of which only
`AccessLife <= NewAccessLife` is assumed. `AccountsProofs` proves all four invariants for any requests,
identifiers and lifetimes. `CHECK_DEADLOCK FALSE`: all requests may be done and the time up.

### Migrations

A command runs the scripts of its revisions, one statement after the other (`Execute`), and after each
script updates the version (`Record`); `goal` is the version where it ends and `step` how far it is.
`work` is what the command sees, `db` what is committed; they differ while the transaction of
`env.py` is open, until the COMMIT of revision 0006 ends it for the rest of the command. Statements are
abstracted to the objects they create and drop and to the width of `user_image`; `Uses` and `Applies` say
what PostgreSQL requires. `Refuse`, `Crash` and `CrashInBuild` end a command at any statement. The
container runs `alembic upgrade head` at every start (Dockerfile:20), so a retry is `Upgrade` again.
`At(r)` is the schema of revision r as a table of its own, independent of the scripts, so that the
properties compare what the scripts do with what they are for.

The run has paths of 100, 1000 and 1048 characters (`PathLength`): one for each width that a
downgrade may ask for, so that each downgrade is also refused by what is stored.

* `LeavesARevision`: whatever stops a command, the schema that is left is that of the version on record,
  except for what the COMMIT of 0006 lets a command leave behind.
  An upgrade leaves indexes of 0006 early, the width 1048 of `user_image` at versions 3 to 5, or the table
  of 0007 dropped already. A downgrade that is cut off leaves some of what came with the revision it
  was undoing lost (`Lost`), or the width of the revision before, and nothing of any other revision.
* `HeadIsModels`: at the head revision the schema is what `models.py` declares, except for what such a
  downgrade took away: the upgrade goes on from the version on record and does not bring it back.
* `RetriesSucceed`: an upgrade can be run again after whatever was cut off before. The exceptions are
  part of the property: 0007 runs after the COMMIT, and a stop between its DROP TABLE and the update of the
  version leaves a database on which every further start fails; so does a downgrade of 0001 that stops
  after some of its tables.

`cut` is history: the revisions whose downgrade was cut off after the COMMIT and before the version was
updated, until a downgrade undoes them. TLC reaches a state for each of the exceptions. The build of an
index that is interrupted leaves an index of that name, which is invalid; IF NOT EXISTS takes it for a
finished one and no upgrade builds it again. In the model, as for the script, it counts as there.

`MigrationsProofs` proves the three and `TypeOK` for paths of any lengths. None of them is inductive: they
speak of a schema at rest, and a schema at rest is what a command leaves at any of its statements.
`IInv` says what holds in between:

* while a command is at statement k of a script, `work` has the objects of the version on record and
  what the first k statements have created or dropped (`Reached`), up to indexes that are there
  early, the table of 0007 and what is `Lost`, and a width that the ALTERs executed so far explain
  (`WidthReached`);
* while its transaction is open, `db` is a schema to return to; an upgrade has it open before 0006 and
  closes it with the first statement of 0006, so that what it leaves without a rollback is a schema of
  0006 or 0007 in the making, which the next upgrade takes up;
* a path that is stored fits into both schemas.

The argument has two halves. The first is about the scripts alone: each one either builds (`Builds`: it
creates every object once and after those it uses) or clears (`Clears`), and leads from `At` of one
version to `At` of the next (`Builds0001` to `Clears0006`, `Scripts`, `Landmarks`). The second is about
commands and holds for any scripts of these kinds: a statement keeps `work` in step with the script
(`OneStatement`), a finished script has reached its target (`AllDone`), a command that is cut off leaves a
schema to start from (`CutOffLeaves`: an upgrade is ahead by indexes and the width only, `GoesAhead`, and a
downgrade has dropped only what came with its own revision, `DropsItsOwn`), and there is one lemma per
action. `RetriesSucceedHolds` uses both: whatever was left early, and whatever is lost but the tables of 0001,
a statement that builds finds what it uses and not what it creates.

## 8. The client's session

### State and steps

One visit of the chat page: the tokens in localStorage, the requests of the API client, and the
websocket. `flight` are the calls of `refreshAccessToken` under way, named by the request that made them,
`promise` is `refreshPromise`, `awaits` the call a request waits for. `ws` has the websockets with their
readyState, `owner` the run of the effect whose handlers they have: React's StrictMode (main.tsx) runs
the effect, cleans it up and runs it again, and the handlers of the first run stay alive.

| Action | Code |
|---|---|
| `Fetch`, `Serve`, `Unauthorized`, `Resume` | api.ts:32-66 |
| `RefreshSucceeds`, `RefreshFails` | api.ts:15-30 |
| `Connect`, `RunEffect`, `Cleanup`, `PollFires`, `TimerFires` | useChatSocket.ts:15-93 |
| `Opened`, `Closed`, `Refused`, `Lost` | useChatSocket.ts:55-67 and the network |
| `Logout`, `Expire` | auth.ts:54-60, the lifetime of access tokens |
| `Poll` | Chat.tsx:133-139: the page fetches while it is not connected |

Abstractions: a step is a task of the browser with its microtasks; the requests that wait for one
refresh go on one after the other in the same turn, so `Resume` is one step. Delays, and the growing
delay of the reconnects, are abstracted to "any time later". Access tokens expire together. The
refresh token that `refreshAccessToken` stores is the one it has read. The navigation to /login after a
failed refresh is left out. `MaxSockets` bounds the websockets at one time, `MaxExpiries` and `MaxLosses` how
often tokens expire and the network fails.

### Properties, run and fairness

`ClientSession` has two requests, two websockets, the effect run twice, two expiries and one loss:
enough for a request that comes while another waits for a refresh, a retry that meets an expired token
again, and a websocket of the first run that closes after the second run has made its own.

* `OneRefresh`: never two refreshes at a time, although every waiting request resets `refreshPromise`.
* `DisposedIsQuiet`: the close event of a cleaned-up run sets no timer.
* `ConnectedIsOpen`: "connected" means that some websocket is open or its end is not handled yet. The
  converse does not hold: a close event of a replaced websocket says "not connected" while the new one
  is open, and sets `wsRef` to null, so that the poll opens another one.
* `FetchesEnd` (liveness): no request waits for ever.
* `Reconnects` (liveness): a page that stays, and keeps its refresh token, is connected in the end,
  although the websocket code retries with an expired token for ever and never refreshes it: the page
  polls while it is not connected, and the 401 of that request refreshes the token.

`FairSpec`: the server answers, the refresh gets an answer or fails, the events of a websocket are
handled, and the two intervals fire. The reconnect timer needs no fairness, as the poll does its work.
`CHECK_DEADLOCK FALSE`: the page may be left for good.

`ClientSessionProofs` proves `TypeOK`, `OneRefresh`, `DisposedIsQuiet` and `ConnectedIsOpen` for any numbers of
requests, websockets and runs. `OneRefresh` needs that the call in flight is `promise` and that whoever
waits does so for it; `ConnectedIsOpen` that an open websocket has been opened by its handler.

## 9. Formulas that TLC refutes

`HubReaderRace` is a run that expects a violation. The following formulas, which a comment of the code
suggests, are stated in the modules, too. TLC refutes each one when it takes the place of the
properties in the configuration named:

| Formula | In | The code says |
|---|---|---|
| `LeftMeansUnsubscribed` | `HubReaderRace.cfg` | websocket_manager.py:50, "Removing user from PubSub channel" |
| `EndedMeansRemoved` | `HubRequests.cfg` | router.py:100, "unsubscribe user websocket connection from all chats" |
| `BroadcastToAllUsers` | `HubServes.cfg`, as a PROPERTY | handlers.py:47, "broadcasted to all users" |
| `OneRowEach` | `ReadTabs.cfg` | chat/services.py:172, "assuming only two read statuses" |
| `NewAreUnread` | `ReadTabs.cfg` | chat/services.py:78, "are not yet read by current user" |
| `AppearsImmediately` | `DirectChats.cfg` | chat/router.py:68, "Ensure the new chat appears immediately" |
| `LastReadIsOthers` | `MessageViews.cfg` | chat/services.py:192, "the last read message for the other user": the page is cached for both users |
| `OnlyLowerCase` | `Accounts.cfg` | authentication/router.py:57, "db holds only lower case representation" |

## 10. What is only model-checked

* Liveness (`DisconnectRunsToEnd`, `WaitingIsServed`, `MarkIsAnnounced`, `ListsBecomeTrue`, `PagesBecomeCurrent`,
  `FetchesEnd`, `Reconnects`): the prover has no rule for fairness with ENABLED.

Every other property of a passing run is a theorem for all values of the constants.

## 11. Not modelled, and the plan

* Presence: the status key with its TTL of 60 s and the status task of each connection. A status is a
  hint that the next one corrects, and the code promises nothing of a sequence of them: the key is
  deleted although another tab is open, and a connected user who is silent for a minute is reported as inactive.
* Frontend chat page: fetched, received and optimistic messages merged under answers that arrive late.
* Contacts and settings: one SELECT behind a cache entry, one update of a JSON column.
* The image of a registration (resizing, upload) and the cookies, which repeat what the answer of a
  login contains.
* Rate limiting: the counting is fastapi-limiter's; its effect, an error reply, is in the hub.
* Configuration and wiring (`main.py`, `config.py`, `routers.py`), field validation of the schemas (its outcome,
  an error reply, is in the hub), and the presentational React components: none of them has state that
  several actors change.

What would add most next: `MessageViews` as an implementation of `ReadMarks`, whose promise it now takes
over in its `Save`; the life of a chat as an abstract specification of `DirectChats`; the composition of
`DirectChats` with the hub's dict of chats; and the merging of the chat page.
