---------------------------- MODULE MessageViews ----------------------------
(***************************************************************************)
(* The messages of one chat as its two users get to see them: the page of  *)
(* get_user_messages_in_chat, which is cached for both users, the older    *)
(* messages a client asks for while it scrolls, and the writes of the      *)
(* handlers new_message and message_read, which clear the cached pages.    *)
(*                                                                         *)
(* A message is named by the order of created_at, the time its INSERT      *)
(* began, and ids have that order, too; it is visible when the INSERT has  *)
(* committed.  A user has one tab, hence one handler at a time, and his    *)
(* pointer moves as in ReadMarks.  The chat is not deleted.                *)
(***************************************************************************)
EXTENDS Naturals, FiniteSets

CONSTANTS
    User,
    Other,        \* the other user of the chat
    View,         \* clients that show the chat, to one of the users at a time
    PageSize,     \* the page size a client asks for
    Limit,        \* how many older messages a client asks for
    MaxMessages,  \* bound
    Author        \* of a message

ASSUME MessageViewsAssumption ==
    /\ Other \in [User -> User]
    /\ \A u, w \in User : Other[u] # u /\ (w # u => w = Other[u])
    /\ PageSize \in Nat \ {0}
    /\ Limit \in Nat \ {0}
    /\ MaxMessages \in Nat
    /\ Author \in [1..MaxMessages -> User]

Messages == 1..MaxMessages
Sizes == Messages \cup {PageSize}

\* GetMessagesSchema, and the messages there were when it was read from the database (history).
Response ==
    [shown : SUBSET Messages, more : BOOLEAN, read : SUBSET Messages, last : 0..MaxMessages,
     snap : SUBSET Messages]

Nothing == [shown |-> {}, more |-> FALSE, read |-> {}, last |-> 0, snap |-> {}]

VARIABLES
    begun,    \* how many messages have begun their INSERT
    visible,  \* the table message
    pointer,  \* the table read_status: the last message each user has read
    doing,    \* what a handler awaits
    sending,  \* the message of a handler
    cache,    \* {} or {the response stored as messages_{chat}_{size}}
    viewer,   \* the user who opened the chat in a client
    pc,       \* what the request of a client awaits
    size,     \* its page size
    marks,    \* the pointers it has loaded
    got,      \* {} or {the response it has read and not put in the cache yet}
    client    \* what the client shows, as one response

handlers == <<begun, visible, pointer, doing, sending>>
requests == <<viewer, pc, size, marks, got, client>>
vars == <<handlers, cache, requests>>

TypeOK ==
    /\ begun \in 0..MaxMessages
    /\ visible \subseteq 1..begun
    /\ pointer \in [User -> 0..MaxMessages]
    /\ doing \in [User -> {"idle", "inserting", "clearing"}]
    /\ sending \in [User -> 0..MaxMessages]
    /\ \A u \in User : doing[u] = "inserting" => sending[u] \in 1..begun
    /\ cache \in [Sizes -> SUBSET Response]
    /\ viewer \in [View -> User]
    /\ pc \in [View -> {"idle", "count", "lookup", "select", "put", "older"}]
    /\ size \in [View -> Sizes]
    /\ marks \in [View -> [User -> 0..MaxMessages]]
    /\ got \in [View -> SUBSET Response]
    /\ client \in [View -> Response]

Init ==
    /\ begun = 0
    /\ visible = {}
    /\ pointer = [u \in User |-> 0]
    /\ doing = [u \in User |-> "idle"]
    /\ sending = [u \in User |-> 0]
    /\ cache = [n \in Sizes |-> {}]
    /\ viewer \in [View -> User]
    /\ pc = [v \in View |-> "idle"]
    /\ size = [v \in View |-> PageSize]
    /\ marks = [v \in View |-> [u \in User |-> 0]]
    /\ got = [v \in View |-> {}]
    /\ client = [v \in View |-> Nothing]

-----------------------------------------------------------------------------
(***************************************************************************)
(* new_message_handler and message_read_handler                            *)
(***************************************************************************)

\* The INSERT takes its time when it begins ...
Send(u) ==
    /\ doing[u] = "idle"
    /\ begun < MaxMessages /\ Author[begun + 1] = u
    /\ begun' = begun + 1
    /\ doing' = [doing EXCEPT ![u] = "inserting"]
    /\ sending' = [sending EXCEPT ![u] = begun + 1]
    /\ UNCHANGED <<visible, pointer, cache, requests>>

\* ... and may end after one that has begun later.
Insert(u) ==
    /\ doing[u] = "inserting"
    /\ visible' = visible \cup {sending[u]}
    /\ sending' = [sending EXCEPT ![u] = 0]
    /\ doing' = [doing EXCEPT ![u] = "clearing"]
    /\ UNCHANGED <<begun, pointer, cache, requests>>

\* mark_last_read_message moves the pointer forward or does nothing.
Save(u, m) ==
    /\ doing[u] = "idle"
    /\ m \in visible /\ pointer[u] < m
    /\ pointer' = [pointer EXCEPT ![u] = m]
    /\ doing' = [doing EXCEPT ![u] = "clearing"]
    /\ UNCHANGED <<begun, visible, sending, cache, requests>>

\* clear_cache_for_get_messages: a scan for the keys of the chat and a DEL for each one found.
\* They count as one step, as a request reads and writes one key only.
Clear(u) ==
    /\ doing[u] = "clearing"
    /\ doing' = [doing EXCEPT ![u] = "idle"]
    /\ cache' = [n \in Sizes |-> {}]
    /\ UNCHANGED <<begun, visible, pointer, sending, requests>>

\* A statement of a handler or a call to Redis fails.
HandlerFails(u) ==
    /\ doing[u] # "idle"
    /\ doing' = [doing EXCEPT ![u] = "idle"]
    /\ sending' = [sending EXCEPT ![u] = 0]
    /\ UNCHANGED <<begun, visible, pointer, cache, requests>>

-----------------------------------------------------------------------------
(***************************************************************************)
(* get_user_messages_in_chat                                               *)
(***************************************************************************)

\* Variant: ORDER BY created_at LIMIT n
OldestFirst(S, n) == {m \in S : Cardinality({k \in S : k < m}) < n}

\* ORDER BY created_at DESC LIMIT n
Newest(S, n) == {m \in S : Cardinality({k \in S : k > m}) < n}

\* Variant: no message more than the limit is asked for.
IsFull(S, n) == Cardinality(S) >= n

\* One message more than the limit has been found.
HasMore(S, n) == Cardinality(S) > n

\* How many messages lie after a pointer that was loaded.
Unread(at) == Cardinality({m \in visible : m > at})

\* Variant: a page and the unread messages.
SizeOfBoth(at) == PageSize + Unread(at)

SizeFor(at) == IF Unread(at) > PageSize THEN Unread(at) ELSE PageSize

\* Variant: the flags of own and of received messages are swapped.
ReadByMe(u, at, m) ==
    m <= IF Author[m] = u THEN at[u] ELSE at[Other[u]]

\* is_read, as computed for user u from the pointers that were loaded.
IsRead(u, at, m) ==
    m <= IF Author[m] = u THEN at[Other[u]] ELSE at[u]

\* get_chat_messages
FirstPage(u, at, n) ==
    LET page == Newest(visible, n)
    IN  [shown |-> page,
         more  |-> HasMore(visible, n),
         read  |-> {m \in page : IsRead(u, at, m)},
         last  |-> at[Other[u]],
         snap  |-> visible]

\* A user opens the chat: the request loads it with its pointers ...
Open(v, u) ==
    /\ pc[v] = "idle"
    /\ viewer' = [viewer EXCEPT ![v] = u]
    /\ marks' = [marks EXCEPT ![v] = pointer]
    /\ pc' = [pc EXCEPT ![v] = "count"]
    /\ client' = [client EXCEPT ![v] = Nothing]
    /\ UNCHANGED <<handlers, cache, size, got>>

\* ... and then counts the unread messages, which may make the page larger.
Count(v) ==
    /\ pc[v] = "count"
    /\ size' = [size EXCEPT ![v] = SizeFor(marks[v][viewer[v]])]
    /\ pc' = [pc EXCEPT ![v] = "lookup"]
    /\ UNCHANGED <<handlers, cache, viewer, marks, got, client>>

\* The request ends, and its locals go.
Done(v) ==
    /\ pc' = [pc EXCEPT ![v] = "idle"]
    /\ size' = [size EXCEPT ![v] = PageSize]
    /\ marks' = [marks EXCEPT ![v] = [u \in User |-> 0]]
    /\ got' = [got EXCEPT ![v] = {}]

Receive(v, response) ==
    /\ client' = [client EXCEPT ![v] = response]
    /\ Done(v)

\* A cached page is returned to either user.
Lookup(v) ==
    /\ pc[v] = "lookup"
    /\ \/ \E response \in cache[size[v]] : Receive(v, response)
       \/ /\ cache[size[v]] = {}
          /\ pc' = [pc EXCEPT ![v] = "select"]
          /\ UNCHANGED <<size, marks, got, client>>
    /\ UNCHANGED <<handlers, cache, viewer>>

Select(v) ==
    /\ pc[v] = "select"
    /\ got' = [got EXCEPT ![v] = {FirstPage(viewer[v], marks[v], size[v])}]
    /\ pc' = [pc EXCEPT ![v] = "put"]
    /\ UNCHANGED <<handlers, cache, viewer, size, marks, client>>

Put(v) ==
    /\ pc[v] = "put"
    /\ cache' = [cache EXCEPT ![size[v]] = got[v]]
    /\ \E response \in got[v] : Receive(v, response)
    /\ UNCHANGED <<handlers, viewer>>

\* Variant: an entry is stored without a time to live.
NeverExpires(n) == FALSE

HasEntry(n) == cache[n] # {}

\* REDIS_CACHE_EXPIRATION_SECONDS have passed since the entry was stored.
Expire(n) ==
    /\ HasEntry(n)
    /\ cache' = [cache EXCEPT ![n] = {}]
    /\ UNCHANGED <<handlers, requests>>

-----------------------------------------------------------------------------
(***************************************************************************)
(* get_older_messages                                                      *)
(***************************************************************************)

\* The client scrolls up to its oldest message, and the request loads the pointers.
OpenOlder(v) ==
    /\ pc[v] = "idle"
    /\ client[v].more
    /\ marks' = [marks EXCEPT ![v] = pointer]
    /\ pc' = [pc EXCEPT ![v] = "older"]
    /\ UNCHANGED <<handlers, cache, viewer, size, got, client>>

\* created_at is before that of the oldest message shown.
Older(v) == {m \in visible : \A k \in client[v].shown : m < k}

\* get_older_chat_messages
SelectOlder(v) ==
    /\ pc[v] = "older"
    /\ LET page == Newest(Older(v), Limit)
       IN  client' = [client EXCEPT
               ![v].shown = @ \cup page,
               ![v].more = HasMore(Older(v), Limit),
               ![v].read = @ \cup {m \in page : IsRead(viewer[v], marks[v], m)}]
    /\ Done(v)
    /\ UNCHANGED <<handlers, cache, viewer>>

\* A request fails, or its client goes away; the client shows what it showed.
Fails(v) ==
    /\ pc[v] # "idle"
    /\ Done(v)
    /\ UNCHANGED <<handlers, cache, viewer, client>>

-----------------------------------------------------------------------------
Handle(u) ==
    \/ Send(u) \/ Insert(u) \/ Clear(u) \/ HandlerFails(u)
    \/ \E m \in visible : Save(u, m)

Request(v) ==
    \/ \E u \in User : Open(v, u)
    \/ Count(v) \/ Lookup(v) \/ Select(v) \/ Put(v) \/ OpenOlder(v) \/ SelectOlder(v) \/ Fails(v)

Next ==
    \/ \E u \in User : Handle(u)
    \/ \E v \in View : Request(v)
    \/ \E n \in Sizes : Expire(n)

Spec == Init /\ [][Next]_vars

\* Redis expires keys.
FairSpec == Spec /\ \A n \in Sizes : WF_vars(Expire(n))

-----------------------------------------------------------------------------
(***************************************************************************)
(* Properties                                                              *)
(***************************************************************************)

\* Of the messages there were when the first page was read from the database, for this client
\* or for the other user, a client that scrolls up misses none: none between those it shows,
\* and none at all when it is told that there are no more.
WalkIsComplete ==
    \A v \in View : \A m \in client[v].snap :
        (client[v].more => \E k \in client[v].shown : k <= m) => m \in client[v].shown

\* A client that is told that there are more messages gets one when it scrolls up.
MoreIsTrue == \A v \in View : client[v].more => Older(v) # {}

\* A message shown as read has been read by the user it was sent to, although the flags were
\* computed for one user and served to both, from pointers loaded some steps before.
ReadIsTrue ==
    \A v \in View : \A m \in client[v].read : m <= pointer[Other[Author[m]]]

\* Cached pages are in the end those of the database, although a request may store a page that
\* it read before a write after the write's handler has cleared the pages: entries expire.
PagesBecomeCurrent ==
    \A n \in Sizes : <>[](\A response \in cache[n] :
        /\ response.shown = Newest(visible, n)
        /\ response.more = HasMore(visible, n)
        /\ response.read = {m \in response.shown : m <= pointer[Other[Author[m]]]})

\* chat/services.py:192, "Retrieve the last read message for the other user": the user of the
\* client has not been the one who read it, when the other has not.
LastReadIsOthers ==
    \A v \in View : client[v].last <= pointer[Other[viewer[v]]]
=============================================================================
