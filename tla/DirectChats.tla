----------------------------- MODULE DirectChats -----------------------------
(***************************************************************************)
(* The direct chats of a pair of users: create_direct_chat_view, delete_   *)
(* direct_chat_view, what new_message_handler stores, and the cached lists *)
(* of get_user_chats_view.                                                 *)
(*                                                                         *)
(* Every statement commits by itself (AUTOCOMMIT), so a step is a          *)
(* statement or a call to Redis, and a rollback undoes nothing.  A chat is *)
(* named by the request that inserts it, a message by the request that     *)
(* stores it.  The cache is enabled; nothing sets Chat.is_deleted.         *)
(***************************************************************************)
EXTENDS Naturals, Sequences, FiniteSets

CONSTANTS
    User,
    Create, Delete, Send,  \* requests; each runs once
    View,                  \* clients that list their chats, again and again
    Actor,                 \* the user of a request or of a view
    Recipient,             \* whom a creation is with: any user, its actor included
    None,                  \* no chat
    MaxCreations           \* bound: creations that are begun

Request == Create \cup Delete \cup Send

ASSUME DirectChatsAssumption ==
    /\ Actor \in [Request \cup View -> User]
    /\ Recipient \in [Create -> User]
    /\ Create \cap Delete = {} /\ Create \cap Send = {} /\ Delete \cap Send = {}
    /\ None \notin Create
    /\ MaxCreations \in Nat

VARIABLES
    there,    \* the table chat
    members,  \* the table chat_participant: the users of each chat
    rows,     \* the chats with rows in the table read_status
    stored,   \* the table message
    pc,       \* what a request awaits
    target,   \* the chat of a deletion or a message
    loaded,   \* the messages a deletion has loaded
    left,     \* what a deletion still has to delete before the chat
    todo,     \* the users whose cached list is still to be cleared
    answer,   \* what a request was answered
    before,   \* history: the creations answered "ok" before this one looked for a chat
    list,     \* the cache: {} or {the chats in the entry direct_chats_{user}}
    reading   \* {} or {what a view has read from the database and not put in the cache yet}

tables == <<there, members, rows, stored>>
cache == <<list, reading>>
vars == <<tables, pc, target, loaded, left, todo, answer, before, cache>>

\* Variant: a recipient that get_user_by_guid does not find is accepted.
PairWithNobody(r) == {Actor[r], None}

Pair(r) == {Actor[r], Recipient[r]}
Dependents == {"messages", "rows", "members"}

\* Variant: the columns chat_id have no foreign key.
AnyChat(c) == TRUE

\* A row that names the chat may be inserted.
HasKey(c) == c \in there

MessagesOf(c) == {m \in stored : target[m] = c}

\* get_user_direct_chats, and get_user_active_direct_chats.
ListOf(u) == {c \in there : u \in members[c]}

TypeOK ==
    /\ there \subseteq Create
    /\ members \in [Create -> SUBSET User]
    /\ rows \subseteq Create
    /\ stored \subseteq Send
    /\ pc \in [Request -> {"start", "chat", "members", "rows", "deleting", "open", "stored",
                           "clearing", "end"}]
    /\ target \in [Delete \cup Send -> Create \cup {None}]
    /\ loaded \in [Delete -> SUBSET Send]
    /\ left \in [Delete -> SUBSET Dependents]
    /\ todo \in [Request -> Seq(User)]
    /\ answer \in [Request -> {"none", "ok", "refused", "error"}]
    /\ before \in [Create -> SUBSET Create]
    /\ list \in [User -> SUBSET SUBSET Create]
    /\ reading \in [View -> SUBSET SUBSET Create]

Init ==
    /\ there = {}
    /\ members = [c \in Create |-> {}]
    /\ rows = {}
    /\ stored = {}
    /\ pc = [q \in Request |-> "start"]
    /\ target = [q \in Delete \cup Send |-> None]
    /\ loaded = [d \in Delete |-> {}]
    /\ left = [d \in Delete |-> {}]
    /\ todo = [q \in Request |-> <<>>]
    /\ answer = [q \in Request |-> "none"]
    /\ before = [r \in Create |-> {}]
    /\ list = [u \in User |-> {}]
    /\ reading = [v \in View |-> {}]

\* The request goes on, or is answered.
Goes(q, to) ==
    /\ pc' = [pc EXCEPT ![q] = to]
    /\ UNCHANGED <<answer, todo>>

Ends(q, with) ==
    /\ pc' = [pc EXCEPT ![q] = "end"]
    /\ answer' = [answer EXCEPT ![q] = with]
    /\ todo' = [todo EXCEPT ![q] = <<>>]

\* It goes on to clear the lists of these users, in this order.
Clears(q, users) ==
    /\ pc' = [pc EXCEPT ![q] = "clearing"]
    /\ todo' = [todo EXCEPT ![q] = users]
    /\ UNCHANGED answer

\* The users of a chat in the order the database returns them.
Orders(S) == {o \in [1..Cardinality(S) -> S] : \A i, j \in DOMAIN o : o[i] = o[j] => i = j}

-----------------------------------------------------------------------------
(***************************************************************************)
(* create_direct_chat_view                                                 *)
(***************************************************************************)

\* Variant: looks only for chats the initiator has created.
ExistingOfInitiator(r) ==
    {c \in there : Pair(r) \subseteq members[c] /\ Actor[c] = Actor[r]}

\* direct_chat_exists
Existing(r) == {c \in there : Pair(r) \subseteq members[c]}

\* None goes on, one is a conflict, and two raise MultipleResultsFound.
Check(r) ==
    /\ pc[r] = "start"
    /\ Cardinality({c \in Create : pc[c] # "start"}) < MaxCreations
    /\ before' = [before EXCEPT ![r] = {c \in Create : answer[c] = "ok"}]
    /\ \/ Existing(r) = {} /\ Goes(r, "chat")
       \/ Cardinality(Existing(r)) = 1 /\ Ends(r, "refused")
       \/ Cardinality(Existing(r)) > 1 /\ Ends(r, "error")
    /\ UNCHANGED <<tables, target, loaded, left, cache>>

\* create_direct_chat: the flush inserts the chat, then its participants ...
InsertChat(r) ==
    /\ pc[r] = "chat"
    /\ there' = there \cup {r}
    /\ Goes(r, "members")
    /\ UNCHANGED <<members, rows, stored, target, loaded, left, before, cache>>

\* (two rows for one user, in a chat with oneself, which their primary key refuses) ...
InsertMembers(r) ==
    /\ pc[r] = "members"
    /\ \/ /\ Recipient[r] # Actor[r]
          /\ members' = [members EXCEPT ![r] = Pair(r)]
          /\ Goes(r, "rows")
       \/ /\ Recipient[r] = Actor[r]
          /\ Ends(r, "error")
          /\ UNCHANGED members
    /\ UNCHANGED <<there, rows, stored, target, loaded, left, before, cache>>

\* ... and the commit the read statuses, unless the chat has been deleted meanwhile.
InsertRows(r) ==
    /\ pc[r] = "rows"
    /\ \/ /\ HasKey(r)
          /\ rows' = rows \cup {r}
          /\ Clears(r, <<Actor[r], Recipient[r]>>)
       \/ /\ ~HasKey(r)
          /\ Ends(r, "error")
          /\ UNCHANGED rows
    /\ UNCHANGED <<there, members, stored, target, loaded, left, before, cache>>

-----------------------------------------------------------------------------
(***************************************************************************)
(* delete_direct_chat_view                                                 *)
(***************************************************************************)

\* get_chat_by_guid loads the chat and everything that hangs on it.
Load(d, c) ==
    /\ pc[d] = "start"
    /\ pc[c] \notin {"start", "chat", "members"}
    /\ \/ /\ c \in there /\ Actor[d] \in members[c]
          /\ target' = [target EXCEPT ![d] = c]
          /\ loaded' = [loaded EXCEPT ![d] = MessagesOf(c)]
          /\ left' = [left EXCEPT ![d] = Dependents \ IF c \in rows THEN {} ELSE {"rows"}]
          /\ Goes(d, "deleting")
       \/ /\ ~(c \in there /\ Actor[d] \in members[c])
          /\ Ends(d, "refused")
          /\ UNCHANGED <<target, loaded, left>>
    /\ UNCHANGED <<tables, before, cache>>

\* The commit deletes what was loaded, in an order of SQLAlchemy's choice ...
DeleteDependents(d, t) ==
    /\ pc[d] = "deleting"
    /\ t \in left[d]
    /\ left' = [left EXCEPT ![d] = @ \ {t}]
    /\ stored' = IF t = "messages" THEN stored \ loaded[d] ELSE stored
    /\ rows' = IF t = "rows" THEN rows \ {target[d]} ELSE rows
    /\ members' = IF t = "members" THEN [members EXCEPT ![target[d]] = {}] ELSE members
    /\ UNCHANGED <<there, pc, target, loaded, todo, answer, before, cache>>

\* Something was inserted since, or has not been deleted: the foreign keys of these tables
\* refuse the deletion of the chat.
Referenced(c) == members[c] # {} \/ c \in rows \/ MessagesOf(c) # {}

\* Variant: what the foreign keys refuse is answered as done.
AnswerAnyway(c) == IF Referenced(c) THEN "ok" ELSE "error"

AnswerRefused(c) == "error"

\* ... and then the chat.
DeleteChat(d) ==
    /\ pc[d] = "deleting"
    /\ left[d] = {}
    /\ \/ /\ ~Referenced(target[d])
          /\ there' = there \ {target[d]}
          /\ \E o \in Orders(Pair(target[d])) : Clears(d, o)
       \/ /\ Referenced(target[d])
          /\ Ends(d, AnswerRefused(target[d]))
          /\ UNCHANGED there
    /\ UNCHANGED <<members, rows, stored, target, loaded, left, before, cache>>

-----------------------------------------------------------------------------
(***************************************************************************)
(* new_message_handler                                                     *)
(***************************************************************************)

\* The chat gets into the endpoint's dict while the user is in it.
Open(m, c) ==
    /\ pc[m] = "start"
    /\ c \in ListOf(Actor[m])
    /\ target' = [target EXCEPT ![m] = c]
    /\ Goes(m, "open")
    /\ UNCHANGED <<tables, loaded, left, before, cache>>

\* The flush inserts the message at any time later, if the chat is still there.
Store(m) ==
    /\ pc[m] = "open"
    /\ \/ /\ HasKey(target[m])
          /\ stored' = stored \cup {m}
          /\ Goes(m, "stored")
       \/ /\ ~HasKey(target[m])
          /\ Ends(m, "error")
          /\ UNCHANGED stored
    /\ UNCHANGED <<there, members, rows, target, loaded, left, before, cache>>

\* The chat is read again, stamped with the time, and its users are read.
Touch(m) ==
    /\ pc[m] = "stored"
    /\ \/ /\ target[m] \in there
          /\ \E o \in Orders(members[target[m]]) : Clears(m, o)
       \/ /\ target[m] \notin there
          /\ Ends(m, "error")
    /\ UNCHANGED <<tables, target, loaded, left, before, cache>>

-----------------------------------------------------------------------------
(***************************************************************************)
(* The cached lists                                                        *)
(***************************************************************************)

\* clear_cache_for_get_direct_chats.  The scan and the delete take effect as one: at the scan
\* if it finds nothing, at the delete otherwise.
Clear(q) ==
    /\ pc[q] = "clearing"
    /\ \/ /\ todo[q] # <<>>
          /\ list' = [list EXCEPT ![Head(todo[q])] = {}]
          /\ todo' = [todo EXCEPT ![q] = Tail(@)]
          /\ UNCHANGED <<pc, answer>>
       \/ /\ todo[q] = <<>>
          /\ Ends(q, "ok")
          /\ UNCHANGED list
    /\ UNCHANGED <<tables, target, loaded, left, before, reading>>

\* An exception of the database or of Redis at any step of a request that has begun.
Fails(q) ==
    /\ pc[q] \notin {"start", "end"}
    /\ Ends(q, "error")
    /\ UNCHANGED <<tables, target, loaded, left, before, cache>>

\* get_user_chats_view: a view that finds no entry reads the database ...
Read(v) ==
    /\ reading[v] = {}
    /\ list[Actor[v]] = {}
    /\ reading' = [reading EXCEPT ![v] = {ListOf(Actor[v])}]
    /\ UNCHANGED <<tables, pc, target, loaded, left, todo, answer, before, list>>

\* ... and puts what it has read in the cache.
Put(v) ==
    /\ reading[v] # {}
    /\ list' = [list EXCEPT ![Actor[v]] = reading[v]]
    /\ reading' = [reading EXCEPT ![v] = {}]
    /\ UNCHANGED <<tables, pc, target, loaded, left, todo, answer, before>>

\* Variant: an entry is stored without a time to live.
NeverExpires(u) == FALSE

HasEntry(u) == list[u] # {}

\* REDIS_CACHE_EXPIRATION_SECONDS have passed since the entry was stored.
Expire(u) ==
    /\ HasEntry(u)
    /\ list' = [list EXCEPT ![u] = {}]
    /\ UNCHANGED <<tables, pc, target, loaded, left, todo, answer, before, reading>>

-----------------------------------------------------------------------------
Step(q) ==
    \/ q \in Create /\ (InsertChat(q) \/ InsertMembers(q) \/ InsertRows(q))
    \/ q \in Delete /\ (DeleteChat(q) \/ \E t \in Dependents : DeleteDependents(q, t))
    \/ q \in Send /\ (Store(q) \/ Touch(q))
    \/ Clear(q)

Next ==
    \/ \E r \in Create : Check(r)
    \/ \E d \in Delete, c \in Create : Load(d, c)
    \/ \E m \in Send, c \in Create : Open(m, c)
    \/ \E q \in Request : Step(q) \/ Fails(q)
    \/ \E v \in View : Read(v) \/ Put(v)
    \/ \E u \in User : Expire(u)

Spec == Init /\ [][Next]_vars

\* The event loop resumes what Redis or the database has answered, and Redis expires keys.
FairSpec ==
    /\ Spec
    /\ \A q \in Request : WF_vars(Step(q))
    /\ \A v \in View : WF_vars(Put(v))
    /\ \A u \in User : WF_vars(Expire(u))

-----------------------------------------------------------------------------
(***************************************************************************)
(* Properties                                                              *)
(***************************************************************************)

\* router.py:60-63, a pair that has a chat gets no second one.  Requests that overlap can create
\* two, as nothing but the check prevents it; a request that looks for a chat after another
\* was answered never does, whichever of the two users it is from.
NoSecondAfterAnswer ==
    \A r, s \in Create :
        /\ Pair(r) = Pair(s)
        /\ r \in before[s]
        => ~(r \in ListOf(Actor[s]) /\ s \in ListOf(Actor[s]))

\* A request is at work on the rows of the chat.
AtWork(c) ==
    \/ pc[c] = "members"
    \/ \E d \in Delete : target[d] = c /\ pc[d] = "deleting"

\* A chat that nobody can list, open or delete any more, since it has no participants (a
\* deletion that met a message or a read status inserted since it had loaded the chat, or a
\* request cut off between two statements), was reported to some client as an error.
OrphansAreReported ==
    \A c \in there :
        members[c] = {} /\ ~AtWork(c) =>
            \/ answer[c] = "error"
            \/ \E d \in Delete : target[d] = c /\ answer[d] = "error"

\* What was answered 204 is deleted for good, with all that hung on it, however late the rest
\* of its creation or a message to it is inserted.
DeletedIsGone ==
    \A d \in Delete :
        answer[d] = "ok" => target[d] \notin there /\ ~Referenced(target[d])

\* What a request has written is in the end listed, although a view may store a list that it
\* read before the write after the request has cleared the entry: entries expire.
ListsBecomeTrue ==
    \A u \in User : <>[](list[u] \subseteq {ListOf(u)})

\* router.py:68, "Ensure the new chat appears immediately in `/chats/direct/` for both users."
AppearsImmediately ==
    \A r \in Create, u \in User :
        answer[r] = "ok" /\ r \in ListOf(u) => \A entry \in list[u] : r \in entry
=============================================================================
