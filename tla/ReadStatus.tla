------------------------------ MODULE ReadStatus -----------------------------
(***************************************************************************)
(* The read statuses of one chat: mark_last_read_message, as the           *)
(* message_read handlers of several connections run it, the creation of    *)
(* the rows with the chat, and the counts that are computed from them.     *)
(*                                                                         *)
(* The connection to the database commits every statement by itself, so a  *)
(* step is a statement.  A message is its id.  All chats share the table   *)
(* message, and a client may mark a message of another chat: the handler   *)
(* does not compare.                                                       *)
(***************************************************************************)
EXTENDS Naturals, Sequences, FiniteSets

CONSTANTS
    User,         \* the participants of the chat
    Conn,         \* websocket connections; one that ends is replaced by the next
    Owner,        \* the user of a connection
    Elsewhere,    \* stands for the author of a message of another chat
    PageSize,     \* messages on the first page
    MaxMessages,  \* bound: messages in all chats
    Faults        \* whether statements may fail

ASSUME ReadStatusAssumption ==
    /\ Owner \in [Conn -> User]
    /\ Elsewhere \notin User
    /\ PageSize \in Nat
    /\ MaxMessages \in Nat
    /\ Faults \in BOOLEAN

\* The users who have one tab at most.
OneTabUser == {u \in User : \A c, d \in Conn : Owner[c] = u /\ Owner[d] = u => c = d}

VARIABLES
    chat,    \* absent, flushed (visible, its rows not inserted), created, halfway (never will be)
    author,  \* the table message: the user of each message, or Elsewhere
    rows,    \* the table read_status: last_read_message_id of each row of the user
    pc,      \* what the message_read handler of the connection awaits
    req,     \* the message it marks
    saw,     \* the pointer that its SELECT found, if it found a row
    told     \* the last message_read broadcast for each user

vars == <<chat, author, rows, pc, req, saw, told>>

Messages == {i \in DOMAIN author : author[i] # Elsewhere}   \* those of the chat
Ids == 0..Len(author)   \* what a pointer may hold: 0 is "nothing read"

TypeOK ==
    /\ chat \in {"absent", "flushed", "created", "halfway"}
    /\ author \in Seq(User \cup {Elsewhere})
    /\ Len(author) <= MaxMessages
    /\ rows \in [User -> Seq(Ids)]
    /\ pc \in [Conn -> {"idle", "looking", "saving", "announcing"}]
    /\ req \in [Conn -> Ids]
    /\ saw \in [Conn -> Seq(Ids)]
    /\ told \in [User -> Ids]

Init ==
    /\ chat = "absent"
    /\ author = <<>>
    /\ rows = [u \in User |-> <<>>]
    /\ pc = [c \in Conn |-> "idle"]
    /\ req = [c \in Conn |-> 0]
    /\ saw = [c \in Conn |-> <<>>]
    /\ told = [u \in User |-> 0]

-----------------------------------------------------------------------------
(***************************************************************************)
(* create_direct_chat                                                      *)
(***************************************************************************)

\* The flush: the chat and its participants are committed and visible.
CreateChat ==
    /\ chat = "absent"
    /\ chat' = "flushed"
    /\ UNCHANGED <<author, rows, pc, req, saw, told>>

\* The commit inserts a row for each user.
CreateReadStatuses ==
    /\ chat = "flushed"
    /\ chat' = "created"
    /\ rows' = [u \in User |-> Append(rows[u], 0)]
    /\ UNCHANGED <<author, pc, req, saw, told>>

\* The rollback does not take back what the flush committed.
CreateFails ==
    /\ Faults
    /\ chat = "flushed"
    /\ chat' = "halfway"
    /\ UNCHANGED <<author, rows, pc, req, saw, told>>

-----------------------------------------------------------------------------
(***************************************************************************)
(* The handlers.                                                           *)
(***************************************************************************)

\* new_message: the INSERT, into this chat once it is visible, or into another one.
NewMessage(u) ==
    /\ u = Elsewhere \/ chat # "absent"
    /\ Len(author) < MaxMessages
    /\ author' = Append(author, u)
    /\ UNCHANGED <<chat, rows, pc, req, saw, told>>

\* Variant: the message need not exist.
NotLookedUp == 1..MaxMessages

\* What get_message_by_guid finds: a message of any chat.
LookedUp == DOMAIN author

\* message_read for this chat.  A message that is not found makes the handler raise
\* AttributeError before anything is read, which earns an error reply and changes nothing.
MessageRead(c) ==
    /\ pc[c] = "idle"
    /\ chat # "absent"
    /\ \E m \in LookedUp : req' = [req EXCEPT ![c] = m]
    /\ pc' = [pc EXCEPT ![c] = "looking"]
    /\ UNCHANGED <<chat, author, rows, saw, told>>

\* Variant: the message the pointer stands on is not recognised as read.
ReadBeforeNot(c, pointer) == FALSE

\* The row says that the message, or a later one, has been read.
ReadBefore(c, pointer) == pointer >= req[c]

\* The handler returns, and its locals go.
Returns(c) ==
    /\ pc' = [pc EXCEPT ![c] = "idle"]
    /\ req' = [req EXCEPT ![c] = 0]
    /\ saw' = [saw EXCEPT ![c] = <<>>]

\* The SELECT of mark_last_read_message and what follows from it: nothing to do, or a write.
\* Two rows raise MultipleResultsFound, which ends the connection.
Look(c) ==
    /\ pc[c] = "looking"
    /\ LET found == rows[Owner[c]]
       IN  IF Len(found) > 1 \/ (found # <<>> /\ ReadBefore(c, found[1]))
           THEN Returns(c)
           ELSE /\ pc' = [pc EXCEPT ![c] = "saving"]
                /\ saw' = [saw EXCEPT ![c] = found]
                /\ UNCHANGED req
    /\ UNCHANGED <<chat, author, rows, told>>

\* The commit: an UPDATE of the row that was seen, else an INSERT.
Save(c) ==
    /\ pc[c] = "saving"
    /\ LET u == Owner[c]
       IN  rows' = [rows EXCEPT ![u] = IF saw[c] # <<>> THEN [@ EXCEPT ![1] = req[c]]
                                       ELSE Append(@, req[c])]
    /\ pc' = [pc EXCEPT ![c] = "announcing"]
    /\ UNCHANGED <<chat, author, req, saw, told>>

\* Variant: only a user who has an older row is announced.
AnnouncedIfSeen(c) == IF saw[c] # <<>> THEN [told EXCEPT ![Owner[c]] = req[c]] ELSE told

Announced(c) == [told EXCEPT ![Owner[c]] = req[c]]

\* The broadcast of message_read.
Announce(c) ==
    /\ pc[c] = "announcing"
    /\ told' = Announced(c)
    /\ Returns(c)
    /\ UNCHANGED <<chat, author, rows>>

\* An exception ends the connection, and the client opens another.
Fails(c) ==
    /\ Faults
    /\ pc[c] # "idle"
    /\ Returns(c)
    /\ UNCHANGED <<chat, author, rows, told>>

Step(c) == Look(c) \/ Save(c) \/ Announce(c)

Next ==
    \/ CreateChat \/ CreateReadStatuses \/ CreateFails
    \/ \E u \in User \cup {Elsewhere} : NewMessage(u)
    \/ \E c \in Conn : MessageRead(c) \/ Step(c) \/ Fails(c)

Spec == Init /\ [][Next]_vars

\* The event loop resumes a handler whose statement has returned.
FairSpec == Spec /\ \A c \in Conn : WF_vars(Step(c))

-----------------------------------------------------------------------------
(***************************************************************************)
(* The counts and the first page.                                          *)
(***************************************************************************)

\* get_new_messages_per_chat joins the messages of the others with the rows of the user.
New(u) ==
    {i \in Messages : author[i] # u /\ \E k \in DOMAIN rows[u] : i > rows[u][k]}

\* Variant: counts the messages of the others, as get_new_messages_per_chat does.
UnreadOfOthers(u) ==
    IF rows[u] = <<>> THEN 0
    ELSE Cardinality({i \in Messages : author[i] # u /\ i > rows[u][1]})

\* get_unread_messages_count counts the user's own messages, too.
Unread(u) ==
    IF rows[u] = <<>> THEN 0 ELSE Cardinality({i \in Messages : i > rows[u][1]})

\* The messages that get_user_messages_in_chat returns: the newest ones of the chat.
FirstPage(u) ==
    LET size == IF Unread(u) > PageSize THEN Unread(u) ELSE PageSize
    IN  {i \in Messages : Cardinality({j \in Messages : j >= i}) <= size}

-----------------------------------------------------------------------------
(***************************************************************************)
(* Properties.                                                             *)
(***************************************************************************)

\* router.py:94, "get larger of provided messages size or unread messages": the messages the
\* chat list counts as new are all on the first page, whoever wrote the others in between.
NewOnFirstPage ==
    \A u \in User : Len(rows[u]) = 1 => New(u) \subseteq FirstPage(u)

\* websocket/services.py:105, a message that "has been already read" moves no pointer: one
\* falls back only in the commit of a handler which had seen a row that has been moved since,
\* by a handler of another tab of the user.
FallsBackOnlyInARace ==
    [][\A u \in User : \A k \in DOMAIN rows[u] : rows'[u][k] < rows[u][k] =>
          \E c, d \in Conn :
              /\ c # d /\ Owner[c] = u /\ Owner[d] = u
              /\ pc[c] = "saving" /\ pc'[c] = "announcing"
              /\ saw[c] # <<>> /\ saw[c][1] # rows[u][1]]_vars

\* The largest of the pointers of some rows, if there are any.
IsMark(pointers, m) ==
    /\ m = 0 \/ \E k \in DOMAIN pointers : pointers[k] = m
    /\ \A k \in DOMAIN pointers : pointers[k] <= m
Mark(pointers) == CHOOSE m \in 0..MaxMessages : IsMark(pointers, m)

\* For every user with one tab the rows implement the mark of ReadMarks, also when they are
\* created late, twice or never, when handlers fail between any two statements, and when the
\* tabs of the others race.
Marks == INSTANCE ReadMarks WITH
    User <- OneTabUser,
    sent <- Len(author),
    mark <- [u \in OneTabUser |-> Mark(rows[u])],
    told <- [u \in OneTabUser |-> told[u]]
MarksSpec == Marks!Spec

\* Whatever the rows say a user with one tab has read gets announced, although a repeated
\* message_read is not.  (Two tabs may announce their marks in the opposite order.)
MarkIsAnnounced ==
    \A u \in OneTabUser, m \in 1..MaxMessages :
        (\E k \in DOMAIN rows[u] : rows[u][k] = m) ~> told[u] >= m

-----------------------------------------------------------------------------
(***************************************************************************)
(* What comments of the code say and the code does not do.                 *)
(***************************************************************************)

\* chat/services.py:76-78, new messages are those "not yet read by current user": what the
\* peer was told the user has read is not counted as new.  Two tabs that race refute it.
NewAreUnread ==
    \A u \in User : Len(rows[u]) <= 1 => \A i \in New(u) : i > told[u]

\* chat/services.py:172, "assuming only two read statuses": one for each user.
OneRowEach == \A u \in User : Len(rows[u]) <= 1

-----------------------------------------------------------------------------
(***************************************************************************)
(* The inductive invariant.                                                *)
(***************************************************************************)

\* A handler that is about to write marks a message after the one that it saw, if it saw a
\* row; the row is still there, and only another tab can have moved it.
SeenOK(c) ==
    pc[c] = "saving" /\ saw[c] # <<>> =>
        /\ saw[c][1] < req[c]
        /\ rows[Owner[c]] # <<>>
        /\ rows[Owner[c]][1] # saw[c][1] => \E d \in Conn \ {c} : Owner[d] = Owner[c]

\* A user's only handler past its SELECT is about to move the mark forward, or has just done
\* so and not yet said it.
HandlerOK(c) ==
    LET pointers == rows[Owner[c]]
    IN  /\ pc[c] = "looking" => req[c] > 0
        /\ pc[c] = "saving" =>
               /\ saw[c] # <<>> => pointers # <<>>
               /\ req[c] > 0
               /\ \A k \in DOMAIN pointers : pointers[k] < req[c]
        /\ pc[c] = "announcing" =>
               /\ IsMark(pointers, req[c])
               /\ told[Owner[c]] < req[c]

\* The user has a mark, and is not announced beyond it.
ToldOK(u) == \E m \in Ids : IsMark(rows[u], m) /\ told[u] <= m

IInv ==
    /\ TypeOK
    /\ \A c \in Conn : SeenOK(c)
    /\ \A c \in Conn : Owner[c] \in OneTabUser => HandlerOK(c)
    /\ \A u \in OneTabUser : ToldOK(u)
=============================================================================
