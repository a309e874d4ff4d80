-------------------------- MODULE ReadStatusProofs ---------------------------
(***************************************************************************)
(* ReadStatus for any number of users, connections and messages: the types *)
(* and the first page, that a pointer falls back in a race of tabs only,   *)
(* and the implementation of ReadMarks for the users with one tab.         *)
(***************************************************************************)
EXTENDS ReadStatus, FiniteSetTheorems, SequenceTheorems, TLAPS

-----------------------------------------------------------------------------
(***************************************************************************)
(* Rows and their mark.                                                    *)
(***************************************************************************)

\* A further row extends the pointers.
LEMMA Appended ==
  ASSUME NEW S, NEW s \in Seq(S), NEW x \in S
  PROVE  /\ Append(s, x) \in Seq(S)
         /\ DOMAIN s = 1..Len(s)
         /\ DOMAIN Append(s, x) = 1..(Len(s) + 1)
         /\ Len(s) \in Nat
         /\ \A k \in 1..Len(s) : Append(s, x)[k] = s[k]
         /\ Append(s, x)[Len(s) + 1] = x
  OBVIOUS

\* Rows that have been written at the front, or received a row, keep pointing at messages.
LEMMA WrittenFront ==
  ASSUME NEW S, NEW s \in Seq(S), NEW x \in S, s # <<>>
  PROVE  /\ [s EXCEPT ![1] = x] \in Seq(S)
         /\ DOMAIN [s EXCEPT ![1] = x] = 1..Len(s)
         /\ 1 \in 1..Len(s)
         /\ \A k \in 1..Len(s) : [s EXCEPT ![1] = x][k] = IF k = 1 THEN x ELSE s[k]
<1>1. Len(s) \in Nat \ {0}
  BY EmptySeq
<1>2. 1 \in 1..Len(s)
  BY <1>1
<1> QED
  BY <1>2, ExceptSeq

\* There is at most one mark.
LEMMA MarkIs ==
  ASSUME NEW s \in Seq(Nat), NEW m \in 0..MaxMessages, IsMark(s, m)
  PROVE  Mark(s) = m
<1>1. ASSUME NEW n \in 0..MaxMessages, IsMark(s, n) PROVE n = m
  <2>1. \A k \in DOMAIN s : s[k] \in Nat
    BY LenProperties
  <2>2. n <= m
    BY <1>1, <2>1, ReadStatusAssumption DEF IsMark
  <2>3. m <= n
    BY <1>1, <2>1, ReadStatusAssumption DEF IsMark
  <2> QED
    BY <2>2, <2>3, ReadStatusAssumption
<1> QED
  BY <1>1 DEF Mark

\* A row that points nowhere changes no mark.
LEMMA EmptyRow ==
  ASSUME NEW s \in Seq(Nat), NEW m \in Nat
  PROVE  IsMark(Append(s, 0), m) <=> IsMark(s, m)
<1>1. /\ DOMAIN s = 1..Len(s)
      /\ DOMAIN Append(s, 0) = 1..(Len(s) + 1)
      /\ Len(s) \in Nat
      /\ \A k \in 1..Len(s) : Append(s, 0)[k] = s[k]
      /\ Append(s, 0)[Len(s) + 1] = 0
  BY Appended
<1> QED
  BY <1>1 DEF IsMark

\* A pointer written over the front, or appended, is the mark when it is above all others.
LEMMA NewMark ==
  ASSUME NEW s \in Seq(Nat), NEW m \in Nat, \A k \in DOMAIN s : s[k] < m
  PROVE  /\ IsMark(Append(s, m), m)
         /\ s # <<>> => IsMark([s EXCEPT ![1] = m], m)
<1>1. DOMAIN s = 1..Len(s) /\ \A k \in 1..Len(s) : s[k] \in Nat
  BY LenProperties
<1>2. IsMark(Append(s, m), m)
  <2>1. /\ DOMAIN Append(s, m) = 1..(Len(s) + 1)
        /\ Len(s) \in Nat
        /\ \A k \in 1..Len(s) : Append(s, m)[k] = s[k]
        /\ Append(s, m)[Len(s) + 1] = m
    BY Appended
  <2>2. \A k \in DOMAIN Append(s, m) : Append(s, m)[k] <= m
    <3> TAKE k \in DOMAIN Append(s, m)
    <3>1. CASE k \in 1..Len(s)
      BY <1>1, <2>1, <3>1
    <3>2. CASE k = Len(s) + 1
      BY <2>1, <3>2
    <3> QED
      BY <2>1, <3>1, <3>2
  <2>3. Len(s) + 1 \in DOMAIN Append(s, m)
    BY <2>1
  <2> QED
    BY <2>1, <2>2, <2>3 DEF IsMark
<1>3. ASSUME s # <<>> PROVE IsMark([s EXCEPT ![1] = m], m)
  <2>1. /\ DOMAIN [s EXCEPT ![1] = m] = 1..Len(s)
        /\ 1 \in 1..Len(s)
        /\ \A k \in 1..Len(s) : [s EXCEPT ![1] = m][k] = IF k = 1 THEN m ELSE s[k]
    BY <1>3, WrittenFront
  <2> QED
    BY <1>1, <2>1 DEF IsMark
<1> QED
  BY <1>2, <1>3

-----------------------------------------------------------------------------
(***************************************************************************)
(* The types, and the first page.                                          *)
(***************************************************************************)

\* Each step leaves pointers that stand on messages, of this chat or of another.
LEMMA TypeStep ==
  ASSUME TypeOK, [Next]_vars
  PROVE  TypeOK'
<1> USE ReadStatusAssumption DEF TypeOK
<1>1. /\ 0 \in Ids /\ <<>> \in Seq(Ids)
      /\ Len(author) \in Nat /\ DOMAIN author = 1..Len(author) /\ DOMAIN author \subseteq Ids
  BY EmptySeq DEF Ids
<1>2. ASSUME UNCHANGED author PROVE Ids' = Ids
  BY <1>2 DEF Ids
<1>3. ASSUME NEW c \in Conn, Returns(c)
      PROVE  /\ pc' \in [Conn -> {"idle", "looking", "saving", "announcing"}]
             /\ req' \in [Conn -> Ids]
             /\ saw' \in [Conn -> Seq(Ids)]
  BY <1>1, <1>3 DEF Returns
<1>4. CASE CreateChat \/ CreateFails
  BY <1>2, <1>4 DEF CreateChat, CreateFails
<1>5. CASE CreateReadStatuses
  <2>1. \A u \in User : Append(rows[u], 0) \in Seq(Ids)
    BY <1>1, Appended
  <2> QED
    BY <1>2, <1>5, <2>1 DEF CreateReadStatuses
<1>6. ASSUME NEW u \in User \cup {Elsewhere}, NewMessage(u) PROVE TypeOK'
  <2>1. author' \in Seq(User \cup {Elsewhere}) /\ Len(author') = Len(author) + 1
    BY <1>6 DEF NewMessage
  <2>2. Len(author') <= MaxMessages
    BY <1>1, <1>6, <2>1 DEF NewMessage
  <2>3. Ids \subseteq Ids'
    BY <1>1, <2>1 DEF Ids
  <2>4. /\ \A v \in User : rows[v] \in Seq(Ids')
        /\ \A c \in Conn : saw[c] \in Seq(Ids')
    BY <2>3, SeqMonotonic
  <2> QED
    BY <1>6, <2>1, <2>2, <2>3, <2>4 DEF NewMessage
<1>7. ASSUME NEW c \in Conn, MessageRead(c) PROVE TypeOK'
  BY <1>1, <1>2, <1>7 DEF MessageRead, LookedUp
<1>8. ASSUME NEW c \in Conn, Look(c) PROVE TypeOK'
  <2>1. \/ Returns(c)
        \/ /\ pc' = [pc EXCEPT ![c] = "saving"]
           /\ saw' = [saw EXCEPT ![c] = rows[Owner[c]]]
           /\ UNCHANGED req
    BY <1>8 DEF Look
  <2>2. UNCHANGED <<chat, author, rows, told>>
    BY <1>8 DEF Look
  <2> QED
    BY <1>2, <1>3, <2>1, <2>2
<1>9. ASSUME NEW c \in Conn, Save(c) PROVE TypeOK'
  <2> DEFINE u == Owner[c]
  <2>1. u \in User /\ req[c] \in Ids /\ rows[u] \in Seq(Ids)
    OBVIOUS
  <2>2. Append(rows[u], req[c]) \in Seq(Ids)
    BY <2>1, Appended
  <2>3. [rows[u] EXCEPT ![1] = req[c]] \in Seq(Ids)
    <3>1. CASE rows[u] # <<>>
      BY <2>1, <3>1, WrittenFront
    <3>2. CASE rows[u] = <<>>
      <4>1. [rows[u] EXCEPT ![1] = req[c]] = rows[u]
        BY <3>2
      <4> QED
        BY <2>1, <4>1
    <3> QED
      BY <3>1, <3>2
  <2>4. rows' \in [User -> Seq(Ids)]
    BY <1>9, <2>2, <2>3 DEF Save
  <2> QED
    BY <1>2, <1>9, <2>4 DEF Save
<1>10. ASSUME NEW c \in Conn, Announce(c) PROVE TypeOK'
  BY <1>2, <1>3, <1>10 DEF Announce, Announced
<1>11. ASSUME NEW c \in Conn, Fails(c) PROVE TypeOK'
  BY <1>2, <1>3, <1>11 DEF Fails
<1>12. CASE UNCHANGED vars
  BY <1>2, <1>12 DEF vars
<1> QED
  BY <1>4, <1>5, <1>6, <1>7, <1>8, <1>9, <1>10, <1>11, <1>12 DEF Next, Step

\* Nothing is created yet.
LEMMA TypeInit ==
  ASSUME Init
  PROVE  TypeOK
<1> USE ReadStatusAssumption
<1>1. <<>> \in Seq(User \cup {Elsewhere}) /\ <<>> \in Seq(Ids) /\ Len(<<>>) = 0
  BY EmptySeq
<1>2. 0 \in Ids
  BY <1>1 DEF Init, Ids
<1> QED
  BY <1>1, <1>2 DEF Init, TypeOK

\* The pointers stand on messages there are, in this chat or in another one, however the
\* statements interleave.
THEOREM TypeCorrect == Spec => []TypeOK
  BY TypeInit, TypeStep, PTL DEF Spec

\* The page is enlarged by every message after the pointer, whoever wrote it: so it reaches
\* back to the pointer, and what is new lies after the pointer.
LEMMA FirstPageReachesBack ==
  ASSUME TypeOK
  PROVE  NewOnFirstPage
<1> USE ReadStatusAssumption
<1> SUFFICES ASSUME NEW u \in User, Len(rows[u]) = 1, NEW i \in New(u)
             PROVE  i \in FirstPage(u)
  BY DEF NewOnFirstPage
<1> DEFINE p == rows[u][1]
           after == {j \in Messages : j > p}
           from == {j \in Messages : j >= i}
<1>1. rows[u] \in Seq(Ids) /\ Len(author) \in Nat /\ Messages \subseteq 1..Len(author)
  BY DEF TypeOK, Messages
<1>2. DOMAIN rows[u] = {1} /\ rows[u] # <<>> /\ p \in Nat
  <2>1. DOMAIN rows[u] = 1..1
    BY <1>1, LenProperties
  <2>2. p \in Ids
    BY <1>1, ElementOfSeq
  <2>3. rows[u] # <<>>
    BY <2>1
  <2> QED
    BY <2>1, <2>2, <2>3 DEF Ids
<1>3. i \in Messages /\ i \in Nat /\ i > p
  BY <1>1, <1>2 DEF New
<1>4. Unread(u) = Cardinality(after)
  BY <1>2 DEF Unread
<1>5. from \subseteq after
  <2>1. \A j \in Messages : j \in Nat
    BY <1>1
  <2>2. \A j \in Messages : j >= i => j > p
    BY <1>2, <1>3, <2>1
  <2> QED
    BY <2>2
<1>6. Cardinality(from) <= Cardinality(after) /\ Cardinality(from) \in Nat /\ Cardinality(after) \in Nat
  <2>1. IsFiniteSet(1..Len(author))
    BY <1>1, FS_Interval
  <2>2. IsFiniteSet(after) /\ IsFiniteSet(from)
    BY <1>1, <2>1, FS_Subset
  <2> QED
    BY <1>5, <2>2, FS_Subset, FS_CardinalityType
<1>7. Cardinality(from) <= (IF Unread(u) > PageSize THEN Unread(u) ELSE PageSize)
  BY <1>4, <1>6
<1> QED
  BY <1>3, <1>7 DEF FirstPage

\* What the chat list counts as new is on the page the client fetches first.
THEOREM FirstPageHasTheNew == Spec => []NewOnFirstPage
  BY TypeCorrect, FirstPageReachesBack, PTL

-----------------------------------------------------------------------------
(***************************************************************************)
(* The handlers and what they saw: IInv.                                   *)
(***************************************************************************)

\* Nobody has read anything.
LEMMA InitIInv ==
  ASSUME Init
  PROVE  IInv
<1> USE ReadStatusAssumption
<1>1. TypeOK
  BY TypeInit
<1>2. \A c \in Conn : SeenOK(c) /\ HandlerOK(c)
  BY DEF Init, SeenOK, HandlerOK
<1>3. ASSUME NEW u \in OneTabUser PROVE ToldOK(u)
  <2>1. rows[u] = <<>> /\ told[u] = 0 /\ 0 \in Ids
    BY <1>1 DEF Init, TypeOK, Ids, OneTabUser
  <2>2. IsMark(<<>>, 0)
    BY DEF IsMark
  <2> QED
    BY <2>1, <2>2 DEF ToldOK
<1> QED
  BY <1>1, <1>2, <1>3 DEF IInv

\* The other handlers do not notice the end of one.
LEMMA ReturnsOK ==
  ASSUME IInv, NEW c \in Conn, Returns(c), UNCHANGED rows,
         NEW d \in Conn, Owner[d] \in OneTabUser, d = c \/ told'[Owner[d]] = told[Owner[d]]
  PROVE  HandlerOK(d)'
<1> USE ReadStatusAssumption DEF IInv, TypeOK
<1>1. CASE d = c
  BY <1>1 DEF Returns, HandlerOK
<1>2. CASE d # c
  <2>1. UNCHANGED <<pc[d], req[d], saw[d], rows[Owner[d]]>> /\ told'[Owner[d]] = told[Owner[d]]
    BY <1>2 DEF Returns
  <2> QED
    BY <2>1 DEF HandlerOK
<1> QED
  BY <1>1, <1>2

\* The row that a handler saw is not removed, and a commit that moves it is another tab's.
LEMMA SeenStep ==
  ASSUME TypeOK, TypeOK', \A c \in Conn : SeenOK(c), [Next]_vars, NEW c \in Conn
  PROVE  SeenOK(c)'
<1> USE ReadStatusAssumption
<1> DEFINE u == Owner[c]
<1>1. u \in User /\ rows[u] \in Seq(Ids) /\ Ids \subseteq Nat /\ req[c] \in Ids
  BY DEF TypeOK, Ids
<1>2. ASSUME UNCHANGED <<pc[c], req[c], saw[c], rows[u]>> PROVE SeenOK(c)'
  BY <1>2 DEF SeenOK
<1>3. ASSUME pc'[c] # "saving" PROVE SeenOK(c)'
  BY <1>3 DEF SeenOK
<1>4. ASSUME NEW d \in Conn, Returns(d), UNCHANGED rows PROVE SeenOK(c)'
  <2>1. CASE d = c
    BY <1>3, <1>4, <2>1 DEF Returns, TypeOK
  <2>2. CASE d # c
    BY <1>2, <1>4, <2>2 DEF Returns, TypeOK
  <2> QED
    BY <2>1, <2>2
<1>5. CASE CreateChat \/ CreateFails \/ (\E v \in User \cup {Elsewhere} : NewMessage(v))
             \/ UNCHANGED vars
  BY <1>2, <1>5 DEF CreateChat, CreateFails, NewMessage, vars
<1>6. CASE CreateReadStatuses
  <2>1. UNCHANGED <<pc, req, saw>> /\ rows'[u] = Append(rows[u], 0)
    BY <1>1, <1>6 DEF CreateReadStatuses
  <2>2. rows[u] # <<>> => rows'[u] # <<>> /\ rows'[u][1] = rows[u][1]
    BY <1>1, <2>1
  <2> QED
    BY <2>1, <2>2 DEF SeenOK
<1>7. ASSUME NEW d \in Conn, MessageRead(d) PROVE SeenOK(c)'
  <2>1. CASE d = c
    BY <1>3, <1>7, <2>1 DEF MessageRead, TypeOK
  <2>2. CASE d # c
    BY <1>2, <1>7, <2>2 DEF MessageRead, TypeOK
  <2> QED
    BY <2>1, <2>2
<1>8. ASSUME NEW d \in Conn, Look(d) PROVE SeenOK(c)'
  <2>1. CASE Returns(d)
    BY <1>4, <1>8, <2>1 DEF Look
  <2>2. CASE ~ Returns(d) /\ d = c
    <3>1. /\ saw'[c] = rows[u] /\ UNCHANGED <<req, rows>>
          /\ ~ (rows[u] # <<>> /\ ReadBefore(c, rows[u][1]))
      BY <1>8, <2>2 DEF Look, TypeOK
    <3>2. rows[u] # <<>> => rows[u][1] \in Ids
      BY <1>1
    <3>3. rows[u] # <<>> => rows[u][1] < req[c]
      <4>1. req[c] \in Nat /\ (rows[u] # <<>> => rows[u][1] \in Nat)
        BY <1>1, <3>2
      <4>2. rows[u] # <<>> => ~ (rows[u][1] >= req[c])
        BY <3>1 DEF ReadBefore
      <4> QED
        BY <4>1, <4>2
    <3> QED
      BY <3>1, <3>3 DEF SeenOK
  <2>3. CASE ~ Returns(d) /\ d # c
    BY <1>2, <1>8, <2>3 DEF Look, TypeOK
  <2> QED
    BY <2>1, <2>2, <2>3
<1>9. ASSUME NEW d \in Conn, Save(d) PROVE SeenOK(c)'
  <2>1. CASE d = c
    BY <1>3, <1>9, <2>1 DEF Save, TypeOK
  <2>2. CASE d # c /\ Owner[d] # u
    BY <1>2, <1>9, <2>2 DEF Save, TypeOK
  <2>3. CASE d # c /\ Owner[d] = u
    <3>1. UNCHANGED <<pc[c], req[c], saw[c]>>
      BY <1>9, <2>3 DEF Save, TypeOK
    <3>2. rows'[u] = [rows[u] EXCEPT ![1] = req[d]] \/ rows'[u] = Append(rows[u], req[d])
      BY <1>1, <1>9, <2>3 DEF Save, TypeOK
    <3>3. rows[u] # <<>> => rows'[u] # <<>>
      <4>1. req[d] \in Ids
        BY DEF TypeOK
      <4>2. Append(rows[u], req[d]) # <<>>
        BY <1>1, <4>1, AppendProperties
      <4>3. ASSUME rows[u] # <<>> PROVE [rows[u] EXCEPT ![1] = req[d]] # <<>>
        <5>1. 1 \in DOMAIN [rows[u] EXCEPT ![1] = req[d]]
          BY <1>1, <4>1, <4>3, WrittenFront
        <5> QED
          BY <5>1
      <4> QED
        BY <3>2, <4>2, <4>3
    <3> QED
      BY <2>3, <3>1, <3>3 DEF SeenOK
  <2> QED
    BY <2>1, <2>2, <2>3
<1>10. ASSUME NEW d \in Conn, Announce(d) \/ Fails(d) PROVE SeenOK(c)'
  BY <1>4, <1>10 DEF Announce, Fails
<1> QED
  BY <1>5, <1>6, <1>7, <1>8, <1>9, <1>10 DEF Next, Step

\* Each step of a user's only tab is made from the row as it stands.
LEMMA IInvStep ==
  ASSUME IInv, [Next]_vars
  PROVE  IInv'
<1> USE ReadStatusAssumption
<1>1. TypeOK /\ TypeOK'
  BY TypeStep DEF IInv
<1>2. /\ Ids \subseteq Nat /\ Ids \subseteq Ids' /\ 0 \in Ids
      /\ DOMAIN author \subseteq Ids \ {0}
  <2>1. Len(author) \in Nat /\ DOMAIN author = 1..Len(author)
    BY <1>1 DEF TypeOK
  <2>2. Len(author') = Len(author) \/ Len(author') = Len(author) + 1
    <3>1. ASSUME NEW u \in User \cup {Elsewhere}, NewMessage(u)
          PROVE  Len(author') = Len(author) + 1
      BY <1>1, <3>1 DEF NewMessage, TypeOK
    <3>2. (\E u \in User \cup {Elsewhere} : NewMessage(u)) \/ UNCHANGED author
      BY DEF Next, Step, vars, CreateChat, CreateReadStatuses, CreateFails, MessageRead, Look,
         Save, Announce, Fails
    <3> QED
      BY <3>1, <3>2
  <2> QED
    BY <2>1, <2>2 DEF Ids
<1> DEFINE Alone == {c \in Conn : Owner[c] \in OneTabUser}
<1>seen. \A c \in Conn : SeenOK(c)'
  BY <1>1, SeenStep DEF IInv
<1>alone. Alone \subseteq Conn /\ OneTabUser \subseteq User
  BY DEF OneTabUser
<1>iinv. ASSUME \A c \in Alone : HandlerOK(c)', \A u \in OneTabUser : ToldOK(u)' PROVE IInv'
  BY <1>1, <1>seen, <1>iinv DEF IInv
<1>3. \A u \in User : /\ rows[u] \in Seq(Ids)
                      /\ rows[u] \in Seq(Nat)
                      /\ DOMAIN rows[u] = 1..Len(rows[u])
                      /\ \A k \in DOMAIN rows[u] : rows[u][k] \in Nat
  <2> TAKE u \in User
  <2>1. rows[u] \in Seq(Ids)
    BY <1>1 DEF TypeOK
  <2>2. rows[u] \in Seq(Nat)
    BY <1>2, <2>1, SeqMonotonic
  <2> QED
    BY <2>1, <2>2, LenProperties
<1>4. \A c \in Alone : HandlerOK(c)
  BY DEF IInv
<1>5. \A u \in OneTabUser : ToldOK(u)
  BY DEF IInv
\* What leaves the rows and the announcements alone leaves the marks alone.
<1>6. ASSUME NEW u \in OneTabUser, rows'[u] = rows[u], told'[u] = told[u] PROVE ToldOK(u)'
  BY <1>2, <1>5, <1>6 DEF ToldOK
<1>7. ASSUME UNCHANGED <<rows, told>> PROVE \A u \in OneTabUser : ToldOK(u)'
  BY <1>6, <1>7
<1>8. ASSUME NEW d \in Alone, UNCHANGED <<pc[d], req[d], saw[d], rows[Owner[d]], told[Owner[d]]>>
      PROVE  HandlerOK(d)'
  BY <1>4, <1>8 DEF HandlerOK
<1>9. CASE CreateChat \/ CreateFails \/ (\E u \in User \cup {Elsewhere} : NewMessage(u)) \/ UNCHANGED vars
  <2>1. UNCHANGED <<pc, req, saw, rows, told>>
    BY <1>9 DEF CreateChat, CreateFails, NewMessage, vars
  <2> QED
    BY <1>7, <1>8, <1>iinv, <2>1
<1>10. CASE CreateReadStatuses
  <2>1. /\ UNCHANGED <<pc, req, saw, told>>
        /\ \A u \in User : rows'[u] = Append(rows[u], 0)
    BY <1>10 DEF CreateReadStatuses
  <2>2. ASSUME NEW u \in OneTabUser PROVE ToldOK(u)'
    <3>1. PICK m \in Ids : IsMark(rows[u], m) /\ told[u] <= m
      BY <1>5 DEF ToldOK
    <3>2. IsMark(rows'[u], m)
      <4>1. rows[u] \in Seq(Nat) /\ m \in Nat
        BY <1>2, <1>3, <1>alone
      <4>2. IsMark(Append(rows[u], 0), m)
        BY <3>1, <4>1, EmptyRow
      <4> QED
        BY <1>alone, <2>1, <4>2
    <3> QED
      BY <1>2, <2>1, <3>1, <3>2 DEF ToldOK
  <2>3. ASSUME NEW c \in Alone PROVE HandlerOK(c)'
    <3> DEFINE u == Owner[c]
    <3>1. u \in User /\ rows[u] \in Seq(Nat) /\ rows'[u] = Append(rows[u], 0)
          /\ req[c] \in Nat
      BY <1>1, <1>2, <1>3, <2>1 DEF TypeOK
    <3>2. /\ DOMAIN rows[u] = 1..Len(rows[u])
          /\ DOMAIN rows'[u] = 1..(Len(rows[u]) + 1)
          /\ Len(rows[u]) \in Nat
          /\ \A k \in 1..Len(rows[u]) : rows'[u][k] = rows[u][k]
          /\ rows'[u][Len(rows[u]) + 1] = 0
      BY <3>1, Appended
    <3>3. CASE pc[c] = "saving"
      <4>1. \A k \in DOMAIN rows[u] : rows[u][k] < req[c]
        BY <1>4, <3>3 DEF HandlerOK
      <4>2. req[c] > 0
        BY <1>4, <3>3 DEF HandlerOK
      <4>3. \A k \in DOMAIN rows'[u] : rows'[u][k] < req[c]
        BY <3>2, <4>1, <4>2
      <4>4. rows'[u] # <<>>
        BY <3>2
      <4> QED
        BY <2>1, <3>3, <4>2, <4>3, <4>4 DEF HandlerOK
    <3>4. CASE pc[c] = "announcing"
      <4>1. IsMark(rows[u], req[c]) /\ told[u] < req[c]
        BY <1>4, <3>4 DEF HandlerOK
      <4>2. IsMark(rows'[u], req[c])
        BY <3>1, <4>1, EmptyRow
      <4> QED
        BY <2>1, <3>4, <4>1, <4>2 DEF HandlerOK
    <3>5. CASE pc[c] \notin {"saving", "announcing"}
      BY <1>4, <2>1, <3>5 DEF HandlerOK
    <3> QED
      BY <3>3, <3>4, <3>5
  <2> QED
    BY <1>iinv, <2>2, <2>3
<1>11. ASSUME NEW c \in Conn, MessageRead(c) PROVE IInv'
  <2>1. UNCHANGED <<rows, told>>
    BY <1>11 DEF MessageRead
  <2>2. pc'[c] = "looking" /\ req'[c] \in DOMAIN author
    BY <1>1, <1>11 DEF MessageRead, LookedUp, TypeOK
  <2>4. req'[c] > 0
    <3>1. req'[c] \in Nat /\ req'[c] # 0
      BY <1>2, <2>2
    <3> QED
      BY <3>1
  <2>3. ASSUME NEW d \in Alone PROVE HandlerOK(d)'
    <3>1. CASE d = c
      BY <2>2, <2>4, <3>1 DEF HandlerOK
    <3>2. CASE d # c
      <4>1. UNCHANGED <<pc[d], req[d], saw[d]>>
        BY <1>1, <1>11, <3>2 DEF MessageRead, TypeOK
      <4> QED
        BY <1>8, <2>1, <4>1
    <3> QED
      BY <3>1, <3>2
  <2> QED
    BY <1>7, <1>iinv, <2>1, <2>3
<1>12. ASSUME NEW c \in Conn, Look(c) PROVE IInv'
  <2> DEFINE u == Owner[c]
  <2>1. UNCHANGED <<rows, told>> /\ pc[c] = "looking" /\ u \in User
    BY <1>12 DEF Look
  <2>2. CASE Returns(c)
    BY <1>7, <1>iinv, <2>1, <2>2, ReturnsOK
  <2>3. CASE ~ Returns(c)
    <3>1. /\ pc' = [pc EXCEPT ![c] = "saving"]
          /\ saw' = [saw EXCEPT ![c] = rows[u]]
          /\ UNCHANGED req
          /\ ~ (Len(rows[u]) > 1 \/ (rows[u] # <<>> /\ ReadBefore(c, rows[u][1])))
      BY <1>12, <2>3 DEF Look
    <3>2. \A k \in DOMAIN rows[u] : rows[u][k] < req[c]
      <4>1. Len(rows[u]) \in Nat /\ DOMAIN rows[u] = 1..Len(rows[u]) /\ Len(rows[u]) <= 1
        BY <1>3, <2>1, <3>1, LenProperties
      <4>2. TAKE k \in DOMAIN rows[u]
      <4>3. k = 1 /\ rows[u] # <<>>
        BY <4>1, <4>2
      <4>4. rows[u][1] \in Nat /\ req[c] \in Nat
        BY <1>1, <1>2, <1>3, <2>1, <4>2, <4>3 DEF TypeOK
      <4> QED
        BY <3>1, <4>3, <4>4 DEF ReadBefore
    <3>3. c \in Alone => req[c] > 0
      BY <1>4, <2>1 DEF HandlerOK
    <3>4. ASSUME NEW d \in Alone PROVE HandlerOK(d)'
      <4>1. CASE d = c
        <5>1. pc'[c] = "saving" /\ saw'[c] = rows[u] /\ req'[c] = req[c]
          BY <1>1, <3>1 DEF TypeOK
        <5> QED
          BY <2>1, <3>2, <3>3, <4>1, <5>1 DEF HandlerOK
      <4>2. CASE d # c
        BY <1>1, <1>8, <2>1, <3>1, <4>2 DEF TypeOK
      <4> QED
        BY <4>1, <4>2
    <3> QED
      BY <1>7, <1>iinv, <2>1, <3>4
  <2> QED
    BY <2>2, <2>3
<1>13. ASSUME NEW c \in Conn, Save(c) PROVE IInv'
  <2> DEFINE u == Owner[c]
  <2>1. u \in User /\ rows[u] \in Seq(Nat) /\ req[c] \in Ids /\ req[c] \in Nat
    BY <1>1, <1>2, <1>3 DEF TypeOK
  <2>2. /\ UNCHANGED <<author, req, saw, told>>
        /\ pc[c] = "saving"
        /\ pc' = [pc EXCEPT ![c] = "announcing"]
        /\ rows'[u] = IF saw[c] # <<>> THEN [rows[u] EXCEPT ![1] = req[c]]
                      ELSE Append(rows[u], req[c])
        /\ \A v \in User \ {u} : rows'[v] = rows[v]
    BY <1>1, <1>13, <2>1 DEF Save, TypeOK
  <2>3. ASSUME c \in Alone
        PROVE  IsMark(rows'[u], req[c]) /\ told[u] < req[c]
    <3>1. /\ saw[c] # <<>> => rows[u] # <<>>
          /\ \A k \in DOMAIN rows[u] : rows[u][k] < req[c]
          /\ req[c] > 0
      BY <1>4, <2>2, <2>3 DEF HandlerOK
    <3>2. IsMark(rows'[u], req[c])
      <4>1. /\ IsMark(Append(rows[u], req[c]), req[c])
            /\ rows[u] # <<>> => IsMark([rows[u] EXCEPT ![1] = req[c]], req[c])
        BY <2>1, <3>1, NewMark
      <4>2. CASE saw[c] # <<>>
        BY <2>2, <3>1, <4>1, <4>2
      <4>3. CASE saw[c] = <<>>
        BY <2>2, <4>1, <4>3
      <4> QED
        BY <4>2, <4>3
    <3>3. told[u] < req[c]
      <4>1. PICK m \in Ids : IsMark(rows[u], m) /\ told[u] <= m
        BY <1>5, <2>3 DEF ToldOK
      <4>2. m < req[c]
        BY <1>2, <2>1, <3>1, <4>1 DEF IsMark
      <4>3. told[u] \in Nat /\ m \in Nat
        BY <1>1, <1>2, <2>1 DEF TypeOK
      <4> QED
        BY <2>1, <4>1, <4>2, <4>3
    <3> QED
      BY <3>2, <3>3
  <2>6. ASSUME NEW v \in OneTabUser PROVE ToldOK(v)'
    <3>1. CASE v = u
      <4>1. told'[u] <= req[c] /\ req[c] \in Ids'
        <5>1. told[u] \in Nat
          BY <1>1, <1>2, <2>1 DEF TypeOK
        <5> QED
          BY <1>2, <2>1, <2>2, <2>3, <3>1, <5>1
      <4> QED
        BY <2>3, <3>1, <4>1 DEF ToldOK
    <3>2. CASE v # u
      BY <1>6, <1>alone, <2>2, <3>2
    <3> QED
      BY <3>1, <3>2
  <2>7. ASSUME NEW d \in Alone PROVE HandlerOK(d)'
    <3>1. CASE d = c
      <4>1. pc'[c] = "announcing"
        BY <1>1, <2>2 DEF TypeOK
      <4> QED
        BY <2>2, <2>3, <3>1, <4>1 DEF HandlerOK
    <3>2. CASE d # c
      <4>1. Owner[d] \in User \ {u}
        BY <3>2 DEF OneTabUser
      <4>2. UNCHANGED <<pc[d], req[d], saw[d], rows[Owner[d]], told[Owner[d]]>>
        BY <1>1, <2>2, <3>2, <4>1 DEF TypeOK
      <4> QED
        BY <1>8, <4>2
    <3> QED
      BY <3>1, <3>2
  <2> QED
    BY <1>iinv, <2>6, <2>7
<1>14. ASSUME NEW c \in Conn, Announce(c) PROVE IInv'
  <2> DEFINE u == Owner[c]
  <2>1. u \in User /\ req[c] \in Ids
    BY <1>1 DEF TypeOK
  <2>2. /\ UNCHANGED <<author, rows>>
        /\ Returns(c)
        /\ told'[u] = req[c]
        /\ \A v \in User \ {u} : told'[v] = told[v]
        /\ pc[c] = "announcing"
    BY <1>1, <1>14, <2>1 DEF Announce, Announced, TypeOK
  <2>3. c \in Alone => IsMark(rows[u], req[c])
    BY <1>4, <2>2 DEF HandlerOK
  <2>4. ASSUME NEW v \in OneTabUser PROVE ToldOK(v)'
    <3>1. CASE v = u
      <4>1. IsMark(rows'[u], req[c]) /\ told'[u] <= req[c] /\ req[c] \in Ids'
        <5>1. told'[u] \in Nat /\ told'[u] = req[c]
          BY <1>2, <2>1, <2>2
        <5> QED
          BY <1>2, <2>1, <2>2, <2>3, <3>1, <5>1
      <4> QED
        BY <3>1, <4>1 DEF ToldOK
    <3>2. CASE v # u
      BY <1>6, <1>alone, <2>2, <3>2
    <3> QED
      BY <3>1, <3>2
  <2>5. ASSUME NEW d \in Alone PROVE HandlerOK(d)'
    <3>1. d = c \/ Owner[d] \in User \ {u}
      BY DEF OneTabUser
    <3> QED
      BY <2>2, <3>1, ReturnsOK
  <2> QED
    BY <1>iinv, <2>4, <2>5
<1>15. ASSUME NEW c \in Conn, Fails(c) PROVE IInv'
  <2>1. UNCHANGED <<rows, told>> /\ Returns(c)
    BY <1>15 DEF Fails
  <2> QED
    BY <1>7, <1>iinv, <2>1, ReturnsOK
<1> QED
  BY <1>9, <1>10, <1>11, <1>12, <1>13, <1>14, <1>15 DEF Next, Step

\* IInv holds throughout.
LEMMA Invariance == Spec => []IInv
<1>1. Init => IInv
  BY InitIInv
<1>2. IInv /\ [Next]_vars => IInv'
  BY IInvStep
<1> QED
  BY <1>1, <1>2, PTL DEF Spec

\* A pointer falls back only in the commit of a handler whose SELECT another tab of the user
\* has made stale, however many tabs and users there are.
THEOREM FallsBackOnlyInARaceHolds == Spec => FallsBackOnlyInARace
<1> DEFINE Raced(u, c, d) ==
             /\ c # d /\ Owner[c] = u /\ Owner[d] = u
             /\ pc[c] = "saving" /\ pc'[c] = "announcing"
             /\ saw[c] # <<>> /\ saw[c][1] # rows[u][1]
           OnlyRaced == \A u \in User : \A k \in DOMAIN rows[u] :
                          rows'[u][k] < rows[u][k] => \E c, d \in Conn : Raced(u, c, d)
<1>1. ASSUME IInv, [Next]_vars PROVE [OnlyRaced]_vars
  <2> SUFFICES ASSUME NEW u \in User, NEW k \in DOMAIN rows[u], rows'[u][k] < rows[u][k]
               PROVE  \E c, d \in Conn : Raced(u, c, d)
    OBVIOUS
  <2>1. TypeOK /\ Ids \subseteq Nat /\ \A c \in Conn : SeenOK(c)
    BY <1>1 DEF IInv, TypeOK, Ids
  <2>2. /\ rows[u] \in Seq(Ids) /\ DOMAIN rows[u] = 1..Len(rows[u])
        /\ rows[u][k] \in Nat /\ k \in 1..Len(rows[u]) /\ rows[u] # <<>>
    <3>1. rows[u] \in Seq(Ids)
      BY <2>1 DEF TypeOK
    <3>2. DOMAIN rows[u] = 1..Len(rows[u])
      BY <3>1, LenProperties
    <3>3. rows[u][k] \in Ids
      BY <3>1, <3>2, ElementOfSeq
    <3>4. rows[u] # <<>>
      BY <3>2
    <3> QED
      BY <2>1, <3>1, <3>2, <3>3, <3>4
  <2>3. rows'[u][k] # rows[u][k]
    BY <2>2
  <2>4. ~ CreateReadStatuses
    BY <2>1, <2>2, <2>3 DEF CreateReadStatuses, TypeOK
  <2>5. PICK c \in Conn : Save(c)
    BY <1>1, <2>3, <2>4 DEF Next, Step, vars, CreateChat, CreateFails, NewMessage, MessageRead,
       Look, Announce, Fails
  <2>6. Owner[c] = u
    BY <2>1, <2>3, <2>5 DEF Save, TypeOK
  <2>7. req[c] \in Ids /\ pc[c] = "saving" /\ pc'[c] = "announcing"
    BY <2>1, <2>5 DEF Save, TypeOK
  <2>8. saw[c] # <<>> /\ rows'[u] = [rows[u] EXCEPT ![1] = req[c]]
    <3>1. saw[c] = <<>> => rows'[u] = Append(rows[u], req[c])
      BY <2>1, <2>5, <2>6 DEF Save, TypeOK
    <3>2. saw[c] # <<>> => rows'[u] = [rows[u] EXCEPT ![1] = req[c]]
      BY <2>1, <2>5, <2>6 DEF Save, TypeOK
    <3>3. Append(rows[u], req[c])[k] = rows[u][k]
      BY <2>2, <2>7, Appended
    <3> QED
      BY <2>3, <3>1, <3>2, <3>3
  <2>9. k = 1 /\ rows'[u][1] = req[c]
    BY <2>2, <2>3, <2>7, <2>8, WrittenFront
  <2>10. saw[c][1] < req[c] /\ (rows[u][1] # saw[c][1] => \E d \in Conn \ {c} : Owner[d] = u)
    BY <2>1, <2>6, <2>7, <2>8 DEF SeenOK
  <2>11. saw[c][1] \in Nat
    <3>1. saw[c] \in Seq(Ids)
      BY <2>1 DEF TypeOK
    <3>2. saw[c][1] \in Ids
      BY <2>8, <3>1
    <3> QED
      BY <2>1, <3>2
  <2>12. rows[u][1] # saw[c][1]
    <3>1. req[c] \in Nat /\ rows[u][1] \in Nat /\ req[c] < rows[u][1]
      BY <2>1, <2>2, <2>7, <2>9
    <3> QED
      BY <2>10, <2>11, <3>1
  <2>13. PICK d \in Conn \ {c} : Owner[d] = u
    BY <2>10, <2>12
  <2> QED
    BY <2>6, <2>7, <2>8, <2>12, <2>13
<1>2. Spec => [][OnlyRaced]_vars
  BY <1>1, Invariance, PTL DEF Spec
<1> QED
  BY <1>2 DEF FallsBackOnlyInARace

-----------------------------------------------------------------------------
(***************************************************************************)
(* The implementation of ReadMarks for the users with one tab.             *)
(***************************************************************************)

\* The mark of a user is the one that ToldOK speaks of.
LEMMA MarkOfUser ==
  ASSUME TypeOK, NEW u \in User, NEW m \in Ids, IsMark(rows[u], m)
  PROVE  Mark(rows[u]) = m
<1>1. m \in 0..MaxMessages /\ rows[u] \in Seq(Nat)
  <2>1. Ids \subseteq 0..MaxMessages /\ Ids \subseteq Nat /\ rows[u] \in Seq(Ids)
    BY ReadStatusAssumption DEF TypeOK, Ids
  <2> QED
    BY <2>1, SeqMonotonic
<1> QED
  BY <1>1, MarkIs

\* Rows that do not exist are marks that stand at nothing.
LEMMA InitMarks ==
  ASSUME Init
  PROVE  Marks!Init
<1>1. IsMark(<<>>, 0) /\ <<>> \in Seq(Nat) /\ 0 \in 0..MaxMessages
  BY ReadStatusAssumption DEF IsMark
<1>2. Mark(<<>>) = 0
  BY <1>1, MarkIs
<1>3. OneTabUser \subseteq User
  BY DEF OneTabUser
<1> QED
  BY <1>2, <1>3 DEF Init, Marks!Init

\* Each step moves one mark forward, announces one, adds a message, or changes none of it.
LEMMA MarksStep ==
  ASSUME IInv, IInv', [Next]_vars
  PROVE  [Marks!Next]_(Marks!vars)
<1> USE ReadStatusAssumption
<1> DEFINE mark == [u \in OneTabUser |-> Mark(rows[u])]
           said == [u \in OneTabUser |-> told[u]]
<1>1. TypeOK
  BY DEF IInv
<1>2. Ids \subseteq Nat /\ Len(author) \in Nat
  BY <1>1 DEF TypeOK, Ids
<1>alone. OneTabUser \subseteq User
  BY DEF OneTabUser
<1>3. ASSUME UNCHANGED <<author, rows, told>> PROVE UNCHANGED Marks!vars
  BY <1>3 DEF Marks!vars
<1>4. CASE CreateChat \/ CreateFails \/ UNCHANGED vars
  BY <1>3, <1>4 DEF CreateChat, CreateFails, vars
<1>5. CASE \E c \in Conn : MessageRead(c) \/ Look(c) \/ Fails(c)
  BY <1>3, <1>5 DEF MessageRead, Look, Fails
<1>6. CASE CreateReadStatuses
  <2>1. /\ UNCHANGED <<author, told>>
        /\ \A u \in User : rows'[u] = Append(rows[u], 0)
    BY <1>6 DEF CreateReadStatuses
  <2>2. ASSUME NEW u \in OneTabUser PROVE Mark(rows'[u]) = Mark(rows[u])
    <3>1. PICK m \in Ids : IsMark(rows[u], m)
      BY DEF IInv, ToldOK
    <3>2. Mark(rows[u]) = m
      BY <1>1, <1>alone, <3>1, MarkOfUser
    <3>3. rows[u] \in Seq(Nat) /\ Append(rows[u], 0) \in Seq(Nat) /\ m \in 0..MaxMessages
      <4>1. rows[u] \in Seq(Ids)
        BY <1>1, <1>alone DEF TypeOK
      <4>2. rows[u] \in Seq(Nat)
        BY <1>2, <4>1, SeqMonotonic
      <4>3. m \in 0..MaxMessages
        BY <1>1, <1>2 DEF TypeOK, Ids
      <4> QED
        BY <4>2, <4>3, Appended
    <3>4. IsMark(Append(rows[u], 0), m)
      BY <3>1, <3>3, EmptyRow
    <3> QED
      BY <1>alone, <2>1, <3>2, <3>3, <3>4, MarkIs
  <2>3. mark' = mark
    BY <2>2
  <2> QED
    BY <2>1, <2>3 DEF Marks!vars
<1>7. ASSUME NEW u \in User \cup {Elsewhere}, NewMessage(u) PROVE Marks!Send
  <2>1. Len(author) < MaxMessages /\ Len(author') = Len(author) + 1 /\ UNCHANGED <<rows, told>>
    BY <1>1, <1>7 DEF NewMessage, TypeOK
  <2> QED
    BY <2>1 DEF Marks!Send
<1>8. ASSUME NEW c \in Conn, Owner[c] \in OneTabUser, Save(c) PROVE Marks!Read(Owner[c])
  <2> DEFINE u == Owner[c]
  <2>1. u \in User /\ req[c] \in Ids
    BY <1>1 DEF TypeOK
  <2>2. /\ UNCHANGED <<author, req, told>>
        /\ pc[c] = "saving" /\ pc'[c] = "announcing"
        /\ \A v \in User \ {u} : rows'[v] = rows[v]
    BY <1>1, <1>8 DEF Save, TypeOK
  <2>3. PICK m \in Ids : IsMark(rows[u], m)
    BY <1>8 DEF IInv, ToldOK
  <2>4. Mark(rows[u]) = m
    BY <1>1, <2>1, <2>3, MarkOfUser
  <2>5. m < req[c]
    BY <1>8, <2>2, <2>3 DEF IInv, HandlerOK, IsMark
  <2>6. Mark(rows'[u]) = req[c]
    <3>1. IsMark(rows'[u], req[c])
      BY <1>8, <2>2 DEF IInv, HandlerOK
    <3>2. rows'[u] \in Seq(Nat) /\ req[c] \in 0..MaxMessages
      <4>1. rows'[u] \in Seq(Ids')
        BY <2>1 DEF IInv, TypeOK
      <4>2. Ids' = Ids
        BY <2>2 DEF Ids
      <4>3. rows'[u] \in Seq(Nat)
        BY <1>2, <4>1, <4>2, SeqMonotonic
      <4>4. req[c] \in 0..MaxMessages
        BY <1>1, <1>2, <2>1 DEF TypeOK, Ids
      <4> QED
        BY <4>3, <4>4
    <3> QED
      BY <3>1, <3>2, MarkIs
  <2>7. mark' = [mark EXCEPT ![u] = req[c]]
    BY <1>8, <1>alone, <2>1, <2>2, <2>6
  <2>8. req[c] \in (mark[u] + 1)..Len(author)
    <3>1. req[c] \in Nat /\ req[c] <= Len(author) /\ m \in Nat
      BY <1>2, <2>1 DEF Ids
    <3> QED
      BY <1>2, <1>8, <2>1, <2>4, <2>5, <3>1
  <2> QED
    BY <2>2, <2>7, <2>8 DEF Marks!Read
<1>9. ASSUME NEW c \in Conn, Owner[c] \in OneTabUser, Announce(c)
      PROVE  Marks!Announce(Owner[c])
  <2> DEFINE u == Owner[c]
  <2>1. u \in User /\ req[c] \in Ids
    BY <1>1 DEF TypeOK
  <2>2. UNCHANGED <<author, rows>> /\ told' = [told EXCEPT ![u] = req[c]] /\ pc[c] = "announcing"
    BY <1>9 DEF Announce, Announced
  <2>3. IsMark(rows[u], req[c]) /\ told[u] < req[c]
    BY <1>9, <2>2 DEF IInv, HandlerOK
  <2>4. Mark(rows[u]) = req[c]
    BY <1>1, <2>1, <2>3, MarkOfUser
  <2>5. said' = [said EXCEPT ![u] = mark[u]] /\ said[u] < mark[u]
    BY <1>1, <1>9, <1>alone, <2>2, <2>3, <2>4 DEF TypeOK
  <2>6. UNCHANGED <<Len(author), mark>>
    BY <2>2
  <2> QED
    BY <2>5, <2>6 DEF Marks!Announce
\* The rows of a user with several tabs are no part of it.
<1>10. ASSUME NEW c \in Conn, Owner[c] \notin OneTabUser, Save(c) \/ Announce(c)
       PROVE  UNCHANGED Marks!vars
  <2>1. UNCHANGED author /\ \A u \in OneTabUser : rows'[u] = rows[u] /\ told'[u] = told[u]
    BY <1>1, <1>10, <1>alone DEF Save, Announce, Announced, TypeOK
  <2>2. mark' = mark /\ said' = said
    BY <2>1
  <2> QED
    BY <2>1, <2>2 DEF Marks!vars
<1> QED
  BY <1>4, <1>5, <1>6, <1>7, <1>8, <1>9, <1>10 DEF Next, Step, Marks!Next

\* For every user with one tab marks only move forward, over messages that exist, and what is
\* announced has been marked: the statements may interleave, fail and be retried as they will,
\* and other users may have any number of tabs.
THEOREM ReadStatusImplementsReadMarks == Spec => MarksSpec
<1>1. Init => Marks!Init
  BY InitMarks
<1>2. IInv /\ IInv' /\ [Next]_vars => [Marks!Next]_(Marks!vars)
  BY MarksStep
<1> QED
  BY <1>1, <1>2, Invariance, PTL DEF Spec, MarksSpec, Marks!Spec
=============================================================================
