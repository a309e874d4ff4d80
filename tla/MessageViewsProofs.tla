------------------------- MODULE MessageViewsProofs -------------------------
(***************************************************************************)
(* MessageViews for any number of clients and messages, any page sizes and *)
(* any interleaving of handlers, requests and expiring pages.              *)
(***************************************************************************)
EXTENDS MessageViews, FiniteSetTheorems, WellFoundedInduction, TLAPS

-----------------------------------------------------------------------------
(***************************************************************************)
(* Pages: ORDER BY created_at DESC LIMIT n + 1                             *)
(***************************************************************************)

\* Sets of messages are finite.
LEMMA MessagesFinite ==
  ASSUME NEW S \in SUBSET Messages
  PROVE  IsFiniteSet(S) /\ Cardinality(S) \in 0..MaxMessages
<1>1. MaxMessages \in Nat
  BY MessageViewsAssumption
<1>2. IsFiniteSet(1..MaxMessages) /\ Cardinality(1..MaxMessages) = MaxMessages
  BY <1>1, FS_Interval
<1>3. IsFiniteSet(S) /\ Cardinality(S) <= MaxMessages
  BY <1>2, FS_Subset DEF Messages
<1> QED
  BY <1>1, <1>3, FS_CardinalityType

\* A page reaches up to the newest message.
LEMMA NewestUp ==
  ASSUME NEW S \in SUBSET Messages, NEW n \in Nat,
         NEW k \in Newest(S, n), NEW m \in S, k <= m
  PROVE  m \in Newest(S, n)
<1> DEFINE Above(x) == {y \in S : y > x}
<1>1. k \in Nat /\ m \in Nat /\ \A y \in S : y \in Nat
  BY MessageViewsAssumption DEF Newest, Messages
<1>2. ASSUME NEW y \in Above(m) PROVE y \in Above(k)
  <2>1. y \in S /\ y \in Nat /\ y > m
    BY <1>1, <1>2
  <2> QED
    BY <1>1, <2>1
<1>3. Above(k) \in SUBSET Messages /\ Above(m) \in SUBSET Messages
  OBVIOUS
<1>4. Cardinality(Above(m)) <= Cardinality(Above(k))
  BY <1>2, <1>3, MessagesFinite, FS_Subset
<1>5. Cardinality(Above(k)) < n
  BY DEF Newest
<1>6. Cardinality(Above(m)) \in Nat /\ Cardinality(Above(k)) \in Nat
  BY <1>3, MessagesFinite, MessageViewsAssumption
<1> QED
  BY <1>4, <1>5, <1>6 DEF Newest

\* A page that is not full has all messages.
LEMMA NewestAll ==
  ASSUME NEW S \in SUBSET Messages, NEW n \in Nat, ~HasMore(S, n)
  PROVE  Newest(S, n) = S
<1>1. ASSUME NEW m \in S PROVE Cardinality({k \in S : k > m}) < n
  <2> DEFINE T == {k \in S : k > m}
  <2>1. m \in Nat /\ T \subseteq S \ {m}
    BY MessageViewsAssumption DEF Messages
  <2>2. IsFiniteSet(S) /\ Cardinality(S) \in Nat
    BY MessagesFinite, MessageViewsAssumption
  <2>3. IsFiniteSet(S \ {m}) /\ Cardinality(S \ {m}) = Cardinality(S) - 1
    BY <2>2, FS_RemoveElement
  <2>4. Cardinality(T) <= Cardinality(S \ {m})
    BY <2>1, <2>3, FS_Subset
  <2>5. T \in SUBSET Messages
    OBVIOUS
  <2>6. Cardinality(T) \in Nat
    BY <2>5, MessagesFinite, MessageViewsAssumption
  <2> QED
    BY <2>2, <2>3, <2>4, <2>6 DEF HasMore
<1> QED
  BY <1>1 DEF Newest

\* Some message is the oldest.
LEMMA OldestExists ==
  ASSUME NEW S \in SUBSET Nat, S # {}
  PROVE  \E x \in S : \A y \in S : x <= y
<1>1. PICK x \in S : \A y \in S : ~(<<y, x>> \in OpToRel(<, Nat))
  BY NatLessThanWellFounded, WFMin
<1>2. \A y \in S : ~(y < x)
  BY <1>1 DEF OpToRel
<1> QED
  BY <1>2

\* A page that is full leaves an older message out.
LEMMA NewestLeaves ==
  ASSUME NEW S \in SUBSET Messages, NEW n \in Nat, HasMore(S, n)
  PROVE  \E m \in S : \A k \in Newest(S, n) : m < k
<1>1. S \in SUBSET Nat /\ IsFiniteSet(S) /\ Cardinality(S) \in Nat
  BY MessagesFinite, MessageViewsAssumption DEF Messages
<1>2. S # {}
  BY <1>1, FS_EmptySet DEF HasMore
<1>3. PICK x \in S : \A y \in S : x <= y
  BY <1>1, <1>2, OldestExists
<1>4. {k \in S : k > x} = S \ {x}
  <2>1. ASSUME NEW y \in S PROVE y > x <=> y # x
    <3>1. y \in Nat /\ x \in Nat /\ x <= y
      BY <1>1, <1>3
    <3> QED
      BY <3>1
  <2> QED
    BY <2>1
<1>5. Cardinality(S \ {x}) = Cardinality(S) - 1
  BY <1>1, FS_RemoveElement
<1>6. x \notin Newest(S, n)
  <2>1. Cardinality({k \in S : k > x}) = Cardinality(S) - 1
    BY <1>4, <1>5
  <2>2. ~(Cardinality(S) - 1 < n)
    BY <1>1 DEF HasMore
  <2> QED
    BY <2>1, <2>2 DEF Newest
<1>7. \A k \in Newest(S, n) : x < k
  BY <1>1, <1>3, <1>6 DEF Newest
<1> QED
  BY <1>7

-----------------------------------------------------------------------------
(***************************************************************************)
(* Types                                                                   *)
(***************************************************************************)

\* What is visible has begun.
LEMMA VisibleMessages ==
  ASSUME TypeOK
  PROVE  visible \subseteq Messages /\ Messages \subseteq Nat
<1>1. begun \in 0..MaxMessages /\ visible \subseteq 1..begun /\ MaxMessages \in Nat
  BY MessageViewsAssumption DEF TypeOK
<1>2. ASSUME NEW m \in 1..begun PROVE m \in 1..MaxMessages
  BY <1>1, <1>2
<1> QED
  BY <1>1, <1>2 DEF Messages

\* What a request reads for its page is a response.
LEMMA PageType ==
  ASSUME TypeOK, NEW u \in User, NEW at \in [User -> 0..MaxMessages], NEW n \in Sizes
  PROVE  FirstPage(u, at, n) \in Response
<1>1. visible \subseteq Messages
  BY VisibleMessages
<1>2. Newest(visible, n) \subseteq Messages
  BY <1>1 DEF Newest
<1>3. at[Other[u]] \in 0..MaxMessages
  BY MessageViewsAssumption
<1>4. HasMore(visible, n) \in BOOLEAN
  BY DEF HasMore
<1> QED
  BY <1>1, <1>2, <1>3, <1>4 DEF FirstPage, Response

\* A size is a key of the cache.
LEMMA SizeType ==
  ASSUME TypeOK, NEW at \in 0..MaxMessages
  PROVE  SizeFor(at) \in Sizes
<1>1. {m \in visible : m > at} \in SUBSET Messages
  BY VisibleMessages
<1>2. Unread(at) \in 0..MaxMessages
  BY <1>1, MessagesFinite DEF Unread
<1> QED
  BY <1>2, MessageViewsAssumption DEF SizeFor, Sizes, Messages

\* A request that ends.
LEMMA DoneType ==
  ASSUME TypeOK, NEW v \in View, Done(v)
  PROVE  /\ pc' \in [View -> {"idle", "count", "lookup", "select", "put", "older"}]
         /\ size' \in [View -> Sizes]
         /\ marks' \in [View -> [User -> 0..MaxMessages]]
         /\ got' \in [View -> SUBSET Response]
  BY MessageViewsAssumption DEF TypeOK, Done, Sizes

\* What the handlers leave alone.
Others ==
    /\ viewer \in [View -> User]
    /\ pc \in [View -> {"idle", "count", "lookup", "select", "put", "older"}]
    /\ size \in [View -> Sizes]
    /\ marks \in [View -> [User -> 0..MaxMessages]]
    /\ got \in [View -> SUBSET Response]
    /\ client \in [View -> Response]

\* What the requests leave alone.
HandlersOK ==
    /\ begun \in 0..MaxMessages
    /\ visible \subseteq 1..begun
    /\ pointer \in [User -> 0..MaxMessages]
    /\ doing \in [User -> {"idle", "inserting", "clearing"}]
    /\ sending \in [User -> 0..MaxMessages]
    /\ \A u \in User : doing[u] = "inserting" => sending[u] \in 1..begun

LEMMA TypeParts ==
  TypeOK <=> HandlersOK /\ Others /\ cache \in [Sizes -> SUBSET Response]
  BY DEF TypeOK, HandlersOK, Others

LEMMA OthersStay ==
  ASSUME Others, UNCHANGED requests
  PROVE  Others'
  BY DEF Others, requests

\* A handler's step.
LEMMA HandleType ==
  ASSUME TypeOK, NEW u \in User, Handle(u)
  PROVE  HandlersOK'
<1>1. HandlersOK /\ MaxMessages \in Nat
  BY MessageViewsAssumption, TypeParts
<1> USE DEF HandlersOK
<1>2. CASE Send(u)
  <2>1. /\ begun' = begun + 1 /\ begun < MaxMessages /\ begun \in Nat
        /\ visible' = visible /\ pointer' = pointer
        /\ doing' = [doing EXCEPT ![u] = "inserting"]
        /\ sending' = [sending EXCEPT ![u] = begun + 1]
    BY <1>1, <1>2 DEF Send
  <2>2. /\ begun' \in 0..MaxMessages /\ begun + 1 \in 1..begun' /\ begun + 1 \in 0..MaxMessages
        /\ 1..begun \subseteq 1..begun'
    BY <1>1, <2>1
  <2>3. sending' \in [User -> 0..MaxMessages]
    BY <1>1, <2>1, <2>2
  <2>4. ASSUME NEW w \in User, doing'[w] = "inserting" PROVE sending'[w] \in 1..begun'
    BY <1>1, <2>1, <2>2, <2>4
  <2> QED
    BY <1>1, <2>1, <2>2, <2>3, <2>4
<1>3. CASE Insert(u)
  <2>1. /\ doing[u] = "inserting" /\ visible' = visible \cup {sending[u]}
        /\ sending' = [sending EXCEPT ![u] = 0]
        /\ doing' = [doing EXCEPT ![u] = "clearing"]
        /\ begun' = begun /\ pointer' = pointer
    BY <1>3 DEF Insert
  <2>2. sending[u] \in 1..begun
    BY <1>1, <2>1
  <2>3. ASSUME NEW w \in User, doing'[w] = "inserting" PROVE sending'[w] \in 1..begun'
    <3>1. w # u
      BY <1>1, <2>1, <2>3
    <3> QED
      BY <1>1, <2>1, <2>3, <3>1
  <2>4. visible' \subseteq 1..begun'
    BY <1>1, <2>1, <2>2
  <2>5. 0 \in 0..MaxMessages
    BY <1>1
  <2>6. sending' \in [User -> 0..MaxMessages] /\ doing' \in [User -> {"idle", "inserting", "clearing"}]
    BY <1>1, <2>1, <2>5
  <2> QED
    BY <1>1, <2>1, <2>3, <2>4, <2>6
<1>4. ASSUME NEW m \in visible, Save(u, m) PROVE HandlersOK'
  <2>1. /\ pointer' = [pointer EXCEPT ![u] = m]
        /\ doing' = [doing EXCEPT ![u] = "clearing"]
        /\ begun' = begun /\ visible' = visible /\ sending' = sending
    BY <1>4 DEF Save
  <2>2. m \in 1..begun /\ 1..begun \subseteq 0..MaxMessages
    BY <1>1, <1>4
  <2>3. m \in 0..MaxMessages
    BY <2>2
  <2>4. ASSUME NEW w \in User, doing'[w] = "inserting" PROVE sending'[w] \in 1..begun'
    BY <1>1, <2>1, <2>4
  <2> QED
    BY <1>1, <2>1, <2>3, <2>4
<1>5. ASSUME Clear(u) \/ HandlerFails(u) PROVE HandlersOK'
  <2>1. /\ doing' = [doing EXCEPT ![u] = "idle"]
        /\ sending' = sending \/ sending' = [sending EXCEPT ![u] = 0]
        /\ begun' = begun /\ visible' = visible /\ pointer' = pointer
    BY <1>5 DEF Clear, HandlerFails
  <2>2. ASSUME NEW w \in User, doing'[w] = "inserting" PROVE sending'[w] \in 1..begun'
    <3>1. w # u
      BY <1>1, <2>1, <2>2
    <3> QED
      BY <1>1, <2>1, <2>2, <3>1
  <2> QED
    BY <1>1, <2>1, <2>2
<1> QED
  BY <1>2, <1>3, <1>4, <1>5 DEF Handle

\* A request's step.
LEMMA RequestType ==
  ASSUME TypeOK, NEW v \in View, Request(v)
  PROVE  TypeOK'
<1> USE DEF TypeOK
<1>1. ASSUME NEW u \in User, Open(v, u) PROVE TypeOK'
  <2>1. Nothing \in Response
    BY MessageViewsAssumption DEF Nothing, Response
  <2> QED
    BY <1>1, <2>1 DEF Open, handlers
<1>2. CASE Lookup(v)
  <2>1. CASE \E response \in cache[size[v]] : Receive(v, response)
    <3>1. PICK response \in cache[size[v]] : Receive(v, response)
      BY <2>1
    <3>2. response \in Response
      BY <3>1
    <3> QED
      BY <1>2, <3>1, <3>2, DoneType DEF Lookup, Receive, handlers
  <2>2. CASE /\ pc' = [pc EXCEPT ![v] = "select"]
             /\ UNCHANGED <<size, marks, got, client>>
    BY <1>2, <2>2 DEF Lookup, handlers
  <2> QED
    BY <1>2, <2>1, <2>2 DEF Lookup
<1>3. CASE Select(v)
  <2>1. FirstPage(viewer[v], marks[v], size[v]) \in Response
    BY PageType
  <2> QED
    BY <1>3, <2>1 DEF Select, handlers
<1>4. CASE Put(v)
  <2>1. PICK response \in got[v] : Receive(v, response)
    BY <1>4 DEF Put
  <2>2. response \in Response
    BY <2>1
  <2> QED
    BY <1>4, <2>1, <2>2, DoneType DEF Put, Receive, handlers
<1>5. CASE OpenOlder(v)
  BY <1>5 DEF OpenOlder, handlers
<1>6. CASE SelectOlder(v)
  <2> DEFINE page == Newest(Older(v), Limit)
             read == {m \in page : IsRead(viewer[v], marks[v], m)}
  <2>1. page \subseteq Messages /\ read \subseteq Messages
    BY VisibleMessages DEF Newest, Older
  <2>2. HasMore(Older(v), Limit) \in BOOLEAN
    BY DEF HasMore
  <2>3. client' = [client EXCEPT ![v].shown = @ \cup page,
                                 ![v].more = HasMore(Older(v), Limit),
                                 ![v].read = @ \cup read]
    BY <1>6 DEF SelectOlder
  <2> HIDE DEF page, read
  <2>4. client[v] \in Response
    OBVIOUS
  <2>5. ASSUME NEW r, r = [client[v] EXCEPT !.shown = @ \cup page,
                                            !.more = HasMore(Older(v), Limit),
                                            !.read = @ \cup read]
        PROVE  r \in Response
    BY <2>1, <2>2, <2>4, <2>5 DEF Response
  <2>6. client' \in [View -> Response]
    BY <2>3, <2>5
  <2> QED
    BY <1>6, <2>6, DoneType DEF SelectOlder, handlers
<1>7. CASE Fails(v)
  BY <1>7, DoneType DEF Fails, handlers
<1>8. CASE Count(v)
  <2>1. marks[v][viewer[v]] \in 0..MaxMessages
    OBVIOUS
  <2>2. SizeFor(marks[v][viewer[v]]) \in Sizes
    BY <2>1, SizeType
  <2> QED
    BY <1>8, <2>2 DEF Count, handlers
<1> QED
  BY <1>1, <1>2, <1>3, <1>4, <1>5, <1>6, <1>7, <1>8 DEF Request

\* Every step keeps the types.
LEMMA TypeStep ==
  ASSUME TypeOK, [Next]_vars
  PROVE  TypeOK'
<1>1. ASSUME NEW n \in Sizes, Expire(n) PROVE TypeOK'
  BY <1>1 DEF TypeOK, Expire, handlers, requests
<1>2. CASE UNCHANGED vars
  BY <1>2 DEF TypeOK, vars, handlers, requests
<1>3. ASSUME NEW u \in User, Handle(u) PROVE TypeOK'
  <2>1. UNCHANGED requests /\ (cache' = cache \/ cache' = [n \in Sizes |-> {}])
    BY <1>3 DEF Handle, Send, Insert, Save, Clear, HandlerFails
  <2>2. Others'
    BY <2>1, OthersStay, TypeParts
  <2>3. cache' \in [Sizes -> SUBSET Response]
    BY <2>1 DEF TypeOK
  <2>4. HandlersOK'
    BY <1>3, HandleType
  <2> QED
    BY <2>2, <2>3, <2>4 DEF TypeOK, HandlersOK, Others
<1> QED
  BY <1>1, <1>2, <1>3, RequestType DEF Next

\* Every variable keeps its type.
THEOREM Types == Spec => []TypeOK
<1>1. Init => TypeOK
  <2>1. Nothing \in Response
    BY MessageViewsAssumption DEF Nothing, Response
  <2> QED
    BY <2>1, MessageViewsAssumption DEF Init, TypeOK, Sizes
<1>2. TypeOK /\ [Next]_vars => TypeOK'
  BY TypeStep
<1> QED
  BY <1>1, <1>2, PTL DEF Spec

-----------------------------------------------------------------------------
(***************************************************************************)
(* What every response says, wherever it is                                *)
(***************************************************************************)

\* It leaves out no message between those it shows ...
Whole(r) ==
    \A m \in r.snap : (r.more => \E k \in r.shown : k <= m) => m \in r.shown

\* ... there is an older one if it says so ...
HasOlder(r) == r.more => \E m \in visible : \A k \in r.shown : m < k

\* ... and what it shows as read has been read.
TrulyRead(r) == \A m \in r.read : m <= pointer[Other[Author[m]]]

Good(r) == Whole(r) /\ HasOlder(r) /\ TrulyRead(r) /\ r.snap \subseteq visible

Inv ==
    /\ \A n \in Sizes : \A r \in cache[n] : Good(r)
    /\ \A v \in View : \A r \in got[v] : Good(r)
    /\ \A v \in View : Good(client[v])
    /\ \A v \in View, u \in User : marks[v][u] <= pointer[u]

\* Nothing is shown to a client whose request is on its way.
LEMMA NothingGood ==
  Good(Nothing)
  BY DEF Good, Whole, HasOlder, TrulyRead, Nothing

\* Messages stay and pointers move forward.
LEMMA Forward ==
  ASSUME TypeOK, [Next]_vars
  PROVE  visible \subseteq visible' /\ \A u \in User : pointer[u] <= pointer'[u]
<1>1. \A u \in User : pointer[u] \in Nat
  BY MessageViewsAssumption DEF TypeOK
<1>2. ASSUME NEW u \in User, Handle(u)
      PROVE  visible \subseteq visible' /\ \A w \in User : pointer[w] <= pointer'[w]
  <2>1. ASSUME NEW m \in visible, Save(u, m)
        PROVE  visible \subseteq visible' /\ \A w \in User : pointer[w] <= pointer'[w]
    <3>1. m \in Nat
      BY MessageViewsAssumption DEF TypeOK
    <3> QED
      BY <1>1, <2>1, <3>1 DEF Save, TypeOK
  <2>2. ASSUME Send(u) \/ Insert(u) \/ Clear(u) \/ HandlerFails(u)
        PROVE  visible \subseteq visible' /\ pointer' = pointer
    BY <2>2 DEF Send, Insert, Clear, HandlerFails
  <2> QED
    BY <1>1, <1>2, <2>1, <2>2 DEF Handle
<1>3. ASSUME \/ \E v \in View : Request(v)
             \/ \E n \in Sizes : Expire(n)
             \/ UNCHANGED vars
      PROVE  visible' = visible /\ pointer' = pointer
  BY <1>3 DEF Request, Open, Count, Lookup, Select, Put, OpenOlder, SelectOlder, Fails, Expire, vars,
              handlers
<1> QED
  BY <1>1, <1>2, <1>3 DEF Next

\* So a response stays good.
LEMMA GoodStays ==
  ASSUME TypeOK, TypeOK', NEW r \in Response, Good(r),
         visible \subseteq visible', \A u \in User : pointer[u] <= pointer'[u]
  PROVE  Good(r)'
<1>1. ASSUME NEW m \in r.read PROVE m <= pointer'[Other[Author[m]]]
  <2>1. m \in Messages /\ Other[Author[m]] \in User
    BY <1>1, MessageViewsAssumption DEF Response, Messages
  <2>2. m \in Nat /\ pointer[Other[Author[m]]] \in Nat /\ pointer'[Other[Author[m]]] \in Nat
    BY <2>1, MessageViewsAssumption DEF TypeOK, Messages
  <2> QED
    BY <1>1, <2>1, <2>2 DEF Good, TrulyRead
<1> QED
  BY <1>1 DEF Good, Whole, HasOlder, TrulyRead

\* Flags computed from pointers loaded earlier, for either user.
LEMMA FlagsTrue ==
  ASSUME TypeOK, NEW u \in User, NEW at \in [User -> 0..MaxMessages],
         \A w \in User : at[w] <= pointer[w], NEW m \in Messages, IsRead(u, at, m)
  PROVE  m <= pointer[Other[Author[m]]]
<1>1. Author[m] \in User /\ Other[u] \in User /\ Other[Author[m]] \in User
  BY MessageViewsAssumption DEF Messages
<1>2. m \in Nat /\ \A w \in User : at[w] \in Nat /\ pointer[w] \in Nat
  BY MessageViewsAssumption DEF TypeOK, Messages
<1>3. CASE Author[m] = u
  BY <1>1, <1>2, <1>3 DEF IsRead
<1>4. CASE Author[m] # u
  <2>1. Other[Author[m]] = u
    BY <1>1, <1>4, MessageViewsAssumption
  <2> QED
    BY <1>2, <1>4, <2>1 DEF IsRead
<1> QED
  BY <1>3, <1>4

\* A first page as it is read.
LEMMA PageGood ==
  ASSUME TypeOK, NEW u \in User, NEW at \in [User -> 0..MaxMessages],
         \A w \in User : at[w] <= pointer[w], NEW n \in Sizes
  PROVE  Good(FirstPage(u, at, n))
<1> DEFINE r == FirstPage(u, at, n)
<1>1. visible \in SUBSET Messages /\ n \in Nat
  BY VisibleMessages, MessageViewsAssumption DEF Sizes
<1>2. /\ r.shown = Newest(visible, n) /\ r.more = HasMore(visible, n) /\ r.snap = visible
      /\ r.read = {m \in Newest(visible, n) : IsRead(u, at, m)}
  BY DEF FirstPage
<1>3. Whole(r)
  <2>1. CASE HasMore(visible, n)
    BY <1>1, <1>2, <2>1, NewestUp DEF Whole
  <2>2. CASE ~HasMore(visible, n)
    BY <1>1, <1>2, <2>2, NewestAll DEF Whole
  <2> QED
    BY <2>1, <2>2
<1>4. HasOlder(r)
  <2>1. ASSUME HasMore(visible, n) PROVE \E m \in visible : \A k \in Newest(visible, n) : m < k
    BY <1>1, <2>1, NewestLeaves
  <2> QED
    BY <1>2, <2>1 DEF HasOlder
<1>5. TrulyRead(r)
  BY <1>1, <1>2, FlagsTrue DEF TrulyRead, Newest
<1> QED
  BY <1>2, <1>3, <1>4, <1>5 DEF Good

\* A response with an older page added.
LEMMA OlderGood ==
  ASSUME TypeOK, Inv, NEW v \in View, NEW s \in Response,
         LET page == Newest(Older(v), Limit)
         IN  /\ s.shown = client[v].shown \cup page
             /\ s.more = HasMore(Older(v), Limit)
             /\ s.read = client[v].read \cup {m \in page : IsRead(viewer[v], marks[v], m)}
             /\ s.snap = client[v].snap
  PROVE  Good(s)
<1> DEFINE r == client[v]
           page == Newest(Older(v), Limit)
<1>1. Good(r) /\ r \in Response
  BY DEF Inv, TypeOK
<1>2. /\ Older(v) \in SUBSET Messages /\ Older(v) \subseteq visible /\ Limit \in Nat
      /\ visible \subseteq Nat
  BY VisibleMessages, MessageViewsAssumption DEF Older
<1>3. page \subseteq Older(v)
  BY DEF Newest
<1>4. r.shown \subseteq Nat
  BY <1>1, MessageViewsAssumption DEF Response, Messages
<1>5. \A m \in Older(v) : \A k \in r.shown : m < k
  BY DEF Older
<1>6. Whole(s)
  <2>1. SUFFICES ASSUME NEW m \in r.snap, s.more => \E k \in s.shown : k <= m
                 PROVE  m \in s.shown
    BY DEF Whole
  <2>2. m \in visible /\ m \in Nat
    BY <1>1, <1>2, <2>1 DEF Good
  <2>3. CASE m \in Older(v)
    <3>1. CASE s.more
      <4>1. PICK k \in s.shown : k <= m
        BY <2>1, <3>1
      <4>2. k \in page
        BY <1>4, <1>5, <2>2, <2>3, <4>1
      <4> QED
        BY <1>2, <2>3, <4>1, <4>2, NewestUp
    <3>2. CASE ~s.more
      BY <1>2, <2>3, <3>2, NewestAll
    <3> QED
      BY <3>1, <3>2
  <2>4. CASE m \notin Older(v)
    <3>1. \E k \in r.shown : k <= m
      BY <1>4, <2>2, <2>4 DEF Older
    <3> QED
      BY <1>1, <2>1, <3>1 DEF Good, Whole
  <2> QED
    BY <2>3, <2>4
<1>7. HasOlder(s)
  <2>1. ASSUME s.more PROVE \E m \in visible : \A k \in s.shown : m < k
    <3>1. PICK m \in Older(v) : \A k \in page : m < k
      BY <1>2, <2>1, NewestLeaves
    <3> QED
      BY <1>2, <1>5, <3>1
  <2> QED
    BY <2>1 DEF HasOlder
<1>8. TrulyRead(s)
  <2>1. ASSUME NEW m \in page, IsRead(viewer[v], marks[v], m)
        PROVE  m <= pointer[Other[Author[m]]]
    <3>1. m \in Messages /\ viewer[v] \in User /\ marks[v] \in [User -> 0..MaxMessages]
      BY <1>2, <1>3 DEF TypeOK
    <3>2. \A w \in User : marks[v][w] <= pointer[w]
      BY DEF Inv
    <3> QED
      BY <2>1, <3>1, <3>2, FlagsTrue
  <2> QED
    BY <1>1, <2>1 DEF Good, TrulyRead
<1> QED
  BY <1>1, <1>6, <1>7, <1>8 DEF Good

\* A step in which no response and no pointer comes from nowhere keeps the invariant.
LEMMA InvStays ==
  ASSUME TypeOK, TypeOK', Inv,
         visible \subseteq visible', \A u \in User : pointer[u] <= pointer'[u],
         \A n \in Sizes : cache'[n] = {} \/ cache'[n] = cache[n]
                          \/ \E v \in View : cache'[n] = got[v],
         \A v \in View : got'[v] = {} \/ got'[v] = got[v]
                         \/ \E r \in Response : Good(r) /\ got'[v] = {r},
         \A v \in View : \/ client'[v] = client[v]
                         \/ client'[v] \in Response /\ Good(client'[v]),
         \A v \in View, u \in User : marks'[v][u] <= pointer'[u]
  PROVE  Inv'
<1>1. \A r \in Response : Good(r) => Good(r)'
  BY GoodStays
<1>2. ASSUME NEW n \in Sizes, NEW r \in cache'[n] PROVE Good(r)'
  <2>1. r \in Response
    BY <1>2 DEF TypeOK
  <2>2. Good(r)
    BY <1>2 DEF Inv
  <2> QED
    BY <1>1, <2>1, <2>2
<1>3. ASSUME NEW v \in View, NEW r \in got'[v] PROVE Good(r)'
  <2>1. r \in Response
    BY <1>3 DEF TypeOK
  <2>2. Good(r)
    BY <1>3 DEF Inv
  <2> QED
    BY <1>1, <2>1, <2>2
<1>4. ASSUME NEW v \in View PROVE Good(client[v])'
  <2>1. client'[v] \in Response
    BY DEF TypeOK
  <2>2. ASSUME NEW r, r = client'[v] PROVE Good(r)'
    <3>1. Good(r)
      BY <2>2 DEF Inv
    <3> QED
      BY <1>1, <2>1, <2>2, <3>1
  <2> QED
    BY <2>2
<1> QED
  BY <1>2, <1>3, <1>4 DEF Inv

\* Each step keeps the invariant.
LEMMA InvStep ==
  ASSUME TypeOK, Inv, [Next]_vars
  PROVE  Inv'
<1>1. TypeOK'
  BY TypeStep
<1>2. visible \subseteq visible' /\ \A u \in User : pointer[u] <= pointer'[u]
  BY Forward
<1>3. \A u \in User : pointer[u] \in Nat /\ pointer'[u] \in Nat
  BY <1>1, MessageViewsAssumption DEF TypeOK
<1>4. \A v \in View, u \in User : marks[v][u] \in Nat /\ marks[v][u] <= pointer'[u]
  <2> TAKE v \in View, u \in User
  <2>1. marks[v][u] \in Nat /\ marks[v][u] <= pointer[u]
    BY MessageViewsAssumption DEF TypeOK, Inv
  <2> QED
    BY <1>2, <1>3, <2>1
<1>5. ASSUME UNCHANGED requests,
             \A n \in Sizes : cache'[n] = {} \/ cache'[n] = cache[n]
      PROVE  Inv'
  <2>1. /\ \A v \in View : got'[v] = got[v] /\ client'[v] = client[v]
        /\ \A v \in View, u \in User : marks'[v][u] <= pointer'[u]
    BY <1>4, <1>5 DEF requests
  <2> QED
    BY <1>1, <1>2, <1>5, <2>1, InvStays
<1>6. ASSUME NEW u \in User, Handle(u)
      PROVE  UNCHANGED requests /\ \A n \in Sizes : cache'[n] = {} \/ cache'[n] = cache[n]
  BY <1>6 DEF Handle, Send, Insert, Save, Clear, HandlerFails
<1>7. ASSUME NEW n \in Sizes, Expire(n)
      PROVE  UNCHANGED requests /\ \A k \in Sizes : cache'[k] = {} \/ cache'[k] = cache[k]
  BY <1>7 DEF Expire, TypeOK
<1>8. ASSUME UNCHANGED vars
      PROVE  UNCHANGED requests /\ \A k \in Sizes : cache'[k] = cache[k]
  BY <1>8 DEF vars
<1>9. ASSUME NEW v \in View, Done(v)
      PROVE  /\ \A w \in View : got'[w] = {} \/ got'[w] = got[w]
             /\ \A w \in View, u \in User : marks'[w][u] <= pointer'[u]
  BY <1>3, <1>4, <1>9 DEF Done, TypeOK
<1>10. ASSUME NEW v \in View, Request(v) PROVE Inv'
  <2>1. ASSUME NEW u \in User, Open(v, u) PROVE Inv'
    <3>1. pointer' = pointer /\ cache' = cache /\ got' = got
      BY <2>1 DEF Open, handlers
    <3>2. ASSUME NEW w \in View
          PROVE  client'[w] = client[w] \/ (client'[w] \in Response /\ Good(client'[w]))
      <4>1. CASE w = v
        <5>1. client'[w] = Nothing /\ client'[w] \in Response
          BY <1>1, <2>1, <4>1 DEF Open, TypeOK
        <5> QED
          BY <5>1, NothingGood
      <4>2. CASE w # v
        BY <2>1, <4>2 DEF Open, TypeOK
      <4> QED
        BY <4>1, <4>2
    <3>3. \A w \in View, x \in User : marks'[w][x] <= pointer'[x]
      BY <1>3, <1>4, <2>1, <3>1 DEF Open, TypeOK
    <3> QED
      BY <1>1, <1>2, <3>1, <3>2, <3>3, InvStays
  <2>2. ASSUME NEW r, NEW n \in Sizes, r \in cache[n] \cup got[v], Receive(v, r),
               \A k \in Sizes : cache'[k] = cache[k] \/ cache'[k] = got[v]
        PROVE  Inv'
    <3>1. r \in Response /\ Good(r)
      BY <2>2 DEF TypeOK, Inv
    <3>2. \A w \in View : client'[w] = client[w] \/ (client'[w] \in Response /\ Good(client'[w]))
      BY <2>2, <3>1 DEF Receive, TypeOK
    <3> QED
      BY <1>1, <1>2, <1>9, <2>2, <3>2, InvStays DEF Receive
  <2>3. CASE Lookup(v)
    <3>1. cache' = cache /\ size[v] \in Sizes
      BY <2>3 DEF Lookup, TypeOK
    <3>2. CASE UNCHANGED <<marks, got, client>>
      BY <1>1, <1>2, <1>4, <3>1, <3>2, InvStays
    <3> QED
      BY <2>2, <2>3, <3>1, <3>2 DEF Lookup
  <2>4. CASE Select(v)
    <3> DEFINE r == FirstPage(viewer[v], marks[v], size[v])
    <3>1. /\ viewer[v] \in User /\ size[v] \in Sizes
          /\ marks[v] \in [User -> 0..MaxMessages]
          /\ \A w \in User : marks[v][w] <= pointer[w]
      BY DEF TypeOK, Inv
    <3>2. r \in Response /\ Good(r)
      BY <3>1, PageType, PageGood
    <3>3. \A w \in View : got'[w] = got[w] \/ got'[w] = {r}
      BY <2>4 DEF Select, TypeOK
    <3>4. UNCHANGED <<marks, client, cache>>
      BY <2>4 DEF Select
    <3> HIDE DEF r
    <3> QED
      BY <1>1, <1>2, <1>4, <3>2, <3>3, <3>4, InvStays
  <2>5. CASE Put(v)
    <3>1. PICK r \in got[v] : Receive(v, r)
      BY <2>5 DEF Put
    <3>2. size[v] \in Sizes /\ \A k \in Sizes : cache'[k] = cache[k] \/ cache'[k] = got[v]
      BY <2>5 DEF Put, TypeOK
    <3> QED
      BY <2>2, <3>1, <3>2
  <2>6. CASE OpenOlder(v)
    <3>1. UNCHANGED <<pointer, cache, got, client>>
      BY <2>6 DEF OpenOlder, handlers
    <3>2. \A w \in View, x \in User : marks'[w][x] <= pointer'[x]
      BY <1>3, <1>4, <2>6, <3>1 DEF OpenOlder, TypeOK
    <3> QED
      BY <1>1, <1>2, <3>1, <3>2, InvStays
  <2>7. CASE SelectOlder(v)
    <3> DEFINE page == Newest(Older(v), Limit)
               read == {m \in page : IsRead(viewer[v], marks[v], m)}
    <3>1. client' = [client EXCEPT ![v].shown = @ \cup page,
                                   ![v].more = HasMore(Older(v), Limit),
                                   ![v].read = @ \cup read]
      BY <2>7 DEF SelectOlder
    <3>2. cache' = cache /\ Done(v)
      BY <2>7 DEF SelectOlder
    <3>3. client'[v] \in Response /\ client[v] \in Response
      BY <1>1 DEF TypeOK
    <3>4. /\ client'[v].shown = client[v].shown \cup page
          /\ client'[v].more = HasMore(Older(v), Limit)
          /\ client'[v].read = client[v].read \cup read
          /\ client'[v].snap = client[v].snap
      <4> HIDE DEF page, read
      <4> QED
        BY <3>1, <3>3 DEF Response, TypeOK
    <3>5. ASSUME NEW t, t = client'[v] PROVE Good(t)
      BY <3>3, <3>4, <3>5, OlderGood
    <3>6. \A w \in View : client'[w] = client[w] \/ (client'[w] \in Response /\ Good(client'[w]))
      <4>1. Good(client'[v])
        BY <3>5
      <4>2. \A w \in View \ {v} : client'[w] = client[w]
        BY <3>1 DEF TypeOK
      <4> QED
        BY <3>3, <4>1, <4>2
    <3> QED
      BY <1>1, <1>2, <1>9, <3>2, <3>6, InvStays
  <2>8. CASE Fails(v)
    BY <1>1, <1>2, <1>9, <2>8, InvStays DEF Fails
  <2>9. CASE Count(v)
    BY <1>1, <1>2, <1>4, <2>9, InvStays DEF Count
  <2> QED
    BY <1>10, <2>1, <2>3, <2>4, <2>5, <2>6, <2>7, <2>8, <2>9 DEF Request
<1> QED
  BY <1>5, <1>6, <1>7, <1>8, <1>10 DEF Next

\* The invariant, from the beginning.
LEMMA InvAlways == Spec => [](TypeOK /\ Inv)
<1>1. Init => Inv
  BY NothingGood, MessageViewsAssumption DEF Init, Inv
<1>2. TypeOK /\ Inv /\ [Next]_vars => (TypeOK /\ Inv)'
  BY TypeStep, InvStep
<1> QED
  BY <1>1, <1>2, Types, PTL DEF Spec

\* get_chat_messages and get_older_chat_messages: a client that scrolls up misses nothing.
THEOREM WalkIsCompleteHolds == Spec => []WalkIsComplete
<1>1. Inv => WalkIsComplete
  BY DEF Inv, Good, Whole, WalkIsComplete
<1> QED
  BY <1>1, InvAlways, PTL

\* has_more_messages of both.
THEOREM MoreIsTrueHolds == Spec => []MoreIsTrue
<1>1. Inv => MoreIsTrue
  BY DEF Inv, Good, HasOlder, MoreIsTrue, Older
<1> QED
  BY <1>1, InvAlways, PTL

\* is_read of both, computed for one user and shown to either.
THEOREM ReadIsTrueHolds == Spec => []ReadIsTrue
<1>1. Inv => ReadIsTrue
  BY DEF Inv, Good, TrulyRead, ReadIsTrue
<1> QED
  BY <1>1, InvAlways, PTL
=============================================================================
