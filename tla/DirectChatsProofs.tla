-------------------------- MODULE DirectChatsProofs --------------------------
(***************************************************************************)
(* DirectChats for any number of users, requests and views, and any        *)
(* interleaving of their statements and of expiring entries.               *)
(***************************************************************************)
EXTENDS DirectChats, FiniteSetTheorems, TLAPS

-----------------------------------------------------------------------------
(***************************************************************************)
(* The invariant: what a request's step says about the tables              *)
(***************************************************************************)

States == {"start", "chat", "members", "rows", "deleting", "open", "stored", "clearing", "end"}
Answers == {"none", "ok", "refused", "error"}

\* Who may be in a chat.
MembersOK == \A c \in Create : members[c] \in {{}, Pair(c)}

\* A request is answered when it ends.
AnswersOK == \A q \in Request : answer[q] # "none" => pc[q] = "end"

\* A chat is inserted by the request it is named after, a message too.
InsertsOK ==
    /\ \A c \in there : pc[c] \notin {"start", "chat"}
    /\ \A m \in stored : pc[m] # "start"

\* A deletion has a chat whose participants have been inserted or never will be.
TargetsOK ==
    \A d \in Delete :
        /\ pc[d] \in {"deleting", "clearing"} \/ answer[d] = "ok" => target[d] # None
        /\ target[d] # None => pc[target[d]] \notin {"start", "chat", "members"}

Gone(c) ==
    /\ c \notin there /\ members[c] = {} /\ c \notin rows
    /\ \A m \in stored : target[m] # c

\* The chat of a deletion that has got that far is gone.
DeletionsOK ==
    \A d \in Delete : pc[d] = "clearing" \/ answer[d] = "ok" => Gone(target[d])

\* A creation that found an answered one will insert nothing; if it found none, there will be none.
CreationsOK ==
    \A r, s \in Create :
        r \in before[s] /\ Pair(r) = Pair(s) =>
            /\ pc[r] = "end"
            /\ (r \in there /\ Actor[s] \in members[r]) => (s \notin there /\ pc[s] = "end")

\* A deletion is at work on its chat or has failed.
Busy(d) == pc[d] = "deleting" \/ answer[d] = "error"

\* A chat without participants has a request that will finish with it, or has reported it.
OrphansOK ==
    \A c \in there : members[c] = {} =>
        \/ pc[c] = "members" \/ answer[c] = "error"
        \/ \E d \in Delete : target[d] = c /\ Busy(d)

-----------------------------------------------------------------------------
(***************************************************************************)
(* Steps of a request                                                      *)
(***************************************************************************)

\* How the steps of a request move its counter and its answer.
LEMMA GoesMoves ==
  ASSUME TypeOK, NEW q \in Request, NEW to \in States, Goes(q, to)
  PROVE  /\ pc' \in [Request -> States] /\ answer' = answer /\ todo' = todo
         /\ pc'[q] = to /\ \A x \in Request \ {q} : pc'[x] = pc[x]
  BY DEF TypeOK, Goes, States

LEMMA EndsMoves ==
  ASSUME TypeOK, NEW q \in Request, NEW with \in Answers, Ends(q, with)
  PROVE  /\ pc' \in [Request -> States] /\ answer' \in [Request -> Answers]
         /\ todo' \in [Request -> Seq(User)]
         /\ pc'[q] = "end" /\ answer'[q] = with
         /\ \A x \in Request \ {q} : pc'[x] = pc[x] /\ answer'[x] = answer[x]
<1>1. << >> \in Seq(User)
  OBVIOUS
<1> QED
  BY <1>1 DEF TypeOK, Ends, States, Answers

LEMMA ClearsMoves ==
  ASSUME TypeOK, NEW q \in Request, NEW users \in Seq(User), Clears(q, users)
  PROVE  /\ pc' \in [Request -> States] /\ answer' = answer
         /\ todo' \in [Request -> Seq(User)]
         /\ pc'[q] = "clearing" /\ \A x \in Request \ {q} : pc'[x] = pc[x]
  BY DEF TypeOK, Clears, States

\* The users of a chat, in any order, are a sequence.
LEMMA OrdersAreSequences ==
  ASSUME NEW S \in SUBSET User, IsFiniteSet(S), NEW o \in Orders(S)
  PROVE  o \in Seq(User)
<1>1. Cardinality(S) \in Nat
  BY FS_CardinalityType
<1>2. o \in [1..Cardinality(S) -> User]
  BY DEF Orders
<1> QED
  BY <1>1, <1>2

LEMMA PairFinite ==
  ASSUME NEW r \in Create
  PROVE  Pair(r) \in SUBSET User /\ IsFiniteSet(Pair(r))
<1>1. Actor[r] \in User /\ Recipient[r] \in User
  BY DirectChatsAssumption DEF Request
<1>2. IsFiniteSet({Actor[r]}) /\ IsFiniteSet({Recipient[r]})
  BY FS_Singleton
<1>3. Pair(r) = {Actor[r]} \cup {Recipient[r]}
  BY DEF Pair
<1> QED
  BY <1>1, <1>2, <1>3, FS_Union

\* The three kinds of requests.
LEMMA Kinds ==
  /\ Create \subseteq Request /\ Delete \subseteq Request /\ Send \subseteq Request
  /\ Create \cap Delete = {} /\ Create \cap Send = {} /\ Delete \cap Send = {}
  /\ None \notin Create
  BY DirectChatsAssumption DEF Request

-----------------------------------------------------------------------------
(***************************************************************************)
(* Types                                                                   *)
(***************************************************************************)

\* The steps of a creation keep the types.
LEMMA CreateType ==
  ASSUME TypeOK, NEW r \in Create, Check(r) \/ InsertChat(r) \/ InsertMembers(r) \/ InsertRows(r)
  PROVE  TypeOK'
<1>1. r \in Request /\ "refused" \in Answers /\ "error" \in Answers
      /\ "chat" \in States /\ "members" \in States /\ "rows" \in States
  BY Kinds DEF Answers, States
<1>2. CASE Check(r)
  <2>1. Goes(r, "chat") \/ Ends(r, "refused") \/ Ends(r, "error")
    BY <1>2 DEF Check
  <2>2. /\ pc' \in [Request -> States] /\ answer' \in [Request -> Answers]
        /\ todo' \in [Request -> Seq(User)]
    BY <1>1, <2>1, GoesMoves, EndsMoves DEF TypeOK, Answers
  <2> QED
    BY <1>2, <2>2 DEF Check, tables, cache, TypeOK, States, Answers
<1>3. CASE InsertChat(r)
  <2>1. pc' \in [Request -> States] /\ answer' = answer /\ todo' = todo
    BY <1>1, <1>3, GoesMoves DEF InsertChat
  <2> QED
    BY <1>3, <2>1 DEF InsertChat, cache, TypeOK, States
<1>4. CASE InsertMembers(r)
  <2>1. /\ pc' \in [Request -> States] /\ answer' \in [Request -> Answers]
        /\ todo' \in [Request -> Seq(User)]
    <3>1. Goes(r, "rows") \/ Ends(r, "error")
      BY <1>4 DEF InsertMembers
    <3> QED
      BY <1>1, <3>1, GoesMoves, EndsMoves DEF TypeOK, States, Answers
  <2>2. members' \in [Create -> SUBSET User]
    <3>1. members' = [members EXCEPT ![r] = Pair(r)] \/ members' = members
      BY <1>4 DEF InsertMembers
    <3> QED
      BY <3>1, PairFinite DEF TypeOK
  <2> QED
    BY <1>4, <2>1, <2>2 DEF InsertMembers, cache, TypeOK, States, Answers
<1>5. CASE InsertRows(r)
  <2>1. <<Actor[r], Recipient[r]>> \in Seq(User)
    BY <1>1, DirectChatsAssumption
  <2>2. Clears(r, <<Actor[r], Recipient[r]>>) \/ Ends(r, "error")
    BY <1>5 DEF InsertRows
  <2>3. /\ pc' \in [Request -> States] /\ answer' \in [Request -> Answers]
        /\ todo' \in [Request -> Seq(User)]
    BY <1>1, <2>1, <2>2, ClearsMoves, EndsMoves DEF TypeOK, Answers
  <2>4. rows' \subseteq Create
    BY <1>5 DEF InsertRows, TypeOK
  <2> QED
    BY <1>5, <2>3, <2>4 DEF InsertRows, cache, TypeOK, States, Answers
<1> QED
  BY <1>2, <1>3, <1>4, <1>5

\* The steps of a deletion keep them.
LEMMA LoadType ==
  ASSUME TypeOK, NEW d \in Delete, NEW c \in Create, Load(d, c)
  PROVE  TypeOK'
<1>1. d \in Request /\ "refused" \in Answers /\ "deleting" \in States
  BY Kinds DEF Answers, States
<1>2. Goes(d, "deleting") \/ Ends(d, "refused")
  BY DEF Load
<1>3. /\ pc' \in [Request -> States] /\ answer' \in [Request -> Answers]
      /\ todo' \in [Request -> Seq(User)]
  BY <1>1, <1>2, GoesMoves, EndsMoves DEF TypeOK, Answers
<1>4. /\ target' \in [Delete \cup Send -> Create \cup {None}]
      /\ loaded' \in [Delete -> SUBSET Send]
      /\ left' \in [Delete -> SUBSET Dependents]
  <2>1. MessagesOf(c) \in SUBSET Send /\ Dependents \ (IF c \in rows THEN {} ELSE {"rows"}) \in SUBSET Dependents
    BY DEF TypeOK, MessagesOf
  <2>2. target' = [target EXCEPT ![d] = c] \/ target' = target
    BY DEF Load
  <2>3. loaded' = [loaded EXCEPT ![d] = MessagesOf(c)] \/ loaded' = loaded
    BY DEF Load
  <2>4. left' = [left EXCEPT ![d] = Dependents \ (IF c \in rows THEN {} ELSE {"rows"})] \/ left' = left
    BY DEF Load
  <2>5. target' \in [Delete \cup Send -> Create \cup {None}]
    BY <2>2 DEF TypeOK
  <2>6. loaded' \in [Delete -> SUBSET Send]
    BY <2>1, <2>3 DEF TypeOK
  <2>7. left' \in [Delete -> SUBSET Dependents]
    BY <2>1, <2>4 DEF TypeOK
  <2> QED
    BY <2>5, <2>6, <2>7
<1> QED
  BY <1>3, <1>4 DEF Load, tables, cache, TypeOK, States, Answers

LEMMA DeleteType ==
  ASSUME TypeOK, TargetsOK, NEW d \in Delete,
         DeleteChat(d) \/ \E t \in Dependents : DeleteDependents(d, t)
  PROVE  TypeOK'
<1>1. d \in Request /\ "error" \in Answers
  BY Kinds DEF Answers
<1>2. pc[d] = "deleting"
  BY DEF DeleteChat, DeleteDependents
<1>3. target[d] \in Create
  BY <1>2 DEF TargetsOK, TypeOK
<1>4. ASSUME NEW t \in Dependents, DeleteDependents(d, t) PROVE TypeOK'
  <2>1. left' \in [Delete -> SUBSET Dependents]
    BY <1>4 DEF DeleteDependents, TypeOK
  <2>2. stored' \subseteq Send /\ rows' \subseteq Create /\ members' \in [Create -> SUBSET User]
    BY <1>3, <1>4 DEF DeleteDependents, TypeOK
  <2> QED
    BY <1>4, <2>1, <2>2 DEF DeleteDependents, cache, TypeOK
<1>5. CASE DeleteChat(d)
  <2>1. ASSUME NEW o \in Orders(Pair(target[d])) PROVE o \in Seq(User)
    BY <1>3, PairFinite, OrdersAreSequences
  <2>2. (\E o \in Orders(Pair(target[d])) : Clears(d, o)) \/ Ends(d, "error")
    BY <1>5 DEF DeleteChat, AnswerRefused
  <2>3. /\ pc' \in [Request -> States] /\ answer' \in [Request -> Answers]
        /\ todo' \in [Request -> Seq(User)]
    BY <1>1, <2>1, <2>2, ClearsMoves, EndsMoves DEF TypeOK, Answers
  <2>4. there' \subseteq Create
    BY <1>5 DEF DeleteChat, TypeOK
  <2> QED
    BY <1>5, <2>3, <2>4 DEF DeleteChat, cache, TypeOK, States, Answers
<1> QED
  BY <1>4, <1>5

\* The steps of a message keep them.
LEMMA SendType ==
  ASSUME TypeOK, MembersOK, NEW m \in Send,
         Store(m) \/ Touch(m) \/ \E c \in Create : Open(m, c)
  PROVE  TypeOK'
<1>1. m \in Request /\ "error" \in Answers /\ "open" \in States /\ "stored" \in States
  BY Kinds DEF Answers, States
<1>2. ASSUME NEW c \in Create, Open(m, c) PROVE TypeOK'
  <2>1. pc' \in [Request -> States] /\ answer' = answer /\ todo' = todo
    BY <1>1, <1>2, GoesMoves DEF Open
  <2>2. target' \in [Delete \cup Send -> Create \cup {None}]
    BY <1>2 DEF Open, TypeOK
  <2> QED
    BY <1>2, <2>1, <2>2 DEF Open, tables, cache, TypeOK, States
<1>3. CASE Store(m)
  <2>1. Goes(m, "stored") \/ Ends(m, "error")
    BY <1>3 DEF Store
  <2>2. /\ pc' \in [Request -> States] /\ answer' \in [Request -> Answers]
        /\ todo' \in [Request -> Seq(User)]
    BY <1>1, <2>1, GoesMoves, EndsMoves DEF TypeOK, Answers
  <2>3. stored' \subseteq Send
    BY <1>3 DEF Store, TypeOK
  <2> QED
    BY <1>3, <2>2, <2>3 DEF Store, cache, TypeOK, States, Answers
<1>4. CASE Touch(m)
  <2>1. \/ target[m] \in there /\ \E o \in Orders(members[target[m]]) : Clears(m, o)
        \/ Ends(m, "error")
    BY <1>4 DEF Touch
  <2>2. ASSUME target[m] \in there, NEW o \in Orders(members[target[m]]) PROVE o \in Seq(User)
    <3>1. target[m] \in Create
      BY <2>2 DEF TypeOK
    <3>2. members[target[m]] \in SUBSET User /\ IsFiniteSet(members[target[m]])
      BY <3>1, PairFinite, FS_EmptySet DEF MembersOK
    <3> QED
      BY <2>2, <3>2, OrdersAreSequences
  <2>3. /\ pc' \in [Request -> States] /\ answer' \in [Request -> Answers]
        /\ todo' \in [Request -> Seq(User)]
    BY <1>1, <2>1, <2>2, ClearsMoves, EndsMoves DEF TypeOK, Answers
  <2> QED
    BY <1>4, <2>3 DEF Touch, tables, cache, TypeOK, States, Answers
<1> QED
  BY <1>2, <1>3, <1>4

\* Clearing, failing, viewing and expiring keep them.
LEMMA ClearType ==
  ASSUME TypeOK, NEW q \in Request, Clear(q) \/ Fails(q)
  PROVE  TypeOK'
<1>1. "ok" \in Answers /\ "error" \in Answers
  BY DEF Answers
<1>2. CASE Fails(q)
  <2>1. /\ pc' \in [Request -> States] /\ answer' \in [Request -> Answers]
        /\ todo' \in [Request -> Seq(User)]
    BY <1>1, <1>2, EndsMoves DEF Fails
  <2> QED
    BY <1>2, <2>1 DEF Fails, tables, cache, TypeOK, States, Answers
<1>3. CASE Clear(q) /\ todo[q] = << >>
  <2>1. Ends(q, "ok") /\ list' = list
    BY <1>3 DEF Clear
  <2>2. /\ pc' \in [Request -> States] /\ answer' \in [Request -> Answers]
        /\ todo' \in [Request -> Seq(User)]
    BY <1>1, <2>1, EndsMoves
  <2> QED
    BY <1>3, <2>1, <2>2 DEF Clear, tables, TypeOK, States, Answers
<1>4. CASE Clear(q) /\ todo[q] # << >>
  <2>1. /\ list' = [list EXCEPT ![Head(todo[q])] = {}]
        /\ todo' = [todo EXCEPT ![q] = Tail(@)] /\ pc' = pc /\ answer' = answer
    BY <1>4 DEF Clear
  <2>2. todo[q] \in Seq(User)
    BY DEF TypeOK
  <2>3. Tail(todo[q]) \in Seq(User)
    BY <1>4, <2>2
  <2>4. todo' \in [Request -> Seq(User)] /\ list' \in [User -> SUBSET SUBSET Create]
    BY <2>1, <2>3 DEF TypeOK
  <2> QED
    BY <1>4, <2>1, <2>4 DEF Clear, tables, TypeOK
<1> QED
  BY <1>2, <1>3, <1>4

LEMMA ViewType ==
  ASSUME TypeOK, (\E v \in View : Read(v) \/ Put(v)) \/ (\E u \in User : Expire(u))
  PROVE  TypeOK'
<1>1. ASSUME NEW v \in View, Read(v) PROVE TypeOK'
  <2>1. ListOf(Actor[v]) \in SUBSET Create
    BY DEF ListOf, TypeOK
  <2> QED
    BY <1>1, <2>1 DEF Read, tables, TypeOK
<1>2. ASSUME NEW v \in View, Put(v) PROVE TypeOK'
  BY <1>2 DEF Put, tables, TypeOK
<1>3. ASSUME NEW u \in User, Expire(u) PROVE TypeOK'
  BY <1>3 DEF Expire, tables, TypeOK
<1> QED
  BY <1>1, <1>2, <1>3

LEMMA TypeStep ==
  ASSUME TypeOK, MembersOK, TargetsOK, [Next]_vars
  PROVE  TypeOK'
<1>1. CASE UNCHANGED vars
  BY <1>1 DEF vars, tables, cache, TypeOK
<1>2. CASE Next
  BY <1>2, CreateType, LoadType, DeleteType, SendType, ClearType, ViewType DEF Next, Step
<1> QED
  BY <1>1, <1>2

-----------------------------------------------------------------------------
(***************************************************************************)
(* The invariant                                                           *)
(***************************************************************************)

Inv ==
    /\ TypeOK
    /\ MembersOK
    /\ AnswersOK
    /\ InsertsOK
    /\ TargetsOK
    /\ DeletionsOK
    /\ CreationsOK
    /\ OrphansOK

LEMMA InvInit == Init => Inv
<1> SUFFICES ASSUME Init PROVE Inv
  OBVIOUS
<1>1. << >> \in Seq(User) /\ Create \subseteq Request
  BY Kinds
<1>2. TypeOK
  BY <1>1 DEF Init, TypeOK
<1> QED
  BY <1>1, <1>2, Kinds DEF Init, Inv, MembersOK, AnswersOK, InsertsOK, TargetsOK, DeletionsOK, CreationsOK,
     OrphansOK

\* A request q moves on to a place, or ends with an answer, and the others stay.
Moves(q, to) ==
    /\ pc'[q] = to
    /\ \A x \in Request \ {q} : pc'[x] = pc[x]
    /\ \A x \in Request : answer'[x] = answer[x]

Stops(q, with) ==
    /\ pc'[q] = "end" /\ answer'[q] = with
    /\ \A x \in Request \ {q} : pc'[x] = pc[x] /\ answer'[x] = answer[x]

\* The types that the steps below need.
LEMMA TypeParts ==
  TypeOK =>
    /\ there \subseteq Create /\ rows \subseteq Create /\ stored \subseteq Send
    /\ members \in [Create -> SUBSET User]
    /\ pc \in [Request -> States]
    /\ answer \in [Request -> Answers]
    /\ target \in [Delete \cup Send -> Create \cup {None}]
    /\ before \in [Create -> SUBSET Create]
  BY DEF TypeOK, States, Answers

\* A check that finds an answered chat ends the request.
LEMMA CheckKeeps ==
  ASSUME Inv, TypeOK', NEW r \in Create, Check(r)
  PROVE  Inv'
<1>1. r \in Request /\ pc[r] = "start"
  BY Kinds DEF Check
<1>2. \/ Existing(r) = {} /\ Moves(r, "chat")
      \/ Existing(r) # {} /\ (Stops(r, "refused") \/ Stops(r, "error"))
  <2>1. Existing(r) = {} => Cardinality(Existing(r)) = 0
    BY FS_EmptySet
  <2>2. \/ Existing(r) = {} /\ Goes(r, "chat")
        \/ Existing(r) # {} /\ (Ends(r, "refused") \/ Ends(r, "error"))
    BY <2>1 DEF Check
  <2>3. Goes(r, "chat") => Moves(r, "chat")
    BY <1>1, GoesMoves DEF Inv, Moves, States
  <2>4. ASSUME NEW with \in Answers, Ends(r, with) PROVE Stops(r, with)
    BY <1>1, <2>4, EndsMoves DEF Inv, Stops
  <2> QED
    BY <2>2, <2>3, <2>4 DEF Answers
<1>3. there' = there /\ members' = members /\ rows' = rows /\ stored' = stored
      /\ target' = target
      /\ before' = [before EXCEPT ![r] = {c \in Create : answer[c] = "ok"}]
  BY DEF Check, tables
<1> USE Kinds, TypeParts DEF Inv
<1>4. MembersOK'
  BY <1>1, <1>2, <1>3 DEF MembersOK
<1>5. AnswersOK'
  BY <1>1, <1>2, <1>3 DEF AnswersOK, Moves, Stops
<1>6. InsertsOK'
  BY <1>1, <1>2, <1>3 DEF InsertsOK, Moves, Stops
<1>7. TargetsOK'
  BY <1>1, <1>2, <1>3 DEF TargetsOK, Moves, Stops
<1>8. DeletionsOK'
  BY <1>1, <1>2, <1>3 DEF DeletionsOK, Gone, Moves, Stops
<1>9. CreationsOK'
  <2>1. ASSUME NEW r1 \in Create, NEW s1 \in Create, r1 \in before'[s1], Pair(r1) = Pair(s1)
        PROVE  /\ pc'[r1] = "end"
               /\ (r1 \in there' /\ Actor[s1] \in members'[r1]) => (s1 \notin there' /\ pc'[s1] = "end")
    <3>1. CASE s1 # r
      <4>1. r1 \in before[s1]
        BY <1>1, <1>2, <1>3, <2>1, <3>1
      <4> QED
        BY <1>1, <1>2, <1>3, <2>1, <4>1 DEF CreationsOK, Moves, Stops
    <3>2. CASE s1 = r
      <4>1. answer[r1] = "ok" /\ pc[r1] = "end" /\ r1 # r
        BY <1>1, <1>2, <1>3, <2>1, <3>2 DEF AnswersOK
      <4>2. pc'[r1] = "end"
        BY <1>1, <1>2, <1>3, <4>1 DEF Moves, Stops
      <4>3. r \notin there
        BY <1>1, <1>2, <1>3 DEF InsertsOK
      <4>4. ASSUME r1 \in there, Actor[r] \in members[r1] PROVE pc'[r] = "end"
        <5>1. r1 \in Existing(r)
          BY <2>1, <3>2, <4>4 DEF MembersOK, Existing
        <5> QED
          BY <1>1, <1>2, <1>3, <5>1 DEF Stops
      <4> QED
        BY <1>1, <1>2, <1>3, <3>2, <4>2, <4>3, <4>4
    <3> QED
      BY <3>1, <3>2
  <2> QED
    BY <2>1 DEF CreationsOK
<1>10. OrphansOK'
  <2>1. ASSUME NEW c1 \in there', members'[c1] = {}
        PROVE  \/ pc'[c1] = "members" \/ answer'[c1] = "error"
               \/ \E e \in Delete : target'[e] = c1 /\ Busy(e)'
    <3>1. c1 \in Request /\ c1 \in there /\ members[c1] = {}
      BY <1>1, <1>2, <1>3, <2>1
    <3>2. CASE pc[c1] = "members" \/ answer[c1] = "error"
      BY <1>1, <1>2, <1>3, <3>1, <3>2 DEF Moves, Stops, AnswersOK
    <3>3. ASSUME NEW e \in Delete, target[e] = c1, Busy(e)
          PROVE  target'[e] = c1 /\ Busy(e)'
      BY <1>1, <1>2, <1>3, <3>1, <3>3 DEF Moves, Stops, AnswersOK, Busy
    <3> QED
      BY <3>1, <3>2, <3>3 DEF OrphansOK
  <2> QED
    BY <2>1 DEF OrphansOK
<1> QED
  BY <1>4, <1>5, <1>6, <1>7, <1>8, <1>9, <1>10

\* A chat is inserted.
LEMMA InsertChatKeeps ==
  ASSUME Inv, TypeOK', NEW r \in Create, InsertChat(r)
  PROVE  Inv'
<1>1. r \in Request /\ pc[r] = "chat"
  BY Kinds DEF InsertChat
<1>2. Moves(r, "members")
  BY <1>1, GoesMoves DEF InsertChat, Inv, Moves, States
<1>3. there' = there \cup {r} /\ members' = members /\ rows' = rows /\ stored' = stored
      /\ target' = target /\ before' = before
  BY DEF InsertChat
<1> USE Kinds, TypeParts DEF Inv
<1>4. MembersOK'
  BY <1>1, <1>2, <1>3 DEF MembersOK
<1>5. AnswersOK'
  BY <1>1, <1>2, <1>3 DEF AnswersOK, Moves, Stops
<1>6. InsertsOK'
  BY <1>1, <1>2, <1>3 DEF InsertsOK, Moves, Stops
<1>7. TargetsOK'
  BY <1>1, <1>2, <1>3 DEF TargetsOK, Moves, Stops
<1>8. DeletionsOK'
  <2>1. ASSUME NEW e \in Delete, pc'[e] = "clearing" \/ answer'[e] = "ok" PROVE Gone(target[e])'
    <3>1. /\ pc[e] = "clearing" \/ answer[e] = "ok"
          /\ target'[e] = target[e] /\ target[e] \in Create
      BY <1>1, <1>2, <1>3, <2>1 DEF Moves, Stops, TargetsOK, AnswersOK, States, Answers
    <3>2. Gone(target[e]) /\ pc[target[e]] \notin {"start", "chat", "members"}
      BY <3>1 DEF DeletionsOK, TargetsOK
    <3>3. target[e] \notin there' /\ members'[target[e]] = {} /\ target[e] \notin rows'
      BY <1>1, <1>2, <1>3, <3>1, <3>2 DEF Gone
    <3>4. \A m \in stored' : target'[m] # target[e]
      BY <1>1, <1>2, <1>3, <3>1, <3>2 DEF Gone, InsertsOK
    <3> QED
      BY <3>1, <3>3, <3>4 DEF Gone
  <2> QED
    BY <2>1 DEF DeletionsOK
<1>9. CreationsOK'
  BY <1>1, <1>2, <1>3 DEF CreationsOK, Moves, Stops
<1>10. OrphansOK'
  BY <1>1, <1>2, <1>3 DEF OrphansOK, Busy, Moves, Stops
<1> QED
  BY <1>4, <1>5, <1>6, <1>7, <1>8, <1>9, <1>10

\* Its participants are inserted: two of them, or else it fails.
LEMMA InsertMembersKeeps ==
  ASSUME Inv, TypeOK', NEW r \in Create, InsertMembers(r), Recipient[r] # Actor[r]
  PROVE  Inv'
<1>1. r \in Request /\ pc[r] = "members"
  BY Kinds DEF InsertMembers
<1>2. Moves(r, "rows")
  BY <1>1, GoesMoves DEF InsertMembers, Inv, Moves, States
<1>3. there' = there /\ members' = [members EXCEPT ![r] = Pair(r)] /\ rows' = rows /\ stored' = stored
      /\ target' = target /\ before' = before
  BY DEF InsertMembers
<1>4. Pair(r) # {}
  BY DEF Pair
<1> USE Kinds, TypeParts DEF Inv
<1>5. MembersOK'
  BY <1>1, <1>2, <1>3, <1>4 DEF MembersOK
<1>6. AnswersOK'
  BY <1>1, <1>2, <1>3, <1>4 DEF AnswersOK, Moves, Stops
<1>7. InsertsOK'
  BY <1>1, <1>2, <1>3, <1>4 DEF InsertsOK, Moves, Stops
<1>8. TargetsOK'
  BY <1>1, <1>2, <1>3, <1>4 DEF TargetsOK, Moves, Stops
<1>9. DeletionsOK'
  <2>1. ASSUME NEW e \in Delete, pc'[e] = "clearing" \/ answer'[e] = "ok" PROVE Gone(target[e])'
    <3>1. /\ pc[e] = "clearing" \/ answer[e] = "ok"
          /\ target'[e] = target[e] /\ target[e] \in Create
      BY <1>1, <1>2, <1>3, <1>4, <2>1 DEF Moves, Stops, TargetsOK, AnswersOK, States, Answers
    <3>2. Gone(target[e]) /\ pc[target[e]] \notin {"start", "chat", "members"}
      BY <3>1 DEF DeletionsOK, TargetsOK
    <3>3. target[e] \notin there' /\ members'[target[e]] = {} /\ target[e] \notin rows'
      BY <1>1, <1>2, <1>3, <1>4, <3>1, <3>2 DEF Gone
    <3>4. \A m \in stored' : target'[m] # target[e]
      BY <1>1, <1>2, <1>3, <1>4, <3>1, <3>2 DEF Gone, InsertsOK
    <3> QED
      BY <3>1, <3>3, <3>4 DEF Gone
  <2> QED
    BY <2>1 DEF DeletionsOK
<1>10. CreationsOK'
  BY <1>1, <1>2, <1>3, <1>4 DEF CreationsOK, Moves, Stops
<1>11. OrphansOK'
  BY <1>1, <1>2, <1>3, <1>4 DEF OrphansOK, Busy, Moves, Stops
<1> QED
  BY <1>5, <1>6, <1>7, <1>8, <1>9, <1>10, <1>11

\* A chat with oneself goes the way of a failed statement.
LEMMA WithOneselfFails ==
  ASSUME NEW r \in Create, InsertMembers(r), Recipient[r] = Actor[r]
  PROVE  Fails(r)
BY Kinds DEF InsertMembers, Fails, tables

\* Its read statuses are inserted, or the chat is gone.
LEMMA InsertRowsKeeps ==
  ASSUME Inv, TypeOK', NEW r \in Create, InsertRows(r)
  PROVE  Inv'
<1>1. r \in Request /\ pc[r] = "rows"
  BY Kinds DEF InsertRows
<1>2. Actor[r] \in User /\ Recipient[r] \in User
  BY <1>1, DirectChatsAssumption
<1>3. \/ r \in there /\ rows' = rows \cup {r} /\ Moves(r, "clearing")
      \/ rows' = rows /\ Stops(r, "error")
  <2>1. \/ r \in there /\ rows' = rows \cup {r} /\ Clears(r, <<Actor[r], Recipient[r]>>)
        \/ rows' = rows /\ Ends(r, "error")
    BY DEF InsertRows, HasKey
  <2>2. Clears(r, <<Actor[r], Recipient[r]>>) => Moves(r, "clearing")
    <3>1. <<Actor[r], Recipient[r]>> \in Seq(User)
      BY <1>2
    <3> QED
      BY <1>1, <3>1, ClearsMoves DEF Inv, Moves
  <2>3. Ends(r, "error") => Stops(r, "error")
    BY <1>1, EndsMoves DEF Inv, Stops, Answers
  <2> QED
    BY <2>1, <2>2, <2>3
<1>4. there' = there /\ members' = members /\ stored' = stored
      /\ target' = target /\ before' = before
  BY DEF InsertRows
<1> USE Kinds, TypeParts DEF Inv
<1>5. MembersOK'
  BY <1>1, <1>2, <1>3, <1>4 DEF MembersOK
<1>6. AnswersOK'
  BY <1>1, <1>2, <1>3, <1>4 DEF AnswersOK, Moves, Stops
<1>7. InsertsOK'
  BY <1>1, <1>2, <1>3, <1>4 DEF InsertsOK, Moves, Stops
<1>8. TargetsOK'
  BY <1>1, <1>2, <1>3, <1>4 DEF TargetsOK, Moves, Stops
<1>9. DeletionsOK'
  BY <1>1, <1>2, <1>3, <1>4 DEF DeletionsOK, Gone, Moves, Stops
<1>10. CreationsOK'
  BY <1>1, <1>2, <1>3, <1>4 DEF CreationsOK, Moves, Stops
<1>11. OrphansOK'
  BY <1>1, <1>2, <1>3, <1>4 DEF OrphansOK, Busy, Moves, Stops
<1> QED
  BY <1>5, <1>6, <1>7, <1>8, <1>9, <1>10, <1>11

\* A chat is loaded to be deleted.
LEMMA LoadKeeps ==
  ASSUME Inv, TypeOK', NEW d \in Delete, NEW c \in Create, Load(d, c)
  PROVE  Inv'
<1>1. d \in Request /\ pc[d] = "start" /\ pc[c] \notin {"start", "chat", "members"}
  BY Kinds DEF Load
<1>2. \/ target' = [target EXCEPT ![d] = c] /\ Moves(d, "deleting")
      \/ target' = target /\ Stops(d, "refused")
  BY <1>1, GoesMoves, EndsMoves DEF Load, Inv, Moves, Stops, States, Answers
<1>3. there' = there /\ members' = members /\ rows' = rows /\ stored' = stored
      /\ before' = before
  BY DEF Load, tables
<1> USE Kinds, TypeParts DEF Inv
<1>4. MembersOK'
  BY <1>1, <1>2, <1>3 DEF MembersOK
<1>5. AnswersOK'
  BY <1>1, <1>2, <1>3 DEF AnswersOK, Moves, Stops
<1>6. InsertsOK'
  BY <1>1, <1>2, <1>3 DEF InsertsOK, Moves, Stops
<1>7. TargetsOK'
  BY <1>1, <1>2, <1>3 DEF TargetsOK, Moves, Stops
<1>8. DeletionsOK'
  <2>1. ASSUME NEW e \in Delete, pc'[e] = "clearing" \/ answer'[e] = "ok" PROVE Gone(target[e])'
    <3>1. /\ pc[e] = "clearing" \/ answer[e] = "ok"
          /\ target'[e] = target[e] /\ target[e] \in Create
      BY <1>1, <1>2, <1>3, <2>1 DEF Moves, Stops, TargetsOK, AnswersOK, States, Answers
    <3>2. Gone(target[e]) /\ pc[target[e]] \notin {"start", "chat", "members"}
      BY <3>1 DEF DeletionsOK, TargetsOK
    <3>3. target[e] \notin there' /\ members'[target[e]] = {} /\ target[e] \notin rows'
      BY <1>1, <1>2, <1>3, <3>1, <3>2 DEF Gone
    <3>4. \A m \in stored' : target'[m] # target[e]
      BY <1>1, <1>2, <1>3, <3>1, <3>2 DEF Gone, InsertsOK
    <3> QED
      BY <3>1, <3>3, <3>4 DEF Gone
  <2> QED
    BY <2>1 DEF DeletionsOK
<1>9. CreationsOK'
  BY <1>1, <1>2, <1>3 DEF CreationsOK, Moves, Stops
<1>10. OrphansOK'
  <2>1. ASSUME NEW c1 \in there', members'[c1] = {}
        PROVE  \/ pc'[c1] = "members" \/ answer'[c1] = "error"
               \/ \E e \in Delete : target'[e] = c1 /\ Busy(e)'
    <3>1. c1 \in Request /\ c1 \in there /\ members[c1] = {}
      BY <1>1, <1>2, <1>3, <2>1
    <3>2. CASE pc[c1] = "members" \/ answer[c1] = "error"
      BY <1>1, <1>2, <1>3, <3>1, <3>2 DEF Moves, Stops, AnswersOK
    <3>3. ASSUME NEW e \in Delete, target[e] = c1, Busy(e)
          PROVE  target'[e] = c1 /\ Busy(e)'
      BY <1>1, <1>2, <1>3, <3>1, <3>3 DEF Moves, Stops, AnswersOK, Busy
    <3> QED
      BY <3>1, <3>2, <3>3 DEF OrphansOK
  <2> QED
    BY <2>1 DEF OrphansOK
<1> QED
  BY <1>4, <1>5, <1>6, <1>7, <1>8, <1>9, <1>10

\* Rows that hang on a chat are deleted.
LEMMA DependentsKeep ==
  ASSUME Inv, TypeOK', NEW d \in Delete, NEW t \in Dependents, DeleteDependents(d, t)
  PROVE  Inv'
<1>1. d \in Request /\ pc[d] = "deleting" /\ target[d] \in Create
  BY Kinds DEF DeleteDependents, Inv, TargetsOK, TypeOK
<1>2. there' = there /\ rows' \subseteq rows /\ stored' \subseteq stored
      /\ (members' = members \/ members' = [members EXCEPT ![target[d]] = {}])
  BY DEF DeleteDependents
<1>3. pc' = pc /\ answer' = answer /\ target' = target /\ before' = before
  BY DEF DeleteDependents
<1> USE Kinds, TypeParts DEF Inv
<1>4. MembersOK'
  BY <1>1, <1>2, <1>3 DEF MembersOK
<1>5. AnswersOK'
  BY <1>1, <1>2, <1>3 DEF AnswersOK, Moves, Stops
<1>6. InsertsOK'
  BY <1>1, <1>2, <1>3 DEF InsertsOK, Moves, Stops
<1>7. TargetsOK'
  BY <1>1, <1>2, <1>3 DEF TargetsOK, Moves, Stops
<1>8. DeletionsOK'
  <2>1. ASSUME NEW e \in Delete, pc'[e] = "clearing" \/ answer'[e] = "ok" PROVE Gone(target[e])'
    <3>1. /\ pc[e] = "clearing" \/ answer[e] = "ok"
          /\ target'[e] = target[e] /\ target[e] \in Create
      BY <1>1, <1>2, <1>3, <2>1 DEF Moves, Stops, TargetsOK, AnswersOK, States, Answers
    <3>2. Gone(target[e]) /\ pc[target[e]] \notin {"start", "chat", "members"}
      BY <3>1 DEF DeletionsOK, TargetsOK
    <3>3. target[e] \notin there' /\ members'[target[e]] = {} /\ target[e] \notin rows'
      BY <1>1, <1>2, <1>3, <3>1, <3>2 DEF Gone
    <3>4. \A m \in stored' : target'[m] # target[e]
      BY <1>1, <1>2, <1>3, <3>1, <3>2 DEF Gone, InsertsOK
    <3> QED
      BY <3>1, <3>3, <3>4 DEF Gone
  <2> QED
    BY <2>1 DEF DeletionsOK
<1>9. CreationsOK'
  BY <1>1, <1>2, <1>3 DEF CreationsOK, Moves, Stops
<1>10. OrphansOK'
  BY <1>1, <1>2, <1>3 DEF OrphansOK, Busy, Moves, Stops
<1> QED
  BY <1>4, <1>5, <1>6, <1>7, <1>8, <1>9, <1>10

\* A chat without rows that hang on it is deleted.
LEMMA DeleteChatKeeps ==
  ASSUME Inv, TypeOK', NEW d \in Delete, DeleteChat(d)
  PROVE  Inv'
<1>1. d \in Request /\ pc[d] = "deleting" /\ target[d] \in Create
  BY Kinds DEF DeleteChat, Inv, TargetsOK, TypeOK
<1>2. \A o \in Orders(Pair(target[d])) : o \in Seq(User)
  BY <1>1, PairFinite, OrdersAreSequences
<1>3. \/ there' = there \ {target[d]} /\ Moves(d, "clearing")
         /\ members[target[d]] = {} /\ target[d] \notin rows /\ \A m \in stored : target[m] # target[d]
      \/ there' = there /\ Stops(d, "error")
  BY <1>1, <1>2, ClearsMoves, EndsMoves DEF DeleteChat, AnswerRefused, Referenced, MessagesOf, Inv, Moves, Stops, Answers
<1>4. members' = members /\ rows' = rows /\ stored' = stored
      /\ target' = target /\ before' = before
  BY DEF DeleteChat
<1> USE Kinds, TypeParts DEF Inv
<1>5. MembersOK'
  BY <1>1, <1>2, <1>3, <1>4 DEF MembersOK
<1>6. AnswersOK'
  BY <1>1, <1>2, <1>3, <1>4 DEF AnswersOK, Moves, Stops
<1>7. InsertsOK'
  BY <1>1, <1>2, <1>3, <1>4 DEF InsertsOK, Moves, Stops
<1>8. TargetsOK'
  BY <1>1, <1>2, <1>3, <1>4 DEF TargetsOK, Moves, Stops
<1>9. DeletionsOK'
  BY <1>1, <1>2, <1>3, <1>4 DEF DeletionsOK, Gone, Moves, Stops
<1>10. CreationsOK'
  BY <1>1, <1>2, <1>3, <1>4 DEF CreationsOK, Moves, Stops
<1>11. OrphansOK'
  BY <1>1, <1>2, <1>3, <1>4 DEF OrphansOK, Busy, Moves, Stops
<1> QED
  BY <1>5, <1>6, <1>7, <1>8, <1>9, <1>10, <1>11

\* A message gets its chat.
LEMMA OpenKeeps ==
  ASSUME Inv, TypeOK', NEW m \in Send, NEW c \in Create, Open(m, c)
  PROVE  Inv'
<1>1. m \in Request /\ pc[m] = "start"
  BY Kinds DEF Open
<1>2. target' = [target EXCEPT ![m] = c] /\ Moves(m, "open")
  BY <1>1, GoesMoves DEF Open, Inv, Moves, States
<1>3. there' = there /\ members' = members /\ rows' = rows /\ stored' = stored
      /\ before' = before
  BY DEF Open, tables
<1> USE Kinds, TypeParts DEF Inv
<1>4. MembersOK'
  BY <1>1, <1>2, <1>3 DEF MembersOK
<1>5. AnswersOK'
  BY <1>1, <1>2, <1>3 DEF AnswersOK, Moves, Stops
<1>6. InsertsOK'
  BY <1>1, <1>2, <1>3 DEF InsertsOK, Moves, Stops
<1>7. TargetsOK'
  BY <1>1, <1>2, <1>3 DEF TargetsOK, Moves, Stops
<1>8. DeletionsOK'
  <2>1. ASSUME NEW e \in Delete, pc'[e] = "clearing" \/ answer'[e] = "ok" PROVE Gone(target[e])'
    <3>1. /\ pc[e] = "clearing" \/ answer[e] = "ok"
          /\ target'[e] = target[e] /\ target[e] \in Create
      BY <1>1, <1>2, <1>3, <2>1 DEF Moves, Stops, TargetsOK, AnswersOK, States, Answers
    <3>2. Gone(target[e]) /\ pc[target[e]] \notin {"start", "chat", "members"}
      BY <3>1 DEF DeletionsOK, TargetsOK
    <3>3. target[e] \notin there' /\ members'[target[e]] = {} /\ target[e] \notin rows'
      BY <1>1, <1>2, <1>3, <3>1, <3>2 DEF Gone
    <3>4. \A k \in stored' : target'[k] # target[e]
      BY <1>1, <1>2, <1>3, <3>1, <3>2 DEF Gone, InsertsOK
    <3> QED
      BY <3>1, <3>3, <3>4 DEF Gone
  <2> QED
    BY <2>1 DEF DeletionsOK
<1>9. CreationsOK'
  BY <1>1, <1>2, <1>3 DEF CreationsOK, Moves, Stops
<1>10. OrphansOK'
  BY <1>1, <1>2, <1>3 DEF OrphansOK, Busy, Moves, Stops
<1> QED
  BY <1>4, <1>5, <1>6, <1>7, <1>8, <1>9, <1>10

\* A message is inserted, or its chat is gone.
LEMMA StoreKeeps ==
  ASSUME Inv, TypeOK', NEW m \in Send, Store(m)
  PROVE  Inv'
<1>1. m \in Request /\ pc[m] = "open"
  BY Kinds DEF Store
<1>2. \/ target[m] \in there /\ stored' = stored \cup {m} /\ Moves(m, "stored")
      \/ stored' = stored /\ Stops(m, "error")
  BY <1>1, GoesMoves, EndsMoves DEF Store, HasKey, Inv, Moves, Stops, States, Answers
<1>3. there' = there /\ members' = members /\ rows' = rows
      /\ target' = target /\ before' = before
  BY DEF Store
<1> USE Kinds, TypeParts DEF Inv
<1>4. MembersOK'
  BY <1>1, <1>2, <1>3 DEF MembersOK
<1>5. AnswersOK'
  BY <1>1, <1>2, <1>3 DEF AnswersOK, Moves, Stops
<1>6. InsertsOK'
  BY <1>1, <1>2, <1>3 DEF InsertsOK, Moves, Stops
<1>7. TargetsOK'
  BY <1>1, <1>2, <1>3 DEF TargetsOK, Moves, Stops
<1>8. DeletionsOK'
  BY <1>1, <1>2, <1>3 DEF DeletionsOK, Gone, Moves, Stops
<1>9. CreationsOK'
  BY <1>1, <1>2, <1>3 DEF CreationsOK, Moves, Stops
<1>10. OrphansOK'
  BY <1>1, <1>2, <1>3 DEF OrphansOK, Busy, Moves, Stops
<1> QED
  BY <1>4, <1>5, <1>6, <1>7, <1>8, <1>9, <1>10

\* The chat of a message is stamped.
LEMMA TouchKeeps ==
  ASSUME Inv, TypeOK', NEW m \in Send, Touch(m)
  PROVE  Inv'
<1>1. m \in Request /\ pc[m] = "stored"
  BY Kinds DEF Touch
<1>2. \A o \in Orders(members[target[m]]) : target[m] \in there => o \in Seq(User)
  BY PairFinite, FS_EmptySet, OrdersAreSequences DEF Inv, MembersOK, TypeOK
<1>3. Moves(m, "clearing") \/ Stops(m, "error")
  BY <1>1, <1>2, ClearsMoves, EndsMoves DEF Touch, Inv, Moves, Stops, Answers
<1>4. there' = there /\ members' = members /\ rows' = rows /\ stored' = stored
      /\ target' = target /\ before' = before
  BY DEF Touch, tables
<1> USE Kinds, TypeParts DEF Inv
<1>5. MembersOK'
  BY <1>1, <1>2, <1>3, <1>4 DEF MembersOK
<1>6. AnswersOK'
  BY <1>1, <1>2, <1>3, <1>4 DEF AnswersOK, Moves, Stops
<1>7. InsertsOK'
  BY <1>1, <1>2, <1>3, <1>4 DEF InsertsOK, Moves, Stops
<1>8. TargetsOK'
  BY <1>1, <1>2, <1>3, <1>4 DEF TargetsOK, Moves, Stops
<1>9. DeletionsOK'
  BY <1>1, <1>2, <1>3, <1>4 DEF DeletionsOK, Gone, Moves, Stops
<1>10. CreationsOK'
  BY <1>1, <1>2, <1>3, <1>4 DEF CreationsOK, Moves, Stops
<1>11. OrphansOK'
  BY <1>1, <1>2, <1>3, <1>4 DEF OrphansOK, Busy, Moves, Stops
<1> QED
  BY <1>5, <1>6, <1>7, <1>8, <1>9, <1>10, <1>11

\* A request clears the lists and is answered, or fails.
LEMMA EndKeeps ==
  ASSUME Inv, TypeOK', NEW q \in Request, Clear(q) \/ Fails(q)
  PROVE  Inv'
<1>1. pc[q] \notin {"start", "end"}
  BY DEF Clear, Fails
<1>2. \/ pc' = pc /\ answer' = answer
      \/ pc[q] = "clearing" /\ Stops(q, "ok")
      \/ Stops(q, "error")
  BY <1>1, EndsMoves DEF Clear, Fails, Inv, Stops, Answers
<1>3. there' = there /\ members' = members /\ rows' = rows /\ stored' = stored
      /\ target' = target /\ before' = before
  BY DEF Clear, Fails, tables
<1> USE Kinds, TypeParts DEF Inv
<1>4. MembersOK'
  BY <1>1, <1>2, <1>3 DEF MembersOK
<1>5. AnswersOK'
  BY <1>1, <1>2, <1>3 DEF AnswersOK, Moves, Stops
<1>6. InsertsOK'
  BY <1>1, <1>2, <1>3 DEF InsertsOK, Moves, Stops
<1>7. TargetsOK'
  BY <1>1, <1>2, <1>3 DEF TargetsOK, Moves, Stops
<1>8. DeletionsOK'
  BY <1>1, <1>2, <1>3 DEF DeletionsOK, Gone, Moves, Stops
<1>9. CreationsOK'
  BY <1>1, <1>2, <1>3 DEF CreationsOK, Moves, Stops
<1>10. OrphansOK'
  <2>1. ASSUME NEW c1 \in there', members'[c1] = {}
        PROVE  \/ pc'[c1] = "members" \/ answer'[c1] = "error"
               \/ \E e \in Delete : target'[e] = c1 /\ Busy(e)'
    <3>1. c1 \in Request /\ c1 \in there /\ members[c1] = {}
      BY <1>1, <1>2, <1>3, <2>1
    <3>2. CASE pc[c1] = "members" \/ answer[c1] = "error"
      BY <1>1, <1>2, <1>3, <3>1, <3>2 DEF Moves, Stops, AnswersOK
    <3>3. ASSUME NEW e \in Delete, target[e] = c1, Busy(e)
          PROVE  target'[e] = c1 /\ Busy(e)'
      BY <1>1, <1>2, <1>3, <3>1, <3>3 DEF Moves, Stops, AnswersOK, Busy
    <3> QED
      BY <3>1, <3>2, <3>3 DEF OrphansOK
  <2> QED
    BY <2>1 DEF OrphansOK
<1> QED
  BY <1>4, <1>5, <1>6, <1>7, <1>8, <1>9, <1>10

\* Views and expiring entries, and stuttering steps, leave all of that alone.
LEMMA ViewKeeps ==
  ASSUME Inv, TypeOK',
         UNCHANGED vars \/ (\E v \in View : Read(v) \/ Put(v)) \/ (\E u \in User : Expire(u))
  PROVE  Inv'
<1>1. UNCHANGED <<tables, pc, target, answer, before>>
  BY DEF Read, Put, Expire, vars, tables, cache
<1> QED
  BY <1>1 DEF Inv, tables, MembersOK, AnswersOK, InsertsOK, TargetsOK, DeletionsOK, Gone, CreationsOK,
     OrphansOK, Busy

LEMMA InvNext == Inv /\ [Next]_vars => Inv'
<1> SUFFICES ASSUME Inv, [Next]_vars PROVE Inv'
  OBVIOUS
<1>1. TypeOK'
  BY TypeStep DEF Inv
<1>2. ASSUME NEW q \in Request, Step(q) PROVE Inv'
  <2>1. CASE q \in Create /\ InsertMembers(q)
    <3>1. CASE Recipient[q] # Actor[q]
      BY <1>1, <2>1, <3>1, InsertMembersKeeps
    <3>2. CASE Recipient[q] = Actor[q]
      BY <1>1, <2>1, <3>2, WithOneselfFails, EndKeeps
    <3> QED
      BY <3>1, <3>2
  <2> QED
    BY <1>1, <1>2, <2>1, InsertChatKeeps, InsertRowsKeeps, DeleteChatKeeps, DependentsKeep,
       StoreKeeps, TouchKeeps, EndKeeps DEF Step
<1> QED
  BY <1>1, <1>2, CheckKeeps, LoadKeeps, OpenKeeps, EndKeeps, ViewKeeps DEF Next

LEMMA InvAlways == Spec => []Inv
  BY InvInit, InvNext, PTL DEF Spec

-----------------------------------------------------------------------------
(***************************************************************************)
(* Theorems                                                                *)
(***************************************************************************)

\* The variables keep their types.
THEOREM Types == Spec => []TypeOK
<1>1. Inv => TypeOK
  BY DEF Inv
<1> QED
  BY <1>1, InvAlways, PTL

\* direct_chat_exists is enough for requests that do not overlap.
THEOREM NoSecondAfterAnswerHolds == Spec => []NoSecondAfterAnswer
<1>1. Inv => NoSecondAfterAnswer
  BY DEF Inv, CreationsOK, NoSecondAfterAnswer, ListOf, Pair
<1> QED
  BY <1>1, InvAlways, PTL

\* A request leaves a chat without participants only when it has answered so.
THEOREM OrphansAreReportedHolds == Spec => []OrphansAreReported
<1>1. Inv => OrphansAreReported
  BY DEF Inv, OrphansOK, Busy, OrphansAreReported, AtWork
<1> QED
  BY <1>1, InvAlways, PTL

\* The foreign keys make a deletion that was answered 204 final.
THEOREM DeletedIsGoneHolds == Spec => []DeletedIsGone
<1>1. Inv => DeletedIsGone
  BY DEF Inv, DeletionsOK, Gone, DeletedIsGone, Referenced, MessagesOf
<1> QED
  BY <1>1, InvAlways, PTL
=============================================================================
