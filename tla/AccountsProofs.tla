--------------------------- MODULE AccountsProofs ---------------------------
(***************************************************************************)
(* Accounts for any number of requests, any identifiers and any lifetimes. *)
(***************************************************************************)
EXTENDS Accounts, TLAPS

-----------------------------------------------------------------------------
(***************************************************************************)
(* Types                                                                   *)
(***************************************************************************)

\* What a request does to its answer has the right type.
LEMMA AnswerType ==
  ASSUME TypeOK, NEW q \in Request, NEW to \in {"start", "insert", "clear", "end"},
         NEW with \in {"none", "ok", "conflict", "refused", "error"},
         Goes(q, to) \/ Ends(q, with)
  PROVE  /\ pc' \in [Request -> {"start", "insert", "clear", "end"}]
         /\ answer' \in [Request -> {"none", "ok", "conflict", "refused", "error"}]
  BY DEF TypeOK, Goes, Ends

\* A login hands out a session.
LEMMA SessionType ==
  ASSUME TypeOK, NEW q \in Opener, NEW i \in Id, NEW c \in Creator, Opens(q, i, c)
  PROVE  /\ session' \in [Opener -> SUBSET Session]
         /\ session'[q] = {[subject |-> i, account |-> c, began |-> now,
                            access |-> now + AccessLife, refresh |-> now + RefreshLife]}
         /\ \A o \in Opener \ {q} : session'[o] = session[o]
         /\ pc' \in [Request -> {"start", "insert", "clear", "end"}]
         /\ answer' \in [Request -> {"none", "ok", "conflict", "refused", "error"}]
<1> DEFINE s == [subject |-> i, account |-> c, began |-> now,
                 access |-> now + AccessLife, refresh |-> now + RefreshLife]
<1>1. s \in Session
  <2>1. now \in 0..MaxTime
    BY DEF TypeOK
  <2>2. now + AccessLife \in 0..(MaxTime + NewAccessLife)
    BY <2>1, AccountsAssumption
  <2>3. now + RefreshLife \in 0..(MaxTime + RefreshLife)
    BY <2>1, AccountsAssumption
  <2> QED
    BY <2>1, <2>2, <2>3 DEF Session
<1>2. session' = [session EXCEPT ![q] = {s}]
  BY DEF Opens
<1>3. Ends(q, "ok") /\ q \in Request
  BY DEF Opens, Request
<1> QED
  BY <1>1, <1>2, <1>3, AnswerType DEF TypeOK

\* A row that Insert or Create adds.
LEMMA RowType ==
  ASSUME NEW e \in Id, NEW n \in Id, NEW c \in Creator
  PROVE  [email |-> e, name |-> n, by |-> c] \in Account
  BY DEF Account

\* Every step keeps the types.
LEMMA TypeStep ==
  ASSUME TypeOK, [Next]_vars
  PROVE  TypeOK'
<1> USE DEF TypeOK
<1>1. ASSUME NEW r \in Register, Check(r) PROVE TypeOK'
  <2>1. r \in Request
    BY DEF Request, Creator
  <2>2. /\ pc' \in [Request -> {"start", "insert", "clear", "end"}]
        /\ answer' \in [Request -> {"none", "ok", "conflict", "refused", "error"}]
    BY <1>1, <2>1, AnswerType DEF Check
  <2> QED
    BY <1>1, <2>2 DEF Check
<1>2. ASSUME NEW r \in Register, Insert(r) PROVE TypeOK'
  <2>1. r \in Request /\ r \in Creator
    BY DEF Request, Creator
  <2>2. /\ pc' \in [Request -> {"start", "insert", "clear", "end"}]
        /\ answer' \in [Request -> {"none", "ok", "conflict", "refused", "error"}]
    BY <1>2, <2>1, AnswerType DEF Insert
  <2>3. Stored(Email[r]) \in Id /\ Stored(Name[r]) \in Id
    BY <2>1, AccountsAssumption DEF Stored
  <2>4. rows' \subseteq Account
    BY <1>2, <2>1, <2>3, RowType DEF Insert
  <2> QED
    BY <1>2, <2>2, <2>4 DEF Insert
<1>3. ASSUME NEW r \in Register, Clear(r) PROVE TypeOK'
  <2>1. r \in Request
    BY DEF Request, Creator
  <2>2. /\ pc' \in [Request -> {"start", "insert", "clear", "end"}]
        /\ answer' \in [Request -> {"none", "ok", "conflict", "refused", "error"}]
    BY <1>3, <2>1, AnswerType DEF Clear
  <2> QED
    BY <1>3, <2>2 DEF Clear
<1>4. ASSUME NEW l \in Login, LogIn(l) PROVE TypeOK'
  <2>1. l \in Request /\ l \in Opener /\ Lower[Identifier[l]] \in Id
    BY AccountsAssumption DEF Request, Opener
  <2>2. CASE \E a \in Matching(Lower[Identifier[l]]) : Opens(l, Lower[Identifier[l]], a.by)
    <3>1. PICK a \in Matching(Lower[Identifier[l]]) : Opens(l, Lower[Identifier[l]], a.by)
      BY <2>2
    <3>2. a.by \in Creator
      BY DEF Matching, Account
    <3> QED
      BY <1>4, <2>1, <3>1, <3>2, SessionType DEF LogIn
  <2>3. CASE Ends(l, "refused") /\ UNCHANGED session
    BY <1>4, <2>1, <2>3, AnswerType DEF LogIn
  <2>4. CASE Ends(l, "error") /\ UNCHANGED session
    BY <1>4, <2>1, <2>4, AnswerType DEF LogIn
  <2> QED
    BY <1>4, <2>2, <2>3, <2>4 DEF LogIn
<1>5. ASSUME NEW g \in Google, Lookup(g) PROVE TypeOK'
  <2>1. g \in Request /\ g \in Opener /\ g \in Creator /\ Lower[Email[g]] \in Id
    BY AccountsAssumption DEF Request, Opener, Creator
  <2>2. CASE \E a \in rows : Opens(g, Lower[Email[g]], a.by)
    <3>1. PICK a \in rows : Opens(g, Lower[Email[g]], a.by)
      BY <2>2
    <3>2. a.by \in Creator
      BY DEF Account
    <3> QED
      BY <1>5, <2>1, <3>1, <3>2, SessionType DEF Lookup
  <2>3. CASE Goes(g, "insert") /\ UNCHANGED session
    BY <1>5, <2>1, <2>3, AnswerType DEF Lookup
  <2> QED
    BY <1>5, <2>2, <2>3 DEF Lookup
<1>6. ASSUME NEW g \in Google, Create(g) PROVE TypeOK'
  <2>1. /\ g \in Request /\ g \in Opener /\ g \in Creator
        /\ Email[g] \in Id /\ Lower[Email[g]] \in Id
    BY AccountsAssumption DEF Request, Opener, Creator
  <2>2. CASE Ends(g, "error") /\ UNCHANGED <<rows, session>>
    BY <1>6, <2>1, <2>2, AnswerType DEF Create
  <2>3. CASE /\ rows' = rows \cup {[email |-> Email[g], name |-> Email[g], by |-> g]}
             /\ Opens(g, Lower[Email[g]], g)
    <3>1. rows' \subseteq Account
      BY <2>1, <2>3, RowType
    <3> QED
      BY <1>6, <2>1, <2>3, <3>1, SessionType DEF Create
  <2> QED
    BY <1>6, <2>2, <2>3 DEF Create
<1>7. ASSUME NEW q \in Request, Fails(q) PROVE TypeOK'
  <2>1. /\ pc' \in [Request -> {"start", "insert", "clear", "end"}]
        /\ answer' \in [Request -> {"none", "ok", "conflict", "refused", "error"}]
    BY <1>7, AnswerType DEF Fails
  <2> QED
    BY <1>7, <2>1 DEF Fails
<1>8. ASSUME NEW q \in Opener, Refresh(q) PROVE TypeOK'
  <2>1. PICK s \in session[q] : session' = [session EXCEPT ![q] = {RefreshAccess(s)}]
    BY <1>8 DEF Refresh
  <2>2. s \in Session
    BY <2>1
  <2>3. now + NewAccessLife \in 0..(MaxTime + NewAccessLife)
    BY AccountsAssumption
  <2>4. RefreshAccess(s) \in Session
    BY <2>2, <2>3 DEF RefreshAccess, Session
  <2> QED
    BY <1>8, <2>1, <2>4 DEF Refresh
<1>9. ASSUME NEW q \in Opener, Logout(q) PROVE TypeOK'
  BY <1>9 DEF Logout
<1>10. CASE Tick
  BY <1>10, AccountsAssumption DEF Tick
<1>11. CASE UNCHANGED vars
  BY <1>11 DEF vars
<1> QED
  BY <1>1, <1>2, <1>3, <1>4, <1>5, <1>6, <1>7, <1>8, <1>9, <1>10, <1>11 DEF Next

\* Every variable keeps its type, however many requests overlap.
THEOREM Types == Spec => []TypeOK
<1>1. Init => TypeOK
  BY AccountsAssumption DEF Init, TypeOK
<1>2. TypeOK /\ [Next]_vars => TypeOK'
  BY TypeStep
<1> QED
  BY <1>1, <1>2, PTL DEF Spec

-----------------------------------------------------------------------------
(***************************************************************************)
(* Rows                                                                    *)
(***************************************************************************)

\* The unique constraints hold, and what is stored is in lower case, but for the addresses
\* that Google returned otherwise.
Distinct == \A a, b \in rows : a.email = b.email \/ a.name = b.name => a = b
InLowerCase ==
    \A a \in rows : a.by \in MixedCase \/ (Lower[a.email] = a.email /\ Lower[a.name] = a.name)
RowsOK == Distinct /\ InLowerCase

\* A row that does not clash with another keeps both.
LEMMA RowAdded ==
  ASSUME RowsOK, NEW e \in Id, NEW n \in Id, NEW c, ~Clash(e, n),
         rows' = rows \cup {[email |-> e, name |-> n, by |-> c]},
         c \in MixedCase \/ (Lower[e] = e /\ Lower[n] = n)
  PROVE  RowsOK'
<1>1. Distinct'
  BY DEF RowsOK, Distinct, Clash
<1>2. InLowerCase'
  BY DEF RowsOK, InLowerCase
<1> QED
  BY <1>1, <1>2 DEF RowsOK

\* No other step writes rows, and rows are never taken back.
LEMMA RowsStep ==
  ASSUME TypeOK, RowsOK, [Next]_vars
  PROVE  RowsOK' /\ rows \subseteq rows'
<1>1. ASSUME UNCHANGED rows PROVE RowsOK' /\ rows \subseteq rows'
  BY <1>1 DEF RowsOK, Distinct, InLowerCase
<1>2. ASSUME NEW r \in Register, Insert(r) PROVE RowsOK' /\ rows \subseteq rows'
  <2>1. Email[r] \in Id /\ Name[r] \in Id
    BY AccountsAssumption DEF Creator
  <2>2. /\ Stored(Email[r]) \in Id /\ Lower[Stored(Email[r])] = Stored(Email[r])
        /\ Stored(Name[r]) \in Id /\ Lower[Stored(Name[r])] = Stored(Name[r])
    BY <2>1, AccountsAssumption DEF Stored
  <2>3. CASE UNCHANGED rows
    BY <1>1, <2>3
  <2>4. CASE /\ ~Clash(Stored(Email[r]), Stored(Name[r]))
             /\ rows' = rows \cup {[email |-> Stored(Email[r]), name |-> Stored(Name[r]),
                                    by |-> r]}
    BY <2>2, <2>4, RowAdded
  <2> QED
    BY <1>2, <2>3, <2>4 DEF Insert
<1>3. ASSUME NEW g \in Google, Create(g) PROVE RowsOK' /\ rows \subseteq rows'
  <2>1. Email[g] \in Id /\ (g \in MixedCase \/ Lower[Email[g]] = Email[g])
    BY AccountsAssumption DEF Creator, MixedCase
  <2>2. CASE UNCHANGED rows
    BY <1>1, <2>2
  <2>3. CASE /\ ~Clash(Email[g], Email[g])
             /\ rows' = rows \cup {[email |-> Email[g], name |-> Email[g], by |-> g]}
    BY <2>1, <2>3, RowAdded
  <2> QED
    BY <1>3, <2>2, <2>3 DEF Create
<1>4. ASSUME \/ \E r \in Register : Check(r) \/ Clear(r)
             \/ \E l \in Login : LogIn(l)
             \/ \E g \in Google : Lookup(g)
             \/ \E q \in Request : Fails(q)
             \/ \E q \in Opener : Refresh(q) \/ Logout(q)
             \/ Tick
             \/ UNCHANGED vars
      PROVE  UNCHANGED rows
  BY <1>4 DEF Check, Clear, LogIn, Lookup, Fails, Refresh, Logout, Tick, vars
<1> QED
  BY <1>1, <1>2, <1>3, <1>4 DEF Next

\* Rows, from the beginning.
LEMMA RowsAlways == Spec => [](TypeOK /\ RowsOK)
<1>1. Init => TypeOK /\ RowsOK
  BY AccountsAssumption DEF Init, TypeOK, RowsOK, Distinct, InLowerCase
<1>2. TypeOK /\ RowsOK /\ [Next]_vars => (TypeOK /\ RowsOK)'
  BY TypeStep, RowsStep
<1> QED
  BY <1>1, <1>2, PTL DEF Spec

\* No two accounts differ only in case, but for those that Google logins have created with
\* capitals: register_user and create_user_from_google_credentials.
THEOREM NoTwinsHolds == Spec => []NoTwins
<1>1. TypeOK /\ RowsOK => NoTwins
  BY DEF RowsOK, Distinct, InLowerCase, NoTwins
<1> QED
  BY <1>1, RowsAlways, PTL

-----------------------------------------------------------------------------
(***************************************************************************)
(* Sessions                                                                *)
(***************************************************************************)

\* A session keeps the subject that once found its account.
Finds(s) == \E a \in Matching(s.subject) : a.by = s.account

\* No refresh moves the end of a session, and none happens after it.
Bounded(s) ==
    /\ s.began <= now
    /\ s.refresh = s.began + RefreshLife
    /\ s.access < s.began + RefreshLife + NewAccessLife

SessionOK(s) == (s.account \in MixedCase \/ Finds(s)) /\ Bounded(s)

SessionsOK == \A q \in Opener : \A s \in session[q] : SessionOK(s)

\* A session stays what it is while rows are added and time goes on.
LEMMA SessionStays ==
  ASSUME TypeOK, TypeOK', NEW s \in Session, SessionOK(s), rows \subseteq rows', now <= now'
  PROVE  SessionOK(s)'
<1>1. now \in Nat /\ now' \in Nat /\ s.began \in Nat
  BY AccountsAssumption DEF TypeOK, Session
<1>2. Bounded(s)'
  BY <1>1 DEF SessionOK, Bounded
<1>3. s.account \in MixedCase \/ Finds(s)'
  BY DEF SessionOK, Finds, Matching
<1> QED
  BY <1>2, <1>3 DEF SessionOK

\* A session that opens.
LEMMA SessionOpens ==
  ASSUME TypeOK, TypeOK', SessionsOK, NEW q \in Opener, NEW i \in Id, NEW c \in Creator,
         Opens(q, i, c), rows \subseteq rows', now' = now,
         c \in MixedCase \/ \E a \in rows' : a.by = c /\ (a.email = i \/ a.name = i)
  PROVE  SessionsOK'
<1> DEFINE s == [subject |-> i, account |-> c, began |-> now,
                 access |-> now + AccessLife, refresh |-> now + RefreshLife]
<1>1. /\ session'[q] = {s}
      /\ \A o \in Opener \ {q} : session'[o] = session[o]
  BY SessionType
<1>2. now \in Nat
  BY AccountsAssumption DEF TypeOK
<1>3. SessionOK(s)'
  <2>1. Bounded(s)'
    BY <1>2, AccountsAssumption DEF Bounded
  <2>2. c \in MixedCase \/ Finds(s)'
    BY DEF Finds, Matching
  <2> QED
    BY <2>1, <2>2 DEF SessionOK
<1>4. ASSUME NEW o \in Opener, NEW t \in session'[o] PROVE SessionOK(t)'
  <2>1. CASE o = q
    BY <1>1, <1>3, <1>4, <2>1
  <2>2. CASE o # q
    <3>1. t \in session[o] /\ t \in Session /\ SessionOK(t)
      BY <1>1, <1>4, <2>2 DEF SessionsOK, TypeOK
    <3> QED
      BY <3>1, <1>2, SessionStays
  <2> QED
    BY <2>1, <2>2
<1> QED
  BY <1>4 DEF SessionsOK

\* A step that leaves the sessions alone.
LEMMA SessionsStay ==
  ASSUME TypeOK, TypeOK', SessionsOK, UNCHANGED session, rows \subseteq rows', now <= now'
  PROVE  SessionsOK'
<1>1. ASSUME NEW o \in Opener, NEW t \in session'[o] PROVE SessionOK(t)'
  <2>1. t \in Session /\ SessionOK(t)
    BY <1>1 DEF SessionsOK, TypeOK
  <2> QED
    BY <2>1, SessionStays
<1> QED
  BY <1>1 DEF SessionsOK

\* Each step keeps the sessions in order.
LEMMA SessionsStep ==
  ASSUME TypeOK, RowsOK, SessionsOK, [Next]_vars
  PROVE  SessionsOK'
<1>1. TypeOK' /\ rows \subseteq rows' /\ now \in Nat
  BY TypeStep, RowsStep, AccountsAssumption DEF TypeOK
<1>2. ASSUME UNCHANGED session, now <= now' PROVE SessionsOK'
  BY <1>1, <1>2, SessionsStay
<1>3. ASSUME NEW l \in Login, LogIn(l) PROVE SessionsOK'
  <2>1. now' = now /\ rows' = rows
    BY <1>3 DEF LogIn
  <2>2. l \in Opener /\ Lower[Identifier[l]] \in Id
    BY AccountsAssumption DEF Opener
  <2>3. CASE UNCHANGED session
    BY <1>1, <1>2, <2>1, <2>3
  <2>4. ASSUME NEW a \in Matching(Lower[Identifier[l]]), Opens(l, Lower[Identifier[l]], a.by)
        PROVE  SessionsOK'
    <3>1. a \in rows' /\ a.by \in Creator
      BY <2>1, <2>4 DEF Matching, Account, TypeOK
    <3>2. a.email = Lower[Identifier[l]] \/ a.name = Lower[Identifier[l]]
      BY <2>4 DEF Matching
    <3> QED
      BY <1>1, <2>1, <2>2, <2>4, <3>1, <3>2, SessionOpens
  <2> QED
    BY <1>3, <2>3, <2>4 DEF LogIn
<1>4. ASSUME NEW g \in Google, Lookup(g) PROVE SessionsOK'
  <2>1. now' = now /\ rows' = rows
    BY <1>4 DEF Lookup
  <2>2. g \in Opener /\ Lower[Email[g]] \in Id
    BY AccountsAssumption DEF Opener, Creator
  <2>3. CASE UNCHANGED session
    BY <1>1, <1>2, <2>1, <2>3
  <2>4. ASSUME NEW a \in {b \in rows : b.email = Lower[Email[g]]},
               Opens(g, Lower[Email[g]], a.by)
        PROVE  SessionsOK'
    <3>1. a \in rows' /\ a.by \in Creator /\ a.email = Lower[Email[g]]
      BY <2>1, <2>4 DEF Account, TypeOK
    <3> QED
      BY <1>1, <2>1, <2>2, <2>4, <3>1, SessionOpens
  <2> QED
    BY <1>4, <2>3, <2>4 DEF Lookup
<1>5. ASSUME NEW g \in Google, Create(g) PROVE SessionsOK'
  <2>1. now' = now
    BY <1>5 DEF Create
  <2>2. g \in Opener /\ g \in Creator /\ Lower[Email[g]] \in Id
    BY AccountsAssumption DEF Opener, Creator
  <2>3. CASE UNCHANGED session
    BY <1>1, <1>2, <2>1, <2>3
  <2>4. CASE /\ rows' = rows \cup {[email |-> Email[g], name |-> Email[g], by |-> g]}
             /\ Opens(g, Lower[Email[g]], g)
    <3> DEFINE a == [email |-> Email[g], name |-> Email[g], by |-> g]
    <3>1. a \in rows' /\ a.by = g /\ (g \in MixedCase \/ a.email = Lower[Email[g]])
      BY <2>4 DEF MixedCase
    <3> HIDE DEF a
    <3> QED
      BY <1>1, <2>1, <2>2, <2>4, <3>1, SessionOpens
  <2> QED
    BY <1>5, <2>3, <2>4 DEF Create
<1>6. ASSUME NEW q \in Opener, Refresh(q) PROVE SessionsOK'
  <2>1. PICK s \in session[q] :
            now < s.refresh /\ session' = [session EXCEPT ![q] = {RefreshAccess(s)}]
    BY <1>6 DEF Refresh
  <2>2. s \in Session /\ SessionOK(s)
    BY <2>1 DEF TypeOK, SessionsOK
  <2>3. rows' = rows /\ now' = now
    BY <1>6 DEF Refresh
  <2>4. ASSUME NEW t, t = RefreshAccess(s) PROVE SessionOK(t)'
    <3>1. /\ t.began = s.began /\ t.refresh = s.refresh /\ t.access = now + NewAccessLife
          /\ t.subject = s.subject /\ t.account = s.account
      BY <2>2, <2>4 DEF RefreshAccess, Session
    <3>2. s.began \in Nat
      BY <2>2 DEF Session
    <3>3. now + NewAccessLife < s.began + RefreshLife + NewAccessLife
      BY <1>1, <2>1, <2>2, <3>2, AccountsAssumption DEF SessionOK, Bounded
    <3>4. Bounded(t)'
      BY <2>2, <2>3, <3>1, <3>3 DEF SessionOK, Bounded
    <3>5. t.account \in MixedCase \/ Finds(t)'
      BY <2>2, <2>3, <3>1 DEF SessionOK, Finds, Matching
    <3> QED
      BY <3>4, <3>5 DEF SessionOK
  <2>5. ASSUME NEW o \in Opener, NEW t \in session'[o] PROVE SessionOK(t)'
    <3>1. CASE o = q
      <4>1. t = RefreshAccess(s)
        BY <2>1, <2>5, <3>1 DEF TypeOK
      <4> QED
        BY <2>4, <4>1
    <3>2. CASE o # q
      <4>1. t \in session[o] /\ t \in Session /\ SessionOK(t)
        BY <2>1, <2>5, <3>2 DEF SessionsOK, TypeOK
      <4> QED
        BY <1>1, <2>3, <4>1, SessionStays
    <3> QED
      BY <3>1, <3>2
  <2> QED
    BY <2>5 DEF SessionsOK
<1>7. ASSUME NEW q \in Opener, Logout(q) PROVE SessionsOK'
  <2>1. rows' = rows /\ now' = now /\ session' = [session EXCEPT ![q] = {}]
    BY <1>7 DEF Logout
  <2>2. ASSUME NEW o \in Opener, NEW t \in session'[o] PROVE SessionOK(t)'
    <3>1. t \in session[o] /\ t \in Session /\ SessionOK(t)
      BY <2>1, <2>2 DEF SessionsOK, TypeOK
    <3> QED
      BY <1>1, <2>1, <3>1, SessionStays
  <2> QED
    BY <2>2 DEF SessionsOK
<1>8. ASSUME \/ \E r \in Register : Check(r) \/ Insert(r) \/ Clear(r)
             \/ \E q \in Request : Fails(q)
             \/ UNCHANGED vars
      PROVE  UNCHANGED session /\ now' = now
  BY <1>8 DEF Check, Insert, Clear, Fails, vars
<1>9. ASSUME Tick PROVE UNCHANGED session /\ now <= now'
  BY <1>1, <1>9 DEF Tick
<1> QED
  BY <1>1, <1>2, <1>3, <1>4, <1>5, <1>6, <1>7, <1>8, <1>9 DEF Next

\* Rows and sessions, from the beginning.
LEMMA SessionsAlways == Spec => [](TypeOK /\ RowsOK /\ SessionsOK)
<1>1. Init => TypeOK /\ RowsOK /\ SessionsOK
  BY AccountsAssumption DEF Init, TypeOK, RowsOK, Distinct, InLowerCase, SessionsOK
<1>2. TypeOK /\ RowsOK /\ SessionsOK /\ [Next]_vars => (TypeOK /\ RowsOK /\ SessionsOK)'
  BY TypeStep, RowsStep, SessionsStep
<1> QED
  BY <1>1, <1>2, PTL DEF Spec

\* get_user_by_login_identifier finds the account of a token or refuses the token, unless a
\* Google login has created the account with capitals and handed out the token.
THEOREM SessionFindsItsAccountHolds == Spec => []SessionFindsItsAccount
<1>1. ASSUME RowsOK, SessionsOK PROVE SessionFindsItsAccount
  <2>1. ASSUME NEW q \in Opener, NEW s \in session[q], s.account \notin MixedCase
        PROVE  \E a \in Matching(s.subject) :
                   /\ a.by = s.account
                   /\ \A b \in Matching(s.subject) \ {a} : a.name = b.email \/ b.name = a.email
    <3>1. PICK a \in Matching(s.subject) : a.by = s.account
      BY <1>1, <2>1 DEF SessionsOK, SessionOK, Finds
    <3>2. ASSUME NEW b \in Matching(s.subject) \ {a}
          PROVE  a.name = b.email \/ b.name = a.email
      BY <1>1, <3>1, <3>2 DEF Matching, RowsOK, Distinct
    <3> QED
      BY <3>1, <3>2
  <2> QED
    BY <2>1 DEF SessionFindsItsAccount
<1> QED
  BY <1>1, SessionsAlways, PTL

\* A session ends although its access tokens outlive each refresh.
THEOREM SessionEndsHolds == Spec => []SessionEnds
<1>1. ASSUME TypeOK, SessionsOK PROVE SessionEnds
  <2>1. ASSUME NEW q \in Opener, NEW s \in session[q], Accepted(s)
        PROVE  now + 1 < s.began + RefreshLife + NewAccessLife
    <3>1. s \in Session /\ Bounded(s) /\ now < s.access
      BY <1>1, <2>1 DEF TypeOK, SessionsOK, SessionOK, Accepted
    <3>2. now \in Nat /\ s.began \in Nat /\ s.access \in Nat
      BY <1>1, <3>1, AccountsAssumption DEF TypeOK, Session
    <3> QED
      BY <3>1, <3>2, AccountsAssumption DEF Bounded
  <2> QED
    BY <2>1 DEF SessionEnds
<1> QED
  BY <1>1, SessionsAlways, PTL
=============================================================================
