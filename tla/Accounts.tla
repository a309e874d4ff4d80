------------------------------ MODULE Accounts ------------------------------
(***************************************************************************)
(* The accounts and the sessions of their users: register_user, the two    *)
(* logins, the refresh of an access token, and what get_current_user makes *)
(* of one.                                                                 *)
(*                                                                         *)
(* An account is a row of the table user, named by the request that        *)
(* inserted it; nothing changes its email or name, deletes it or sets      *)
(* is_deleted.  A token has the identifier its user gave as its subject,   *)
(* and so finds the account anew at each use.  Passwords are left out: who *)
(* logs in is the owner of the account that the identifier finds.          *)
(***************************************************************************)
EXTENDS Naturals, FiniteSets

CONSTANTS
    Register, Google, Login,  \* requests; each runs once
    Id, Lower,                \* identifiers as they are written, and in lower case
    Email,                    \* the address of a registration, or that Google returns
    Name,                     \* the username of a registration
    Identifier,               \* what the user of a login types
    AccessLife,               \* ACCESS_TOKEN_EXPIRE_MINUTES
    NewAccessLife,            \* NEW_ACCESS_TOKEN_EXPIRE_MINUTES
    RefreshLife,              \* REFRESH_TOKEN_EXPIRE_MINUTES
    MaxTime                   \* bound

Creator == Register \cup Google
Opener == Google \cup Login
Request == Creator \cup Opener

ASSUME AccountsAssumption ==
    /\ Register \cap Google = {} /\ Register \cap Login = {} /\ Google \cap Login = {}
    /\ Lower \in [Id -> Id]
    /\ \A i \in Id : Lower[Lower[i]] = Lower[i]
    /\ Email \in [Creator -> Id]
    /\ Name \in [Register -> Id]
    /\ Identifier \in [Login -> Id]
    /\ AccessLife \in Nat /\ NewAccessLife \in Nat /\ RefreshLife \in Nat \ {0}
    /\ AccessLife <= NewAccessLife
    /\ MaxTime \in Nat

Account == [email : Id, name : Id, by : Creator]

\* What a login hands out: the subject, the account it was meant for (history), the time, and
\* when its latest access token and its refresh token expire.
Session ==
    [subject : Id, account : Creator, began : 0..MaxTime,
     access : 0..(MaxTime + NewAccessLife), refresh : 0..(MaxTime + RefreshLife)]

VARIABLES
    rows,     \* the table user
    pc,       \* what a request awaits
    answer,   \* what a request was answered
    session,  \* {} or {the session of the client that has logged in}
    now       \* the time in minutes

vars == <<rows, pc, answer, session, now>>

TypeOK ==
    /\ rows \subseteq Account
    /\ pc \in [Request -> {"start", "insert", "clear", "end"}]
    /\ answer \in [Request -> {"none", "ok", "conflict", "refused", "error"}]
    /\ session \in [Opener -> SUBSET Session]
    /\ now \in 0..MaxTime

Init ==
    /\ rows = {}
    /\ pc = [q \in Request |-> "start"]
    /\ answer = [q \in Request |-> "none"]
    /\ session = [q \in Opener |-> {}]
    /\ now = 0

Goes(q, to) ==
    /\ pc' = [pc EXCEPT ![q] = to]
    /\ UNCHANGED answer

Ends(q, with) ==
    /\ pc' = [pc EXCEPT ![q] = "end"]
    /\ answer' = [answer EXCEPT ![q] = with]

\* The unique constraints of the columns email and username refuse a row, each for itself.
Clash(email, name) == \E a \in rows : a.email = email \/ a.name = name

\* Variant: finds accounts by their names only.
MatchingName(i) == {a \in rows : a.name = i}

\* get_user_by_login_identifier
Matching(i) == {a \in rows : a.email = i \/ a.name = i}

-----------------------------------------------------------------------------
(***************************************************************************)
(* register_user                                                           *)
(***************************************************************************)

\* get_user_by_email_or_username compares what was typed with what is stored in lower case;
\* two rows raise MultipleResultsFound.
Existing(r) == {a \in rows : a.email = Email[r] \/ a.name = Name[r]}

Check(r) ==
    /\ pc[r] = "start"
    /\ \/ Existing(r) = {} /\ Goes(r, "insert")
       \/ Cardinality(Existing(r)) = 1 /\ Ends(r, "conflict")
       \/ Cardinality(Existing(r)) > 1 /\ Ends(r, "error")
    /\ UNCHANGED <<rows, session, now>>

\* Variant: the identifiers are stored as they were typed.
Typed(i) == i

Stored(i) == Lower[i]

\* create_user
Insert(r) ==
    LET email == Stored(Email[r])
        name == Stored(Name[r])
    IN  /\ pc[r] = "insert"
        /\ \/ /\ Clash(email, name)
              /\ Ends(r, "refused")
              /\ UNCHANGED rows
           \/ /\ ~Clash(email, name)
              /\ rows' = rows \cup {[email |-> email, name |-> name, by |-> r]}
              /\ Goes(r, "clear")
        /\ UNCHANGED <<session, now>>

\* clear_cache_for_all_users; the account stays when Redis fails.
Clear(r) ==
    /\ pc[r] = "clear"
    /\ \E with \in {"ok", "error"} : Ends(r, with)
    /\ UNCHANGED <<rows, session, now>>

-----------------------------------------------------------------------------
(***************************************************************************)
(* login, login_with_google                                                *)
(***************************************************************************)

\* create_access_token, create_refresh_token
Opens(q, subject, account) ==
    /\ session' = [session EXCEPT ![q] =
           {[subject |-> subject, account |-> account, began |-> now,
             access |-> now + AccessLife, refresh |-> now + RefreshLife]}]
    /\ Ends(q, "ok")

\* The owner of the account logs in; none is found, or two are.
LogIn(l) ==
    LET found == Matching(Lower[Identifier[l]])
    IN  /\ pc[l] = "start"
        /\ \/ \E a \in found :
                 /\ found = {a}
                 /\ Opens(l, Lower[Identifier[l]], a.by)
           \/ found = {} /\ Ends(l, "refused") /\ UNCHANGED session
           \/ Cardinality(found) > 1 /\ Ends(l, "error") /\ UNCHANGED session
        /\ UNCHANGED <<rows, now>>

\* get_user_by_email looks for the address in lower case; emails are unique.
Lookup(g) ==
    LET found == {a \in rows : a.email = Lower[Email[g]]}
    IN  /\ pc[g] = "start"
        /\ \/ \E a \in found : Opens(g, Lower[Email[g]], a.by)
           \/ found = {} /\ Goes(g, "insert") /\ UNCHANGED session
        /\ UNCHANGED <<rows, now>>

\* create_user_from_google_credentials stores the address as it is, for the username, too.
Create(g) ==
    /\ pc[g] = "insert"
    /\ \/ /\ Clash(Email[g], Email[g])
          /\ Ends(g, "error")
          /\ UNCHANGED <<rows, session>>
       \/ /\ ~Clash(Email[g], Email[g])
          /\ rows' = rows \cup {[email |-> Email[g], name |-> Email[g], by |-> g]}
          /\ Opens(g, Lower[Email[g]], g)
    /\ UNCHANGED now

-----------------------------------------------------------------------------
(***************************************************************************)
(* Sessions                                                                *)
(***************************************************************************)

\* get_current_user accepts an access token.
Accepted(s) == now < s.access /\ Cardinality(Matching(s.subject)) = 1

\* Variant: a refresh hands out a new refresh token, too.
RefreshBoth(s) == [s EXCEPT !.access = now + NewAccessLife, !.refresh = now + RefreshLife]

\* Variant: the time of the last access token is prolonged.
Prolong(s) == [s EXCEPT !.access = @ + NewAccessLife]

RefreshAccess(s) == [s EXCEPT !.access = now + NewAccessLife]

\* get_new_access_token_from_refresh_token
Refresh(q) ==
    /\ \E s \in session[q] :
           /\ now < s.refresh
           /\ Cardinality(Matching(s.subject)) = 1
           /\ session' = [session EXCEPT ![q] = {RefreshAccess(s)}]
    /\ UNCHANGED <<rows, pc, answer, now>>

\* logout removes the client's tokens.
Logout(q) ==
    /\ \E s \in session[q] : Accepted(s)
    /\ session' = [session EXCEPT ![q] = {}]
    /\ UNCHANGED <<rows, pc, answer, now>>

Tick ==
    /\ now < MaxTime
    /\ now' = now + 1
    /\ UNCHANGED <<rows, pc, answer, session>>

\* The database fails before it has committed a row; create_user's failure is answered 400.
Fails(q) ==
    /\ pc[q] \in {"start", "insert"}
    /\ Ends(q, IF q \in Register /\ pc[q] = "insert" THEN "refused" ELSE "error")
    /\ UNCHANGED <<rows, session, now>>

Next ==
    \/ \E r \in Register : Check(r) \/ Insert(r) \/ Clear(r)
    \/ \E l \in Login : LogIn(l)
    \/ \E g \in Google : Lookup(g) \/ Create(g)
    \/ \E q \in Request : Fails(q)
    \/ \E q \in Opener : Refresh(q) \/ Logout(q)
    \/ Tick

Spec == Init /\ [][Next]_vars

-----------------------------------------------------------------------------
(***************************************************************************)
(* Properties                                                              *)
(***************************************************************************)

\* The logins with an address that Google returns with capitals.
MixedCase == {g \in Google : Lower[Email[g]] # Email[g]}

\* However users write their addresses and names, and however their requests overlap, no two
\* get accounts that differ only in case, although register_user looks for an account with
\* what was typed: the unique constraints see lower case only.  The exception is an account
\* that a Google login has created with capitals in its address.
NoTwins ==
    \A a, b \in rows :
        Lower[a.email] = Lower[b.email] \/ Lower[a.name] = Lower[b.name] =>
            a = b \/ a.by \in MixedCase \/ b.by \in MixedCase

\* A token finds, at each use, the account that it was handed out for, whatever accounts have
\* been created since, although it carries only what its user typed; if it finds another one,
\* too, and so is refused, then the address of one of them is the name of the other.  The
\* exception is the token that came with such an account: its subject is in lower case, and
\* finds nobody, or somebody else.
SessionFindsItsAccount ==
    \A q \in Opener : \A s \in session[q] :
        s.account \in MixedCase \/
        \E a \in Matching(s.subject) :
            /\ a.by = s.account
            /\ \A b \in Matching(s.subject) \ {a} : a.name = b.email \/ b.name = a.email

\* config.py:35-37, a session ends with its refresh token, but for the access token that was
\* refreshed last: however often the client refreshes, nothing is accepted much later.
SessionEnds ==
    \A q \in Opener : \A s \in session[q] :
        Accepted(s) => now + 1 < s.began + RefreshLife + NewAccessLife

\* authentication/router.py:57, "db holds only lower case representation".
OnlyLowerCase == \A a \in rows : Lower[a.email] = a.email
=============================================================================
