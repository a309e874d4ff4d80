---------------------------- MODULE ClientSession ----------------------------
(***************************************************************************)
(* One visit of the chat page in a browser: the API client with its shared *)
(* refresh of the access token, the tokens in localStorage, and the        *)
(* websocket of useChatConnection, which uses the token but never renews   *)
(* it.  A chat is selected, so the page fetches its messages again and     *)
(* again while it is not connected.                                        *)
(*                                                                         *)
(* A step is a task of the browser with the microtasks it leaves behind,   *)
(* or an event of the network or the server.  Delays are abstracted: a     *)
(* timer that is set may fire at any time.  Access tokens expire together. *)
(***************************************************************************)
EXTENDS Naturals, FiniteSets

CONSTANTS
    Request,      \* calls of the API that may be under way
    None,         \* no request
    MaxSockets,   \* bound: websockets at one time
    Effects,      \* how often React runs the effect: 2 in StrictMode, else 1
    MaxExpiries,  \* bound: how often the tokens expire
    MaxLosses     \* bound: how often the network fails

ASSUME ClientSessionAssumption ==
    /\ None \notin Request
    /\ MaxSockets \in Nat \ {0}
    /\ Effects \in Nat \ {0}
    /\ MaxExpiries \in Nat
    /\ MaxLosses \in Nat

Socket == 1..MaxSockets
Run == 1..Effects

VARIABLES
    access,     \* the access token in localStorage
    refresh,    \* there is a refresh token in localStorage
    pc,         \* where a request is
    retried,    \* the requests with the mark _retry
    flight,     \* the requests that have called refreshAccessToken, which is not back
    promise,    \* refreshPromise: None or the one of these it is from
    awaits,     \* the call of refreshAccessToken that a request awaits
    ws,         \* the websockets: readyState, and with which kind of token they connect
    owner,      \* the run of the effect that made a websocket
    ref,        \* wsRef
    timer,      \* reconnectTimerRef: 0 or the run of the effect that has set it
    run,        \* the latest run of the effect
    disposed,   \* the runs that were cleaned up
    connected,  \* the state of that name
    expiries, losses

tokens == <<access, refresh>>
calls == <<pc, retried, flight, promise, awaits>>
sockets == <<ws, owner, ref, timer, connected>>
page == <<run, disposed>>
bounds == <<expiries, losses>>
vars == <<tokens, calls, sockets, page, bounds>>

TypeOK ==
    /\ access \in {"none", "fresh", "stale"}
    /\ refresh \in BOOLEAN
    /\ pc \in [Request -> {"idle", "fresh", "stale", "unauthorized", "waiting"}]
    /\ retried \subseteq Request
    /\ flight \subseteq Request
    /\ promise \in Request \cup {None}
    /\ awaits \in [Request -> Request \cup {None}]
    /\ ws \in [Socket -> {"none", "fresh", "stale", "open", "closing"}]
    /\ owner \in [Socket -> 0..Effects]
    /\ ref \in 0..MaxSockets
    /\ timer \in 0..Effects
    /\ run \in 0..Effects
    /\ disposed \subseteq 1..run
    /\ connected \in BOOLEAN
    /\ expiries \in 0..MaxExpiries
    /\ losses \in 0..MaxLosses

Init ==
    /\ access = "fresh" /\ refresh = TRUE
    /\ pc = [r \in Request |-> "idle"]
    /\ retried = {}
    /\ flight = {}
    /\ promise = None
    /\ awaits = [r \in Request |-> None]
    /\ ws = [s \in Socket |-> "none"]
    /\ owner = [s \in Socket |-> 0]
    /\ ref = 0 /\ timer = 0
    /\ run = 0 /\ disposed = {}
    /\ connected = FALSE
    /\ expiries = 0 /\ losses = 0

Mounted == run # 0 /\ run \notin disposed

-----------------------------------------------------------------------------
(***************************************************************************)
(* The API client                                                          *)
(***************************************************************************)

\* Variant: the header is set without looking whether there is a token.
CarriedAlways == access

\* What a request carries: no token is as good as an expired one.
Carried == IF access = "fresh" THEN "fresh" ELSE "stale"

Fetch(r) ==
    /\ Mounted
    /\ pc[r] = "idle"
    /\ pc' = [pc EXCEPT ![r] = Carried]
    /\ UNCHANGED <<tokens, retried, flight, promise, awaits, sockets, page, bounds>>

\* The request is over, resolved or rejected.
Settle(r) ==
    /\ pc' = [pc EXCEPT ![r] = "idle"]
    /\ retried' = retried \ {r}

\* The server handles the request.
Serve(r) ==
    /\ \/ pc[r] = "fresh" /\ Settle(r)
       \/ pc[r] = "stale" /\ pc' = [pc EXCEPT ![r] = "unauthorized"] /\ UNCHANGED retried
    /\ UNCHANGED <<tokens, flight, promise, awaits, sockets, page, bounds>>

\* The request ends with another error.
FetchFails(r) ==
    /\ pc[r] \in {"fresh", "stale", "unauthorized"}
    /\ losses < MaxLosses
    /\ losses' = losses + 1
    /\ Settle(r)
    /\ UNCHANGED <<tokens, flight, promise, awaits, sockets, page, expiries>>

\* Variant: refreshPromise = refreshAccessToken(), without ??=
OwnRefresh(r) == r

\* The call of refreshAccessToken that request r is going to await.
SharedRefresh(r) == IF promise = None THEN r ELSE promise

\* A 401 arrives at the response interceptor.
Unauthorized(r) ==
    /\ pc[r] = "unauthorized"
    /\ \/ /\ r \notin retried
          /\ refresh \/ promise # None
          /\ retried' = retried \cup {r}
          /\ pc' = [pc EXCEPT ![r] = "waiting"]
          /\ promise' = SharedRefresh(r)
          /\ flight' = flight \cup {SharedRefresh(r)}
          /\ awaits' = [awaits EXCEPT ![r] = SharedRefresh(r)]
       \/ /\ r \in retried \/ (~refresh /\ promise = None)
          /\ Settle(r)
          /\ UNCHANGED <<flight, promise, awaits>>
    /\ UNCHANGED <<tokens, sockets, page, bounds>>

\* Variant: only the request that called refreshAccessToken is resumed.
CallerOf(f) == {f}

\* The requests that are resumed when a call of refreshAccessToken is back.
WaitersOf(f) == {r \in Request : awaits[r] = f}

\* refreshAccessToken returns; those who wait go on one after the other, before anything else
\* happens: each one resets refreshPromise, and sends its request again or rejects.
Resume(f, next) ==
    /\ flight' = flight \ {f}
    /\ promise' = None
    /\ pc' = [r \in Request |-> IF r \in WaitersOf(f) THEN next ELSE pc[r]]
    /\ awaits' = [r \in Request |-> IF r \in WaitersOf(f) THEN None ELSE awaits[r]]
    /\ retried' = IF next = "idle" THEN retried \ WaitersOf(f) ELSE retried

\* Variant: the new token goes into the retried requests only.
KeptAccess == access

\* setTokens; the refresh token was read when the call began.
NewAccess == "fresh"

RefreshSucceeds(f) ==
    /\ f \in flight
    /\ access' = NewAccess /\ refresh' = TRUE
    /\ Resume(f, "fresh")
    /\ UNCHANGED <<sockets, page, bounds>>

\* The refresh is refused or does not get through: either clears the tokens.  The navigation to
\* /login that follows is left out: without tokens, nothing new begins.
RefreshFails(f) ==
    /\ f \in flight
    /\ access' = "none" /\ refresh' = FALSE
    /\ Resume(f, "idle")
    /\ UNCHANGED <<sockets, page, bounds>>

\* logoutApi clears the tokens, and the page is left some steps later (Cleanup).
Logout ==
    /\ Mounted
    /\ access' = "none" /\ refresh' = FALSE
    /\ UNCHANGED <<calls, sockets, page, bounds>>

\* The access tokens expire, those of requests and handshakes on their way, too.
Expire ==
    /\ expiries < MaxExpiries
    /\ access = "fresh"
    /\ expiries' = expiries + 1
    /\ access' = "stale"
    /\ pc' = [r \in Request |-> IF pc[r] = "fresh" THEN "stale" ELSE pc[r]]
    /\ ws' = [s \in Socket |-> IF ws[s] = "fresh" THEN "stale" ELSE ws[s]]
    /\ UNCHANGED <<refresh, retried, flight, promise, awaits, owner, ref, timer, connected, page, losses>>

-----------------------------------------------------------------------------
(***************************************************************************)
(* useChatConnection                                                       *)
(***************************************************************************)

\* Variant: whether the effect is disposed is not checked.
TimerAlways(e) == IF access # "none" THEN e ELSE 0

\* scheduleReconnect clears the timer first.
TimerFor(e) == IF e \notin disposed /\ access # "none" THEN e ELSE 0

Free == {s \in Socket : ws[s] = "none"}

\* CONNECTING or OPEN
InUse(s) == s # 0 /\ ws[s] \in {"fresh", "stale", "open"}

\* connect, called by run e of the effect
Connect(e) ==
    \/ /\ e \in disposed \/ access = "none" \/ InUse(ref)
       /\ UNCHANGED <<ws, owner, ref>>
    \/ /\ e \notin disposed /\ access # "none" /\ ~InUse(ref)
       /\ Free # {}
       /\ LET s == CHOOSE s \in Free : TRUE
          IN  /\ ws' = [ws EXCEPT ![s] = access]
              /\ owner' = [owner EXCEPT ![s] = e]
              /\ ref' = s

\* React runs the effect: first when the page is mounted, and once more in StrictMode.
RunEffect ==
    /\ run < Effects
    /\ run = 0 \/ run \in disposed
    /\ run' = run + 1
    /\ Connect(run')
    /\ timer' = IF access = "none" THEN 0 ELSE timer
    /\ UNCHANGED <<tokens, calls, connected, disposed, bounds>>

\* The cleanup of the effect.
Cleanup ==
    /\ Mounted
    /\ disposed' = disposed \cup {run}
    /\ timer' = 0
    /\ ws' = IF InUse(ref) THEN [ws EXCEPT ![ref] = "closing"] ELSE ws
    /\ ref' = 0
    /\ connected' = FALSE
    /\ UNCHANGED <<tokens, calls, owner, run, bounds>>

\* tokenPoll; without a token, connect clears the timer.
PollFires ==
    /\ Mounted /\ ref = 0
    /\ Connect(run)
    /\ timer' = IF access = "none" THEN 0 ELSE timer
    /\ UNCHANGED <<tokens, calls, connected, page, bounds>>

TimerFires ==
    /\ timer # 0
    /\ Connect(timer)
    /\ timer' = 0
    /\ UNCHANGED <<tokens, calls, connected, page, bounds>>

\* onopen: the server has accepted the token.
Opened(s) ==
    /\ ws[s] = "fresh"
    /\ ws' = [ws EXCEPT ![s] = "open"]
    /\ connected' = TRUE
    /\ UNCHANGED <<tokens, calls, owner, ref, timer, page, bounds>>

\* The server refuses the token; what onerror does, onclose does again.
Refused(s) ==
    /\ ws[s] = "stale"
    /\ ws' = [ws EXCEPT ![s] = "closing"]
    /\ UNCHANGED <<tokens, calls, owner, ref, timer, connected, page, bounds>>

\* The server or the network closes the connection.
Lost(s) ==
    /\ ws[s] \in {"fresh", "stale", "open"}
    /\ losses < MaxLosses
    /\ losses' = losses + 1
    /\ ws' = [ws EXCEPT ![s] = "closing"]
    /\ UNCHANGED <<tokens, calls, owner, ref, timer, connected, page, expiries>>

\* Variant: only the end of the current websocket counts.
UnlessReplaced(s) == s # ref /\ connected

\* What the page is told when a websocket has closed.
ConnectedAfter(s) == FALSE

\* onclose
Closed(s) ==
    /\ ws[s] = "closing"
    /\ ws' = [ws EXCEPT ![s] = "none"]
    /\ owner' = [owner EXCEPT ![s] = 0]
    /\ ref' = 0
    /\ timer' = TimerFor(owner[s])
    /\ connected' = ConnectedAfter(s)
    /\ UNCHANGED <<tokens, calls, page, bounds>>

-----------------------------------------------------------------------------
\* The page fetches the messages of the selected chat while it is not connected.
Poll(r) == ~connected /\ Fetch(r)

Answer(r) == Serve(r) \/ Unauthorized(r)

Event(s) == Opened(s) \/ Refused(s) \/ Closed(s)

Next ==
    \/ \E r \in Request : Fetch(r) \/ Answer(r) \/ FetchFails(r) \/ RefreshSucceeds(r) \/ RefreshFails(r)
    \/ Logout \/ Expire
    \/ RunEffect \/ Cleanup \/ PollFires \/ TimerFires
    \/ \E s \in Socket : Event(s) \/ Lost(s)

Spec == Init /\ [][Next]_vars

\* The server answers, and the browser runs intervals and the handlers of what has happened.
FairSpec ==
    /\ Spec
    /\ \A r \in Request : WF_vars(Poll(r)) /\ WF_vars(Answer(r))
                          /\ WF_vars(RefreshSucceeds(r) \/ RefreshFails(r))
    /\ \A s \in Socket : WF_vars(Event(s))
    /\ WF_vars(PollFires)

-----------------------------------------------------------------------------
(***************************************************************************)
(* Properties                                                              *)
(***************************************************************************)

\* Requests that meet a 401 while the token is being refreshed share that refresh: there are
\* never two, although each of those who wait resets refreshPromise.
OneRefresh == \A f, g \in flight : f = g

\* A websocket that closes after its effect was cleaned up sets no timer that would connect.
DisposedIsQuiet == timer \notin disposed

\* The page says it is connected only while a websocket is open or its end not yet handled,
\* whichever of several websockets the handlers belong to.
ConnectedIsOpen == connected => \E s \in Socket : ws[s] \in {"open", "closing"}

\* No request waits for ever, for a refresh that somebody else has called or for one that was
\* called with tokens that are gone.
FetchesEnd == \A r \in Request : pc[r] # "idle" ~> pc[r] = "idle"

\* A page that stays, and whose refresh token stays, is in the end connected, although the
\* websocket code retries with an expired token for ever: a page that is not connected fetches
\* messages, and their 401 refreshes the token.
Reconnects == <>[](Mounted /\ refresh) => <>[]connected
=============================================================================
