------------------------- MODULE ClientSessionProofs -------------------------
(***************************************************************************)
(* ClientSession for any number of requests, websockets and runs of the    *)
(* effect, however often tokens expire and the network fails.              *)
(***************************************************************************)
EXTENDS ClientSession, TLAPS

-----------------------------------------------------------------------------
(***************************************************************************)
(* Types                                                                   *)
(***************************************************************************)

States == {"idle", "fresh", "stale", "unauthorized", "waiting"}

\* The types of the API client and of the tokens.
ClientOK ==
    /\ access \in {"none", "fresh", "stale"}
    /\ refresh \in BOOLEAN
    /\ pc \in [Request -> States]
    /\ retried \subseteq Request
    /\ flight \subseteq Request
    /\ promise \in Request \cup {None}
    /\ awaits \in [Request -> Request \cup {None}]

\* The types of the websocket hook.
HookOK ==
    /\ ws \in [Socket -> {"none", "fresh", "stale", "open", "closing"}]
    /\ owner \in [Socket -> 0..Effects]
    /\ ref \in 0..MaxSockets
    /\ timer \in 0..Effects
    /\ run \in 0..Effects
    /\ disposed \subseteq 1..run
    /\ connected \in BOOLEAN

BoundsOK == expiries \in 0..MaxExpiries /\ losses \in 0..MaxLosses

LEMMA TypeParts == TypeOK <=> ClientOK /\ HookOK /\ BoundsOK
  BY DEF TypeOK, ClientOK, HookOK, BoundsOK, States

\* A request ends with the right type.
LEMMA SettleType ==
  ASSUME ClientOK, NEW r \in Request, Settle(r)
  PROVE  pc' \in [Request -> States] /\ retried' \subseteq Request
  BY DEF ClientOK, Settle, States

\* What resumes those who wait keeps the types, and the promise is reset.
LEMMA ResumeType ==
  ASSUME ClientOK, NEW f \in flight, NEW next \in {"fresh", "idle"}, Resume(f, next)
  PROVE  /\ pc' \in [Request -> States] /\ retried' \subseteq Request
         /\ flight' \subseteq Request /\ promise' \in Request \cup {None}
         /\ awaits' \in [Request -> Request \cup {None}]
  BY DEF ClientOK, Resume, States

\* The types of the API client.
LEMMA ClientStep ==
  ASSUME ClientOK, BoundsOK, [Next]_vars
  PROVE  ClientOK' /\ BoundsOK'
<1>1. MaxExpiries \in Nat /\ MaxLosses \in Nat
  BY ClientSessionAssumption
<1>2. ASSUME NEW r \in Request, Fetch(r) PROVE ClientOK' /\ BoundsOK'
  BY <1>2 DEF Fetch, Carried, ClientOK, BoundsOK, States, tokens, bounds
<1>3. ASSUME NEW r \in Request, Serve(r) PROVE ClientOK' /\ BoundsOK'
  <2>1. pc' \in [Request -> States] /\ retried' \subseteq Request
    BY <1>3, SettleType DEF Serve, ClientOK, States
  <2> QED
    BY <1>3, <2>1 DEF Serve, ClientOK, BoundsOK, tokens, bounds
<1>4. ASSUME NEW r \in Request, FetchFails(r) PROVE ClientOK' /\ BoundsOK'
  <2>1. pc' \in [Request -> States] /\ retried' \subseteq Request
    BY <1>4, SettleType DEF FetchFails
  <2> QED
    BY <1>1, <1>4, <2>1 DEF FetchFails, ClientOK, BoundsOK, tokens
<1>5. ASSUME NEW r \in Request, Unauthorized(r) PROVE ClientOK' /\ BoundsOK'
  <2>1. pc' \in [Request -> States] /\ retried' \subseteq Request
    BY <1>5, SettleType DEF Unauthorized, ClientOK, States
  <2>2. SharedRefresh(r) \in Request
    BY DEF SharedRefresh, ClientOK
  <2>3. /\ flight' \subseteq Request /\ promise' \in Request \cup {None}
        /\ awaits' \in [Request -> Request \cup {None}]
    BY <1>5, <2>2 DEF Unauthorized, ClientOK
  <2> QED
    BY <1>5, <2>1, <2>3 DEF Unauthorized, ClientOK, BoundsOK, tokens, bounds
<1>6. ASSUME NEW f \in Request, RefreshSucceeds(f) \/ RefreshFails(f) PROVE ClientOK' /\ BoundsOK'
  <2>1. f \in flight /\ (Resume(f, "fresh") \/ Resume(f, "idle"))
    BY <1>6 DEF RefreshSucceeds, RefreshFails
  <2>2. /\ pc' \in [Request -> States] /\ retried' \subseteq Request
        /\ flight' \subseteq Request /\ promise' \in Request \cup {None}
        /\ awaits' \in [Request -> Request \cup {None}]
    BY <2>1, ResumeType
  <2> QED
    BY <1>6, <2>2 DEF RefreshSucceeds, RefreshFails, NewAccess, ClientOK, BoundsOK, bounds
<1>7. CASE Logout
  BY <1>7 DEF Logout, ClientOK, BoundsOK, calls, bounds
<1>8. CASE Expire
  <2>1. pc' \in [Request -> States]
    BY <1>8 DEF Expire, ClientOK, States
  <2> QED
    BY <1>1, <1>8, <2>1 DEF Expire, ClientOK, BoundsOK
<1>9. CASE RunEffect \/ Cleanup \/ PollFires \/ TimerFires
  BY <1>9 DEF RunEffect, Cleanup, PollFires, TimerFires, ClientOK, BoundsOK, tokens, calls, bounds
<1>10. ASSUME NEW s \in Socket, Event(s) PROVE ClientOK' /\ BoundsOK'
  BY <1>10 DEF Event, Opened, Refused, Closed, ClientOK, BoundsOK, tokens, calls, bounds
<1>11. ASSUME NEW s \in Socket, Lost(s) PROVE ClientOK' /\ BoundsOK'
  BY <1>1, <1>11 DEF Lost, ClientOK, BoundsOK, tokens, calls
<1>12. CASE UNCHANGED vars
  BY <1>12 DEF vars, tokens, calls, bounds, ClientOK, BoundsOK
<1> QED
  BY <1>2, <1>3, <1>4, <1>5, <1>6, <1>7, <1>8, <1>9, <1>10, <1>11, <1>12 DEF Next, Answer

-----------------------------------------------------------------------------
(***************************************************************************)
(* The hook                                                                *)
(***************************************************************************)

\* The invariant of the hook: its types, a quiet timer and an honest flag.
HookInv == ClientOK /\ HookOK /\ DisposedIsQuiet /\ ConnectedIsOpen

\* The step that connects takes a free websocket or none.
LEMMA ConnectType ==
  ASSUME ClientOK, HookOK, NEW e \in Run, Connect(e)
  PROVE  /\ ws' \in [Socket -> {"none", "fresh", "stale", "open", "closing"}]
         /\ owner' \in [Socket -> 0..Effects]
         /\ ref' \in 0..MaxSockets
         /\ \A s \in Socket : ws[s] \in {"open", "closing"} => ws'[s] = ws[s]
<1>1. Effects \in Nat /\ MaxSockets \in Nat /\ e \in 0..Effects
  BY ClientSessionAssumption DEF Run
<1>2. CASE UNCHANGED <<ws, owner, ref>>
  BY <1>2 DEF HookOK
<1>3. ASSUME NEW s \in Free, access # "none",
             ws' = [ws EXCEPT ![s] = access], owner' = [owner EXCEPT ![s] = e], ref' = s
      PROVE  /\ ws' \in [Socket -> {"none", "fresh", "stale", "open", "closing"}]
             /\ owner' \in [Socket -> 0..Effects]
             /\ ref' \in 0..MaxSockets
             /\ \A t \in Socket : ws[t] \in {"open", "closing"} => ws'[t] = ws[t]
  <2>1. s \in Socket /\ ws[s] = "none" /\ s \in 0..MaxSockets
    BY <1>1, <1>3 DEF Free, Socket
  <2>2. access \in {"fresh", "stale"}
    BY <1>3 DEF ClientOK
  <2> QED
    BY <1>1, <1>3, <2>1, <2>2 DEF HookOK
<1>4. Free # {} => (CHOOSE s \in Free : TRUE) \in Free
  OBVIOUS
<1> QED
  BY <1>2, <1>3, <1>4 DEF Connect

\* How the steps of the hook move the flag, the timer and the websockets.
LEMMA HookStep ==
  ASSUME HookInv, BoundsOK, ClientOK', [Next]_vars
  PROVE  HookInv'
<1> USE DEF HookInv
<1>1. Effects \in Nat /\ MaxSockets \in Nat /\ MaxSockets # 0 /\ 0 \notin disposed
  BY ClientSessionAssumption DEF HookOK
<1>2. CASE UNCHANGED <<sockets, page>>
  BY <1>2 DEF sockets, page, HookOK, DisposedIsQuiet, ConnectedIsOpen
<1>3. CASE Expire
  <2>1. ws' \in [Socket -> {"none", "fresh", "stale", "open", "closing"}]
        /\ \A s \in Socket : ws[s] \in {"open", "closing"} => ws'[s] = ws[s]
    BY <1>3 DEF Expire, HookOK
  <2> QED
    BY <1>3, <2>1 DEF Expire, page, HookOK, DisposedIsQuiet, ConnectedIsOpen
<1>4. CASE RunEffect
  <2>1. run' \in Run /\ run' = run + 1 /\ run \in 0..Effects /\ run' \in 0..Effects /\ 1..run \subseteq 1..run'
    BY <1>1, <1>4 DEF RunEffect, HookOK, Run
  <2>2. Connect(run')
    BY <1>4 DEF RunEffect
  <2>3. /\ ws' \in [Socket -> {"none", "fresh", "stale", "open", "closing"}]
        /\ owner' \in [Socket -> 0..Effects] /\ ref' \in 0..MaxSockets
        /\ \A s \in Socket : ws[s] \in {"open", "closing"} => ws'[s] = ws[s]
    BY <2>1, <2>2, ConnectType
  <2>4. timer' \in 0..Effects /\ timer' \notin disposed /\ disposed' = disposed /\ connected' = connected
    BY <1>1, <1>4 DEF RunEffect, HookOK, DisposedIsQuiet
  <2> QED
    BY <2>1, <2>3, <2>4 DEF HookOK, DisposedIsQuiet, ConnectedIsOpen
<1>5. CASE PollFires \/ TimerFires
  <2>1. PICK e \in Run : Connect(e)
    <3>1. CASE PollFires
      BY <1>1, <3>1 DEF PollFires, Mounted, HookOK, Run
    <3>2. CASE TimerFires
      BY <1>1, <3>2 DEF TimerFires, HookOK, Run
    <3> QED
      BY <1>5, <3>1, <3>2
  <2>2. /\ ws' \in [Socket -> {"none", "fresh", "stale", "open", "closing"}]
        /\ owner' \in [Socket -> 0..Effects] /\ ref' \in 0..MaxSockets
        /\ \A s \in Socket : ws[s] \in {"open", "closing"} => ws'[s] = ws[s]
    BY <2>1, ConnectType
  <2>3. timer' \in 0..Effects /\ timer' \notin disposed
    BY <1>1, <1>5 DEF PollFires, TimerFires, HookOK, DisposedIsQuiet
  <2>4. UNCHANGED <<page, connected>>
    BY <1>5 DEF PollFires, TimerFires
  <2> QED
    BY <2>2, <2>3, <2>4 DEF page, HookOK, DisposedIsQuiet, ConnectedIsOpen
<1>6. CASE Cleanup
  <2>1. ws' \in [Socket -> {"none", "fresh", "stale", "open", "closing"}]
    BY <1>6 DEF Cleanup, InUse, HookOK
  <2>2. disposed' \subseteq 1..run /\ 0 \notin disposed'
    BY <1>1, <1>6 DEF Cleanup, Mounted, HookOK
  <2>3. timer' = 0 /\ ref' = 0 /\ owner' = owner /\ run' = run
    BY <1>6 DEF Cleanup
  <2>4. connected' = FALSE
    BY <1>6 DEF Cleanup
  <2>5. 0 \in 0..MaxSockets /\ 0 \in 0..Effects
    BY <1>1
  <2>6. connected' \in BOOLEAN /\ ConnectedIsOpen'
    BY <2>4, Zenon DEF ConnectedIsOpen
  <2>7. DisposedIsQuiet'
    BY <2>2, <2>3 DEF DisposedIsQuiet
  <2> QED
    BY <2>1, <2>2, <2>3, <2>5, <2>6, <2>7 DEF HookOK
<1>7. ASSUME NEW s \in Socket, Opened(s) \/ Refused(s) \/ Lost(s) PROVE HookInv'
  <2>1. ws' = [ws EXCEPT ![s] = "open"] \/ ws' = [ws EXCEPT ![s] = "closing"]
    BY <1>7 DEF Opened, Refused, Lost
  <2>2. UNCHANGED <<owner, ref, timer, run, disposed>>
    BY <1>7 DEF Opened, Refused, Lost, page
  <2>3. connected' \in BOOLEAN
    BY <1>7, Zenon DEF Opened, Refused, Lost, HookOK
  <2>4. (\E t \in Socket : ws[t] \in {"open", "closing"}) \/ ws' = [ws EXCEPT ![s] = "open"]
        => \E t \in Socket : ws'[t] \in {"open", "closing"}
    BY <2>1 DEF HookOK
  <2>5. connected' => connected \/ ws' = [ws EXCEPT ![s] = "open"]
    BY <1>7, Zenon DEF Opened, Refused, Lost
  <2>6. ConnectedIsOpen'
    BY <2>4, <2>5 DEF ConnectedIsOpen
  <2> QED
    BY <2>1, <2>2, <2>3, <2>6 DEF HookOK, DisposedIsQuiet
<1>8. ASSUME NEW s \in Socket, Closed(s) PROVE HookInv'
  <2>1. TimerFor(owner[s]) \in 0..Effects /\ TimerFor(owner[s]) \notin disposed
    BY <1>1 DEF TimerFor, HookOK
  <2>2. /\ ws' = [ws EXCEPT ![s] = "none"] /\ owner' = [owner EXCEPT ![s] = 0]
        /\ ref' = 0 /\ timer' = TimerFor(owner[s]) /\ run' = run /\ disposed' = disposed
    BY <1>8 DEF Closed, page
  <2>3. connected' \in BOOLEAN /\ ConnectedIsOpen'
    BY <1>8, Zenon DEF Closed, ConnectedAfter, ConnectedIsOpen
  <2>4. 0 \in 0..MaxSockets /\ 0 \in 0..Effects
    BY <1>1
  <2> QED
    BY <2>1, <2>2, <2>3, <2>4 DEF HookOK, DisposedIsQuiet
<1>9. ASSUME NEW r \in Request,
             Fetch(r) \/ Answer(r) \/ FetchFails(r) \/ RefreshSucceeds(r) \/ RefreshFails(r)
      PROVE  UNCHANGED <<sockets, page>>
  BY <1>9 DEF Fetch, Answer, Serve, Unauthorized, FetchFails, RefreshSucceeds, RefreshFails
<1>10. Logout => UNCHANGED <<sockets, page>>
  BY DEF Logout
<1>11. UNCHANGED vars => UNCHANGED <<sockets, page>>
  BY DEF vars
<1> QED
  BY <1>2, <1>3, <1>4, <1>5, <1>6, <1>7, <1>8, <1>9, <1>10, <1>11 DEF Next, Event

-----------------------------------------------------------------------------
(***************************************************************************)
(* The shared refresh                                                      *)
(***************************************************************************)

\* A call of refreshAccessToken that is under way is the one refreshPromise is from.
Shared == flight \subseteq {promise}

LEMMA SharedStep ==
  ASSUME ClientOK, Shared, [Next]_vars
  PROVE  Shared'
<1>1. ASSUME NEW r \in Request, Unauthorized(r) PROVE Shared'
  <2>1. CASE UNCHANGED <<flight, promise>>
    BY <2>1 DEF Shared
  <2>2. CASE promise' = SharedRefresh(r) /\ flight' = flight \cup {SharedRefresh(r)}
    <3>1. CASE promise = None
      BY <2>2, <3>1, ClientSessionAssumption DEF SharedRefresh, Shared, ClientOK
    <3>2. CASE promise # None
      BY <2>2, <3>2 DEF SharedRefresh, Shared
    <3> QED
      BY <3>1, <3>2
  <2> QED
    BY <1>1, <2>1, <2>2 DEF Unauthorized
<1>2. ASSUME NEW f \in Request, RefreshSucceeds(f) \/ RefreshFails(f) PROVE Shared'
  BY <1>2 DEF RefreshSucceeds, RefreshFails, Resume, Shared
<1>3. ASSUME NEW r \in Request, Fetch(r) \/ Serve(r) \/ FetchFails(r) PROVE Shared'
  BY <1>3 DEF Fetch, Serve, FetchFails, Shared
<1>4. CASE Logout \/ Expire
  BY <1>4 DEF Logout, Expire, calls, Shared
<1>5. CASE RunEffect \/ Cleanup \/ PollFires \/ TimerFires
  BY <1>5 DEF RunEffect, Cleanup, PollFires, TimerFires, calls, Shared
<1>6. ASSUME NEW s \in Socket, Event(s) \/ Lost(s) PROVE Shared'
  BY <1>6 DEF Event, Opened, Refused, Closed, Lost, calls, Shared
<1>7. CASE UNCHANGED vars
  BY <1>7 DEF vars, calls, Shared
<1> QED
  BY <1>1, <1>2, <1>3, <1>4, <1>5, <1>6, <1>7 DEF Next, Answer

-----------------------------------------------------------------------------
(***************************************************************************)
(* Theorems                                                                *)
(***************************************************************************)

LEMMA Invariance == Spec => [](HookInv /\ BoundsOK /\ Shared)
<1>1. Init => HookInv /\ BoundsOK /\ Shared
  <2> SUFFICES ASSUME Init PROVE HookInv /\ BoundsOK /\ Shared
    OBVIOUS
  <2>1. ClientOK /\ Shared
    BY DEF Init, ClientOK, Shared, States
  <2>2. BoundsOK
    BY ClientSessionAssumption DEF Init, BoundsOK
  <2>3. connected \in BOOLEAN /\ ConnectedIsOpen
    BY Zenon DEF Init, ConnectedIsOpen
  <2>4. HookOK /\ DisposedIsQuiet
    BY <2>3, ClientSessionAssumption DEF Init, HookOK, DisposedIsQuiet
  <2> QED
    BY <2>1, <2>2, <2>3, <2>4 DEF HookInv
<1>2. HookInv /\ BoundsOK /\ Shared /\ [Next]_vars => (HookInv /\ BoundsOK /\ Shared)'
  BY ClientStep, HookStep, SharedStep DEF HookInv
<1> QED
  BY <1>1, <1>2, PTL DEF Spec

\* The variables keep their types.
THEOREM Types == Spec => []TypeOK
<1>1. HookInv /\ BoundsOK => TypeOK
  BY TypeParts DEF HookInv
<1> QED
  BY <1>1, Invariance, PTL

\* Any number of requests that meet a 401 share one refresh.
THEOREM OneRefreshHolds == Spec => []OneRefresh
<1>1. Shared => OneRefresh
  BY DEF Shared, OneRefresh
<1> QED
  BY <1>1, Invariance, PTL

\* However many websockets close late, an effect that was cleaned up sets no timer.
THEOREM DisposedIsQuietHolds == Spec => []DisposedIsQuiet
<1>1. HookInv => DisposedIsQuiet
  BY DEF HookInv
<1> QED
  BY <1>1, Invariance, PTL

\* The flag of the page is not left over from a websocket that is gone.
THEOREM ConnectedIsOpenHolds == Spec => []ConnectedIsOpen
<1>1. HookInv => ConnectedIsOpen
  BY DEF HookInv
<1> QED
  BY <1>1, Invariance, PTL
=============================================================================
