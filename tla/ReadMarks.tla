------------------------------ MODULE ReadMarks ------------------------------
(***************************************************************************)
(* What reading a chat promises: each user has one mark, the last message  *)
(* the user has read; it only moves forward, over messages that exist, and *)
(* what the peer is told is a mark the user has really set.                *)
(***************************************************************************)
EXTENDS Naturals

CONSTANTS User, MaxMessages

VARIABLES
    sent,   \* messages 1..sent exist
    mark,   \* the last message each user has read
    told    \* the last message each user was announced to have read

vars == <<sent, mark, told>>

Init ==
    /\ sent = 0
    /\ mark = [u \in User |-> 0]
    /\ told = [u \in User |-> 0]

Send ==
    /\ sent < MaxMessages
    /\ sent' = sent + 1
    /\ UNCHANGED <<mark, told>>

Read(u) ==
    /\ \E m \in (mark[u] + 1)..sent : mark' = [mark EXCEPT ![u] = m]
    /\ UNCHANGED <<sent, told>>

Announce(u) ==
    /\ told[u] < mark[u]
    /\ told' = [told EXCEPT ![u] = mark[u]]
    /\ UNCHANGED <<sent, mark>>

Next == Send \/ \E u \in User : Read(u) \/ Announce(u)

Spec == Init /\ [][Next]_vars
=============================================================================
