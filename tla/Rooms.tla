-------------------------------- MODULE Rooms --------------------------------
(***************************************************************************)
(* What the hub promises to its connections, without coroutines, sets that *)
(* are shared or Redis: each chat is a room.  Who is in a room may post to *)
(* it and hears what is posted to it, carried to the sockets by carriers   *)
(* that may lose messages but keep their order.  Nobody is put out of a    *)
(* room while its client is connected; a connection that ends in the       *)
(* orderly way takes leave of each room that it is in.                     *)
(***************************************************************************)
EXTENDS Naturals, Sequences

CONSTANTS Socket, Chat, Carrier

VARIABLES
    client,   \* of each socket: new, here, away, leaving, gone, or lost
    room,     \* the sockets in the room of each chat
    parting,  \* {} or {the room that the socket left and has not taken leave of}
    posted,   \* the room of each message, in the order they were posted
    heard     \* the last message each carrier brought to each socket

vars == <<client, room, parting, posted, heard>>

Init ==
    /\ client = [s \in Socket |-> "new"]
    /\ room = [c \in Chat |-> {}]
    /\ parting = [s \in Socket |-> {}]
    /\ posted = <<>>
    /\ heard = [s \in Socket |-> [p \in Carrier |-> 0]]

Becomes(s, from, to) ==
    /\ client[s] \in from
    /\ client' = [client EXCEPT ![s] = to]

Come(s) ==
    /\ Becomes(s, {"new"}, "here")
    /\ UNCHANGED <<room, parting, posted, heard>>

\* The client closes the connection ...
Go(s) ==
    /\ Becomes(s, {"here"}, "away")
    /\ UNCHANGED <<room, parting, posted, heard>>

\* ... the server finds out ...
Notice(s) ==
    /\ Becomes(s, {"away"}, "leaving")
    /\ UNCHANGED <<room, parting, posted, heard>>

\* ... and is done with it when it is in no room.
End(s) ==
    /\ Becomes(s, {"leaving"}, "gone")
    /\ parting[s] = {}
    /\ \A c \in Chat : s \notin room[c]
    /\ UNCHANGED <<room, parting, posted, heard>>

\* Or an exception ends it as it stands: it stays where it is for ever.
Lose(s) ==
    /\ Becomes(s, {"here", "away", "leaving"}, "lost")
    /\ parting' = [parting EXCEPT ![s] = {}]
    /\ UNCHANGED <<room, posted, heard>>

Enter(s, c) ==
    /\ client[s] \in {"here", "away"}
    /\ s \notin room[c]
    /\ room' = [room EXCEPT ![c] = @ \cup {s}]
    /\ UNCHANGED <<client, parting, posted, heard>>

Leave(s, c) ==
    /\ client[s] = "leaving"
    /\ s \in room[c] /\ parting[s] = {}
    /\ room' = [room EXCEPT ![c] = @ \ {s}]
    /\ parting' = [parting EXCEPT ![s] = {c}]
    /\ UNCHANGED <<client, posted, heard>>

TakeLeave(s, c) ==
    /\ parting[s] = {c}
    /\ parting' = [parting EXCEPT ![s] = {}]
    /\ posted' = Append(posted, c)
    /\ UNCHANGED <<client, room, heard>>

Post(s, c) ==
    /\ client[s] \in {"here", "away"}
    /\ s \in room[c]
    /\ posted' = Append(posted, c)
    /\ UNCHANGED <<client, room, parting, heard>>

\* A carrier serves one room, and it does not come back to a message after a later one.
Hear(s, p, m) ==
    /\ client[s] = "here"
    /\ s \in room[posted[m]]
    /\ heard[s][p] < m
    /\ \A t \in Socket : heard[t][p] # 0 =>
           heard[t][p] <= m /\ posted[heard[t][p]] = posted[m]
    /\ heard' = [heard EXCEPT ![s][p] = m]
    /\ UNCHANGED <<client, room, parting, posted>>

Next ==
    \/ \E s \in Socket : Come(s) \/ Go(s) \/ Notice(s) \/ End(s) \/ Lose(s)
    \/ \E s \in Socket, c \in Chat : Enter(s, c) \/ Leave(s, c) \/ TakeLeave(s, c) \/ Post(s, c)
    \/ \E s \in Socket, p \in Carrier : \E m \in DOMAIN posted : Hear(s, p, m)

Spec == Init /\ [][Next]_vars
=============================================================================
