---------------------------- MODULE MCDirectChats ----------------------------
(***************************************************************************)
(* Instances of DirectChats for TLC.                                       *)
(***************************************************************************)
EXTENDS DirectChats

CONSTANTS ann, bob, byAnn, byBob, alone, deleteB, message, viewer

\* Both create a chat with the other, and ann one with herself; deleteB and the message are
\* bob's, the view is ann's.
Actors ==
    [q \in Request \cup View |-> IF q \in {byBob, deleteB, message} THEN bob ELSE ann]

Others == [r \in Create |-> IF r = byAnn THEN bob ELSE ann]
=============================================================================
