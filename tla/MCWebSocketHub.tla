--------------------------- MODULE MCWebSocketHub ---------------------------
(***************************************************************************)
(* Instances of WebSocketHub for TLC.                                      *)
(***************************************************************************)
EXTENDS WebSocketHub, TLC

CONSTANTS s1, s2, A, B, ann, bob, carl

\* ann has one connection and bob the other.
OneEach == [s \in Socket |-> IF s = s2 THEN bob ELSE ann]

\* Every connection is ann's.
AllOfAnn == [s \in Socket |-> ann]

\* A is the chat of ann and bob, B that of ann and carl, who never connects.
DirectChats == [c \in Chat |-> IF c = B THEN {ann, carl} ELSE {ann, bob}]

\* Sound with AllOfAnn: nothing tells one socket from another.
SocketSymmetry == Permutations(Socket)
=============================================================================
