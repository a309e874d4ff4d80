---------------------------- MODULE MCReadStatus -----------------------------
(***************************************************************************)
(* Instances of ReadStatus for TLC.                                        *)
(***************************************************************************)
EXTENDS ReadStatus

CONSTANTS c1, c2, c3, ann, bob

\* Two tabs of ann's, where there is a c3, and one of bob's.
TwoTabsOfAnn == [c \in Conn |-> IF c = c2 THEN bob ELSE ann]
=============================================================================
