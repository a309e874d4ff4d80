--------------------------- MODULE MCMessageViews ---------------------------
(***************************************************************************)
(* Instances of MessageViews for TLC.                                      *)
(***************************************************************************)
EXTENDS MessageViews

CONSTANTS ann, bob, tab, otherTab

Others == [u \in User |-> IF u = ann THEN bob ELSE ann]

\* The first message and the third are ann's.
Authors == [m \in 1..MaxMessages |-> IF m = 2 THEN bob ELSE ann]
=============================================================================
