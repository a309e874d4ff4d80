----------------------------- MODULE MCAccounts -----------------------------
(***************************************************************************)
(* Instances of Accounts for TLC.                                          *)
(***************************************************************************)
EXTENDS Accounts

CONSTANTS
    annMail, AnnMail, bobMail,  \* AnnMail in lower case is annMail
    ann, Ann,                   \* Ann in lower case is ann
    first, second, third, google, again, login

Lowered == [i \in Id |-> IF i = AnnMail THEN annMail ELSE IF i = Ann THEN ann ELSE i]

\* Ann's address, which is the name of the second registration, too, and of the third.  She
\* writes it with a capital when she registers, and Google once returns it like that.
Emails == [c \in Creator |->
    IF c \in {first, again} THEN AnnMail ELSE IF c = third THEN bobMail ELSE annMail]
Names == [r \in Register |-> IF r = first THEN Ann ELSE annMail]
Typing == [l \in Login |-> AnnMail]
=============================================================================
