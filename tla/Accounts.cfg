SPECIFICATION Spec

CONSTANTS
    annMail = annMail
    AnnMail = AnnMail
    ann = ann
    Ann = Ann
    bobMail = bobMail
    first = first
    second = second
    third = third
    google = google
    again = again
    login = login
    Register = {first, second, third}
    Google = {google, again}
    Login = {login}
    Id = {annMail, AnnMail, ann, Ann, bobMail}
    Lower <- Lowered
    Email <- Emails
    Name <- Names
    Identifier <- Typing
    AccessLife = 1
    NewAccessLife = 2
    RefreshLife = 2
    MaxTime = 3

INVARIANTS
    TypeOK
    NoTwins
    SessionFindsItsAccount
    SessionEnds

\* All requests may be done, and the time up.
CHECK_DEADLOCK FALSE
