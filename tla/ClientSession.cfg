SPECIFICATION FairSpec

CONSTANTS
    r1 = r1
    r2 = r2
    None = None
    Request = {r1, r2}
    MaxSockets = 2
    Effects = 2
    MaxExpiries = 2
    MaxLosses = 1

INVARIANTS
    TypeOK
    OneRefresh
    DisposedIsQuiet
    ConnectedIsOpen

PROPERTIES
    FetchesEnd
    Reconnects

\* The page may be left.
CHECK_DEADLOCK FALSE
