SPECIFICATION FairSpec

CONSTANTS
    ann = ann
    bob = bob
    byAnn = byAnn
    byBob = byBob
    alone = alone
    deleteB = deleteB
    message = message
    viewer = viewer
    None = None
    User = {ann, bob}
    Create = {byAnn, byBob, alone}
    Delete = {deleteB}
    Send = {message}
    View = {viewer}
    MaxCreations = 2
    Actor <- Actors
    Recipient <- Others

INVARIANTS
    TypeOK
    NoSecondAfterAnswer
    OrphansAreReported
    DeletedIsGone

PROPERTIES
    ListsBecomeTrue

\* All requests may be done.
CHECK_DEADLOCK FALSE
