SPECIFICATION FairSpec

CONSTANTS
    ann = ann
    bob = bob
    tab = tab
    otherTab = otherTab
    User = {ann, bob}
    Other <- Others
    View = {tab}
    PageSize = 1
    Limit = 1
    MaxMessages = 3
    Author <- Authors

INVARIANTS
    TypeOK
    WalkIsComplete
    MoreIsTrue
    ReadIsTrue

PROPERTIES
    PagesBecomeCurrent
