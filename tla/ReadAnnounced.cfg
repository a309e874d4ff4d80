SPECIFICATION FairSpec

CONSTANTS
    c1 = c1
    c2 = c2
    c3 = c3
    ann = ann
    bob = bob
    User = {ann, bob}
    Conn = {c1, c2, c3}
    Elsewhere = Elsewhere
    Owner <- TwoTabsOfAnn
    PageSize = 1
    MaxMessages = 2
    Faults = FALSE

PROPERTIES
    MarkIsAnnounced

\* Clients may stop sending and nothing is left to do.
CHECK_DEADLOCK FALSE
