SPECIFICATION Spec

CONSTANTS
    s1 = s1
    s2 = s2
    A = A
    B = B
    ann = ann
    bob = bob
    carl = carl
    NoChat = NoChat
    Socket = {s1, s2}
    Chat = {A, B}
    User = {ann, bob, carl}
    Owner <- OneEach
    Participants <- DirectChats
    MaxPubSub = 4
    MaxRequests = 0
    Faults = FALSE

INVARIANT
    EveryChannelHasReader

\* Clients may leave for good and the hub then rests.
CHECK_DEADLOCK FALSE
