SPECIFICATION SerialSpec
CONSTANTS
    ann = ann
    bob = bob
    BOB = BOB
    m1 = m1
    m2 = m2
    Names <- MCNames
    Lower <- MCLower
    Messages <- MCMessages
    Calls <- SerialCalls
    Requests = {r1, r2, r3}
    Registered <- ThreeRegistered
    MaxTime = 0
    MaxFaults = 1
SYMMETRY RequestSymmetry
INVARIANTS
    ChatIdNamesPair
    PairHasOneChat
    OneLogPerChat
    StoredAtMostOnce
    EverySuccessIsVisible
PROPERTIES
    ImplementsConversations
CHECK_DEADLOCK FALSE
