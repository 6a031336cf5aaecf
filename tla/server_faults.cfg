SPECIFICATION BothSpec
CONSTANTS
    ann = ann
    bob = bob
    BOB = BOB
    m1 = m1
    m2 = m2
    Names <- MCNames
    Lower <- MCLower
    Messages <- MCMessages
    Calls <- AllCalls
    Requests = {r1, r2}
    Registered <- MCRegistered
    MaxTime = 1
    MaxFaults = 2
INVARIANTS
    TypeOK
    PreviewIsStored
    SenderIsInChat
    ChatListHasUser
    SuccessIsVisible
    ReadIsPrefix
    ChatIdNotStale
    OneItemPerContact
PROPERTIES
    ConversationsOnlyGrow
    EveryRequestAnswered
CHECK_DEADLOCK FALSE
