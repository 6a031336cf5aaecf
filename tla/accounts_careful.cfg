SPECIFICATION CarefulSpec
CONSTANTS
    ann = ann
    ANN = ANN
    m = m
    e1 = e1
    e2 = e2
    Forms <- MCForms
    Names <- MCNames
    Lower <- MCLower
    Messages <- MCMessages
    Calls <- MCCalls
    Registered <- MCNobody
    Requests = {r1, r2, r3, r4}
    Devices = {d1, d2}
    Emails = {e1, e2}
    None = None
    MaxTime = 0
    MaxFaults = 0
    MaxMishaps = 0
    MaxLogins = 2
CHECK_DEADLOCK FALSE
SYMMETRY AccountSymmetry
INVARIANTS UniqueUsernames UniqueDisplayNames UsersHaveAccounts AppStaysAlive MainShowsOwnName
