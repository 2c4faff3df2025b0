SPECIFICATION Spec
CONSTANTS
    Accounts = {x, y}
    Owner = x
    Network = TRUE
    Sessions = {s1, s2}
    MaxKeys = 2
    MaxSessions = 1
    MaxRequests = 2
    MaxId = 4
    MaxIndex = 1
    MaxIssued = 3
INVARIANTS
    
    AnsweredOnce
    IndexesIncrease
    OwnAccountOnly
PROPERTY KeysDropped
