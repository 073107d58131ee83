CONSTANTS
    Threads = {t1, t2}
    Keys = {k1}
    DeclaredOn = {k1}
    Undeclared = Undeclared
    NoNamespace = NoNamespace
    NoReply = NoReply
    Silent = Silent
    Policy = "hold"
    Verbs = {"Check", "Set", "List"}
    Starts = {"open", "locked", "down"}
    TTL = 2
    Timeout = 1
    LockFor = 1
    Attempts = 2
    MaxTime = 4
    MaxCalls = 2
    MaxEvents = 1
SPECIFICATION FairSpec
INVARIANTS
    ClientTypeOK
    StandingLockIsRecent
PROPERTIES
    
    UnansweredIsUnknown
    PromotionDeclares
    EveryCallReturns
CHECK_DEADLOCK FALSE
