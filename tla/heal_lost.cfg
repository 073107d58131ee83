CONSTANTS
    Threads = {t1, t2}
    Keys = {k1}
    DeclaredOn = {k1}
    Undeclared = Undeclared
    NoNamespace = NoNamespace
    NoReply = NoReply
    Silent = Silent
    Policy = "hold"
    Verbs = {"Check"}
    Starts = {"open"}
    TTL = 2
    Timeout = 1
    LockFor = 1
    Attempts = 1
    MaxTime = 4
    MaxCalls = 2
    MaxEvents = 2
SPECIFICATION Spec
SYMMETRY ThreadsAreAlike
INVARIANTS
    GenerationIsDeclared
CHECK_DEADLOCK FALSE
