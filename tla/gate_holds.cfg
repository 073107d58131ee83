CONSTANTS
    clients = clients
    refuse = refuse
    on = on
    known = known
    triple = triple
    tool = tool
    copy = copy
    Namespaces = {clients}
    Keys = {refuse, known}
    Values = {on, triple}
    KindOf <- MCKindOf
    Metas = {}
    Expensive = {}
    Polar = {}
    Negated = {}
    FlagBudget = 24
    NoValue = NoValue
    NoMeta = NoMeta
    NoFlag = NoFlag
    NoKey = NoKey
    Absent = Absent
    Writers = {w1, w2}
    Nobody = Nobody
    Requests <- Writing
    Faults = {"sink", "stat", "crash"}
    MaxFaults = 2
    MaxRequests = 1
    Peeks <- Reading
    Clients = {tool, copy}
    Knocks <- MCKnocks
    TripleOf <- MCTripleOf
    Tool = tool
    ClientsNs = clients
    RefuseKey = refuse
    RefuseOn = on
    Star = Star
    Every = 2
    Scopes = {Star, clients}
    MaxTouches = 2
    MaxArrivals = 3
    MaxTime = 4
SPECIFICATION GateSpec
SYMMETRY WritersAreAlike
INVARIANTS
    GateTypeOK
    LockIsRecorded
    QuietSetIsExact
PROPERTIES
    LockIsHonoured
    UnlockIsHonoured
CHECK_DEADLOCK FALSE
