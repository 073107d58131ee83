CONSTANTS
    app = app
    glob = glob
    k1 = k1
    on = on
    off = off
    c1 = c1
    Namespaces = {app, glob}
    Keys = {k1}
    Values = {on, off}
    KindOf <- MCKindOf
    Metas = {}
    Expensive = {}
    Polar = {}
    Negated = {}
    FlagBudget = 1
    NoValue = NoValue
    NoMeta = NoMeta
    NoFlag = NoFlag
    NoKey = NoKey
    Absent = Absent
    Writers = {w1}
    Nobody = Nobody
    Requests <- Apart
    Faults = {"sink", "rollback"}
    MaxFaults = 2
    MaxRequests = 3
    GlobalScope = glob
    GlobalService = {glob}
    Callers = {c1}
    Follows <- MCFollows
SPECIFICATION ReadsSpec
PROPERTIES
    UnloggedIsNeverQuiet
CHECK_DEADLOCK FALSE
