CONSTANTS
    app = app
    own = own
    k1 = k1
    on = on
    off = off
    plain = plain
    Namespaces = {app, own}
    Keys = {k1}
    Values = {on, off}
    KindOf <- MCKindOf
    Metas = {plain}
    Expensive = {}
    Polar = {}
    Negated = {}
    FlagBudget = 1
    NoValue = NoValue
    NoMeta = NoMeta
    NoFlag = NoFlag
    NoKey = NoKey
    Absent = Absent
    Garbage = Garbage
    Requests <- Asked
    Offline = {}
    Declaration <- Declares
    Faults = {"medium"}
    MaxFaults = 1
    MaxStops = 3
    MaxTries = 4
    Slips = {"publish", "kill", "retention", "foreign", "broker"}
    MaxSlips = 1
    Stall = 1
    Grace = 1
SPECIFICATION TopicFairSpec
INVARIANTS
    TopicTypeOK
    TopicIsRestored
    TopicKeepsTold
    MirrorIsRecorded
PROPERTIES
    ReplayEnds
CHECK_DEADLOCK FALSE
