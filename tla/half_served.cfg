CONSTANTS
    app = app
    own = own
    k1 = k1
    on = on
    off = off
    plain = plain
    Namespaces = {app, own}
    Keys = {k1}
    Values = {on, off}
    KindOf <- MCKindOf
    Metas = {plain}
    Expensive = {}
    Polar = {}
    Negated = {}
    FlagBudget = 1
    NoValue = NoValue
    NoMeta = NoMeta
    NoFlag = NoFlag
    NoKey = NoKey
    Absent = Absent
    Garbage = Garbage
    Requests <- OneFlip
    Offline <- ByHand
    Declaration <- Declares
    Faults = {"kill"}
    MaxFaults = 1
    MaxStops = 3
    MaxTries = 5
SPECIFICATION Spec
INVARIANTS
    HalfStoreIsNotServed
CHECK_DEADLOCK FALSE
