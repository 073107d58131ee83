CONSTANTS
    app = app
    own = own
    k1 = k1
    on = on
    off = off
    plain = plain
    Namespaces = {app, own}
    Keys = {k1}
    Values = {on, off}
    KindOf <- MCKindOf
    Metas = {plain}
    Expensive = {}
    Polar = {}
    Negated = {}
    FlagBudget = 1
    NoValue = NoValue
    NoMeta = NoMeta
    NoFlag = NoFlag
    NoKey = NoKey
    Absent = Absent
    Garbage = Garbage
    Requests <- Asked
    Offline <- ByHand
    Declaration <- Declares
    Faults = {"medium", "kill", "fsync", "replay", "unrecorded"}
    MaxFaults = 2
    MaxStops = 3
    MaxTries = 5
SPECIFICATION Spec
INVARIANTS
    RecordTypeOK
    RecordReplays
    StoreHoldsTheRecord
    NumbersNameOneRecord
    AcknowledgedIsReadable
    WayBack
CHECK_DEADLOCK FALSE
