CONSTANTS
    app = app
    glob = glob
    k1 = k1
    k2 = k2
    on = on
    off = off
    text = text
    cheap = cheap
    dear = dear
    Namespaces = {app, glob}
    Keys = {k1, k2}
    Values = {on, off, text}
    KindOf <- MCKindOf
    Metas = {cheap, dear}
    Expensive = {dear}
    Polar = {dear}
    Negated = {}
    FlagBudget = 1
    NoValue = NoValue
    NoMeta = NoMeta
    NoFlag = NoFlag
    NoKey = NoKey
    Absent = Absent
    Writers = {w1, w2}
    Nobody = Nobody
    Requests <- Contended
    Faults = {"commit", "reload", "sink", "fsync", "rollback", "crash"}
    MaxFaults = 2
    MaxRequests = 3
SPECIFICATION FairSpec
INVARIANTS
    TypeOK
    SnapshotIsLastCommit
    AcknowledgedIsRecorded
    StampsIncrease
    StoreAgreesWithRecord
PROPERTIES
    ValuesChangeByFlip
    EmergencyPageSurvivesFlips
    KindIsStable
    FlipsKeepTheBudget
    ImplementsFlagStore
    StrictWhileWhole
    EveryWriteIsAnswered
CHECK_DEADLOCK FALSE
