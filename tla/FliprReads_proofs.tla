------------------------- MODULE FliprReads_proofs -------------------------
(***************************************************************************)
(* Theorems about FliprReads: what polling callers and health probes are    *)
(* told beside any number of writers, faults, crashes and restarts.  The    *)
(* invariant of the writer lock carries over from FliprStore_proofs.        *)
(***************************************************************************)
EXTENDS FliprReads, FliprStore_proofs

\* A step beside the readers is a step of the store, or the refusal of a
\* lock's record, which leaves the store alone.
LEMMA StoreSteps == [ReadsNext]_allVars => [Next]_vars \/ Aside
<1> SUFFICES ASSUME [ReadsNext]_allVars PROVE [Next]_vars \/ Aside
  OBVIOUS
<1>1. CASE WriteBeside \/ CrashReads \/ RestartReads
  BY <1>1 DEF WriteBeside, CrashReads, RestartReads, Next
<1>2. CASE Minute \/ LockRecordRefused
  BY <1>2 DEF Minute, LockRecordRefused, Strikes, Aside
<1>3. ASSUME NEW c \in Callers, ReadRevision(c) \/ ReadSnapshot(c) \/ Health(c)
      PROVE  UNCHANGED vars
  BY <1>3 DEF ReadRevision, ReadSnapshot, Health, Probe, LookAtLock,
              LookAtSink, LookAtWrite
<1>4. CASE UNCHANGED allVars
  BY <1>4 DEF allVars
<1> QED BY <1>1, <1>2, <1>3, <1>4 DEF ReadsNext

LEMMA LockInvBeside == LockInv /\ [ReadsNext]_allVars => LockInv'
BY StoreSteps, LockInvAside

\* Beside its readers the store keeps every promise it makes alone, refusals
\* of a lock's record included.
THEOREM BesideTheorem ==
    ReadsSpec => /\ [](SnapshotIsLastCommit /\ StampsIncrease)
                 /\ [](AcknowledgedIsRecorded /\ StoreAgreesWithRecord)
                 /\ ImplementsFlagStore
<1>1. ReadsInit => Promised /\ Abstract!Init
  BY PromisedInit DEF ReadsInit
<1>2. Promised /\ [ReadsNext]_allVars =>
          Promised' /\ [Abstract!Next]_(Abstract!vars)
  BY StoreSteps, PromisedNext
<1> QED BY <1>1, <1>2, PromisedHolds, PTL
        DEF ReadsSpec, ImplementsFlagStore, Abstract!Spec

---------------------------------------------------------------------------
(***************************************************************************)
(* Types.                                                                   *)
(***************************************************************************)

\* The merged view of a stored namespace is a namespace, or it is not there.
LEMMA GetNamespaceType ==
    ASSUME NEW s \in Stores, NEW n \in Namespaces
    PROVE  GetNamespace(s, n) \in Contents \cup {Absent}
<1>1. s[n] \in Contents \cup {Absent}
  BY DEF Stores
<1>2. Bucket(s[GlobalScope]) \in Contents
  BY ScopeAssumption, BucketType DEF Stores
<1>3. CASE s[n] = Absent \/ n \in GlobalService
  BY <1>1, <1>3 DEF GetNamespace
<1>4. CASE ~(s[n] = Absent \/ n \in GlobalService)
  BY <1>1, <1>2, <1>4 DEF GetNamespace, Contents
<1> QED BY <1>3, <1>4

ReadersTyped ==
    /\ rpc \in [Callers -> {"idle", "snapshot", "locks", "sink", "write"}]
    /\ asked \in [Callers -> Nat]
    /\ held \in [Callers -> Holdings]
    /\ still \in [Callers -> BOOLEAN]
    /\ sinkErr \in BOOLEAN /\ refused \in BOOLEAN
    /\ reasons \in [Callers -> BOOLEAN] /\ well \in [Callers -> BOOLEAN]

LEMMA ReadersTypedNext ==
    LockInv /\ ReadersTyped /\ [ReadsNext]_allVars => ReadersTyped'
<1> SUFFICES ASSUME LockInv, ReadersTyped, [ReadsNext]_allVars
             PROVE  ReadersTyped'
  OBVIOUS
<1> USE DEF ReadersTyped
<1>t. /\ rev \in Nat /\ snap \in Stores /\ lastWriteErr \in BOOLEAN
  BY DEF LockInv, TypeInv, TypeOK
<1>1. ASSUME NEW c \in Callers, ReadRevision(c) PROVE ReadersTyped'
  BY <1>1, <1>t DEF ReadRevision, sink, Calm
<1>2. ASSUME NEW c \in Callers, ReadSnapshot(c) PROVE ReadersTyped'
  <2>1. GetNamespace(snap, Follows[c]) \in Contents \cup {Absent}
    BY <1>t, FollowsAssumption, GetNamespaceType
  <2>2. held' \in [Callers -> Holdings]
    BY <1>2, <2>1 DEF ReadSnapshot, Holdings
  <2> QED BY <1>2, <2>2 DEF ReadSnapshot, sink
<1>3. ASSUME NEW c \in Callers, Health(c) PROVE ReadersTyped'
  <2>1. CASE Probe(c)
    BY <2>1, <1>t DEF Probe, sink, polls, Well
  <2>2. CASE LookAtLock(c) \/ LookAtSink(c)
    BY <2>2 DEF LookAtLock, LookAtSink, sink, polls
  <2>3. CASE LookAtWrite(c)
    BY <2>3 DEF LookAtWrite, sink, polls
  <2> QED BY <1>3, <2>1, <2>2, <2>3 DEF Health
<1>4. CASE WriteBeside
  BY <1>4 DEF WriteBeside, WellAgain
<1>5. CASE CrashReads
  BY <1>5 DEF CrashReads
<1>6. CASE RestartReads \/ UNCHANGED allVars
  BY <1>6 DEF RestartReads, allVars, readers, sink, polls
<1>7. CASE Minute
  BY <1>7 DEF Minute, WellAgain, polls
<1>8. CASE LockRecordRefused
  BY <1>8 DEF LockRecordRefused, polls
<1> QED BY <1>1, <1>2, <1>3, <1>4, <1>5, <1>6, <1>7, <1>8 DEF ReadsNext

ReadsInv == LockInv /\ ReadersTyped

LEMMA ReadsInvariant == ReadsSpec => []ReadsInv
<1>1. ASSUME ReadsInit PROVE ReadsInv
  <2>1. LockInv
    BY <1>1, LockInvInit DEF ReadsInit
  <2>2. ReadersTyped
    BY <1>1 DEF ReadsInit, ReadersTyped, Holdings
  <2> QED BY <2>1, <2>2 DEF ReadsInv
<1>2. ReadsInv /\ [ReadsNext]_allVars => ReadsInv'
  BY LockInvBeside, ReadersTypedNext DEF ReadsInv
<1> QED BY <1>1, <1>2, PTL DEF ReadsSpec

\* Every variable of store and readers keeps to its values, whoever polls
\* whatever namespace beside any writers and faults.
THEOREM ReadsTypeCorrect == ReadsSpec => []ReadsTypeOK
<1>1. ReadsInv => ReadsTypeOK
  BY DEF ReadsInv, LockInv, TypeInv, ReadersTyped, ReadsTypeOK
<1> QED BY <1>1, ReadsInvariant, PTL

\* Whatever the writers left behind, the merged view says of every flag what
\* GetFlag says of it, for any global scope and any namespaces under it.
THEOREM ReadsAgreeTheorem == ReadsSpec => []ReadsAgree
<1>1. ASSUME snap \in Stores PROVE ReadsAgree
  <2> SUFFICES ASSUME NEW n \in Namespaces, NEW k \in Keys, snap[n] # Absent
               PROVE  GetNamespace(snap, n)[k] = GetFlag(snap, n, k)
    BY DEF ReadsAgree
  <2>1. snap[n] \in Contents /\ Bucket(snap[n]) = snap[n]
    BY <1>1 DEF Stores, Bucket
  <2> QED BY <2>1 DEF GetNamespace, GetFlag
<1>2. ReadsInv => snap \in Stores
  BY DEF ReadsInv, LockInv, TypeInv, TypeOK
<1> QED BY <1>1, <1>2, ReadsInvariant, PTL

---------------------------------------------------------------------------
(***************************************************************************)
(* The checkpoint.                                                          *)
(***************************************************************************)

\* A write has left its number on disk and not yet returned.
Moving == {"revision", "reload", "publish", "record", "undo", "undoReload",
           "undoPublish"}

\* A read in flight that has seen nobody write: nothing has moved under it.
\* None is in flight while the process is down.
Steady(c) ==
    /\ rpc[c] = "snapshot" => up
    /\ rpc[c] = "snapshot" /\ still[c] => Calm /\ asked[c] = rev

\* What a caller was told while nobody wrote is what the disk held under that
\* number, and a write that is moving has a later one.
Exact(c) ==
    held[c].quiet =>
        /\ held[c].rev <= diskRev
        /\ held[c].rev = diskRev => held[c].flags = GetNamespace(disk, Follows[c])
        /\ (up /\ held[c].rev = rev)
              => held[c].flags = GetNamespace(snap, Follows[c])
        /\ \A p \in Writers : pc[p] \in Moving => held[c].rev < diskRev

Checkpoints == \A c \in Callers : Steady(c) /\ Exact(c)

\* A write's step leaves what a quiet caller holds exact or outdated: the
\* number has moved before the snapshot does, and the undo keeps the number.
LEMMA ExactBesideWrites ==
    ASSUME LockInv, ReadersTyped, Next, LockInv', held' = held,
           NEW c \in Callers, Exact(c)
    PROVE  Exact(c)'
<1> USE WritersAssumption DEF Exact, Moving, Phases
<1>t. /\ pc \in [Writers -> Phases] /\ next \in [Writers -> Nat]
      /\ rev \in Nat /\ diskRev \in Nat
      /\ ~up => \A p \in Writers : pc[p] = "idle"
      /\ held[c].quiet => held[c].rev \in Nat
  BY DEF LockInv, TypeInv, TypeOK, Serving, ReadersTyped, Holdings, Nothing
<1>n. Numbers /\ Mutex
  BY DEF LockInv
<1> USE DEF Numbers, Mutex, Critical
<1>1. ASSUME NEW p \in Writers, NEW r \in Requests, Accept(p, r) PROVE Exact(c)'
  BY <1>t, <1>1 DEF Accept, Goto, memory, onDisk
<1>2. ASSUME NEW p \in Writers, Lock(p) PROVE Exact(c)'
  BY <1>t, <1>2 DEF Lock, Goto, onDisk
<1>3. ASSUME NEW p \in Writers, Proceed(p) PROVE Exact(c)'
  <2>1. CASE Refuse(p)
    BY <1>t, <2>1 DEF Refuse, Return, Goto, onDisk
  <2>2. CASE Commit(p)
    BY <1>t, <1>n, <2>2 DEF Commit, Goto, memory
  <2>3. CASE StoreRevision(p)
    BY <1>t, <1>n, <2>3 DEF StoreRevision, Goto, onDisk
  <2>4. CASE Reload(p)
    BY <1>t, <2>4 DEF Reload, Goto, onDisk, memory
  <2>5. CASE Publish(p)
    BY <1>t, <1>n, <2>5 DEF Publish, Goto, onDisk
  <2>6. CASE Record(p)
    BY <1>t, <2>6 DEF Record, Goto
  <2>7. CASE Undo(p)
    BY <1>t, <2>7 DEF Undo, Goto, memory
  <2>8. CASE UndoPublish(p)
    BY <1>t, <1>n, <2>8 DEF UndoPublish, Return, Goto, onDisk
  <2>9. CASE Reply(p)
    BY <1>t, <2>9 DEF Reply, Return, Goto, memory, onDisk
  <2> QED BY <1>3, <2>1, <2>2, <2>3, <2>4, <2>5, <2>6, <2>7, <2>8, <2>9 DEF Proceed
<1>4. ASSUME NEW p \in Writers, Fails(p) PROVE Exact(c)'
  <2>1. CASE CommitFails(p) \/ ReloadFails(p) \/ UndoFails(p) \/ UndoReloadFails(p)
    BY <1>t, <2>1
    DEF CommitFails, ReloadFails, UndoFails, UndoReloadFails, Return, Goto, onDisk
  <2>2. CASE SinkFails(p) \/ FsyncFails(p)
    BY <1>t, <2>2 DEF SinkFails, FsyncFails, Goto, memory, onDisk
  <2> QED BY <1>4, <2>1, <2>2 DEF Fails
<1>5. ASSUME Crash PROVE Exact(c)'
  BY <1>t, <1>5 DEF Crash, onDisk
<1>6. ASSUME Restart PROVE Exact(c)'
  BY <1>t, <1>6 DEF Restart, onDisk
<1> QED BY <1>1, <1>2, <1>3, <1>4, <1>5, <1>6 DEF Next, WriteStep

\* While nobody holds the lock before and after a step of a write, neither the
\* number nor the snapshot moves.
LEMMA CalmStep ==
    ASSUME LockInv, WriteStep, Calm, Calm'
    PROVE  rev' = rev
<1> USE WritersAssumption DEF Calm, Phases, Critical
<1>t. /\ pc \in [Writers -> Phases] /\ wmu = Nobody
      /\ \A p \in Writers : pc[p] \notin Critical
  BY DEF LockInv, TypeInv, TypeOK, Mutex
<1>1. ASSUME NEW p \in Writers, NEW r \in Requests, Accept(p, r) PROVE rev' = rev
  BY <1>1 DEF Accept, memory
<1>2. ASSUME NEW p \in Writers, Lock(p) PROVE rev' = rev
  BY <1>2 DEF Lock
<1>3. ASSUME NEW p \in Writers, Proceed(p) PROVE rev' = rev
  BY <1>t, <1>3
  DEF Proceed, Refuse, Commit, StoreRevision, Reload, Publish, Record, Undo,
      UndoPublish, Reply, Return, Goto, memory
<1>4. ASSUME NEW p \in Writers, Fails(p) PROVE rev' = rev
  BY <1>t, <1>4
  DEF Fails, CommitFails, ReloadFails, SinkFails, FsyncFails, UndoFails,
      UndoReloadFails, Return, Goto, memory
<1> QED BY <1>1, <1>2, <1>3, <1>4 DEF WriteStep

\* Every step keeps the checkpoints.
LEMMA CheckpointsNext ==
    ReadsInv /\ Checkpoints /\ [ReadsNext]_allVars => Checkpoints'
<1> SUFFICES ASSUME ReadsInv, Checkpoints, [ReadsNext]_allVars,
                    NEW c \in Callers
             PROVE  Steady(c)' /\ Exact(c)'
  BY DEF Checkpoints
<1>t. /\ LockInv /\ LockInv' /\ ReadersTyped /\ Steady(c) /\ Exact(c)
      /\ rpc \in [Callers -> {"idle", "snapshot", "locks", "sink", "write"}]
      /\ asked \in [Callers -> Nat] /\ held \in [Callers -> Holdings]
      /\ still \in [Callers -> BOOLEAN]
  BY LockInvBeside DEF ReadsInv, Checkpoints, ReadersTyped
<1>1. ASSUME NEW d \in Callers, ReadRevision(d) PROVE Steady(c)' /\ Exact(c)'
  <2>1. UNCHANGED <<held, onDisk, memory, pc>>
    BY <1>1 DEF ReadRevision, vars
  <2>2. Exact(c)'
    BY <1>t, <2>1 DEF Exact, onDisk, memory
  <2>3. Steady(c)'
    BY <1>t, <1>1, <2>1 DEF ReadRevision, Steady, Calm, memory
  <2> QED BY <2>2, <2>3
<1>2. ASSUME NEW d \in Callers, ReadSnapshot(d) PROVE Steady(c)' /\ Exact(c)'
  <2>1. UNCHANGED <<onDisk, memory, pc>>
    BY <1>2 DEF ReadSnapshot, vars
  <2>2. Steady(c)'
    BY <1>t, <1>2, <2>1 DEF ReadSnapshot, Steady, Calm, memory
  <2>3. ASSUME held'[c] = held[c] PROVE Exact(c)'
    BY <1>t, <2>1, <2>3 DEF Exact, onDisk, memory
  <2>4. ASSUME held'[c] # held[c] PROVE Exact(c)'
    <3>1. /\ c = d /\ up /\ rpc[c] = "snapshot"
          /\ held'[c] = [rev |-> asked[c],
                         flags |-> GetNamespace(snap, Follows[c]),
                         quiet |-> still[c]]
      BY <1>t, <1>2, <2>4 DEF ReadSnapshot
    <3>2. SUFFICES ASSUME still[c] PROVE Exact(c)'
      BY <3>1 DEF Exact
    <3>3. /\ asked[c] = rev /\ wmu = Nobody /\ ~lastWriteErr
      BY <1>t, <3>1, <3>2 DEF Steady, Calm
    <3>4. /\ rev = diskRev /\ snap = disk /\ diskRev \in Nat
          /\ \A p \in Writers : pc[p] \notin Moving
      BY <1>t, <3>1, <3>3, WritersAssumption
      DEF LockInv, TypeInv, TypeOK, Numbers, Snapshots, Mutex, Critical,
          Phases, Moving
    <3> QED BY <2>1, <3>1, <3>3, <3>4 DEF Exact, onDisk, memory
  <2> QED BY <2>2, <2>3, <2>4
<1>3. ASSUME NEW d \in Callers, Health(d) PROVE Steady(c)' /\ Exact(c)'
  <2>1. /\ UNCHANGED <<held, asked, still, onDisk, memory, pc>>
        /\ rpc'[c] = "snapshot" => rpc[c] = "snapshot"
    BY <1>t, <1>3 DEF Health, Probe, LookAtLock, LookAtSink, LookAtWrite, polls, vars
  <2> QED BY <1>t, <2>1 DEF Steady, Exact, Calm, onDisk, memory
<1>4. CASE WriteBeside
  <2>1. /\ WriteStep /\ Next /\ UNCHANGED <<rpc, asked, held>>
        /\ still'[c] = (still[c] /\ Calm')
    BY <1>4 DEF WriteBeside, Next
  <2>2. Exact(c)'
    BY <1>t, <2>1, ExactBesideWrites
  <2>3. Steady(c)'
    <3>1. up' = up
      BY <2>1 DEF WriteStep, Accept, Lock, Proceed, Fails, Refuse, Commit,
              StoreRevision, Reload, Publish, Record, Undo, UndoPublish, Reply,
              CommitFails, ReloadFails, SinkFails, FsyncFails, UndoFails,
              UndoReloadFails, memory
    <3> QED BY <1>t, <2>1, <3>1, CalmStep DEF Steady
  <2> QED BY <2>2, <2>3
<1>5. CASE CrashReads
  <2>1. Exact(c)'
    BY <1>t, <1>5, ExactBesideWrites DEF CrashReads, Next
  <2>2. Steady(c)'
    BY <1>5 DEF CrashReads, Steady
  <2> QED BY <2>1, <2>2
<1>6. CASE RestartReads
  <2>1. Exact(c)'
    BY <1>t, <1>6, ExactBesideWrites DEF RestartReads, Next, readers, polls
  <2>2. Steady(c)'
    <3>1. ~up /\ UNCHANGED rpc
      BY <1>6 DEF RestartReads, Restart, readers
    <3> QED BY <1>t, <3>1 DEF Steady, Calm
  <2> QED BY <2>1, <2>2
<1>7. CASE Minute \/ LockRecordRefused \/ UNCHANGED allVars
  <2>1. UNCHANGED <<rpc, held, asked, still, onDisk, memory, pc>>
    BY <1>7 DEF Minute, LockRecordRefused, allVars, readers, polls, vars
  <2> QED BY <1>t, <2>1 DEF Steady, Exact, Calm, onDisk, memory
<1> QED BY <1>1, <1>2, <1>3, <1>4, <1>5, <1>6, <1>7 DEF ReadsNext

\* "Nothing has changed" is exact where it is so: what a caller was answered
\* while nobody wrote and no failure stood is the namespace's contents for as
\* long as its number stands, through every undo, fault, crash and restart.
THEOREM CheckpointTheorem == ReadsSpec => []QuietAnswersStayExact
<1>1. ReadsInit => Checkpoints
  BY DEF ReadsInit, Init, Checkpoints, Steady, Exact, Nothing
<1>2. ReadsInv /\ Checkpoints /\ [ReadsNext]_allVars => Checkpoints'
  BY CheckpointsNext
<1>3. Checkpoints => QuietAnswersStayExact
  BY DEF Checkpoints, Exact, QuietAnswersStayExact, Unchanged
<1> QED BY <1>1, <1>2, <1>3, ReadsInvariant, PTL DEF ReadsSpec

---------------------------------------------------------------------------
(***************************************************************************)
(* Health.                                                                  *)
(***************************************************************************)

\* A write that is about to ask the sink has cleared the failure before it.
Cleared == \A p \in Writers : pc[p] = "record" => ~lastWriteErr

\* A probe in flight has noted a moment that was well; one that found no
\* reason at the sink has either seen such a moment, or stands between a
\* failed write and the write that will clear it.
Noted(c) ==
    /\ (rpc[c] \in {"locks", "sink", "write"} /\ Well) => well[c]
    /\ (rpc[c] = "write" /\ ~reasons[c]) =>
          well[c] \/ (lastWriteErr /\ ~refused)

HealthInv ==
    /\ Cleared
    /\ refused => sinkErr
    /\ \A c \in Callers : Noted(c)

\* Only the holder of the lock notes a failure, and not before its record.
LEMMA ClearedNext == LockInv /\ Cleared /\ [Next]_vars => Cleared'
<1> SUFFICES ASSUME LockInv, Cleared, [Next]_vars PROVE Cleared'
  OBVIOUS
<1> USE WritersAssumption DEF Cleared, Critical, Phases
<1>t. /\ pc \in [Writers -> Phases] /\ Mutex
  BY DEF LockInv, TypeInv, TypeOK
<1> USE DEF Mutex
<1>1. ASSUME NEW p \in Writers, NEW r \in Requests, Accept(p, r) PROVE Cleared'
  BY <1>t, <1>1 DEF Accept, Goto, memory
<1>2. ASSUME NEW p \in Writers, Lock(p) PROVE Cleared'
  BY <1>t, <1>2 DEF Lock, Goto
<1>3. ASSUME NEW p \in Writers, Proceed(p) PROVE Cleared'
  BY <1>t, <1>3
  DEF Proceed, Refuse, Commit, StoreRevision, Reload, Publish, Record, Undo,
      UndoPublish, Reply, Return, Goto, memory
<1>4. ASSUME NEW p \in Writers, Fails(p) PROVE Cleared'
  BY <1>t, <1>4
  DEF Fails, CommitFails, ReloadFails, SinkFails, FsyncFails, UndoFails,
      UndoReloadFails, Return, Goto, memory
<1>5. CASE Crash \/ Restart \/ UNCHANGED vars
  BY <1>t, <1>5 DEF Crash, Restart, vars, memory
<1> QED BY <1>1, <1>2, <1>3, <1>4, <1>5 DEF Next, WriteStep

\* A write's refusal at the sink leaves the last failure as it found it.
LEMMA RefusedStep ==
    ASSUME LockInv, WriteStep, RecordRefused
    PROVE  /\ lastWriteErr' = lastWriteErr
           /\ \E p \in Writers : pc[p] = "record"
<1>t. pc \in [Writers -> Phases]
  BY DEF LockInv, TypeInv, TypeOK
<1>1. PICK q \in Writers : pc[q] = "record" /\ pc'[q] = "undo"
  BY DEF RecordRefused
<1>2. ASSUME NEW p \in Writers, NEW r \in Requests, Accept(p, r) PROVE FALSE
  BY <1>t, <1>1, <1>2 DEF Accept, Goto, Phases
<1>3. ASSUME NEW p \in Writers, Lock(p) PROVE FALSE
  BY <1>t, <1>1, <1>3 DEF Lock, Goto, Phases
<1>4. ASSUME NEW p \in Writers, Proceed(p) PROVE FALSE
  BY <1>t, <1>1, <1>4
  DEF Proceed, Refuse, Commit, StoreRevision, Reload, Publish, Record, Undo,
      UndoPublish, Reply, Return, Goto, Phases
<1>5. ASSUME NEW p \in Writers, Fails(p) PROVE lastWriteErr' = lastWriteErr
  BY <1>t, <1>1, <1>5
  DEF Fails, CommitFails, ReloadFails, SinkFails, FsyncFails, UndoFails,
      UndoReloadFails, Return, Goto, memory, Phases
<1> QED BY <1>1, <1>2, <1>3, <1>4, <1>5 DEF WriteStep

LEMMA HealthNext ==
    ReadsInv /\ HealthInv /\ [ReadsNext]_allVars => HealthInv'
<1> SUFFICES ASSUME ReadsInv, HealthInv, [ReadsNext]_allVars PROVE HealthInv'
  OBVIOUS
<1>t. /\ LockInv /\ ReadersTyped /\ Cleared /\ (refused => sinkErr)
      /\ rpc \in [Callers -> {"idle", "snapshot", "locks", "sink", "write"}]
      /\ reasons \in [Callers -> BOOLEAN] /\ well \in [Callers -> BOOLEAN]
      /\ sinkErr \in BOOLEAN /\ refused \in BOOLEAN /\ lastWriteErr \in BOOLEAN
  BY DEF ReadsInv, HealthInv, ReadersTyped, LockInv, TypeInv, TypeOK
<1>c. Cleared'
  <2>1. CASE [Next]_vars
    BY <1>t, <2>1, ClearedNext
  <2>2. CASE Aside
    BY <1>t, <2>2 DEF Aside, Cleared, memory
  <2> QED BY <2>1, <2>2, StoreSteps
<1>1. ASSUME NEW d \in Callers, ReadRevision(d) \/ ReadSnapshot(d) PROVE HealthInv'
  <2>1. UNCHANGED <<reasons, sinkErr, refused, well, lastWriteErr>>
    BY <1>1 DEF ReadRevision, ReadSnapshot, sink, vars, memory
  <2>2. ASSUME NEW c \in Callers PROVE Noted(c) => Noted(c)'
    BY <1>t, <1>1, <2>1 DEF ReadRevision, ReadSnapshot, Noted, Well
  <2> QED BY <1>c, <2>1, <2>2 DEF HealthInv
<1>2. ASSUME NEW d \in Callers, Health(d) PROVE HealthInv'
  <2>1. UNCHANGED <<sinkErr, refused, lastWriteErr>>
    BY <1>2 DEF Health, Probe, LookAtLock, LookAtSink, LookAtWrite, sink, vars, memory
  <2>2. ASSUME NEW c \in Callers PROVE Noted(c)'
    <3>n. Noted(c)
      BY DEF HealthInv
    <3>1. CASE Probe(d)
      BY <1>t, <2>1, <3>n, <3>1 DEF Probe, Noted, Well
    <3>2. CASE LookAtLock(d)
      BY <1>t, <2>1, <3>n, <3>2 DEF LookAtLock, Noted, Well
    <3>3. CASE LookAtSink(d)
      BY <1>t, <2>1, <3>n, <3>3 DEF LookAtSink, Noted, Well
    <3>4. CASE LookAtWrite(d)
      BY <1>t, <2>1, <3>n, <3>4 DEF LookAtWrite, Noted, Well
    <3> QED BY <1>2, <3>1, <3>2, <3>3, <3>4 DEF Health
  <2> QED BY <1>c, <1>t, <2>1, <2>2 DEF HealthInv
<1>3. CASE WriteBeside
  <2>1. /\ WriteStep /\ UNCHANGED <<rpc, reasons>>
        /\ sinkErr' = (sinkErr \/ RecordRefused)
        /\ refused' = (refused \/ RecordRefused)
        /\ WellAgain
    BY <1>3 DEF WriteBeside
  <2>2. lastWriteErr' \in BOOLEAN
    BY LockInvBeside, <1>t DEF LockInv, TypeInv, TypeOK
  <2>3. RecordRefused => ~lastWriteErr
    BY <1>t, <2>1, RefusedStep DEF Cleared
  <2>4. ASSUME NEW c \in Callers PROVE Noted(c)'
    <3>1. Noted(c) /\ well'[c] = (well[c] \/ (c \in Probing /\ Well'))
      BY <2>1 DEF HealthInv, WellAgain
    <3> QED BY <1>t, <2>1, <2>2, <2>3, <3>1 DEF Noted, Well, Probing
  <2> QED BY <1>c, <1>t, <2>1, <2>4 DEF HealthInv
<1>4. CASE CrashReads
  BY <1>c, <1>4 DEF CrashReads, HealthInv, Noted
<1>5. CASE RestartReads \/ UNCHANGED allVars
  <2>1. UNCHANGED <<rpc, reasons, well, sinkErr, refused, lastWriteErr>>
    BY <1>5 DEF RestartReads, Restart, allVars, readers, sink, vars, memory
  <2> QED BY <1>c, <2>1 DEF HealthInv, Noted, Well
<1>6. CASE Minute
  <2>1. /\ UNCHANGED <<rpc, reasons, lastWriteErr>>
        /\ sinkErr' = FALSE /\ refused' = FALSE /\ WellAgain
    BY <1>6 DEF Minute, vars, memory
  <2>2. ASSUME NEW c \in Callers PROVE Noted(c)'
    <3>1. Noted(c) /\ well'[c] = (well[c] \/ (c \in Probing /\ Well'))
      BY <2>1 DEF HealthInv, WellAgain
    <3> QED BY <1>t, <2>1, <3>1 DEF Noted, Well, Probing
  <2> QED BY <1>c, <2>1, <2>2 DEF HealthInv
<1>7. CASE LockRecordRefused
  <2>1. /\ UNCHANGED <<rpc, reasons, well, refused, lastWriteErr>>
        /\ sinkErr' = TRUE
    BY <1>7 DEF LockRecordRefused, memory
  <2> QED BY <1>c, <2>1 DEF HealthInv, Noted, Well
<1> QED BY <1>1, <1>2, <1>3, <1>4, <1>5, <1>6, <1>7 DEF ReadsNext

\* A probe that answers healthy was right at a moment of its own, for any
\* number of probes beside any writes, faults and refused records.
THEOREM HealthTheorem == ReadsSpec => HealthyWasTrue
<1>1. ReadsInit => HealthInv
  BY DEF ReadsInit, Init, HealthInv, Cleared, Noted
<1>2. ReadsInv /\ HealthInv /\ [ReadsNext]_allVars => HealthInv'
  BY HealthNext
<1>3. HealthInv /\ [ReadsNext]_allVars
        => [\A c \in Callers : SaysHealthy(c) => well[c]]_allVars
  <2> SUFFICES ASSUME HealthInv, NEW c \in Callers, SaysHealthy(c)
               PROVE  well[c]
    OBVIOUS
  <2>1. rpc[c] = "write" /\ ~reasons[c] /\ ~lastWriteErr
    BY DEF SaysHealthy, Verdict
  <2> QED BY <2>1 DEF HealthInv, Noted
<1> QED BY <1>1, <1>2, <1>3, ReadsInvariant, PTL DEF ReadsSpec, HealthyWasTrue
=============================================================================
