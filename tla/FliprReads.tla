----------------------------- MODULE FliprReads -----------------------------
(***************************************************************************)
(* Readers beside the write path: GetFlag and GetNamespace resolved against *)
(* the published snapshot (store.go), the checkpoint protocol of            *)
(* handleGetNamespace (server.go), in which a caller sends the revision it  *)
(* holds and is told "unchanged" when that is the current one, and the      *)
(* health probe (handleHealth), which looks at the store, the lock, the     *)
(* sink's last refusal (oplog.go) and the last failed write in turn.        *)
(*                                                                         *)
(* No handler here takes a lock, so a write can be anywhere between two     *)
(* looks of one.                                                            *)
(***************************************************************************)
EXTENDS FliprStore

CONSTANTS
    GlobalScope,     \* _global@_
    GlobalService,   \* the namespaces of the service _global
    Callers,         \* who polls
    Follows          \* the namespace each of them polls

ASSUME ScopeAssumption ==
    GlobalScope \in GlobalService /\ GlobalService \subseteq Namespaces
ASSUME FollowsAssumption == Follows \in [Callers -> Namespaces]

VARIABLES
    rpc,      \* where each caller's GetNamespace or health probe is
    asked,    \* the revision its handler read
    held,     \* the last namespace answered, and the revision it came with
    still,    \* history: nobody has been writing since the handler began
    sinkErr,     \* OpLog.lastErr lies within sinkErrorWindow
    reasons,     \* the probe found something wrong
    refused,     \* history: the sink refused a write within the window
    well         \* history: flipr was well at a moment of the probe

polls   == <<asked, held, still>>
sink    == <<sinkErr, refused>>
readers == <<rpc, polls, reasons, sink, well>>

\* Store.GetFlag: the namespace's own flag, else the global scope's.
GetFlag(s, n, k) ==
    IF Bucket(s[n])[k] # NoFlag THEN s[n][k]
    ELSE IF n \in GlobalService THEN NoFlag
    ELSE Bucket(s[GlobalScope])[k]

\* Mutant: the global scope wins.
GetNamespaceGlobalWins(s, n) ==
    IF s[n] = Absent \/ n \in GlobalService THEN s[n]
    ELSE [k \in Keys |-> IF Bucket(s[GlobalScope])[k] # NoFlag
                         THEN s[GlobalScope][k] ELSE s[n][k]]

\* Store.GetNamespace: the namespace laid over the global scope, Absent when
\* it is not held, whatever the global scope holds.
GetNamespace(s, n) ==
    IF s[n] = Absent \/ n \in GlobalService THEN s[n]
    ELSE [k \in Keys |-> IF s[n][k] # NoFlag THEN s[n][k]
                                             ELSE Bucket(s[GlobalScope])[k]]

\* What an answer left with its caller.  quiet is history: whether nobody was
\* writing from the read of the revision to the read of the snapshot.
Nothing == [rev |-> 0, flags |-> Absent, quiet |-> FALSE]

Holdings == [rev : Nat, flags : Contents, quiet : BOOLEAN]
            \cup {Nothing}

\* TypeOK of the store, and the readers' variables keep to their values.
ReadsTypeOK ==
    /\ TypeOK
    /\ rpc \in [Callers -> {"idle", "snapshot", "locks", "sink", "write"}]
    /\ asked \in [Callers -> Nat]
    /\ held \in [Callers -> Holdings]
    /\ still \in [Callers -> BOOLEAN]
    /\ sinkErr \in BOOLEAN /\ refused \in BOOLEAN
    /\ reasons \in [Callers -> BOOLEAN] /\ well \in [Callers -> BOOLEAN]

Calm == wmu = Nobody /\ ~lastWriteErr

ReadsInit ==
    /\ Init
    /\ rpc = [c \in Callers |-> "idle"]
    /\ asked = [c \in Callers |-> 0]
    /\ held = [c \in Callers |-> Nothing]
    /\ still = [c \in Callers |-> FALSE]
    /\ sinkErr = FALSE /\ refused = FALSE
    /\ reasons = [c \in Callers |-> FALSE]
    /\ well = [c \in Callers |-> FALSE]

\* req.Since equals the revision: the answer is "unchanged".
Unchanged(c) == held[c].rev # 0 /\ held[c].rev = rev

\* The handler reads the revision.  A caller told "unchanged" keeps what it
\* has, and nothing moves; any other goes on to the snapshot.
ReadRevision(c) ==
    /\ up
    /\ rpc[c] = "idle"
    /\ ~Unchanged(c)
    /\ rpc' = [rpc EXCEPT ![c] = "snapshot"]
    /\ asked' = [asked EXCEPT ![c] = rev]
    /\ still' = [still EXCEPT ![c] = Calm]
    /\ UNCHANGED <<held, reasons, sink, well, vars>>

\* Mutant: a namespace that is not there is answered as an empty one.
ReadSnapshotMissing(c) ==
    /\ up
    /\ rpc[c] = "snapshot"
    /\ rpc' = [rpc EXCEPT ![c] = "idle"]
    /\ asked' = [asked EXCEPT ![c] = 0]
    /\ still' = [still EXCEPT ![c] = FALSE]
    /\ held' = [held EXCEPT ![c] =
            [rev   |-> asked[c],
             flags |-> GetNamespace(snap, Follows[c]),
             quiet |-> still[c]]]
    /\ UNCHANGED <<reasons, sink, well, vars>>

\* The handler reads the snapshot and answers under the revision it read.  A
\* namespace that is not there is a 404, and the caller keeps what it has.
ReadSnapshot(c) ==
    LET answer == GetNamespace(snap, Follows[c]) IN
    /\ up
    /\ rpc[c] = "snapshot"
    /\ rpc' = [rpc EXCEPT ![c] = "idle"]
    /\ asked' = [asked EXCEPT ![c] = 0]
    /\ still' = [still EXCEPT ![c] = FALSE]
    /\ IF answer = Absent
       THEN UNCHANGED held
       ELSE held' = [held EXCEPT ![c] =
                [rev   |-> asked[c],
                 flags |-> answer,
                 quiet |-> still[c]]]
    /\ UNCHANGED <<reasons, sink, well, vars>>

---------------------------------------------------------------------------
\* Health.

\* What a probe is asked about: the sink has refused no write for a minute,
\* and the last write the store had to give up was followed by another.
Well == ~refused /\ ~lastWriteErr

\* A probe begins; the store can be read.  One that finds it cannot answers
\* down at once, and nothing moves.
Probe(c) ==
    /\ up
    /\ rpc[c] = "idle"
    /\ rpc' = [rpc EXCEPT ![c] = "locks"]
    /\ well' = [well EXCEPT ![c] = Well]
    /\ UNCHANGED <<polls, reasons, sink, vars>>

\* locks.current: a lock is a reason, of whatever scope.
LookAtLock(c) ==
    /\ rpc[c] = "locks"
    /\ rpc' = [rpc EXCEPT ![c] = "sink"]
    /\ \E locked \in BOOLEAN : reasons' = [reasons EXCEPT ![c] = locked]
    /\ UNCHANGED <<polls, sink, well, vars>>

\* Mutant: the sink's refusal is counted and not asked for.
LookAtSinkBlind(c) ==
    /\ rpc[c] = "sink"
    /\ rpc' = [rpc EXCEPT ![c] = "write"]
    /\ UNCHANGED <<polls, reasons, sink, well, vars>>

\* SinkFailedRecently.
LookAtSink(c) ==
    /\ rpc[c] = "sink"
    /\ rpc' = [rpc EXCEPT ![c] = "write"]
    /\ reasons' = [reasons EXCEPT ![c] = @ \/ sinkErr]
    /\ UNCHANGED <<polls, sink, well, vars>>

\* LastWriteFailure is the last look, and its answer the probe's.
Verdict(c) == IF reasons[c] \/ lastWriteErr THEN "degraded" ELSE "healthy"

LookAtWrite(c) ==
    /\ rpc[c] = "write"
    /\ rpc' = [rpc EXCEPT ![c] = "idle"]
    /\ reasons' = [reasons EXCEPT ![c] = FALSE]
    /\ well' = [well EXCEPT ![c] = FALSE]
    /\ UNCHANGED <<polls, sink, vars>>

\* The record of a lock or of its end is refused too, outside any write.
LockRecordRefused ==
    /\ up
    /\ Strikes("sink")
    /\ sinkErr' = TRUE
    /\ UNCHANGED <<onDisk, memory, pc, locals, answers, parted, accepted>>
    /\ UNCHANGED <<rpc, polls, reasons, refused, well>>

Probing == {c \in Callers : rpc[c] \in {"locks", "sink", "write"}}

\* The probes in flight remember whether flipr was well at some moment.
WellAgain == well' = [c \in Callers |-> well[c] \/ (c \in Probing /\ Well')]

\* A minute has passed since the last refusal.
Minute ==
    /\ up
    /\ sinkErr
    /\ sinkErr' = FALSE /\ refused' = FALSE
    /\ UNCHANGED <<rpc, polls, reasons, vars>>
    /\ WellAgain

---------------------------------------------------------------------------
\* A write's record is refused in this step.
RecordRefused == \E p \in Writers : pc[p] = "record" /\ pc'[p] = "undo"

\* OpSync remembers when the sink refused, and every step of a write takes the
\* readers' history along.
WriteBeside ==
    /\ WriteStep
    /\ sinkErr' = (sinkErr \/ RecordRefused)
    /\ refused' = (refused \/ RecordRefused)
    /\ still' = [c \in Callers |-> still[c] /\ Calm']
    /\ WellAgain
    /\ UNCHANGED <<rpc, asked, held, reasons>>

\* A read in flight dies with the process; what a caller holds does not.
CrashReads ==
    /\ Crash
    /\ rpc' = [c \in Callers |-> "idle"]
    /\ asked' = [c \in Callers |-> 0]
    /\ still' = [c \in Callers |-> FALSE]
    /\ sinkErr' = FALSE /\ refused' = FALSE
    /\ reasons' = [c \in Callers |-> FALSE]
    /\ well' = [c \in Callers |-> FALSE]
    /\ UNCHANGED held

RestartReads == Restart /\ UNCHANGED readers

Health(c) == Probe(c) \/ LookAtLock(c) \/ LookAtSink(c) \/ LookAtWrite(c)

ReadsNext ==
    \/ WriteBeside
    \/ CrashReads
    \/ RestartReads
    \/ Minute
    \/ LockRecordRefused
    \/ \E c \in Callers : ReadRevision(c) \/ ReadSnapshot(c) \/ Health(c)

allVars == <<vars, readers>>

ReadsSpec == ReadsInit /\ [][ReadsNext]_allVars

---------------------------------------------------------------------------
\* Where the checkpoint is exact: an answer read while nobody was writing and
\* no failed write was outstanding is good for as long as its number stands,
\* whatever writes, undoes, crashes and restarts come after.
QuietAnswersStayExact ==
    \A c \in Callers :
        (up /\ held[c].quiet /\ Unchanged(c))
        => held[c].flags = GetNamespace(snap, Follows[c])

\* The merged view and the single read agree on every flag of a namespace that
\* is held, so a client's cache says what GetFlag would.
ReadsAgree ==
    \A n \in Namespaces, k \in Keys :
        snap[n] # Absent => GetNamespace(snap, n)[k] = GetFlag(snap, n, k)

\* A probe answers healthy in this step.
SaysHealthy(c) ==
    /\ up' /\ rpc[c] = "write" /\ rpc'[c] = "idle"
    /\ Verdict(c) = "healthy"

\* "An uncritical 200 is the failure this estate keeps finding": healthy was
\* true at a moment of the probe, though no two of its looks are at one: with
\* the sink looked at first, and a write clearing its predecessor's failure
\* before its own can be refused, no mixture of old and new passes for health.
HealthyWasTrue ==
    [][\A c \in Callers : SaysHealthy(c) => well[c]]_allVars

---------------------------------------------------------------------------
\* What the text says and the code does not do; a run refutes each.

\* Unlogged (store.go): "the store now serves a value the log does not hold,
\* which is the one state this service must never be quiet about".  Here with
\* nobody writing and the sink's minute over, so the probes stay quiet.
UnloggedIsNeverQuiet ==
    [][\A c \in Callers : (SaysHealthy(c) /\ Calm /\ ~sinkErr) =>
          \A n \in Namespaces : Agrees(disk, log, n)]_allVars

\* flipr.proto, GetNamespaceResponse.unchanged: "nothing has changed anywhere
\* in the store since the caller last looked".  Here with nobody writing and
\* nothing failed, so the caller stays wrong until the next write.
UnchangedMeansUnchanged ==
    \A c \in Callers :
        (up /\ Calm /\ Unchanged(c))
        => held[c].flags = GetNamespace(snap, Follows[c])
=============================================================================
