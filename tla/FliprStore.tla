----------------------------- MODULE FliprStore -----------------------------
(***************************************************************************)
(* Store.transact, the one write path (store.go), under the three write     *)
(* handlers of server.go, with the process dying and starting again.        *)
(*                                                                         *)
(* A write takes the writer lock, commits the mutation and its number in    *)
(* one bbolt transaction, moves the number in memory, rebuilds the snapshot *)
(* from disk, publishes it, writes the record, and undoes itself if the     *)
(* record cannot be written.  Each of those is a step here, because a       *)
(* reader, another writer or a kill can come between any two.              *)
(*                                                                         *)
(* disk and diskRev are the bbolt file, log the record; they survive a      *)
(* crash.  snap, rev, lastWriteErr and wmu are memory.                      *)
(***************************************************************************)
EXTENDS FlagRules

CONSTANTS
    Writers,      \* handler goroutines
    Nobody,       \* the writer lock is free
    Requests,     \* the writes they are asked for
    Faults,       \* the kinds of fault that may strike
    MaxFaults,    \* bound: faults in one behaviour
    MaxRequests   \* bound: writes accepted in one behaviour

ASSUME WritersAssumption  == Nobody \notin Writers
ASSUME RequestsAssumption == Requests \subseteq Writes
ASSUME BoundsAssumption   == MaxFaults \in Nat /\ MaxRequests \in Nat

VARIABLES
    disk,          \* bbolt: the flags buckets
    diskRev,       \* bbolt: the revision in the meta bucket
    log,           \* the record, oldest first
    up,            \* the process is running
    snap,          \* the published snapshot, what readers are served from
    rev,           \* Store.revision
    lastWriteErr,  \* Store.lastWriteErr holds an error
    wmu,           \* who holds the writer lock
    pc,            \* where each writer is
    req,           \* the write it is doing
    prior,         \* transact's captured namespace
    next,          \* transact's next revision
    view,          \* reload's snapshot, read and not yet published
    answers,       \* history: the answers given to writes
    parted,        \* history: namespaces whose contents and record parted
    faults,        \* history: faults so far
    accepted       \* history: writes accepted so far

onDisk  == <<disk, diskRev, log>>
memory  == <<up, snap, rev, lastWriteErr, wmu>>
locals  == <<req, prior, next, view>>
history == <<answers, parted, faults, accepted>>
vars    == <<onDisk, memory, pc, locals, history>>

Phases == {"idle", "lock", "update", "revision", "reload", "publish",
           "record", "undo", "undoReload", "undoPublish", "reply"}

\* The phases in which a writer holds the lock.
Critical == Phases \ {"idle", "lock", "reply"}

\* The phases in which its write is on disk and neither recorded nor undone.
Unsettled == {"revision", "reload", "publish", "record", "undo"}

FaultKinds == {"commit", "reload", "sink", "fsync", "rollback", "crash"}

Outcomes == {"done", "refused", "failed", "undone", "stuck"}

\* A goroutine that is serving nothing.
NoWrite == [op |-> "none"]

Answers == [outcome : Outcomes, own : Nat]

\* TypeOK: every variable keeps to the values its declaration describes.
TypeOK ==
    /\ disk \in Stores /\ snap \in Stores
    /\ diskRev \in Nat /\ rev \in Nat
    /\ log \in Seq(Records)
    /\ up \in BOOLEAN /\ lastWriteErr \in BOOLEAN
    /\ wmu \in Writers \cup {Nobody}
    /\ pc \in [Writers -> Phases]
    /\ req \in [Writers -> Writes \cup {NoWrite}]
    /\ prior \in [Writers -> Contents \cup {Absent}]
    /\ next \in [Writers -> Nat]
    /\ view \in [Writers -> Stores]
    /\ answers \subseteq Answers
    /\ parted \subseteq Namespaces
    /\ faults \in Nat /\ accepted \in Nat

---------------------------------------------------------------------------
\* A fresh store with an empty record: first boot.
Init ==
    /\ disk = EmptyStore /\ diskRev = 0 /\ log = << >>
    /\ up = TRUE /\ snap = EmptyStore /\ rev = 0
    /\ lastWriteErr = FALSE /\ wmu = Nobody
    /\ pc = [p \in Writers |-> "idle"]
    /\ req = [p \in Writers |-> NoWrite]
    /\ prior = [p \in Writers |-> Absent]
    /\ next = [p \in Writers |-> 0]
    /\ view = [p \in Writers |-> EmptyStore]
    /\ answers = {} /\ parted = {} /\ faults = 0 /\ accepted = 0

Goto(p, from, to) == pc[p] = from /\ pc' = [pc EXCEPT ![p] = to]

\* The handler returns: its locals are gone.
Return(p, from) ==
    /\ Goto(p, from, "idle")
    /\ req' = [req EXCEPT ![p] = NoWrite]
    /\ prior' = [prior EXCEPT ![p] = Absent]
    /\ next' = [next EXCEPT ![p] = 0]
    /\ view' = [view EXCEPT ![p] = EmptyStore]

Unlock == wmu' = Nobody

Strikes(kind) ==
    /\ kind \in Faults
    /\ faults < MaxFaults
    /\ faults' = faults + 1

Parts(p) == parted' = parted \cup {req[p].ns}

Answer(p, outcome) ==
    answers' = answers \cup {[outcome |-> outcome, own |-> next[p]]}

\* Mutant: the lock is not taken exclusively.
LockIgnored(p) ==
    /\ Goto(p, "lock", "update")
    /\ wmu' = p
    /\ UNCHANGED <<onDisk, up, snap, rev, lastWriteErr, locals, history>>

---------------------------------------------------------------------------
\* A write handler decodes a request and passes its own checks.
Accept(p, r) ==
    /\ up
    /\ accepted < MaxRequests
    /\ Admissible(r)
    /\ Goto(p, "idle", "lock")
    /\ req' = [req EXCEPT ![p] = r]
    /\ accepted' = accepted + 1
    /\ UNCHANGED <<onDisk, memory, prior, next, view, answers, parted, faults>>

Lock(p) ==
    /\ wmu = Nobody
    /\ Goto(p, "lock", "update")
    /\ wmu' = p
    /\ UNCHANGED <<onDisk, up, snap, rev, lastWriteErr, locals, history>>

\* Mutant: a refusal returns without the deferred unlock.
RefuseKeepsLock(p) ==
    /\ Refused(disk[req[p].ns], req[p])
    /\ Return(p, "update")
    /\ Answer(p, "refused")
    /\ UNCHANGED <<onDisk, memory, parted, faults, accepted>>

\* db.Update returns the mutation's refusal: nothing was written.
Refuse(p) ==
    /\ Refused(disk[req[p].ns], req[p])
    /\ Return(p, "update")
    /\ Unlock
    /\ Answer(p, "refused")
    /\ UNCHANGED <<onDisk, up, snap, rev, lastWriteErr,
                   parted, faults, accepted>>

\* Mutant: a flip captures its flag and not the namespace.
CommitCapturesFlag(p) ==
    /\ ~Refused(disk[req[p].ns], req[p])
    /\ Goto(p, "update", "revision")
    /\ prior' = [prior EXCEPT ![p] =
                    IF req[p].op = "SetFlag"
                    THEN Bucket(disk[req[p].ns])[req[p].key]
                    ELSE disk[req[p].ns]]
    /\ next' = [next EXCEPT ![p] = rev + 1]
    /\ disk' = After(disk, req[p])
    /\ diskRev' = rev + 1
    /\ UNCHANGED <<log, memory, req, view, history>>

\* Mutant: the number moves in memory only.
CommitWithoutNumber(p) ==
    /\ ~Refused(disk[req[p].ns], req[p])
    /\ Goto(p, "update", "revision")
    /\ prior' = [prior EXCEPT ![p] = disk[req[p].ns]]
    /\ next' = [next EXCEPT ![p] = rev + 1]
    /\ disk' = After(disk, req[p])
    /\ UNCHANGED <<diskRev, log, memory, req, view, history>>

\* db.Update commits the mutation and its number in one transaction.
Commit(p) ==
    /\ ~Refused(disk[req[p].ns], req[p])
    /\ Goto(p, "update", "revision")
    /\ prior' = [prior EXCEPT ![p] = disk[req[p].ns]]
    /\ next' = [next EXCEPT ![p] = rev + 1]
    /\ disk' = After(disk, req[p])
    /\ diskRev' = rev + 1
    /\ UNCHANGED <<log, memory, req, view, history>>

\* Mutant: the commit's number is not carried to memory.
StoreRevisionSkipped(p) ==
    /\ Goto(p, "revision", "reload")
    /\ UNCHANGED <<onDisk, memory, locals, history>>

\* bbolt could not commit.
CommitFails(p) ==
    /\ ~Refused(disk[req[p].ns], req[p])
    /\ Strikes("commit")
    /\ Return(p, "update")
    /\ Unlock
    /\ lastWriteErr' = TRUE
    /\ Answer(p, "failed")
    /\ UNCHANGED <<onDisk, up, snap, rev, parted, accepted>>

StoreRevision(p) ==
    /\ Goto(p, "revision", "reload")
    /\ rev' = next[p]
    /\ UNCHANGED <<onDisk, up, snap, lastWriteErr, wmu, locals, history>>

\* reload's read transaction: the whole store, as it is on disk now.
Reload(p) ==
    /\ \/ Goto(p, "reload", "publish")
       \/ Goto(p, "undoReload", "undoPublish")
    /\ view' = [view EXCEPT ![p] = disk]
    /\ UNCHANGED <<onDisk, memory, req, prior, next, history>>

\* A reload that fails after the commit returns at once: no record, no undo.
ReloadFails(p) ==
    /\ Strikes("reload")
    /\ Return(p, "reload")
    /\ Unlock
    /\ lastWriteErr' = TRUE
    /\ Parts(p)
    /\ Answer(p, "failed")
    /\ UNCHANGED <<onDisk, up, snap, rev, accepted>>

\* snap.Store, and a write that got this far clears the last failure.
Publish(p) ==
    /\ Goto(p, "publish", "record")
    /\ snap' = view[p]
    /\ lastWriteErr' = FALSE
    /\ UNCHANGED <<onDisk, up, rev, wmu, locals, history>>

\* Mutant: a record that was not written is taken for one that was.
RecordDropped(p) ==
    /\ Goto(p, "record", "reply")
    /\ Unlock
    /\ UNCHANGED <<onDisk, up, snap, rev, lastWriteErr, locals, history>>

\* OpSync: the record is durable before transact returns.
Record(p) ==
    /\ Goto(p, "record", "reply")
    /\ log' = Append(log, RecordOf(req[p], rev))
    /\ Unlock
    /\ UNCHANGED <<disk, diskRev, up, snap, rev, lastWriteErr, locals, history>>

\* The sink refuses the record.
SinkFails(p) ==
    /\ Strikes("sink")
    /\ Goto(p, "record", "undo")
    /\ UNCHANGED <<onDisk, memory, locals, answers, parted, accepted>>

\* The line reached the file and the fsync behind it failed: FileSink.Write
\* reports an error for a record that is there.
FsyncFails(p) ==
    /\ Strikes("fsync")
    /\ Goto(p, "record", "undo")
    /\ log' = Append(log, RecordOf(req[p], rev))
    /\ Parts(p)
    /\ UNCHANGED <<disk, diskRev, memory, locals, answers, accepted>>

\* Mutant: the undo restores nothing.
UndoForgotten(p) ==
    /\ Goto(p, "undo", "undoReload")
    /\ UNCHANGED <<onDisk, memory, locals, history>>

\* restoreNamespace puts the namespace back as it was captured; the number
\* is not taken back.
Undo(p) ==
    /\ Goto(p, "undo", "undoReload")
    /\ disk' = [disk EXCEPT ![req[p].ns] = prior[p]]
    /\ UNCHANGED <<diskRev, log, memory, locals, history>>

\* The undo's own transaction fails: the store keeps what the record lacks.
UndoFails(p) ==
    /\ Strikes("rollback")
    /\ Return(p, "undo")
    /\ Unlock
    /\ lastWriteErr' = TRUE
    /\ Parts(p)
    /\ Answer(p, "stuck")
    /\ UNCHANGED <<onDisk, up, snap, rev, accepted>>

\* The undo is on disk and its reload fails: readers keep the write's value.
UndoReloadFails(p) ==
    /\ Strikes("reload")
    /\ Return(p, "undoReload")
    /\ Unlock
    /\ lastWriteErr' = TRUE
    /\ Answer(p, "stuck")
    /\ UNCHANGED <<onDisk, up, snap, rev, parted, accepted>>

UndoPublish(p) ==
    /\ snap' = view[p]
    /\ Return(p, "undoPublish")
    /\ Unlock
    /\ Answer(p, "undone")
    /\ UNCHANGED <<onDisk, up, rev, lastWriteErr, parted, faults, accepted>>

\* The answer's revision is read after transact let go of the lock.
Reply(p) ==
    /\ Return(p, "reply")
    /\ Answer(p, "done")
    /\ UNCHANGED <<onDisk, memory, parted, faults, accepted>>

---------------------------------------------------------------------------
\* The namespaces of writes on disk that are neither recorded nor undone.
Interrupted == {req[p].ns : p \in {q \in Writers : pc[q] \in Unsettled}}

\* The process dies: every goroutine goes with it, and a transaction that had
\* not committed.  snap and rev stay in the model, unread until the restart.
Crash ==
    /\ up
    /\ Strikes("crash")
    /\ up' = FALSE
    /\ lastWriteErr' = FALSE
    /\ wmu' = Nobody
    /\ pc' = [p \in Writers |-> "idle"]
    /\ req' = [p \in Writers |-> NoWrite]
    /\ prior' = [p \in Writers |-> Absent]
    /\ next' = [p \in Writers |-> 0]
    /\ view' = [p \in Writers |-> EmptyStore]
    /\ parted' = parted \cup Interrupted
    /\ UNCHANGED <<onDisk, snap, rev, answers, accepted>>

\* OpenStore on a file that has its generation: the revision and the snapshot
\* come from disk, and nothing is replayed.
Restart ==
    /\ ~up
    /\ up' = TRUE
    /\ rev' = diskRev
    /\ snap' = disk
    /\ UNCHANGED <<onDisk, lastWriteErr, wmu, pc, locals, history>>

\* What transact and the handler do once they hold the lock or are past it.
Proceed(p) ==
    \/ Refuse(p) \/ Commit(p) \/ StoreRevision(p) \/ Reload(p)
    \/ Publish(p) \/ Record(p) \/ Undo(p) \/ UndoPublish(p) \/ Reply(p)

Fails(p) ==
    \/ CommitFails(p) \/ ReloadFails(p) \/ SinkFails(p) \/ FsyncFails(p)
    \/ UndoFails(p) \/ UndoReloadFails(p)

WriteStep ==
    \E p \in Writers :
        \/ \E r \in Requests : Accept(p, r)
        \/ Lock(p)
        \/ Proceed(p)
        \/ Fails(p)

Next == WriteStep \/ Crash \/ Restart

Spec == Init /\ [][Next]_vars

\* Goroutines are scheduled, and sync.Mutex hands the lock to a waiter that
\* has been passed over for a millisecond.  Faults, requests and the restart
\* of a dead process are nobody's duty.
Fairness == \A p \in Writers : WF_vars(Proceed(p)) /\ SF_vars(Lock(p))

FairSpec == Spec /\ Fairness

---------------------------------------------------------------------------
(***************************************************************************)
(* Properties.                                                              *)
(***************************************************************************)

\* What the store holds once the write in progress is put aside: the disk,
\* with the namespace of an unsettled write as it was captured.
Settled ==
    IF wmu # Nobody /\ pc[wmu] \in Unsettled
    THEN [disk EXCEPT ![req[wmu].ns] = prior[wmu]]
    ELSE disk

\* The comment on wmu: "the published snapshot always the last commit's".
\* When nobody is writing, readers are served what is on disk and the number
\* in memory is the one on disk, unless /health is being told otherwise.
SnapshotIsLastCommit ==
    (up /\ wmu = Nobody /\ ~lastWriteErr) => (snap = disk /\ rev = diskRev)

\* "A flip that was acknowledged always left a trace": the record holds
\* exactly one entry under the number of every acknowledged write, and the
\* file never forgets it, crashes included.
AcknowledgedIsRecorded ==
    \A a \in answers : a.outcome = "done" =>
        \E i \in DOMAIN log :
            /\ log[i].rev = a.own
            /\ \A j \in DOMAIN log : log[j].rev = a.own => j = i

\* "A number names one attempt forever": the record is numbered in order,
\* never above the count on disk, whatever was undone or died in between.
StampsIncrease ==
    /\ \A i, j \in DOMAIN log : i < j => log[i].rev < log[j].rev
    /\ \A i \in DOMAIN log : log[i].rev <= diskRev

\* The store and its record tell the same story: on a namespace where no
\* fault parted them, the last recorded word on a flag is its value and a
\* namespace last retired is gone, whatever was refused or rolled back.
StoreAgreesWithRecord ==
    \A n \in Namespaces \ parted : Agrees(Settled, log, n)

\* The flag as settled, NoFlag when it is not there.
SettledFlag(n, k) == Bucket(Settled[n])[k]

\* A publish never sets an operator's value and no write changes another's
\* flag: the value of a flag that stays changes only with the record of a
\* flip to that value, except where a fault parts store and record.
ValuesChangeByFlip ==
    [][\A n \in Namespaces \ parted', k \in Keys :
          (/\ SettledFlag(n, k) # NoFlag
           /\ SettledFlag(n, k)' # NoFlag
           /\ SettledFlag(n, k)'.value # SettledFlag(n, k).value)
          => /\ Len(log') = Len(log) + 1
             /\ [log'[Len(log')] EXCEPT !.rev = 0]
                  = [op |-> "SetFlag", ns |-> n, key |-> k,
                     value |-> SettledFlag(n, k)'.value, rev |-> 0]]_vars

\* "Two flips racing for the same key cannot both pass a check taken
\* earlier": a flag that keeps existing keeps the kind of its value.
KindIsStable ==
    [][\A n \in Namespaces, k \in Keys :
          (/\ SettledFlag(n, k) # NoFlag
           /\ SettledFlag(n, k)' # NoFlag
           /\ SettledFlag(n, k).value # NoValue)
          => Kind(SettledFlag(n, k)'.value) = Kind(SettledFlag(n, k).value)]_vars

\* "Two flips racing for the 24th slot": a flip never takes a namespace past
\* the budget.  Publishes do: their bound is on one request, and they merge.
FlipsKeepTheBudget ==
    [][\A p \in Writers :
          (/\ pc[p] = "update" /\ pc'[p] = "revision"
           /\ req[p].op = "SetFlag")
          => \/ Cardinality(Held(disk'[req[p].ns])) <= FlagBudget
             \/ Held(disk'[req[p].ns]) = Held(disk[req[p].ns])]_vars

\* The flags on the emergency page, as settled.
EmergencyPage(n) ==
    {k \in Keys : SettledFlag(n, k) # NoFlag
                  /\ SettledFlag(n, k).meta \in Expensive}

\* setFlag's comment: clearing what was declared "would empty the emergency
\* page the first time anyone used it".  A flag leaves the page only with the
\* record of a publish or a retire of its namespace.
EmergencyPageSurvivesFlips ==
    [][\A n \in Namespaces \ parted' :
          ~(EmergencyPage(n) \subseteq EmergencyPage(n)')
          => /\ Len(log') = Len(log) + 1
             /\ log'[Len(log')].ns = n
             /\ log'[Len(log')].op \in {"PublishNamespace", "DeleteNamespace"}]_vars

\* Every accepted write is answered, or dies with its process: no way out of
\* transact keeps the lock.
EveryWriteIsAnswered ==
    \A p \in Writers : (pc[p] = "lock") ~> (pc[p] = "idle")

---------------------------------------------------------------------------
Abstract == INSTANCE FlagStore WITH flags <- Settled, trail <- log

\* The detailed store implements the abstract one: a write and its record
\* are one act, or a fault took one of the two away.
ImplementsFlagStore == Abstract!Spec

\* "A caller told failed is telling the truth" (store.go, transact): until a
\* fault parts store and record, every step is a whole recorded write or
\* changes neither, the commits, sinks and reloads that failed included.
StrictWhileWhole ==
    [][parted' = {} => [Abstract!StrictNext]_(Abstract!vars)]_vars
=============================================================================
