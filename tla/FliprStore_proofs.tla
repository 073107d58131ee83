------------------------- MODULE FliprStore_proofs -------------------------
(***************************************************************************)
(* Theorems about FliprStore, for any number of handlers, namespaces, keys, *)
(* values, requests and faults.                                             *)
(***************************************************************************)
EXTENDS FliprStore, FlagRules_proofs, FiniteSetTheorems, SequenceTheorems,
        TLAPS

\* A goroutine that is serving nothing holds no write.
LEMMA NoWriteIsNoWrite == NoWrite \notin Writes
<1>1. NoWrite.op = "none"
  BY DEF NoWrite
<1>2. \A r \in Writes : r.op \in {"SetFlag", "PublishNamespace", "DeleteNamespace"}
  BY DEF Writes, Flips, Publishes, Retires
<1> QED BY <1>1, <1>2

---------------------------------------------------------------------------
(***************************************************************************)
(* Types.                                                                   *)
(***************************************************************************)

\* A handler that is past the lock or waiting for it has a write the handler
\* checked; when the process is down there are none.
Serving ==
    /\ \A p \in Writers : pc[p] # "idle" =>
          req[p] \in Requests /\ Admissible(req[p])
    /\ ~up => \A p \in Writers : pc[p] = "idle"

TypeInv == TypeOK /\ Serving

\* The first boot is well typed, and every step keeps it so.
LEMMA TypeInvInit == Init => TypeInv
<1> SUFFICES ASSUME Init PROVE TypeInv
  OBVIOUS
<1>1. EmptyStore \in Stores
  BY DEF EmptyStore, Stores
<1>2. log \in Seq(Records)
  BY DEF Init
<1> QED BY <1>1, <1>2 DEF Init, TypeInv, TypeOK, Serving, Phases

LEMMA TypeInvNext == TypeInv /\ [Next]_vars => TypeInv'
<1> SUFFICES ASSUME TypeInv, [Next]_vars PROVE TypeInv'
  OBVIOUS
<1> USE DEF TypeInv
<1>e. EmptyStore \in Stores
  BY DEF EmptyStore, Stores
<1>r. ASSUME NEW p \in Writers, pc[p] # "idle"
      PROVE  /\ req[p] \in Writes /\ req[p] \in Requests
             /\ req[p].ns \in Namespaces
             /\ disk[req[p].ns] \in Contents \cup {Absent}
  <2>1. req[p] \in Writes
    BY <1>r, RequestsAssumption DEF Serving
  <2>2. req[p].ns \in Namespaces
    BY <2>1 DEF Writes, Flips, Publishes, Retires
  <2> QED BY <1>r, <2>1, <2>2 DEF Serving, TypeOK, Stores
<1>1. ASSUME NEW p \in Writers, NEW r \in Requests, Accept(p, r)
      PROVE  TypeInv'
  BY <1>1, RequestsAssumption
  DEF Accept, Goto, TypeOK, Serving, Phases, onDisk, memory
<1>2. ASSUME NEW p \in Writers, Lock(p) PROVE TypeInv'
  BY <1>2 DEF Lock, Goto, TypeOK, Serving, Phases, onDisk, locals, history
<1>3. ASSUME NEW p \in Writers, Refuse(p) PROVE TypeInv'
  BY <1>3, <1>e
  DEF Refuse, Return, Unlock, Answer, Answers, Outcomes, Goto, TypeOK, Serving,
      Phases, onDisk
<1>4. ASSUME NEW p \in Writers, Commit(p) PROVE TypeInv'
  <2>1. /\ pc[p] = "update" /\ req[p] \in Writes
        /\ disk[req[p].ns] \in Contents \cup {Absent}
    BY <1>4, <1>r DEF Commit, Goto
  <2>2. After(disk, req[p]) \in Stores
    BY <1>4, <2>1, AfterType DEF Commit, TypeOK
  <2> QED BY <1>4, <2>1, <2>2
          DEF Commit, Goto, TypeOK, Serving, Phases, memory, history
<1>5. ASSUME NEW p \in Writers, CommitFails(p) PROVE TypeInv'
  BY <1>5, <1>e
  DEF CommitFails, Strikes, Return, Unlock, Answer, Answers, Outcomes, Goto,
      TypeOK, Serving, Phases, onDisk
<1>6. ASSUME NEW p \in Writers, StoreRevision(p) PROVE TypeInv'
  BY <1>6
  DEF StoreRevision, Goto, TypeOK, Serving, Phases, onDisk, locals, history
<1>7. ASSUME NEW p \in Writers, Reload(p) PROVE TypeInv'
  BY <1>7
  DEF Reload, Goto, TypeOK, Serving, Phases, onDisk, memory, history
<1>8. ASSUME NEW p \in Writers, ReloadFails(p) PROVE TypeInv'
  <2>1. pc[p] = "reload" /\ req[p].ns \in Namespaces
    BY <1>8, <1>r DEF ReloadFails, Return, Goto
  <2> QED BY <1>8, <1>e, <2>1
          DEF ReloadFails, Parts, Strikes, Return, Unlock, Answer, Answers,
              Outcomes, Goto, TypeOK, Serving, Phases, onDisk
<1>9. ASSUME NEW p \in Writers, Publish(p) PROVE TypeInv'
  BY <1>9
  DEF Publish, Goto, TypeOK, Serving, Phases, onDisk, locals, history
<1>10. ASSUME NEW p \in Writers, Record(p) PROVE TypeInv'
  <2>1. pc[p] = "record" /\ req[p] \in Writes
    BY <1>10, <1>r DEF Record, Goto
  <2>2. RecordOf(req[p], rev) \in Records /\ log \in Seq(Records)
    BY <2>1, RecordOfType DEF TypeOK
  <2>3. Append(log, RecordOf(req[p], rev)) \in Seq(Records)
    BY <2>2
  <2> QED BY <1>10, <2>3
          DEF Record, Goto, Unlock, TypeOK, Serving, Phases, locals, history
<1>11. ASSUME NEW p \in Writers, SinkFails(p) PROVE TypeInv'
  BY <1>11
  DEF SinkFails, Strikes, Goto, TypeOK, Serving, Phases, onDisk, memory, locals
<1>12. ASSUME NEW p \in Writers, FsyncFails(p) PROVE TypeInv'
  <2>1. pc[p] = "record" /\ req[p] \in Writes /\ req[p].ns \in Namespaces
    BY <1>12, <1>r DEF FsyncFails, Goto
  <2>2. RecordOf(req[p], rev) \in Records /\ log \in Seq(Records)
    BY <2>1, RecordOfType DEF TypeOK
  <2>3. Append(log, RecordOf(req[p], rev)) \in Seq(Records)
    BY <2>2
  <2> QED BY <1>12, <2>1, <2>3
          DEF FsyncFails, Parts, Strikes, Goto, TypeOK, Serving, Phases,
              memory, locals
<1>13. ASSUME NEW p \in Writers, Undo(p) PROVE TypeInv'
  <2>1. pc[p] = "undo" /\ req[p].ns \in Namespaces
    BY <1>13, <1>r DEF Undo, Goto
  <2>2. prior[p] \in Contents \cup {Absent}
    BY DEF TypeOK
  <2>3. [disk EXCEPT ![req[p].ns] = prior[p]] \in Stores
    BY <2>1, <2>2 DEF TypeOK, Stores
  <2> QED BY <1>13, <2>3
          DEF Undo, Goto, TypeOK, Serving, Phases, memory, locals, history
<1>14. ASSUME NEW p \in Writers, UndoFails(p) PROVE TypeInv'
  <2>1. pc[p] = "undo" /\ req[p].ns \in Namespaces
    BY <1>14, <1>r DEF UndoFails, Return, Goto
  <2> QED BY <1>14, <1>e, <2>1
          DEF UndoFails, Parts, Strikes, Return, Unlock, Answer, Answers,
              Outcomes, Goto, TypeOK, Serving, Phases, onDisk
<1>15. ASSUME NEW p \in Writers, UndoReloadFails(p) PROVE TypeInv'
  BY <1>15, <1>e
  DEF UndoReloadFails, Strikes, Return, Unlock, Answer, Answers, Outcomes,
      Goto, TypeOK, Serving, Phases, onDisk
<1>16. ASSUME NEW p \in Writers, UndoPublish(p) PROVE TypeInv'
  BY <1>16, <1>e
  DEF UndoPublish, Return, Unlock, Answer, Answers, Outcomes, Goto, TypeOK,
      Serving, Phases, onDisk
<1>17. ASSUME NEW p \in Writers, Reply(p) PROVE TypeInv'
  BY <1>17, <1>e
  DEF Reply, Return, Answer, Answers, Outcomes, Goto, TypeOK, Serving, Phases,
      onDisk, memory
<1>18. ASSUME Crash PROVE TypeInv'
  <2>1. Interrupted \subseteq Namespaces
    <3> SUFFICES ASSUME NEW p \in Writers, pc[p] \in Unsettled
                 PROVE  req[p].ns \in Namespaces
      BY DEF Interrupted
    <3>1. pc[p] # "idle"
      BY DEF Unsettled
    <3> QED BY <3>1, <1>r
  <2>2. /\ pc' = [p \in Writers |-> "idle"] /\ ~up' /\ up' \in BOOLEAN
        /\ wmu' = Nobody /\ lastWriteErr' = FALSE
    BY <1>18 DEF Crash
  <2>3. Serving'
    BY <2>2 DEF Serving
  <2>4. /\ req' \in [Writers -> Writes \cup {NoWrite}]
        /\ prior' \in [Writers -> Contents \cup {Absent}]
        /\ next' \in [Writers -> Nat]
        /\ view' \in [Writers -> Stores]
    BY <1>18, <1>e DEF Crash
  <2>5. /\ parted' \subseteq Namespaces /\ faults' \in Nat
    BY <1>18, <2>1 DEF Crash, Strikes, TypeOK
  <2>6. UNCHANGED <<onDisk, snap, rev, answers, accepted>>
    BY <1>18 DEF Crash
  <2> QED BY <2>2, <2>3, <2>4, <2>5, <2>6 DEF TypeOK, Phases, onDisk
<1>19. ASSUME Restart PROVE TypeInv'
  BY <1>19 DEF Restart, TypeOK, Serving, onDisk, locals, history
<1>20. ASSUME UNCHANGED vars PROVE TypeInv'
  BY <1>20 DEF vars, onDisk, memory, locals, history, TypeOK, Serving
<1> QED
  BY <1>1, <1>2, <1>3, <1>4, <1>5, <1>6, <1>7, <1>8, <1>9, <1>10, <1>11,
     <1>12, <1>13, <1>14, <1>15, <1>16, <1>17, <1>18, <1>19, <1>20
  DEF Next, WriteStep, Proceed, Fails

\* Every variable keeps its type, whatever the handlers and the faults do.
THEOREM TypeCorrect == Spec => []TypeOK
<1>1. Init => TypeInv
  BY TypeInvInit
<1>2. TypeInv /\ [Next]_vars => TypeInv'
  BY TypeInvNext
<1>3. TypeInv => TypeOK
  BY DEF TypeInv
<1> QED BY <1>1, <1>2, <1>3, PTL DEF Spec

---------------------------------------------------------------------------
(***************************************************************************)
(* The writer lock, and what it buys: numbers and snapshots.                *)
(***************************************************************************)

\* The writer in the critical section is the one who holds the lock.
Mutex == \A p \in Writers : pc[p] \in Critical <=> wmu = p

LEMMA MutexInit == Init => Mutex
BY WritersAssumption DEF Init, Mutex, Critical

LEMMA MutexNext == TypeInv /\ Mutex /\ [Next]_vars => Mutex'
<1> SUFFICES ASSUME TypeInv, Mutex, [Next]_vars PROVE Mutex'
  OBVIOUS
<1> USE WritersAssumption DEF Mutex, Critical, Phases
<1>1. pc \in [Writers -> Phases] /\ wmu \in Writers \cup {Nobody}
  BY DEF TypeInv, TypeOK
<1>2. ASSUME NEW p \in Writers, NEW r \in Requests, Accept(p, r) PROVE Mutex'
  BY <1>1, <1>2 DEF Accept, Goto, memory
<1>3. ASSUME NEW p \in Writers, Lock(p) PROVE Mutex'
  BY <1>1, <1>3 DEF Lock, Goto
<1>4. ASSUME NEW p \in Writers, Proceed(p) PROVE Mutex'
  <2>1. CASE Refuse(p) \/ Record(p) \/ UndoPublish(p)
    BY <1>1, <2>1 DEF Refuse, Record, UndoPublish, Return, Goto, Unlock
  <2>2. CASE Commit(p) \/ StoreRevision(p) \/ Publish(p) \/ Undo(p)
    BY <1>1, <2>2 DEF Commit, StoreRevision, Publish, Undo, Goto, memory
  <2>3. CASE Reload(p)
    BY <1>1, <2>3 DEF Reload, Goto, memory
  <2>4. CASE Reply(p)
    BY <1>1, <2>4 DEF Reply, Return, Goto, memory
  <2> QED BY <1>4, <2>1, <2>2, <2>3, <2>4 DEF Proceed
<1>5. ASSUME NEW p \in Writers, Fails(p) PROVE Mutex'
  <2>1. CASE CommitFails(p) \/ ReloadFails(p) \/ UndoFails(p) \/ UndoReloadFails(p)
    BY <1>1, <2>1
    DEF CommitFails, ReloadFails, UndoFails, UndoReloadFails, Return, Goto, Unlock
  <2>2. CASE SinkFails(p) \/ FsyncFails(p)
    BY <1>1, <2>2 DEF SinkFails, FsyncFails, Goto, memory
  <2> QED BY <1>5, <2>1, <2>2 DEF Fails
<1>6. ASSUME Crash PROVE Mutex'
  BY <1>6 DEF Crash
<1>7. ASSUME Restart PROVE Mutex'
  BY <1>7 DEF Restart
<1>8. ASSUME UNCHANGED vars PROVE Mutex'
  BY <1>8 DEF vars, memory
<1> QED BY <1>2, <1>3, <1>4, <1>5, <1>6, <1>7, <1>8 DEF Next, WriteStep

\* Where the number in memory is the one on disk, and whose it is.
Numbers ==
    /\ \A p \in Writers :
          /\ pc[p] = "update" => rev = diskRev
          /\ pc[p] = "revision" => next[p] = diskRev
          /\ pc[p] \in {"reload", "publish", "record", "undo",
                        "undoReload", "undoPublish"}
                => rev = diskRev /\ next[p] = diskRev
          /\ pc[p] = "reply" => next[p] <= diskRev
    /\ (up /\ wmu = Nobody) => rev = diskRev
    /\ rev <= diskRev

\* Where a reloaded view or the snapshot is what is on disk.
Snapshots ==
    /\ \A p \in Writers :
          /\ pc[p] \in {"publish", "undoPublish"} => view[p] = disk
          /\ pc[p] \in {"record", "undo"} => snap = disk
          /\ (pc[p] = "update" /\ ~lastWriteErr) => snap = disk
    /\ (up /\ wmu = Nobody /\ ~lastWriteErr) => snap = disk

LockInv == TypeInv /\ Mutex /\ Numbers /\ Snapshots

LEMMA LockInvInit == Init => LockInv
<1> SUFFICES ASSUME Init PROVE Numbers /\ Snapshots
  BY TypeInvInit, MutexInit DEF LockInv
<1> QED BY DEF Init, Numbers, Snapshots

\* Every step keeps the numbers in memory and on disk in line.
LEMMA NumbersNext == LockInv /\ [Next]_vars => Numbers'
<1> SUFFICES ASSUME LockInv, [Next]_vars PROVE Numbers'
  OBVIOUS
<1> USE WritersAssumption DEF LockInv, Numbers, Mutex, Critical
<1>1. /\ pc \in [Writers -> Phases] /\ next \in [Writers -> Nat]
      /\ rev \in Nat /\ diskRev \in Nat
      /\ wmu \in Writers \cup {Nobody}
      /\ ~up => \A p \in Writers : pc[p] = "idle"
  BY DEF TypeInv, TypeOK, Serving
<1> USE DEF Phases
<1>2. ASSUME NEW p \in Writers, NEW r \in Requests, Accept(p, r) PROVE Numbers'
  BY <1>1, <1>2 DEF Accept, Goto, memory, onDisk
<1>3. ASSUME NEW p \in Writers, Lock(p) PROVE Numbers'
  <2>1. up
    BY <1>1, <1>3 DEF Lock, Goto
  <2> QED BY <1>1, <1>3, <2>1 DEF Lock, Goto, locals, onDisk
<1>4. ASSUME NEW p \in Writers, Proceed(p) PROVE Numbers'
  <2>1. CASE Refuse(p)
    BY <1>1, <2>1 DEF Refuse, Return, Goto, Unlock, onDisk
  <2>2. CASE Commit(p)
    BY <1>1, <2>2 DEF Commit, Goto, memory
  <2>3. CASE StoreRevision(p)
    BY <1>1, <2>3 DEF StoreRevision, Goto, onDisk, locals
  <2>4. CASE Reload(p)
    BY <1>1, <2>4 DEF Reload, Goto, onDisk, memory
  <2>5. CASE Publish(p)
    BY <1>1, <2>5 DEF Publish, Goto, onDisk, locals
  <2>6. CASE Record(p)
    BY <1>1, <2>6 DEF Record, Goto, Unlock, locals
  <2>7. CASE Undo(p)
    BY <1>1, <2>7 DEF Undo, Goto, locals, memory
  <2>8. CASE UndoPublish(p)
    BY <1>1, <2>8 DEF UndoPublish, Return, Goto, Unlock, onDisk
  <2>9. CASE Reply(p)
    BY <1>1, <2>9 DEF Reply, Return, Goto, memory, onDisk
  <2> QED BY <1>4, <2>1, <2>2, <2>3, <2>4, <2>5, <2>6, <2>7, <2>8, <2>9 DEF Proceed
<1>5. ASSUME NEW p \in Writers, Fails(p) PROVE Numbers'
  <2>1. CASE CommitFails(p) \/ ReloadFails(p) \/ UndoFails(p) \/ UndoReloadFails(p)
    BY <1>1, <2>1
    DEF CommitFails, ReloadFails, UndoFails, UndoReloadFails, Return, Goto,
        Unlock, onDisk
  <2>2. CASE SinkFails(p) \/ FsyncFails(p)
    BY <1>1, <2>2 DEF SinkFails, FsyncFails, Goto, memory, locals, onDisk
  <2> QED BY <1>5, <2>1, <2>2 DEF Fails
<1>6. ASSUME Crash PROVE Numbers'
  BY <1>1, <1>6 DEF Crash, onDisk
<1>7. ASSUME Restart PROVE Numbers'
  BY <1>1, <1>7 DEF Restart, onDisk, locals
<1>8. ASSUME UNCHANGED vars PROVE Numbers'
  BY <1>8 DEF vars, memory, onDisk, locals
<1> QED BY <1>2, <1>3, <1>4, <1>5, <1>6, <1>7, <1>8 DEF Next, WriteStep

LEMMA SnapshotsNext == LockInv /\ [Next]_vars => Snapshots'
<1> SUFFICES ASSUME LockInv, [Next]_vars PROVE Snapshots'
  OBVIOUS
<1> USE WritersAssumption DEF LockInv, Snapshots, Mutex, Critical
<1>1. /\ pc \in [Writers -> Phases] /\ view \in [Writers -> Stores]
      /\ wmu \in Writers \cup {Nobody}
      /\ lastWriteErr \in BOOLEAN
      /\ ~up => \A p \in Writers : pc[p] = "idle"
  BY DEF TypeInv, TypeOK, Serving
<1> USE DEF Phases
<1>2. ASSUME NEW p \in Writers, NEW r \in Requests, Accept(p, r) PROVE Snapshots'
  BY <1>1, <1>2 DEF Accept, Goto, memory, onDisk
<1>3. ASSUME NEW p \in Writers, Lock(p) PROVE Snapshots'
  <2>1. up
    BY <1>1, <1>3 DEF Lock, Goto
  <2> QED BY <1>1, <1>3, <2>1 DEF Lock, Goto, locals, onDisk
<1>4. ASSUME NEW p \in Writers, Proceed(p) PROVE Snapshots'
  <2>1. CASE Refuse(p)
    BY <1>1, <2>1 DEF Refuse, Return, Goto, Unlock, onDisk
  <2>2. CASE Commit(p)
    BY <1>1, <2>2 DEF Commit, Goto, memory
  <2>3. CASE StoreRevision(p)
    BY <1>1, <2>3 DEF StoreRevision, Goto, onDisk, locals
  <2>4. CASE Reload(p)
    BY <1>1, <2>4 DEF Reload, Goto, onDisk, memory
  <2>5. CASE Publish(p)
    BY <1>1, <2>5 DEF Publish, Goto, onDisk, locals
  <2>6. CASE Record(p)
    BY <1>1, <2>6 DEF Record, Goto, Unlock, locals
  <2>7. CASE Undo(p)
    BY <1>1, <2>7 DEF Undo, Goto, locals, memory
  <2>8. CASE UndoPublish(p)
    BY <1>1, <2>8 DEF UndoPublish, Return, Goto, Unlock, onDisk
  <2>9. CASE Reply(p)
    BY <1>1, <2>9 DEF Reply, Return, Goto, memory, onDisk
  <2> QED BY <1>4, <2>1, <2>2, <2>3, <2>4, <2>5, <2>6, <2>7, <2>8, <2>9 DEF Proceed
<1>5. ASSUME NEW p \in Writers, Fails(p) PROVE Snapshots'
  <2>1. CASE CommitFails(p) \/ ReloadFails(p) \/ UndoFails(p) \/ UndoReloadFails(p)
    BY <1>1, <2>1
    DEF CommitFails, ReloadFails, UndoFails, UndoReloadFails, Return, Goto,
        Unlock, onDisk
  <2>2. CASE SinkFails(p) \/ FsyncFails(p)
    BY <1>1, <2>2 DEF SinkFails, FsyncFails, Goto, memory, locals, onDisk
  <2> QED BY <1>5, <2>1, <2>2 DEF Fails
<1>6. ASSUME Crash PROVE Snapshots'
  BY <1>1, <1>6 DEF Crash, onDisk
<1>7. ASSUME Restart PROVE Snapshots'
  BY <1>1, <1>7 DEF Restart, onDisk, locals
<1>8. ASSUME UNCHANGED vars PROVE Snapshots'
  BY <1>8 DEF vars, memory, onDisk, locals
<1> QED BY <1>2, <1>3, <1>4, <1>5, <1>6, <1>7, <1>8 DEF Next, WriteStep

LEMMA LockInvariant == Spec => []LockInv
<1>1. Init => LockInv
  BY LockInvInit
<1>2. LockInv /\ [Next]_vars => LockInv'
  BY TypeInvNext, MutexNext, NumbersNext, SnapshotsNext DEF LockInv
<1> QED BY <1>1, <1>2, PTL DEF Spec

\* Whatever writers, faults and crashes do, a reader that finds the lock free
\* and no failure reported is served exactly what is on disk, under the disk's
\* number.
THEOREM SnapshotTheorem == Spec => []SnapshotIsLastCommit
<1>1. LockInv => SnapshotIsLastCommit
  BY DEF LockInv, Numbers, Snapshots, SnapshotIsLastCommit
<1> QED BY <1>1, LockInvariant, PTL

---------------------------------------------------------------------------
(***************************************************************************)
(* The record.                                                              *)
(***************************************************************************)

\* The record is numbered in order, and a write not yet recorded is numbered
\* above all of it.
Stamped ==
    /\ StampsIncrease
    /\ \A p \in Writers :
          pc[p] \in {"revision", "reload", "publish", "record"}
          => \A i \in DOMAIN log : log[i].rev < diskRev

\* The number a handler answers with, or has answered with, is in the record.
Acknowledged ==
    /\ \A p \in Writers :
          pc[p] = "reply" => \E i \in DOMAIN log : log[i].rev = next[p]
    /\ \A a \in answers :
          a.outcome = "done" => \E i \in DOMAIN log : log[i].rev = a.own

\* What appending a record does to a log.
LEMMA Appended ==
    ASSUME NEW e \in Records, log \in Seq(Records), log' = Append(log, e)
    PROVE  /\ Len(log) \in Nat /\ Len(log') = Len(log) + 1
           /\ DOMAIN log = 1 .. Len(log) /\ DOMAIN log' = 1 .. Len(log) + 1
           /\ log'[Len(log) + 1] = e
           /\ \A i \in DOMAIN log : log'[i] = log[i] /\ log[i] \in Records
OBVIOUS

\* A log is numbered from one, and holds records, each with a number.
LEMMA LogShape ==
    ASSUME LockInv
    PROVE  /\ log \in Seq(Records)
           /\ Len(log) \in Nat /\ DOMAIN log = 1 .. Len(log)
           /\ \A i \in DOMAIN log : log[i] \in Records /\ log[i].rev \in Nat
<1>1. log \in Seq(Records)
  BY DEF LockInv, TypeInv, TypeOK
<1>2. /\ Len(log) \in Nat /\ DOMAIN log = 1 .. Len(log)
      /\ \A i \in DOMAIN log : log[i] \in Records
  BY <1>1
<1>3. \A e \in Records : e.rev \in Nat
  BY DEF Records
<1> QED BY <1>1, <1>2, <1>3

\* The two steps that write the record append the number in memory to it.
LEMMA RecordSteps ==
    ASSUME LockInv, NEW p \in Writers, Record(p) \/ FsyncFails(p)
    PROVE  /\ pc[p] = "record" /\ req[p] \in Writes
           /\ rev = diskRev /\ next[p] = diskRev /\ diskRev \in Nat
           /\ RecordOf(req[p], rev) \in Records
           /\ RecordOf(req[p], rev).rev = diskRev
           /\ log \in Seq(Records)
           /\ log' = Append(log, RecordOf(req[p], rev))
           /\ diskRev' = diskRev
<1>1. /\ pc[p] = "record" /\ log' = Append(log, RecordOf(req[p], rev))
      /\ diskRev' = diskRev
  BY DEF Record, FsyncFails, Goto
<1>2. /\ req[p] \in Writes /\ diskRev \in Nat /\ log \in Seq(Records)
  BY <1>1, RequestsAssumption DEF LockInv, TypeInv, TypeOK, Serving
<1>3. rev = diskRev /\ next[p] = diskRev
  BY <1>1 DEF LockInv, Numbers
<1> QED BY <1>1, <1>2, <1>3, RecordOfType

RecordInv == LockInv /\ Stamped /\ Acknowledged

LEMMA RecordInvInit == Init => RecordInv
<1> SUFFICES ASSUME Init PROVE Stamped /\ Acknowledged
  BY LockInvInit DEF RecordInv
<1>1. DOMAIN log = {}
  BY DEF Init
<1> QED BY <1>1 DEF Init, Stamped, StampsIncrease, Acknowledged

LEMMA StampedNext == RecordInv /\ [Next]_vars => Stamped'
<1> SUFFICES ASSUME RecordInv, [Next]_vars PROVE Stamped'
  OBVIOUS
<1> USE DEF RecordInv, Stamped, StampsIncrease
<1>1. /\ pc \in [Writers -> Phases] /\ rev \in Nat /\ diskRev \in Nat
      /\ log \in Seq(Records)
      /\ \A i \in DOMAIN log : log[i].rev \in Nat
  BY LogShape DEF LockInv, TypeInv, TypeOK
<1>2. ASSUME NEW p \in Writers, Record(p) \/ FsyncFails(p) PROVE Stamped'
  <2>1. /\ pc[p] = "record" /\ diskRev' = diskRev
        /\ log' = Append(log, RecordOf(req[p], rev))
        /\ RecordOf(req[p], rev) \in Records
        /\ RecordOf(req[p], rev).rev = diskRev
    BY <1>2, RecordSteps
  <2>2. /\ DOMAIN log = 1 .. Len(log) /\ DOMAIN log' = 1 .. Len(log) + 1
        /\ Len(log) \in Nat
        /\ log'[Len(log) + 1].rev = diskRev
        /\ \A i \in DOMAIN log : log'[i] = log[i]
    BY <1>1, <2>1, Appended
  <2>3. \A i \in DOMAIN log : log[i].rev < diskRev
    BY <2>1
  <2>4. \A q \in Writers : pc'[q] \notin {"revision", "reload", "publish", "record"}
    <3>1. \A q \in Writers : q # p => pc[q] \notin Critical
      BY <2>1, WritersAssumption DEF LockInv, Mutex, Critical, Phases
    <3> QED BY <1>1, <1>2, <3>1 DEF Record, FsyncFails, Goto, Critical, Phases
  <2>5. StampsIncrease'
    BY <1>1, <2>1, <2>2, <2>3
  <2> QED BY <2>4, <2>5
<1>3. ASSUME NEW p \in Writers, Commit(p) PROVE Stamped'
  <2>1. rev = diskRev /\ diskRev' = diskRev + 1 /\ log' = log
    BY <1>3 DEF Commit, Goto, LockInv, Numbers
  <2> QED BY <1>1, <2>1
<1>4. ASSUME UNCHANGED <<log, diskRev>>,
             \A q \in Writers :
                pc'[q] \in {"revision", "reload", "publish", "record"}
                => pc[q] \in {"revision", "reload", "publish", "record"}
      PROVE  Stamped'
  BY <1>4
<1>5. ASSUME NEW p \in Writers, NEW r \in Requests, Accept(p, r) PROVE Stamped'
  BY <1>1, <1>4, <1>5 DEF Accept, Goto, onDisk
<1>6. ASSUME NEW p \in Writers, Proceed(p) PROVE Stamped'
  <2>1. CASE Refuse(p) \/ UndoPublish(p) \/ Reply(p)
    BY <1>1, <1>4, <2>1 DEF Refuse, UndoPublish, Reply, Return, Goto, onDisk
  <2>2. CASE StoreRevision(p) \/ Reload(p) \/ Publish(p) \/ Undo(p)
    BY <1>1, <1>4, <2>2 DEF StoreRevision, Reload, Publish, Undo, Goto, onDisk
  <2> QED BY <1>2, <1>3, <1>6, <2>1, <2>2 DEF Proceed
<1>7. ASSUME NEW p \in Writers, Fails(p) PROVE Stamped'
  <2>1. CASE CommitFails(p) \/ ReloadFails(p) \/ UndoFails(p) \/ UndoReloadFails(p)
    BY <1>1, <1>4, <2>1
    DEF CommitFails, ReloadFails, UndoFails, UndoReloadFails, Return, Goto, onDisk
  <2>2. CASE SinkFails(p)
    BY <1>1, <1>4, <2>2 DEF SinkFails, Goto, onDisk
  <2> QED BY <1>2, <1>7, <2>1, <2>2 DEF Fails
<1>8. ASSUME Crash \/ Restart PROVE Stamped'
  BY <1>4, <1>8 DEF Crash, Restart, onDisk
<1>9. ASSUME UNCHANGED vars PROVE Stamped'
  BY <1>4, <1>9 DEF vars, onDisk
<1>10. ASSUME NEW p \in Writers, Lock(p) PROVE Stamped'
  BY <1>1, <1>4, <1>10 DEF Lock, Goto, onDisk
<1> QED BY <1>5, <1>6, <1>7, <1>8, <1>9, <1>10 DEF Next, WriteStep

\* A step keeps every record and adds at most one.
LEMMA LogKeeps ==
    ASSUME LockInv, [Next]_vars
    PROVE  \A i \in DOMAIN log : i \in DOMAIN log' /\ log'[i] = log[i]
<1>1. CASE log' = log
  BY <1>1
<1>2. ASSUME NEW p \in Writers, Record(p) \/ FsyncFails(p)
      PROVE  \A i \in DOMAIN log : i \in DOMAIN log' /\ log'[i] = log[i]
  BY <1>2, RecordSteps, Appended
<1> QED
  BY <1>1, <1>2
  DEF Next, WriteStep, Proceed, Fails, Accept, Lock, Refuse, Commit,
      StoreRevision, Reload, Publish, Undo, UndoPublish, Reply, CommitFails,
      ReloadFails, SinkFails, UndoFails, UndoReloadFails, Crash, Restart, vars,
      onDisk

LEMMA AcknowledgedNext == RecordInv /\ [Next]_vars => Acknowledged'
<1> SUFFICES ASSUME RecordInv, [Next]_vars PROVE Acknowledged'
  OBVIOUS
<1> USE DEF RecordInv, Acknowledged
<1>1. /\ pc \in [Writers -> Phases] /\ next \in [Writers -> Nat]
      /\ log \in Seq(Records)
  BY DEF LockInv, TypeInv, TypeOK
<1>2. \A i \in DOMAIN log : i \in DOMAIN log' /\ log'[i] = log[i]
  BY LogKeeps
<1>3. ASSUME \A q \in Writers : pc'[q] = "reply" => pc[q] = "reply" /\ next'[q] = next[q],
             \A a \in answers' : a.outcome = "done" => a \in answers
      PROVE  Acknowledged'
  BY <1>2, <1>3
<1>4. ASSUME NEW p \in Writers, Record(p) PROVE Acknowledged'
  <2>1. /\ log' = Append(log, RecordOf(req[p], rev))
        /\ RecordOf(req[p], rev) \in Records
        /\ RecordOf(req[p], rev).rev = next[p]
    BY <1>4, RecordSteps
  <2>2. Len(log) + 1 \in DOMAIN log' /\ log'[Len(log) + 1].rev = next[p]
    BY <1>1, <2>1, Appended
  <2>3. /\ next' = next /\ answers' = answers
        /\ \A q \in Writers : q # p => pc'[q] = pc[q]
    BY <1>1, <1>4 DEF Record, Goto, locals, history
  <2> QED BY <1>2, <2>2, <2>3
<1>5. ASSUME NEW p \in Writers, Reply(p) PROVE Acknowledged'
  <2>1. /\ pc[p] = "reply" /\ pc' = [pc EXCEPT ![p] = "idle"]
        /\ next' = [next EXCEPT ![p] = 0]
        /\ answers' = answers \cup
              {[outcome |-> "done", own |-> next[p]]}
    BY <1>5 DEF Reply, Return, Goto, Answer
  <2>2. \E i \in DOMAIN log : log[i].rev = next[p]
    BY <2>1
  <2>3. \A q \in Writers : pc'[q] = "reply" =>
            \E i \in DOMAIN log' : log'[i].rev = next'[q]
    <3> SUFFICES ASSUME NEW q \in Writers, pc'[q] = "reply"
                 PROVE  \E i \in DOMAIN log' : log'[i].rev = next'[q]
      OBVIOUS
    <3>1. pc[q] = "reply" /\ next'[q] = next[q]
      BY <1>1, <2>1
    <3> QED BY <1>2, <3>1
  <2>4. \A a \in answers' : a.outcome = "done" =>
            \E i \in DOMAIN log' : log'[i].rev = a.own
    <3> SUFFICES ASSUME NEW a \in answers', a.outcome = "done"
                 PROVE  \E i \in DOMAIN log' : log'[i].rev = a.own
      OBVIOUS
    <3>1. CASE a \in answers
      BY <1>2, <3>1
    <3>2. CASE a = [outcome |-> "done", own |-> next[p]]
      BY <1>2, <2>2, <3>2
    <3> QED BY <2>1, <3>1, <3>2
  <2> QED BY <2>3, <2>4
<1>6. ASSUME NEW p \in Writers, NEW r \in Requests, Accept(p, r)
      PROVE Acknowledged'
  BY <1>1, <1>3, <1>6 DEF Accept, Goto
<1>7. ASSUME NEW p \in Writers, Lock(p) PROVE Acknowledged'
  BY <1>1, <1>3, <1>7 DEF Lock, Goto, locals, history
<1>8. ASSUME NEW p \in Writers, Proceed(p) PROVE Acknowledged'
  <2>1. CASE Refuse(p) \/ UndoPublish(p)
    BY <1>1, <1>3, <2>1 DEF Refuse, UndoPublish, Return, Goto, Answer
  <2>2. CASE Commit(p) \/ Reload(p)
    BY <1>1, <1>3, <2>2 DEF Commit, Reload, Goto, history
  <2>3. CASE StoreRevision(p) \/ Publish(p) \/ Undo(p)
    BY <1>1, <1>3, <2>3 DEF StoreRevision, Publish, Undo, Goto, locals, history
  <2> QED BY <1>4, <1>5, <1>8, <2>1, <2>2, <2>3 DEF Proceed
<1>9. ASSUME NEW p \in Writers, Fails(p) PROVE Acknowledged'
  <2>1. CASE CommitFails(p) \/ ReloadFails(p) \/ UndoFails(p) \/ UndoReloadFails(p)
    BY <1>1, <1>3, <2>1
    DEF CommitFails, ReloadFails, UndoFails, UndoReloadFails, Return, Goto, Answer
  <2>2. CASE SinkFails(p) \/ FsyncFails(p)
    BY <1>1, <1>3, <2>2 DEF SinkFails, FsyncFails, Goto, locals
  <2> QED BY <1>9, <2>1, <2>2 DEF Fails
<1>10. ASSUME Crash \/ Restart PROVE Acknowledged'
  BY <1>3, <1>10 DEF Crash, Restart, locals, history
<1>11. ASSUME UNCHANGED vars PROVE Acknowledged'
  BY <1>3, <1>11 DEF vars, locals, history
<1> QED BY <1>6, <1>7, <1>8, <1>9, <1>10, <1>11 DEF Next, WriteStep

LEMMA RecordInvariant == Spec => []RecordInv
<1>1. Init => RecordInv
  BY RecordInvInit
<1>2. RecordInv /\ [Next]_vars => RecordInv'
  <2>1. LockInv /\ [Next]_vars => LockInv'
    BY TypeInvNext, MutexNext, NumbersNext, SnapshotsNext DEF LockInv
  <2> QED BY <2>1, StampedNext, AcknowledgedNext DEF RecordInv
<1> QED BY <1>1, <1>2, PTL DEF Spec

\* Every record has a number of its own, in the order of the file, and the
\* count on disk is never behind it: no crash or rollback makes two writes
\* share a number in the record.
THEOREM StampsTheorem == Spec => []StampsIncrease
<1>1. RecordInv => StampsIncrease
  BY DEF RecordInv, Stamped
<1> QED BY <1>1, RecordInvariant, PTL

\* The number a caller was told is that of one record, and of no other.
LEMMA AcknowledgedHolds == RecordInv => AcknowledgedIsRecorded
<1> SUFFICES ASSUME RecordInv, NEW a \in answers, a.outcome = "done"
             PROVE  \E i \in DOMAIN log :
                      /\ log[i].rev = a.own
                      /\ \A j \in DOMAIN log : log[j].rev = a.own => j = i
  BY DEF AcknowledgedIsRecorded
<1>1. PICK i \in DOMAIN log : log[i].rev = a.own
  BY DEF RecordInv, Acknowledged
<1>2. /\ DOMAIN log = 1 .. Len(log) /\ Len(log) \in Nat
      /\ \A j \in DOMAIN log : log[j].rev \in Nat
  BY LogShape DEF RecordInv
<1>3. ASSUME NEW j \in DOMAIN log, log[j].rev = a.own PROVE j = i
  BY <1>1, <1>2, <1>3 DEF RecordInv, Stamped, StampsIncrease
<1> QED BY <1>1, <1>3

\* A write a caller was told is done is in the record, once, for good.
THEOREM AcknowledgedTheorem == Spec => []AcknowledgedIsRecorded
BY AcknowledgedHolds, RecordInvariant, PTL

---------------------------------------------------------------------------
(***************************************************************************)
(* The settled store: what every step makes of it and of the record.        *)
(***************************************************************************)

\* A write on disk and not settled was legal on the namespace it captured, and
\* the namespace on disk is what the write made of it.
Captured ==
    \A p \in Writers :
        pc[p] \in Unsettled =>
            /\ ~Refused(prior[p], req[p])
            /\ disk[req[p].ns] = Outcome(prior[p], req[p])

StoreInv == RecordInv /\ Captured

\* What is known of a handler that serves a write.
LEMMA ServingType ==
    ASSUME TypeInv, NEW p \in Writers, pc[p] # "idle"
    PROVE  /\ req[p] \in Requests /\ req[p] \in Writes /\ Admissible(req[p])
           /\ req[p].ns \in Namespaces
           /\ prior[p] \in Contents \cup {Absent}
           /\ disk[req[p].ns] \in Contents \cup {Absent}
<1>1. req[p] \in Requests /\ req[p] \in Writes /\ Admissible(req[p])
  BY RequestsAssumption DEF TypeInv, Serving
<1>2. req[p].ns \in Namespaces
  BY <1>1 DEF Writes, Flips, Publishes, Retires
<1> QED BY <1>1, <1>2 DEF TypeInv, TypeOK, Stores

LEMMA CapturedNext == StoreInv /\ [Next]_vars => Captured'
<1> SUFFICES ASSUME StoreInv, [Next]_vars PROVE Captured'
  OBVIOUS
<1> USE DEF StoreInv, RecordInv, LockInv, Captured
<1>1. /\ pc \in [Writers -> Phases] /\ prior \in [Writers -> Contents \cup {Absent}]
      /\ req \in [Writers -> Writes \cup {NoWrite}] /\ disk \in Stores
  BY DEF TypeInv, TypeOK
<1>2. ASSUME UNCHANGED disk,
             \A q \in Writers : pc'[q] \in Unsettled =>
                /\ pc[q] \in Unsettled
                /\ req'[q] = req[q] /\ prior'[q] = prior[q]
      PROVE  Captured'
  BY <1>2
<1>3. ASSUME NEW p \in Writers, pc[p] \in Critical,
             \A q \in Writers : q # p => pc'[q] = pc[q]
      PROVE  \A q \in Writers : q # p => pc'[q] \notin Unsettled
  BY <1>3, WritersAssumption DEF Mutex, Critical, Unsettled, Phases
<1>4. ASSUME NEW p \in Writers, Commit(p) PROVE Captured'
  <2>1. /\ pc[p] = "update" /\ pc' = [pc EXCEPT ![p] = "revision"]
        /\ ~Refused(disk[req[p].ns], req[p]) /\ req' = req
        /\ prior' = [prior EXCEPT ![p] = disk[req[p].ns]]
        /\ disk' = After(disk, req[p])
    BY <1>4 DEF Commit, Goto
  <2>2. req[p] \in Writes
    BY <2>1, ServingType
  <2>3. disk'[req[p].ns] = Outcome(disk[req[p].ns], req[p])
    BY <1>1, <2>1, <2>2, AfterType
  <2>4. \A q \in Writers : q # p => pc'[q] \notin Unsettled
    BY <1>1, <1>3, <2>1 DEF Critical, Phases
  <2> QED BY <1>1, <2>1, <2>3, <2>4
<1>5. ASSUME NEW p \in Writers, Undo(p) PROVE Captured'
  <2>1. pc[p] = "undo" /\ pc' = [pc EXCEPT ![p] = "undoReload"]
    BY <1>5 DEF Undo, Goto
  <2>2. \A q \in Writers : q # p => pc'[q] \notin Unsettled
    BY <1>1, <1>3, <2>1 DEF Critical, Phases
  <2> QED BY <1>1, <2>1, <2>2 DEF Unsettled
<1>6. ASSUME NEW p \in Writers, NEW r \in Requests, Accept(p, r) PROVE Captured'
  BY <1>1, <1>2, <1>6 DEF Accept, Goto, onDisk, Unsettled
<1>7. ASSUME NEW p \in Writers, Lock(p) PROVE Captured'
  BY <1>1, <1>2, <1>7 DEF Lock, Goto, onDisk, locals, Unsettled
<1>8. ASSUME NEW p \in Writers, Proceed(p) PROVE Captured'
  <2>1. CASE Refuse(p) \/ UndoPublish(p) \/ Reply(p)
    BY <1>1, <1>2, <2>1 DEF Refuse, UndoPublish, Reply, Return, Goto, onDisk, Unsettled
  <2>2. CASE StoreRevision(p) \/ Publish(p)
    BY <1>1, <1>2, <2>2 DEF StoreRevision, Publish, Goto, onDisk, locals, Unsettled
  <2>3. CASE Reload(p)
    BY <1>1, <1>2, <2>3 DEF Reload, Goto, onDisk, Unsettled
  <2>4. CASE Record(p)
    BY <1>1, <1>2, <2>4 DEF Record, Goto, locals, Unsettled
  <2> QED BY <1>4, <1>5, <1>8, <2>1, <2>2, <2>3, <2>4 DEF Proceed
<1>9. ASSUME NEW p \in Writers, Fails(p) PROVE Captured'
  <2>1. CASE CommitFails(p) \/ ReloadFails(p) \/ UndoFails(p) \/ UndoReloadFails(p)
    BY <1>1, <1>2, <2>1
    DEF CommitFails, ReloadFails, UndoFails, UndoReloadFails, Return, Goto,
        onDisk, Unsettled
  <2>2. CASE SinkFails(p) \/ FsyncFails(p)
    BY <1>1, <1>2, <2>2 DEF SinkFails, FsyncFails, Goto, onDisk, locals, Unsettled
  <2> QED BY <1>9, <2>1, <2>2 DEF Fails
<1>10. ASSUME Crash PROVE Captured'
  BY <1>10 DEF Crash, Unsettled
<1>11. ASSUME Restart PROVE Captured'
  BY <1>2, <1>11 DEF Restart, onDisk, locals
<1>12. ASSUME UNCHANGED vars PROVE Captured'
  BY <1>2, <1>12 DEF vars, onDisk, locals
<1> QED BY <1>6, <1>7, <1>8, <1>9, <1>10, <1>11, <1>12 DEF Next, WriteStep

LEMMA StoreInvariant == Spec => []StoreInv
<1>1. Init => StoreInv
  <2>1. Init => Captured
    BY DEF Init, Captured, Unsettled
  <2> QED BY <2>1, RecordInvInit DEF StoreInv
<1>2. StoreInv /\ [Next]_vars => StoreInv'
  <2>1. LockInv /\ [Next]_vars => LockInv'
    BY TypeInvNext, MutexNext, NumbersNext, SnapshotsNext DEF LockInv
  <2> QED BY <2>1, StampedNext, AcknowledgedNext, CapturedNext
          DEF StoreInv, RecordInv
<1> QED BY <1>1, <1>2, PTL DEF Spec

\* With an unsettled write of p, the disk is that write done to the settled
\* store.
LEMMA SettledOf ==
    ASSUME StoreInv, NEW p \in Writers, pc[p] \in Unsettled
    PROVE  /\ Settled \in Stores
           /\ Settled = [disk EXCEPT ![req[p].ns] = prior[p]]
           /\ ~Refused(Settled[req[p].ns], req[p])
           /\ After(Settled, req[p]) = disk
<1>1. wmu = p /\ wmu # Nobody
  BY WritersAssumption
  DEF StoreInv, RecordInv, LockInv, Mutex, Critical, Unsettled, Phases
<1>2. /\ req[p] \in Writes /\ req[p].ns \in Namespaces
      /\ prior[p] \in Contents \cup {Absent} /\ disk \in Stores
  <2>1. pc[p] # "idle"
    BY DEF Unsettled
  <2> QED BY <2>1, ServingType DEF StoreInv, RecordInv, LockInv, TypeInv, TypeOK
<1>3. Settled = [disk EXCEPT ![req[p].ns] = prior[p]]
  BY <1>1 DEF Settled
<1>4. Settled \in Stores /\ Settled[req[p].ns] = prior[p]
  BY <1>2, <1>3 DEF Stores
<1>5. /\ ~Refused(prior[p], req[p])
      /\ disk[req[p].ns] = Outcome(prior[p], req[p])
  BY DEF StoreInv, Captured
<1>6. After(Settled, req[p]) = [Settled EXCEPT ![req[p].ns] = disk[req[p].ns]]
  BY <1>4, <1>5 DEF After
<1>7. [Settled EXCEPT ![req[p].ns] = disk[req[p].ns]] = disk
  BY <1>2, <1>3 DEF Stores
<1> QED BY <1>3, <1>4, <1>5, <1>6, <1>7

\* With no unsettled write, the settled store is the disk.
LEMMA SettledIsDisk ==
    ASSUME \A p \in Writers : wmu = p => pc[p] \notin Unsettled,
           wmu \in Writers \cup {Nobody}
    PROVE  Settled = disk
BY DEF Settled

\* What a step can do to the settled store and the record: nothing, a write
\* with its record, a write without, a record without.
Legal(r) ==
    r \in Requests /\ Admissible(r) /\ ~Refused(Settled[r.ns], r)

Recording(r) ==
    /\ log' = Append(log, RecordOf(r, rev))
    /\ \A i \in DOMAIN log : log[i].rev < rev

Keeps == Settled' = Settled /\ log' = log /\ parted \subseteq parted'

Wrote(r) ==
    Legal(r) /\ Settled' = After(Settled, r) /\ Recording(r) /\ parted' = parted

Lost(r) ==
    /\ Legal(r) /\ Settled' = After(Settled, r) /\ log' = log
    /\ parted \cup {r.ns} \subseteq parted'

Ghosted(r) ==
    /\ Legal(r) /\ Settled' = Settled /\ Recording(r)
    /\ parted \cup {r.ns} \subseteq parted'

LEMMA SettledStep ==
    ASSUME StoreInv, [Next]_vars
    PROVE  Keeps \/ \E r \in Requests : Wrote(r) \/ Lost(r) \/ Ghosted(r)
<1> DEFINE Goal == Keeps \/ \E r \in Requests : Wrote(r) \/ Lost(r) \/ Ghosted(r)
<1> USE DEF StoreInv, RecordInv, LockInv
<1>1. /\ pc \in [Writers -> Phases] /\ wmu \in Writers \cup {Nobody}
      /\ req \in [Writers -> Writes \cup {NoWrite}]
      /\ prior \in [Writers -> Contents \cup {Absent}]
      /\ disk \in Stores /\ Nobody \notin Writers
  BY WritersAssumption DEF TypeInv, TypeOK
<1>2. ASSUME NEW p \in Writers, pc[p] \in Unsettled
      PROVE  /\ wmu = p /\ Legal(req[p]) /\ req[p] \in Requests
             /\ After(Settled, req[p]) = disk
             /\ Settled = [disk EXCEPT ![req[p].ns] = prior[p]]
  <2>1. pc[p] # "idle" /\ wmu = p
    BY <1>2 DEF Mutex, Critical, Unsettled, Phases
  <2> QED BY <1>2, <2>1, SettledOf, ServingType DEF Legal
<1>3. ASSUME NEW p \in Writers, wmu = p, pc[p] \notin Unsettled
      PROVE  Settled = disk
  BY <1>1, <1>3 DEF Settled
<1>4. ASSUME wmu = Nobody PROVE Settled = disk
  BY <1>4 DEF Settled
\* A writer that holds the lock before and after, unsettled on both sides.
<1>5. ASSUME NEW p \in Writers, pc[p] \in Unsettled, pc'[p] \in Unsettled,
             UNCHANGED <<disk, log, wmu, req, prior, parted>>
      PROVE  Keeps
  BY <1>1, <1>2, <1>5 DEF Keeps, Settled
\* Nothing unsettled on either side.
<1>6. ASSUME Settled = disk, UNCHANGED <<disk, log>>, parted \subseteq parted',
             wmu' = Nobody \/ pc'[wmu'] \notin Unsettled
      PROVE  Keeps
  BY <1>6 DEF Keeps, Settled
<1>7. ASSUME NEW p \in Writers, NEW r \in Requests, Accept(p, r) PROVE Keeps
  <2>1. /\ pc[p] = "idle" /\ pc' = [pc EXCEPT ![p] = "lock"]
        /\ req' = [req EXCEPT ![p] = r]
        /\ UNCHANGED <<disk, log, wmu, prior, parted>>
    BY <1>7 DEF Accept, Goto, onDisk, memory
  <2>2. wmu # p
    BY <2>1 DEF Mutex, Critical
  <2> QED BY <1>1, <2>1, <2>2 DEF Keeps, Settled
<1>8. ASSUME NEW p \in Writers, Lock(p) PROVE Keeps
  <2>1. /\ wmu = Nobody /\ wmu' = p /\ pc' = [pc EXCEPT ![p] = "update"]
        /\ UNCHANGED <<disk, log, parted>>
    BY <1>8 DEF Lock, Goto, onDisk, history
  <2> QED BY <1>1, <1>4, <1>6, <2>1 DEF Unsettled
<1>9. ASSUME NEW p \in Writers, Proceed(p) PROVE Goal
  <2>1. CASE Refuse(p) \/ UndoPublish(p)
    <3>1. /\ pc[p] \in {"update", "undoPublish"} /\ wmu' = Nobody
          /\ UNCHANGED <<disk, log, parted>>
      BY <2>1 DEF Refuse, UndoPublish, Return, Goto, Unlock, onDisk
    <3>2. wmu = p /\ pc[p] \notin Unsettled
      BY <3>1 DEF Mutex, Critical, Unsettled, Phases
    <3> QED BY <1>3, <1>6, <3>1, <3>2
  <2>2. CASE Commit(p)
    <3>1. /\ pc[p] = "update" /\ pc' = [pc EXCEPT ![p] = "revision"]
          /\ disk' = After(disk, req[p])
          /\ prior' = [prior EXCEPT ![p] = disk[req[p].ns]]
          /\ UNCHANGED <<log, wmu, req, parted>>
      BY <2>2 DEF Commit, Goto, memory, history
    <3>2. wmu = p /\ pc[p] \notin Unsettled
      BY <3>1 DEF Mutex, Critical, Unsettled, Phases
    <3>3. Settled = disk
      BY <1>3, <3>2
    <3>4. /\ wmu' = p /\ wmu' # Nobody /\ pc'[p] \in Unsettled
          /\ prior'[p] = disk[req[p].ns]
      BY <1>1, <3>1, <3>2 DEF Unsettled
    <3>5. Settled' = [After(disk, req[p]) EXCEPT ![req[p].ns] = disk[req[p].ns]]
      BY <3>1, <3>4 DEF Settled
    <3>6. [After(disk, req[p]) EXCEPT ![req[p].ns] = disk[req[p].ns]] = disk
      BY <1>1 DEF After, Stores
    <3> QED BY <3>1, <3>3, <3>5, <3>6 DEF Keeps
  <2>3. CASE StoreRevision(p) \/ Publish(p)
    <3>1. /\ pc[p] \in Unsettled /\ pc'[p] \in Unsettled
          /\ UNCHANGED <<disk, log, wmu, req, prior, parted>>
      BY <1>1, <2>3
      DEF StoreRevision, Publish, Goto, Unsettled, onDisk, locals, history
    <3> QED BY <1>5, <3>1
  <2>4. CASE Reload(p)
    <3>1. UNCHANGED <<disk, log, wmu, req, prior, parted>>
      BY <2>4 DEF Reload, onDisk, memory, history
    <3>2. CASE Goto(p, "reload", "publish")
      <4>1. pc[p] \in Unsettled /\ pc'[p] \in Unsettled
        BY <1>1, <3>2 DEF Goto, Unsettled
      <4> QED BY <1>5, <3>1, <4>1
    <3>3. CASE Goto(p, "undoReload", "undoPublish")
      <4>1. /\ pc[p] = "undoReload" /\ pc'[p] = "undoPublish"
        BY <1>1, <3>3 DEF Goto
      <4>2. wmu = p /\ wmu' = p /\ pc[p] \notin Unsettled /\ pc'[p] \notin Unsettled
        BY <3>1, <4>1 DEF Mutex, Critical, Unsettled, Phases
      <4> QED BY <1>3, <1>6, <3>1, <4>2
    <3> QED BY <2>4, <3>2, <3>3 DEF Reload
  <2>5. CASE Record(p)
    <3>1. /\ pc[p] = "record" /\ wmu' = Nobody /\ UNCHANGED <<disk, parted>>
          /\ log' = Append(log, RecordOf(req[p], rev))
      BY <2>5 DEF Record, Goto, Unlock, history
    <3>2. /\ Legal(req[p]) /\ req[p] \in Requests /\ After(Settled, req[p]) = disk
      BY <1>2, <3>1 DEF Unsettled
    <3>3. Settled' = disk
      BY <3>1 DEF Settled
    <3>4. Recording(req[p])
      BY <3>1 DEF Recording, Stamped, Numbers
    <3> QED BY <3>1, <3>2, <3>3, <3>4 DEF Wrote
  <2>6. CASE Undo(p)
    <3>1. /\ pc[p] = "undo" /\ pc' = [pc EXCEPT ![p] = "undoReload"]
          /\ disk' = [disk EXCEPT ![req[p].ns] = prior[p]]
          /\ UNCHANGED <<log, wmu, parted>>
      BY <2>6 DEF Undo, Goto, memory, history
    <3>2. wmu = p /\ Settled = [disk EXCEPT ![req[p].ns] = prior[p]]
      BY <1>2, <3>1 DEF Unsettled
    <3>3. Settled' = disk'
      BY <1>1, <3>1, <3>2 DEF Settled, Unsettled
    <3> QED BY <3>1, <3>2, <3>3 DEF Keeps
  <2>7. CASE Reply(p)
    <3>1. /\ pc[p] = "reply" /\ pc' = [pc EXCEPT ![p] = "idle"]
          /\ UNCHANGED <<disk, log, wmu, parted>>
          /\ \A q \in Writers : q # p => req'[q] = req[q] /\ prior'[q] = prior[q]
      BY <1>1, <2>7 DEF Reply, Return, Goto, onDisk, memory
    <3>2. wmu # p
      BY <3>1 DEF Mutex, Critical
    <3> QED BY <1>1, <3>1, <3>2 DEF Keeps, Settled
  <2> QED BY <1>9, <2>1, <2>2, <2>3, <2>4, <2>5, <2>6, <2>7 DEF Proceed
<1>10. ASSUME NEW p \in Writers, Fails(p) PROVE Goal
  <2>1. CASE CommitFails(p) \/ UndoReloadFails(p)
    <3>1. /\ pc[p] \in {"update", "undoReload"} /\ wmu' = Nobody
          /\ UNCHANGED <<disk, log, parted>>
      BY <2>1 DEF CommitFails, UndoReloadFails, Return, Goto, Unlock, onDisk
    <3>2. wmu = p /\ pc[p] \notin Unsettled
      BY <3>1 DEF Mutex, Critical, Unsettled, Phases
    <3> QED BY <1>3, <1>6, <3>1, <3>2
  <2>2. CASE ReloadFails(p) \/ UndoFails(p)
    <3>1. /\ pc[p] \in Unsettled /\ wmu' = Nobody
          /\ UNCHANGED <<disk, log>> /\ parted' = parted \cup {req[p].ns}
      BY <2>2
      DEF ReloadFails, UndoFails, Return, Goto, Unlock, onDisk, Parts, Unsettled
    <3>2. Legal(req[p]) /\ req[p] \in Requests /\ After(Settled, req[p]) = disk
      BY <1>2, <3>1
    <3>3. Settled' = disk
      BY <3>1 DEF Settled
    <3> QED BY <3>1, <3>2, <3>3 DEF Lost
  <2>3. CASE SinkFails(p)
    <3>1. /\ pc[p] \in Unsettled /\ pc'[p] \in Unsettled
          /\ UNCHANGED <<disk, log, wmu, req, prior, parted>>
      BY <1>1, <2>3 DEF SinkFails, Goto, Unsettled, onDisk, memory, locals
    <3> QED BY <1>5, <3>1
  <2>4. CASE FsyncFails(p)
    <3>1. /\ pc[p] = "record" /\ pc' = [pc EXCEPT ![p] = "undo"]
          /\ UNCHANGED <<disk, wmu, req, prior>>
          /\ parted' = parted \cup {req[p].ns}
          /\ log' = Append(log, RecordOf(req[p], rev))
      BY <2>4 DEF FsyncFails, Goto, memory, locals, Parts
    <3>2. Legal(req[p]) /\ req[p] \in Requests /\ wmu = p
      BY <1>2, <3>1 DEF Unsettled
    <3>3. Settled' = Settled
      BY <1>1, <3>1, <3>2 DEF Settled, Unsettled
    <3>4. Recording(req[p])
      BY <3>1 DEF Recording, Stamped, Numbers
    <3> QED BY <3>1, <3>2, <3>3, <3>4 DEF Ghosted
  <2> QED BY <1>10, <2>1, <2>2, <2>3, <2>4 DEF Fails
<1>11. ASSUME Crash PROVE Goal
  <2>1. /\ wmu' = Nobody /\ UNCHANGED <<disk, log>>
        /\ parted' = parted \cup Interrupted
    BY <1>11 DEF Crash, onDisk
  <2>2. Settled' = disk
    BY <2>1 DEF Settled
  <2>3. CASE \E p \in Writers : pc[p] \in Unsettled
    <3>1. PICK p \in Writers : pc[p] \in Unsettled
      BY <2>3
    <3>2. Legal(req[p]) /\ req[p] \in Requests /\ After(Settled, req[p]) = disk
      BY <1>2, <3>1
    <3>3. req[p].ns \in Interrupted
      BY <3>1 DEF Interrupted
    <3> QED BY <2>1, <2>2, <3>2, <3>3 DEF Lost
  <2>4. CASE \A p \in Writers : pc[p] \notin Unsettled
    <3>1. Settled = disk
      BY <1>1, <2>4 DEF Settled
    <3> QED BY <2>1, <2>2, <3>1 DEF Keeps
  <2> QED BY <2>3, <2>4
<1>12. ASSUME Restart PROVE Keeps
  BY <1>12 DEF Restart, Keeps, Settled, onDisk, locals, history
<1>13. ASSUME UNCHANGED vars PROVE Keeps
  BY <1>13 DEF vars, Keeps, Settled, onDisk, memory, locals, history
<1> QED BY <1>7, <1>8, <1>9, <1>10, <1>11, <1>12, <1>13 DEF Next, WriteStep

---------------------------------------------------------------------------
(***************************************************************************)
(* The store agrees with its record.                                        *)
(***************************************************************************)

\* A record added at the end can only take the last word away from another.
LEMMA WordsAppend ==
    ASSUME NEW l \in Seq(Records), NEW e \in Records
    PROVE  /\ DOMAIN l = 1 .. Len(l) /\ Len(l) \in Nat
           /\ DOMAIN Append(l, e) = 1 .. Len(l) + 1
           /\ Append(l, e)[Len(l) + 1] = e
           /\ \A i \in DOMAIN l :
                /\ i \in DOMAIN Append(l, e)
                /\ Append(l, e)[i] = l[i]
                /\ LastWord(Append(l, e), i) =>
                     /\ LastWord(l, i)
                     /\ e.ns = l[i].ns =>
                          /\ e.op # "DeleteNamespace"
                          /\ e.op = "SetFlag" => e.key # l[i].key
                /\ LastRetire(Append(l, e), i) =>
                     LastRetire(l, i) /\ e.ns # l[i].ns
<1>1. /\ DOMAIN l = 1 .. Len(l) /\ Len(l) \in Nat
      /\ DOMAIN Append(l, e) = 1 .. Len(l) + 1
      /\ Append(l, e)[Len(l) + 1] = e
      /\ \A i \in DOMAIN l : Append(l, e)[i] = l[i]
  BY AppendProperties, LenProperties
<1>2. ASSUME NEW i \in DOMAIN l
      PROVE  /\ i \in DOMAIN Append(l, e)
             /\ Len(l) + 1 \in DOMAIN Append(l, e) /\ Len(l) + 1 > i
             /\ \A j \in DOMAIN l : j \in DOMAIN Append(l, e)
  BY <1>1, <1>2
<1>3. ASSUME NEW i \in DOMAIN l, LastWord(Append(l, e), i)
      PROVE  /\ LastWord(l, i)
             /\ e.ns = l[i].ns => /\ e.op # "DeleteNamespace"
                                  /\ e.op = "SetFlag" => e.key # l[i].key
  BY <1>1, <1>2, <1>3 DEF LastWord
<1>4. ASSUME NEW i \in DOMAIN l, LastRetire(Append(l, e), i)
      PROVE  LastRetire(l, i) /\ e.ns # l[i].ns
  BY <1>1, <1>2, <1>4 DEF LastRetire
<1> QED BY <1>1, <1>2, <1>3, <1>4

\* A record of one namespace leaves the agreement of the others alone.
LEMMA AgreesElsewhere ==
    ASSUME NEW l \in Seq(Records), NEW e \in Records, NEW n \in Namespaces,
           NEW s, NEW t, e.ns # n, s[n] = t[n], Agrees(s, l, n)
    PROVE  Agrees(t, Append(l, e), n)
<1> SUFFICES ASSUME NEW i \in DOMAIN Append(l, e), Append(l, e)[i].ns = n
             PROVE  /\ i \in DOMAIN l /\ Append(l, e)[i] = l[i]
                    /\ LastWord(Append(l, e), i) => LastWord(l, i)
                    /\ LastRetire(Append(l, e), i) => LastRetire(l, i)
  BY DEF Agrees
<1>1. i \in DOMAIN l
  BY WordsAppend
<1> QED BY <1>1, WordsAppend

\* What a write that is not refused does to each flag, told in the record's
\* terms: the flip it records is there, the other values stay.
LEMMA OutcomeValues ==
    ASSUME NEW c \in Contents \cup {Absent}, NEW r \in Writes,
           ~Refused(c, r)
    PROVE  /\ r.op = "DeleteNamespace" => Outcome(c, r) = Absent
           /\ r.op # "DeleteNamespace" => Outcome(c, r) # Absent
           /\ r.op = "SetFlag" =>
                /\ r.key \in Keys
                /\ Outcome(c, r)[r.key] # NoFlag
                /\ Outcome(c, r)[r.key].value = r.value
           /\ \A k \in Keys :
                (/\ c # Absent /\ c[k] # NoFlag
                 /\ r.op # "DeleteNamespace"
                 /\ r.op = "SetFlag" => r.key # k)
                => /\ Outcome(c, r)[k] # NoFlag
                   /\ Outcome(c, r)[k].value = c[k].value
<1>0. Bucket(c) \in Contents /\ (c # Absent => Bucket(c) = c)
  BY BucketType DEF Bucket
<1>1. \A f : f \in Contents => f # Absent
  BY SentinelAssumption DEF Contents, Flag
<1>2. \A f : f \in Flag => f # NoFlag
  BY SentinelAssumption DEF Flag
<1>3. CASE r \in Flips
  <2>1. /\ r.op = "SetFlag" /\ r.key \in Keys /\ r.value \in Values
    BY <1>3 DEF Flips, Refused
  <2>2. Outcome(c, r) = Flipped(c, r.key, r.value)
    BY <2>1 DEF Outcome
  <2>3. Outcome(c, r) \in Contents
    <3>1. \A x : x \in Contents \cup {Absent} => x \in Contents \/ x = Absent
      OBVIOUS
    <3>2. [value |-> r.value,
           meta  |-> IF Bucket(c)[r.key] = NoFlag THEN NoMeta
                     ELSE Bucket(c)[r.key].meta] \in Flag
      BY <1>0, <2>1 DEF Contents, Flag
    <3> QED BY <1>0, <2>1, <2>2, <3>2 DEF Flipped, Contents
  <2>4. Outcome(c, r)[r.key].value = r.value /\ Outcome(c, r)[r.key] # NoFlag
    <3>1. Outcome(c, r)[r.key] =
            [value |-> r.value,
             meta  |-> IF Bucket(c)[r.key] = NoFlag THEN NoMeta
                       ELSE Bucket(c)[r.key].meta]
      BY <1>0, <2>1, <2>2 DEF Flipped, Contents
    <3>2. Outcome(c, r)[r.key] \in Flag
      BY <1>0, <2>1, <3>1 DEF Contents, Flag
    <3> QED BY <1>2, <3>1, <3>2
  <2>5. ASSUME NEW k \in Keys, c # Absent, r.key # k
        PROVE  Outcome(c, r)[k] = c[k]
    BY <1>0, <2>1, <2>2, <2>5 DEF Flipped, Contents
  <2> QED BY <1>1, <2>1, <2>3, <2>4, <2>5
<1>4. CASE r \in Publishes
  <2>1. /\ r.op = "PublishNamespace"
        /\ r.flags \in [Keys -> Declared \cup {NoFlag}]
    BY <1>4 DEF Publishes
  <2>2. Outcome(c, r) = Merged(c, r.flags)
    BY <2>1 DEF Outcome
  <2>3. Outcome(c, r) \in Contents
    <3>1. ASSUME NEW k \in Keys
          PROVE  Merged(c, r.flags)[k] \in Flag \cup {NoFlag}
      <4>1. Bucket(c)[k] \in Flag \cup {NoFlag}
        BY <1>0 DEF Contents
      <4>2. r.flags[k] \in Declared \cup {NoFlag}
        BY <2>1
      <4> QED BY <4>1, <4>2 DEF Merged, Declared, Flag
    <3> QED BY <2>2, <3>1 DEF Merged, Contents
  <2>4. ASSUME NEW k \in Keys, c # Absent, c[k] # NoFlag
        PROVE  /\ Outcome(c, r)[k] # NoFlag
               /\ Outcome(c, r)[k].value = c[k].value
    <3>1. c[k] \in Flag
      BY <1>0, <2>4 DEF Contents
    <3>2. r.flags[k] \in Declared \cup {NoFlag}
      BY <2>1
    <3>3. CASE r.flags[k] = NoFlag
      BY <1>0, <2>2, <2>4, <3>3 DEF Merged
    <3>4. CASE r.flags[k] # NoFlag
      <4>1. Outcome(c, r)[k] = [value |-> c[k].value, meta |-> r.flags[k].meta]
        BY <1>0, <2>2, <2>4, <3>4 DEF Merged
      <4>2. Outcome(c, r)[k] \in Flag
        BY <3>1, <3>2, <3>4, <4>1 DEF Flag, Declared
      <4> QED BY <1>2, <4>1, <4>2
    <3> QED BY <3>3, <3>4
  <2> QED BY <1>1, <2>1, <2>3, <2>4
<1>5. CASE r \in Retires
  <2>1. r.op = "DeleteNamespace"
    BY <1>5 DEF Retires
  <2> QED BY <2>1 DEF Outcome
<1> QED BY <1>3, <1>4, <1>5 DEF Writes

\* A write and its record keep the agreement on their own namespace.
LEMMA AgreesAtHome ==
    ASSUME NEW l \in Seq(Records), NEW s \in Stores, NEW r \in Writes,
           NEW m \in Nat, ~Refused(s[r.ns], r), Agrees(s, l, r.ns)
    PROVE  Agrees(After(s, r), Append(l, RecordOf(r, m)), r.ns)
<1> DEFINE e == RecordOf(r, m)
           n == r.ns
           t == After(s, r)
<1>1. /\ e \in Records /\ e.ns = n /\ e.op = r.op /\ n \in Namespaces
      /\ t[n] = Outcome(s[n], r)
  BY RecordOfType, AfterType
<1>2. r.op = "SetFlag" => e.key = r.key /\ e.value = r.value
  BY DEF RecordOf
<1>3. s[n] \in Contents \cup {Absent}
  BY <1>1 DEF Stores
<1> HIDE DEF e, t
<1> SUFFICES ASSUME NEW i \in DOMAIN Append(l, e), Append(l, e)[i].ns = n
             PROVE  /\ (Append(l, e)[i].op = "SetFlag" /\ LastWord(Append(l, e), i)) =>
                         /\ t[n] # Absent
                         /\ t[n][Append(l, e)[i].key] # NoFlag
                         /\ t[n][Append(l, e)[i].key].value = Append(l, e)[i].value
                    /\ (Append(l, e)[i].op = "DeleteNamespace"
                        /\ LastRetire(Append(l, e), i)) => t[n] = Absent
  BY DEF Agrees, e, t
<1>4. CASE i = Len(l) + 1
  <2>1. Append(l, e)[i] = e
    BY <1>1, <1>4, WordsAppend
  <2> QED BY <1>1, <1>2, <1>3, <2>1, OutcomeValues
<1>5. CASE i \in DOMAIN l
  <2>1. Append(l, e)[i] = l[i] /\ l[i].ns = n
    BY <1>1, <1>5, WordsAppend
  <2>2. ~LastRetire(Append(l, e), i)
    BY <1>1, <1>5, <2>1, WordsAppend
  <2>3. ASSUME l[i].op = "SetFlag", LastWord(Append(l, e), i)
        PROVE  /\ t[n] # Absent
               /\ t[n][l[i].key] # NoFlag
               /\ t[n][l[i].key].value = l[i].value
    <3>1. /\ LastWord(l, i) /\ e.op # "DeleteNamespace"
          /\ e.op = "SetFlag" => e.key # l[i].key
      BY <1>1, <1>5, <2>1, <2>3, WordsAppend
    <3>2. /\ s[n] # Absent /\ s[n][l[i].key] # NoFlag
          /\ s[n][l[i].key].value = l[i].value
      BY <1>5, <2>1, <2>3, <3>1 DEF Agrees
    <3>3. l[i].key \in Keys
      <4>1. l[i] \in Records
        BY <1>5, <1>1, WordsAppend
      <4> QED BY <2>3, <4>1 DEF Records
    <3> QED BY <1>1, <1>2, <1>3, <3>1, <3>2, <3>3, OutcomeValues
  <2> QED BY <2>1, <2>2, <2>3
<1> QED BY <1>1, <1>4, <1>5, WordsAppend

\* The settled store is a store.
LEMMA SettledType == ASSUME StoreInv PROVE Settled \in Stores
<1>1. /\ disk \in Stores /\ wmu \in Writers \cup {Nobody}
      /\ prior \in [Writers -> Contents \cup {Absent}]
      /\ Nobody \notin Writers
  BY WritersAssumption DEF StoreInv, RecordInv, LockInv, TypeInv, TypeOK
<1>2. CASE wmu # Nobody /\ pc[wmu] \in Unsettled
  BY <1>1, <1>2 DEF Settled, Stores
<1>3. CASE ~(wmu # Nobody /\ pc[wmu] \in Unsettled)
  BY <1>1, <1>3 DEF Settled
<1> QED BY <1>2, <1>3

\* What a legal step's write is made of.
LEMMA LegalWrite ==
    ASSUME StoreInv, NEW r \in Requests, Legal(r)
    PROVE  /\ r \in Writes /\ r.ns \in Namespaces
           /\ Settled \in Stores /\ log \in Seq(Records) /\ rev \in Nat
           /\ ~Refused(Settled[r.ns], r)
           /\ RecordOf(r, rev) \in Records /\ RecordOf(r, rev).ns = r.ns
<1>1. r \in Writes /\ ~Refused(Settled[r.ns], r)
  BY RequestsAssumption DEF Legal
<1>2. log \in Seq(Records) /\ rev \in Nat
  BY DEF StoreInv, RecordInv, LockInv, TypeInv, TypeOK
<1>3. Settled \in Stores
  BY SettledType
<1> QED BY <1>1, <1>2, <1>3, AfterType, RecordOfType

LEMMA AgreesNext ==
    StoreInv /\ StoreAgreesWithRecord /\ [Next]_vars => StoreAgreesWithRecord'
<1> SUFFICES ASSUME StoreInv, StoreAgreesWithRecord, [Next]_vars,
                    NEW n \in Namespaces, n \notin parted'
             PROVE  Agrees(Settled', log', n)
  BY DEF StoreAgreesWithRecord
<1>1. CASE Keeps
  BY <1>1 DEF Keeps, StoreAgreesWithRecord
<1>2. ASSUME NEW r \in Requests, Wrote(r) PROVE Agrees(Settled', log', n)
  <2>1. /\ Legal(r) /\ n \notin parted
        /\ Settled' = After(Settled, r)
        /\ log' = Append(log, RecordOf(r, rev))
    BY <1>2 DEF Wrote, Recording
  <2>2. Agrees(Settled, log, n)
    BY <2>1 DEF StoreAgreesWithRecord
  <2>3. CASE n = r.ns
    BY <2>1, <2>2, <2>3, LegalWrite, AgreesAtHome
  <2>4. CASE n # r.ns
    <3>1. Settled[n] = After(Settled, r)[n]
      BY <2>1, <2>4, LegalWrite, AfterType
    <3> QED BY <2>1, <2>2, <2>4, <3>1, LegalWrite, AgreesElsewhere
  <2> QED BY <2>3, <2>4
<1>3. ASSUME NEW r \in Requests, Lost(r) PROVE Agrees(Settled', log', n)
  <2>1. /\ Legal(r) /\ n \notin parted /\ n # r.ns
        /\ Settled' = After(Settled, r) /\ log' = log
    BY <1>3 DEF Lost
  <2>2. Settled'[n] = Settled[n]
    BY <2>1, LegalWrite, AfterType
  <2>3. Agrees(Settled, log, n)
    BY <2>1 DEF StoreAgreesWithRecord
  <2> QED BY <2>1, <2>2, <2>3 DEF Agrees
<1>4. ASSUME NEW r \in Requests, Ghosted(r) PROVE Agrees(Settled', log', n)
  <2>1. /\ Legal(r) /\ n \notin parted /\ n # r.ns
        /\ Settled' = Settled /\ log' = Append(log, RecordOf(r, rev))
    BY <1>4 DEF Ghosted, Recording
  <2>2. Agrees(Settled, log, n)
    BY <2>1 DEF StoreAgreesWithRecord
  <2> QED BY <2>1, <2>2, LegalWrite, AgreesElsewhere
<1> QED BY <1>1, <1>2, <1>3, <1>4, SettledStep

\* Wherever no fault parted them, the store is what its record says: the last
\* recorded flip of a flag is its value and a namespace last retired is gone.
THEOREM AgreesTheorem == Spec => []StoreAgreesWithRecord
<1>1. Init => StoreAgreesWithRecord
  <2> SUFFICES ASSUME Init, NEW n \in Namespaces
               PROVE  Agrees(Settled, log, n)
    BY DEF StoreAgreesWithRecord
  <2>1. DOMAIN log = {}
    BY DEF Init
  <2> QED BY <2>1 DEF Agrees
<1>2. StoreInv /\ StoreAgreesWithRecord /\ [Next]_vars => StoreAgreesWithRecord'
  BY AgreesNext
<1> QED BY <1>1, <1>2, StoreInvariant, PTL DEF Spec

---------------------------------------------------------------------------
(***************************************************************************)
(* The detailed store implements the abstract one.                          *)
(***************************************************************************)

\* The abstract store reads a write by the same rules.
LEMMA SameRules ==
    /\ Abstract!EmptyStore = EmptyStore
    /\ \A r, c : Abstract!Refused(c, r) <=> Refused(c, r)
    /\ \A r : Abstract!Admissible(r) <=> Admissible(r)
    /\ \A s, r : Abstract!After(s, r) = After(s, r)
    /\ \A r, n : Abstract!RecordOf(r, n) = RecordOf(r, n)
<1>1. Abstract!EmptyStore = EmptyStore
  BY DEF EmptyStore, Abstract!EmptyStore
<1>2. \A c : Abstract!Bucket(c) = Bucket(c)
  BY DEF Bucket, NoContents, Abstract!Bucket, Abstract!NoContents
<1>3. \A c : Abstract!Held(c) = Held(c)
  BY <1>2 DEF Held, Abstract!Held
<1>4. \A v : Abstract!Kind(v) = Kind(v)
  BY DEF Kind, Abstract!Kind
<1>c. \A S : Abstract!Cardinality(S) = Cardinality(S)
  BY Zenon DEF Cardinality, Abstract!Cardinality
<1>5. \A r, c : Abstract!Refused(c, r) <=> Refused(c, r)
  <2>1. \A c, k, v : Abstract!Retypes(c, k, v) <=> Retypes(c, k, v)
    BY <1>2, <1>4, Zenon DEF Retypes, Abstract!Retypes
  <2>2. \A c, k : Abstract!OverBudget(c, k) <=> OverBudget(c, k)
    BY <1>2, <1>3, <1>c DEF OverBudget, Abstract!OverBudget
  <2> QED BY <2>1, <2>2, Zenon DEF Refused, Abstract!Refused
<1>6. \A r : Abstract!Admissible(r) <=> Admissible(r)
  <2>1. \A k, f : Abstract!LintExpensive(k, f) <=> LintExpensive(k, f)
    BY <1>4, Zenon DEF LintExpensive, Abstract!LintExpensive
  <2> QED BY <2>1, <1>c DEF Admissible, Abstract!Admissible
<1>7. \A c, r : Abstract!Outcome(c, r) = Outcome(c, r)
  <2>1. \A c, k, v : Abstract!Flipped(c, k, v) = Flipped(c, k, v)
    BY <1>2 DEF Flipped, Abstract!Flipped
  <2>2. \A c, fs : Abstract!Merged(c, fs) = Merged(c, fs)
    BY <1>2 DEF Merged, Abstract!Merged
  <2> QED BY <2>1, <2>2, Zenon DEF Outcome, Abstract!Outcome
<1>8. \A s, r : Abstract!After(s, r) = After(s, r)
  BY <1>7, Zenon DEF After, Abstract!After
<1>9. \A r, n : Abstract!RecordOf(r, n) = RecordOf(r, n)
  BY Zenon DEF RecordOf, Abstract!RecordOf
<1> QED BY <1>1, <1>5, <1>6, <1>8, <1>9

\* A new record under a number above all the others is what the abstract
\* store records.
LEMMA RecordedStep ==
    ASSUME StoreInv, NEW r \in Requests, Legal(r), Recording(r)
    PROVE  Abstract!Recorded(r)
<1>1. /\ log \in Seq(Records) /\ RecordOf(r, rev) \in Records
      /\ RecordOf(r, rev).rev = rev
  BY LegalWrite, RecordOfType
<1>2. /\ Len(log') = Len(log) + 1
      /\ log'[Len(log) + 1] = RecordOf(r, rev)
  BY <1>1, AppendProperties DEF Recording
<1> QED BY <1>1, <1>2, SameRules DEF Recording, Abstract!Recorded

\* A write that was done and recorded is the abstract one.
LEMMA WroteIsWrite ==
    ASSUME StoreInv, NEW r \in Requests, Wrote(r)
    PROVE  Abstract!Write(r)
<1>1. Abstract!Allowed(r)
  BY SameRules DEF Wrote, Legal, Abstract!Allowed
<1>2. Abstract!Recorded(r)
  BY RecordedStep DEF Wrote
<1> QED BY <1>1, <1>2, SameRules DEF Wrote, Abstract!Write

LEMMA RefinementStep == StoreInv /\ [Next]_vars => [Abstract!Next]_(Abstract!vars)
<1> SUFFICES ASSUME StoreInv, [Next]_vars
             PROVE  Abstract!Next \/ UNCHANGED Abstract!vars
  OBVIOUS
<1>1. CASE Keeps
  BY <1>1 DEF Keeps, Abstract!vars
<1>2. ASSUME NEW r \in Requests, Wrote(r) PROVE Abstract!Write(r)
  BY <1>2, WroteIsWrite
<1>3. ASSUME NEW r \in Requests, Lost(r) PROVE Abstract!Lose(r)
  BY <1>3, SameRules DEF Lost, Legal, Abstract!Allowed, Abstract!Lose
<1>4. ASSUME NEW r \in Requests, Ghosted(r) PROVE Abstract!Ghost(r)
  <2>1. Abstract!Allowed(r)
    BY <1>4, SameRules DEF Ghosted, Legal, Abstract!Allowed
  <2>2. Abstract!Recorded(r)
    BY <1>4, RecordedStep DEF Ghosted
  <2> QED BY <1>4, <2>1, <2>2 DEF Ghosted, Abstract!Ghost
<1> QED BY <1>1, <1>2, <1>3, <1>4, SettledStep DEF Abstract!Next

\* transact implements the flag store: seen through the settled store, every
\* step is a write with its record, one of the two ways a fault parts them, or
\* nothing at all; no reordering of handlers makes anything else of it.
THEOREM RefinementTheorem == Spec => ImplementsFlagStore
<1>1. Init => Abstract!Init
  BY SameRules, WritersAssumption DEF Init, Settled, Abstract!Init
<1>2. StoreInv /\ [Next]_vars => [Abstract!Next]_(Abstract!vars)
  BY RefinementStep
<1> QED BY <1>1, <1>2, StoreInvariant, PTL
        DEF Spec, ImplementsFlagStore, Abstract!Spec

\* Until a fault parts store and record, a write is done and recorded or it
\* never happened, the ones that failed and were undone included.
THEOREM StrictTheorem == Spec => StrictWhileWhole
<1>1. ASSUME StoreInv, [Next]_vars, parted' = {}
      PROVE  [Abstract!StrictNext]_(Abstract!vars)
  <2>1. CASE Keeps
    BY <2>1 DEF Keeps, Abstract!vars
  <2>2. ASSUME NEW r \in Requests, Wrote(r) PROVE Abstract!StrictNext
    BY <1>1, <2>2, WroteIsWrite DEF Abstract!StrictNext
  <2>3. ASSUME NEW r \in Requests PROVE ~Lost(r) /\ ~Ghosted(r)
    BY <1>1 DEF Lost, Ghosted
  <2> QED BY <1>1, <2>1, <2>2, <2>3, SettledStep
<1> QED BY <1>1, StoreInvariant, PTL DEF Spec, StrictWhileWhole
---------------------------------------------------------------------------
(***************************************************************************)
(* What a step may never do to a flag.                                      *)
(***************************************************************************)

\* A flag that is there before and after a step, in a namespace the step did
\* not part from its record, is as it was, or a write of it was recorded.
LEMMA FlagStep ==
    ASSUME StoreInv, [Next]_vars, NEW n \in Namespaces, n \notin parted',
           NEW k \in Keys, SettledFlag(n, k) # NoFlag
    PROVE  \/ SettledFlag(n, k)' = SettledFlag(n, k)
           \/ \E r \in Requests :
                 /\ Wrote(r) /\ r.ns = n
                 /\ SettledFlag(n, k)' = Bucket(After(Settled, r)[n])[k]
<1>1. CASE Keeps
  BY <1>1 DEF Keeps, SettledFlag
<1>2. ASSUME NEW r \in Requests, Wrote(r)
      PROVE  \/ SettledFlag(n, k)' = SettledFlag(n, k)
             \/ /\ r.ns = n
                /\ SettledFlag(n, k)' = Bucket(After(Settled, r)[n])[k]
  <2>1. Legal(r) /\ Settled' = After(Settled, r)
    BY <1>2 DEF Wrote
  <2>2. n # r.ns => After(Settled, r)[n] = Settled[n]
    BY <2>1, LegalWrite, AfterType
  <2> QED BY <2>1, <2>2 DEF SettledFlag
<1>3. ASSUME NEW r \in Requests, Lost(r)
      PROVE  SettledFlag(n, k)' = SettledFlag(n, k)
  <2>1. Legal(r) /\ Settled' = After(Settled, r) /\ r.ns # n
    BY <1>3 DEF Lost
  <2>2. After(Settled, r)[n] = Settled[n]
    BY <2>1, LegalWrite, AfterType
  <2> QED BY <2>1, <2>2 DEF SettledFlag
<1>4. ASSUME NEW r \in Requests, Ghosted(r)
      PROVE  SettledFlag(n, k)' = SettledFlag(n, k)
  BY <1>4 DEF Ghosted, SettledFlag
<1> QED BY <1>1, <1>2, <1>3, <1>4, SettledStep

\* A write recorded is the last record of the longer log.
LEMMA LastRecord ==
    ASSUME StoreInv, NEW r \in Requests, Wrote(r)
    PROVE  /\ Len(log') = Len(log) + 1
           /\ log'[Len(log')] = RecordOf(r, rev)
<1>1. Legal(r) /\ log' = Append(log, RecordOf(r, rev))
  BY DEF Wrote, Recording
<1> QED BY <1>1, LegalWrite, AppendProperties

\* The value of a flag that stays is changed only by a recorded flip of it to
\* that value, except where a fault parts the store from its record.
THEOREM ValuesTheorem == Spec => ValuesChangeByFlip
<1>1. ASSUME StoreInv, [Next]_vars, NEW n \in Namespaces \ parted', NEW k \in Keys,
             SettledFlag(n, k) # NoFlag, SettledFlag(n, k)' # NoFlag,
             SettledFlag(n, k)'.value # SettledFlag(n, k).value
      PROVE  /\ Len(log') = Len(log) + 1
             /\ [log'[Len(log')] EXCEPT !.rev = 0]
                  = [op |-> "SetFlag", ns |-> n, key |-> k,
                     value |-> SettledFlag(n, k)'.value, rev |-> 0]
  <2>1. PICK r \in Requests : /\ Wrote(r) /\ r.ns = n
                              /\ SettledFlag(n, k)' = Bucket(After(Settled, r)[n])[k]
    BY <1>1, FlagStep
  <2>2. Legal(r)
    BY <2>1 DEF Wrote
  <2>3. /\ r.op = "SetFlag" /\ r.key = k
        /\ SettledFlag(n, k)' = Bucket(After(Settled, r)[n])[k]
        /\ SettledFlag(n, k)'.value = r.value
    BY <1>1, <2>1, <2>2, LegalWrite, FlagAfter DEF SettledFlag
  <2>4. [RecordOf(r, rev) EXCEPT !.rev = 0]
            = [op |-> "SetFlag", ns |-> n, key |-> k, value |-> r.value, rev |-> 0]
    BY <2>1, <2>3 DEF RecordOf
  <2> QED BY <1>1, <2>1, <2>3, <2>4, LastRecord
<1>2. ASSUME StoreInv, [Next]_vars
      PROVE  \A n \in Namespaces \ parted', k \in Keys :
                (/\ SettledFlag(n, k) # NoFlag
                 /\ SettledFlag(n, k)' # NoFlag
                 /\ SettledFlag(n, k)'.value # SettledFlag(n, k).value)
                => /\ Len(log') = Len(log) + 1
                   /\ [log'[Len(log')] EXCEPT !.rev = 0]
                        = [op |-> "SetFlag", ns |-> n, key |-> k,
                           value |-> SettledFlag(n, k)'.value, rev |-> 0]
  BY <1>1, <1>2
<1> QED BY <1>2, StoreInvariant, PTL DEF Spec, ValuesChangeByFlip

\* No race of flips, publishes and retires leaves a flag with a value of
\* another kind: what is checked is what is on disk when the write commits.
THEOREM KindTheorem == Spec => KindIsStable
<1>1. ASSUME StoreInv, [Next]_vars, NEW n \in Namespaces, NEW k \in Keys,
             SettledFlag(n, k) # NoFlag, SettledFlag(n, k)' # NoFlag,
             SettledFlag(n, k).value # NoValue
      PROVE  Kind(SettledFlag(n, k)'.value) = Kind(SettledFlag(n, k).value)
  <2>1. CASE Settled' = Settled
    BY <2>1 DEF SettledFlag
  <2>2. ASSUME NEW r \in Requests, Legal(r), Settled' = After(Settled, r)
        PROVE  Kind(SettledFlag(n, k)'.value) = Kind(SettledFlag(n, k).value)
    BY <1>1, <2>2, LegalWrite, FlagAfter DEF SettledFlag
  <2> QED BY <1>1, <2>1, <2>2, SettledStep DEF Keeps, Wrote, Lost, Ghosted
<1>2. ASSUME StoreInv, [Next]_vars
      PROVE  \A n \in Namespaces, k \in Keys :
                (/\ SettledFlag(n, k) # NoFlag
                 /\ SettledFlag(n, k)' # NoFlag
                 /\ SettledFlag(n, k).value # NoValue)
                => Kind(SettledFlag(n, k)'.value) = Kind(SettledFlag(n, k).value)
  BY <1>1, <1>2
<1> QED BY <1>2, StoreInvariant, PTL DEF Spec, KindIsStable

\* A flag leaves the emergency page only with the record of a publish or a
\* retire of its namespace, except where a fault parts store and record.
THEOREM PageTheorem == Spec => EmergencyPageSurvivesFlips
<1>1. ASSUME StoreInv, [Next]_vars, NEW n \in Namespaces \ parted',
             ~(EmergencyPage(n) \subseteq EmergencyPage(n)')
      PROVE  /\ Len(log') = Len(log) + 1
             /\ log'[Len(log')].ns = n
             /\ log'[Len(log')].op \in {"PublishNamespace", "DeleteNamespace"}
  <2>1. PICK k \in Keys : /\ SettledFlag(n, k) # NoFlag
                          /\ SettledFlag(n, k).meta \in Expensive
                          /\ ~(/\ SettledFlag(n, k)' # NoFlag
                               /\ SettledFlag(n, k)'.meta \in Expensive)
    BY <1>1 DEF EmergencyPage
  <2>2. PICK r \in Requests : /\ Wrote(r) /\ r.ns = n
                              /\ SettledFlag(n, k)' = Bucket(After(Settled, r)[n])[k]
    BY <1>1, <2>1, FlagStep
  <2>3. Legal(r) /\ r \in Writes /\ ~Refused(Settled[r.ns], r)
        /\ Settled \in Stores
    BY <1>1, <2>2, LegalWrite DEF Wrote
  <2>4. r.op # "SetFlag"
    <3> SUFFICES ASSUME r.op = "SetFlag" PROVE FALSE
      OBVIOUS
    <3>1. Bucket(After(Settled, r)[n])[k] # NoFlag
      <4>1. After(Settled, r)[n] = Flipped(Settled[n], r.key, r.value)
        BY <2>2, <2>3, AfterType DEF Outcome
      <4>2. Settled[n] \in Contents \cup {Absent} /\ Bucket(Settled[n])[k] \in Flag
        BY <2>1, <2>3, BucketType DEF Stores, SettledFlag, Contents
      <4>3. /\ r.key \in Keys /\ Outcome(Settled[n], r)[r.key] # NoFlag
            /\ Outcome(Settled[n], r) # Absent
        BY <2>2, <2>3, <4>2, OutcomeValues
      <4>4. Outcome(Settled[n], r) = Flipped(Settled[n], r.key, r.value)
        BY DEF Outcome
      <4>5. k # r.key => Flipped(Settled[n], r.key, r.value)[k] = Bucket(Settled[n])[k]
        BY <4>2, BucketType DEF Flipped, Contents
      <4>6. Bucket(After(Settled, r)[n]) = Flipped(Settled[n], r.key, r.value)
        BY <4>1, <4>3, <4>4 DEF Bucket
      <4> QED BY <2>1, <4>3, <4>4, <4>5, <4>6 DEF SettledFlag
    <3>2. Bucket(After(Settled, r)[n])[k].meta = SettledFlag(n, k).meta
      BY <2>1, <2>2, <2>3, <3>1, FlagAfter DEF SettledFlag
    <3> QED BY <2>1, <2>2, <3>1, <3>2
  <2>5. r.op \in {"PublishNamespace", "DeleteNamespace"}
    BY <2>3, <2>4 DEF Writes, Flips, Publishes, Retires
  <2>6. RecordOf(r, rev).ns = n /\ RecordOf(r, rev).op = r.op
    BY <2>2 DEF RecordOf
  <2>7. Len(log') = Len(log) + 1 /\ log'[Len(log')] = RecordOf(r, rev)
    BY <1>1, <2>2, LastRecord
  <2> QED BY <2>5, <2>6, <2>7
<1>2. ASSUME StoreInv, [Next]_vars
      PROVE  \A n \in Namespaces \ parted' :
                ~(EmergencyPage(n) \subseteq EmergencyPage(n)')
                => /\ Len(log') = Len(log) + 1
                   /\ log'[Len(log')].ns = n
                   /\ log'[Len(log')].op \in {"PublishNamespace", "DeleteNamespace"}
  BY <1>1, <1>2
<1> QED BY <1>2, StoreInvariant, PTL DEF Spec, EmergencyPageSurvivesFlips

\* A flip that is not refused adds no flag, or one where there was room.
LEMMA FlipBudget ==
    ASSUME NEW c \in Contents \cup {Absent}, NEW r \in Writes,
           r.op = "SetFlag", ~Refused(c, r)
    PROVE  \/ Held(Outcome(c, r)) = Held(c)
           \/ Cardinality(Held(Outcome(c, r))) <= FlagBudget
<1>1. r.key \in Keys /\ ~OverBudget(c, r.key) /\ Bucket(c) \in Contents
  BY BucketType DEF Refused, Writes, Flips, Publishes, Retires
<1>2. Outcome(c, r) \in Contents /\ Outcome(c, r) = Flipped(c, r.key, r.value)
  <2>1. Outcome(c, r) # Absent
    BY OutcomeValues
  <2> QED BY <2>1, OutcomeType DEF Outcome
<1>3. Bucket(Outcome(c, r)) = Flipped(c, r.key, r.value)
  BY <1>2, NotAbsent
<1>4. Flipped(c, r.key, r.value)[r.key] # NoFlag
  BY <1>1, <1>2, OutcomeValues
<1>5. \A k \in Keys : k # r.key =>
          Flipped(c, r.key, r.value)[k] = Bucket(c)[k]
  BY <1>1 DEF Flipped, Contents
<1>6. Held(Outcome(c, r)) = Held(c) \cup {r.key}
  BY <1>1, <1>3, <1>4, <1>5 DEF Held
<1>7. CASE r.key \in Held(c)
  BY <1>6, <1>7
<1>8. CASE r.key \notin Held(c)
  <2>1. IsFiniteSet(Held(c)) /\ Cardinality(Held(c)) \in Nat
    <3>1. Held(c) \in SUBSET Keys
      BY DEF Held
    <3> QED BY <3>1, KeysAssumption, FS_Subset, FS_CardinalityType
  <2>2. ~(Cardinality(Held(c)) >= FlagBudget)
    BY <1>1, <1>8 DEF OverBudget, Held
  <2>3. Cardinality(Held(c) \cup {r.key}) = Cardinality(Held(c)) + 1
    BY <1>8, <2>1, FS_AddElement
  <2> QED BY <1>6, <2>1, <2>2, <2>3, BudgetAssumption
<1> QED BY <1>7, <1>8

\* However flips race for the last slot, none takes its namespace past the
\* budget: the count is of what is on disk when it commits.
THEOREM BudgetTheorem == Spec => FlipsKeepTheBudget
<1>1. ASSUME StoreInv, [Next]_vars, NEW p \in Writers,
             pc[p] = "update", pc'[p] = "revision", req[p].op = "SetFlag"
      PROVE  \/ Cardinality(Held(disk'[req[p].ns])) <= FlagBudget
             \/ Held(disk'[req[p].ns]) = Held(disk[req[p].ns])
  <2>1. pc \in [Writers -> Phases] /\ disk \in Stores
    BY <1>1 DEF StoreInv, RecordInv, LockInv, TypeInv, TypeOK
  <2>2. Commit(p)
    <3>1. ASSUME NEW q \in Writers, NEW a \in Phases, NEW b \in Phases, Goto(q, a, b),
                 b # "revision"
          PROVE  FALSE
      BY <1>1, <2>1, <3>1 DEF Goto
    <3>2. ASSUME NEW q \in Writers, Commit(q) PROVE q = p
      BY <1>1, <2>1, <3>2 DEF Commit, Goto
    <3>3. ASSUME NEW q \in Writers, NEW r \in Requests, Accept(q, r) PROVE FALSE
      BY <3>1, <3>3 DEF Accept, Phases
    <3>4. ASSUME NEW q \in Writers, Lock(q) PROVE FALSE
      BY <3>1, <3>4 DEF Lock, Phases
    <3>5. ASSUME NEW q \in Writers, Proceed(q), ~Commit(q) PROVE FALSE
      BY <3>1, <3>5
      DEF Proceed, Refuse, StoreRevision, Reload, Publish, Record, Undo,
          UndoPublish, Reply, Return, Phases
    <3>6. ASSUME NEW q \in Writers, Fails(q) PROVE FALSE
      BY <3>1, <3>6
      DEF Fails, CommitFails, ReloadFails, SinkFails, FsyncFails, UndoFails,
          UndoReloadFails, Return, Phases
    <3>7. CASE Crash \/ Restart \/ UNCHANGED vars
      BY <1>1, <3>7 DEF Crash, Restart, vars
    <3> QED BY <1>1, <3>2, <3>3, <3>4, <3>5, <3>6, <3>7 DEF Next, WriteStep
  <2>3. /\ req[p] \in Writes /\ req[p].ns \in Namespaces
        /\ disk[req[p].ns] \in Contents \cup {Absent}
    <3>1. pc[p] # "idle"
      BY <1>1
    <3> QED BY <1>1, <3>1, ServingType DEF StoreInv, RecordInv, LockInv
  <2>4. /\ ~Refused(disk[req[p].ns], req[p])
        /\ disk' = After(disk, req[p])
    BY <2>2 DEF Commit
  <2>5. disk'[req[p].ns] = Outcome(disk[req[p].ns], req[p])
    BY <2>1, <2>3, <2>4, AfterType
  <2> QED BY <1>1, <2>3, <2>4, <2>5, FlipBudget
<1>2. ASSUME StoreInv, [Next]_vars
      PROVE  \A p \in Writers :
                (/\ pc[p] = "update" /\ pc'[p] = "revision"
                 /\ req[p].op = "SetFlag")
                => \/ Cardinality(Held(disk'[req[p].ns])) <= FlagBudget
                   \/ Held(disk'[req[p].ns]) = Held(disk[req[p].ns])
  BY <1>1, <1>2
<1> QED BY <1>2, StoreInvariant, PTL DEF Spec, FlipsKeepTheBudget

---------------------------------------------------------------------------
(***************************************************************************)
(* The store as a part of more: between its steps, others take theirs.      *)
(***************************************************************************)

\* The store stands still, but for a fault that struck beside it.
Aside ==
    /\ UNCHANGED <<onDisk, memory, pc, locals, answers, parted, accepted>>
    /\ faults' \in {faults, faults + 1}

LEMMA LockInvAside == LockInv /\ ([Next]_vars \/ Aside) => LockInv'
<1>1. ASSUME LockInv, Aside PROVE LockInv'
  <2>1. TypeInv'
    BY <1>1 DEF Aside, LockInv, TypeInv, TypeOK, Serving, onDisk, memory, locals
  <2>2. Mutex' /\ Numbers' /\ Snapshots'
    BY <1>1 DEF Aside, LockInv, Mutex, Numbers, Snapshots, onDisk, memory, locals
  <2> QED BY <2>1, <2>2 DEF LockInv
<1> QED BY <1>1, TypeInvNext, MutexNext, NumbersNext, SnapshotsNext DEF LockInv

\* All that is promised of store and record in a state.
Promised == StoreInv /\ StoreAgreesWithRecord

LEMMA PromisedInit == Init => Promised /\ Abstract!Init
<1> SUFFICES ASSUME Init PROVE Promised /\ Abstract!Init
  OBVIOUS
<1>1. Captured
  BY DEF Init, Captured, Unsettled
<1>2. StoreAgreesWithRecord
  BY DEF Init, StoreAgreesWithRecord, Agrees
<1>3. Abstract!Init
  BY SameRules, WritersAssumption DEF Init, Settled, Abstract!Init
<1> QED BY <1>1, <1>2, <1>3, RecordInvInit DEF Promised, StoreInv

LEMMA PromisedNext ==
    Promised /\ ([Next]_vars \/ Aside)
    => Promised' /\ [Abstract!Next]_(Abstract!vars)
<1> SUFFICES ASSUME Promised, [Next]_vars \/ Aside
             PROVE  Promised' /\ [Abstract!Next]_(Abstract!vars)
  OBVIOUS
<1>1. LockInv'
  BY LockInvAside DEF Promised, StoreInv, RecordInv
<1>2. CASE [Next]_vars
  <2>1. RecordInv' /\ Captured'
    BY <1>1, <1>2, StampedNext, AcknowledgedNext, CapturedNext
    DEF Promised, StoreInv, RecordInv
  <2> QED BY <1>2, <2>1, AgreesNext, RefinementStep DEF Promised, StoreInv
<1>3. CASE Aside
  <2>1. Stamped' /\ Acknowledged'
    BY <1>3 DEF Aside, Promised, StoreInv, RecordInv, Stamped, StampsIncrease,
                Acknowledged, onDisk, memory, locals
  <2>2. Captured'
    BY <1>3 DEF Aside, Promised, StoreInv, Captured, onDisk, memory, locals
  <2>3. Settled' = Settled /\ log' = log /\ parted' = parted
    BY <1>3 DEF Aside, Settled, onDisk, memory, locals
  <2>4. StoreAgreesWithRecord'
    BY <2>3 DEF Promised, StoreAgreesWithRecord, Agrees
  <2>5. UNCHANGED Abstract!vars
    BY <2>3 DEF Abstract!vars
  <2> QED BY <1>1, <2>1, <2>2, <2>4, <2>5 DEF Promised, StoreInv, RecordInv
<1> QED BY <1>2, <1>3

LEMMA PromisedHolds ==
    Promised => /\ SnapshotIsLastCommit /\ StampsIncrease
                /\ AcknowledgedIsRecorded /\ StoreAgreesWithRecord
<1>1. LockInv => SnapshotIsLastCommit
  BY DEF LockInv, Numbers, Snapshots, SnapshotIsLastCommit
<1> QED BY <1>1, AcknowledgedHolds DEF Promised, StoreInv, RecordInv, Stamped
=============================================================================
