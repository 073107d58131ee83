-------------------------- MODULE FliprGate_proofs --------------------------
(***************************************************************************)
(* Theorems about FliprGate: what the watch of the lock file and the cached *)
(* set of known clients let through, for any handlers, requests, scopes and *)
(* period of the watch, whatever the person does to the file between any    *)
(* two steps.  The invariant of the writer lock is FliprStore_proofs'.      *)
(***************************************************************************)
EXTENDS FliprGate, FliprStore_proofs

\* A step at the gate is a step of the store, or leaves the store alone.
LEMMA StoreSteps == [GateNext]_allVars => [Next]_vars \/ Aside
<1> SUFFICES ASSUME [GateNext]_allVars PROVE [Next]_vars \/ Aside
  OBVIOUS
<1>1. ASSUME NEW p \in Writers, NEW knock \in Knocks, Arrive(p, knock)
      PROVE  UNCHANGED vars
  BY <1>1 DEF Arrive
<1>2. ASSUME NEW p \in Writers, Look(p) PROVE UNCHANGED vars \/ Aside
  <2>1. CASE StatGone(p) \/ ReadLock(p) \/ StatFails(p)
    BY <2>1 DEF StatGone, ReadLock, StatFails, Tell, Strikes, Aside,
                UnchangedStore
  <2>2. CASE AnswerFromWatch(p) \/ StatSame(p) \/ StatChanged(p)
             \/ ReadFails(p) \/ ReadGone(p)
    BY <2>2 DEF AnswerFromWatch, StatSame, StatChanged, ReadFails, ReadGone
  <2> QED BY <1>2, <2>1, <2>2 DEF Look
<1>3. ASSUME NEW p \in Writers, ReadSetRevision(p) PROVE UNCHANGED vars
  BY <1>3 DEF ReadSetRevision
<1>4. ASSUME NEW p \in Writers, Admit(p) PROVE [Next]_vars
  BY <1>4 DEF Admit, Next, WriteStep
<1>5. CASE PersonActs \/ Tick
  BY <1>5 DEF PersonActs, WriteLock, Garble, Mend, RemoveLock, Touch, Tick
<1>6. CASE WriteBehind
  BY <1>6 DEF WriteBehind, Next, WriteStep
<1>7. CASE CrashGate \/ RestartGate
  BY <1>7 DEF CrashGate, RestartGate, Next
<1>8. CASE UNCHANGED allVars
  BY <1>8 DEF allVars
<1> QED BY <1>1, <1>2, <1>3, <1>4, <1>5, <1>6, <1>7, <1>8 DEF GateNext

LEMMA LockInvBehind == LockInv /\ [GateNext]_allVars => LockInv'
BY StoreSteps, LockInvAside

\* Behind the gate the store keeps every promise it makes alone, whatever the
\* watch, the person at the file and the admission of clients do between any
\* two of its steps.
THEOREM BehindTheorem ==
    GateSpec => /\ [](SnapshotIsLastCommit /\ StampsIncrease)
                /\ [](AcknowledgedIsRecorded /\ StoreAgreesWithRecord)
                /\ ImplementsFlagStore
<1>1. GateInit => Promised /\ Abstract!Init
  BY PromisedInit DEF GateInit
<1>2. Promised /\ [GateNext]_allVars =>
          Promised' /\ [Abstract!Next]_(Abstract!vars)
  BY StoreSteps, PromisedNext
<1> QED BY <1>1, <1>2, PromisedHolds, PTL
        DEF GateSpec, ImplementsFlagStore, Abstract!Spec

---------------------------------------------------------------------------
(***************************************************************************)
(* Types.                                                                   *)
(***************************************************************************)

Doors == [phase : {"out", "door", "reading", "client", "set"},
          req : Requests \cup Peeks \cup {NoRequest}, client : Clients,
          seen : Nat, still : BOOLEAN,
          verdict : {"none", "through", "locked", "unknown", "dropped"}]

Entries == [op : {"Lock", "Unlock"}, scopes : (SUBSET Targets) \ {{}}]

\* The file and the watch.
WatchTyped ==
    /\ file \in [scopes : SUBSET Targets, sound : BOOLEAN, mtime : Nat]
    /\ now \in Nat /\ checked \in Nat /\ mtime \in Nat
    /\ wmutex \in Writers \cup {Nobody}
    /\ lock \in SUBSET Targets
    /\ broken \in {"no", "stat", "read"}
    /\ lockLog \in Seq(Entries)
    /\ touches \in Nat /\ arrivals \in Nat
    /\ clear \in [Targets -> Nat] /\ closed \in [Targets -> Nat]
    /\ unsound \in Nat /\ untold \in BOOLEAN

\* The requests and the set.
DoorsTyped ==
    /\ gate \in [Writers -> Doors]
    /\ cur \in [revision : Nat, known : Contents \cup {Absent},
                quiet : BOOLEAN, built : BOOLEAN]

GateTyped == WatchTyped /\ DoorsTyped

LEMMA AtDoorType == AtDoor \in Doors
BY ClientsAssumption DEF AtDoor, Doors

LEMMA StillType ==
    ASSUME NEW d \in Doors, NEW b \in BOOLEAN
    PROVE  [d EXCEPT !.still = b] \in Doors
BY DEF Doors

LEMMA SeenType ==
    ASSUME NEW d \in Doors, NEW n \in Nat
    PROVE  [d EXCEPT !.phase = "set", !.seen = n] \in Doors
BY DEF Doors

LEMMA LeaveType ==
    ASSUME DoorsTyped, NEW p \in Writers,
           NEW verdict \in {"none", "through", "locked", "unknown", "dropped"},
           Leave(p, verdict)
    PROVE  gate' \in [Writers -> Doors]
<1>1. [AtDoor EXCEPT !.verdict = verdict] \in Doors
  BY AtDoorType DEF Doors
<1> QED BY <1>1 DEF DoorsTyped, Leave

LEMMA JudgeType ==
    ASSUME DoorsTyped, NEW p \in Writers, NEW scopes, Judge(p, scopes)
    PROVE  gate' \in [Writers -> Doors]
<1>1. CASE Covers(scopes, Target(gate[p].req))
  BY <1>1, LeaveType DEF Judge
<1>2. CASE ~Covers(scopes, Target(gate[p].req))
  BY <1>2 DEF Judge, DoorsTyped, Doors
<1> QED BY <1>1, <1>2

LEMMA TellType ==
    ASSUME WatchTyped, NEW op \in {"Lock", "Unlock"},
           NEW scopes \in (SUBSET Targets) \ {{}}, Tell(op, scopes)
    PROVE  lockLog' \in Seq(Entries) /\ untold' \in BOOLEAN
<1>1. [op |-> op, scopes |-> scopes] \in Entries
  BY DEF Entries
<1>2. lockLog \in Seq(Entries) /\ untold \in BOOLEAN
  BY DEF WatchTyped
<1>3. \A e \in Entries : Append(lockLog, e) \in Seq(Entries)
  BY <1>2
<1>4. Append(lockLog, [op |-> op, scopes |-> scopes]) \in Seq(Entries)
  BY <1>1, <1>3, Zenon
<1> QED BY <1>2, <1>4, Zenon DEF Tell

LEMMA LooksKeepTypes ==
    ASSUME GateTyped, NEW p \in Writers, Look(p) PROVE GateTyped'
<1> USE DEF GateTyped
<1>1. CASE AnswerFromWatch(p)
  BY <1>1, JudgeType DEF AnswerFromWatch, person, watch, WatchTyped, DoorsTyped
<1>2. CASE StatGone(p)
  <2>1. lockLog' \in Seq(Entries) /\ untold' \in BOOLEAN
    <3>1. CASE lock = {}
      BY <1>2, <3>1 DEF StatGone, WatchTyped
    <3>2. CASE lock # {}
      <4>1. Tell("Unlock", lock) /\ lock \in (SUBSET Targets) \ {{}}
        BY <1>2, <3>2 DEF StatGone, WatchTyped
      <4> QED BY <4>1, TellType
    <3> QED BY <3>1, <3>2
  <2> QED BY <1>2, <2>1, JudgeType
          DEF StatGone, Looks, person, WatchTyped, DoorsTyped
<1>3. CASE StatFails(p)
  BY <1>3, JudgeType DEF StatFails, Looks, person, WatchTyped, DoorsTyped
<1>4. CASE StatSame(p)
  BY <1>4, JudgeType DEF StatSame, Looks, person, WatchTyped, DoorsTyped
<1>5. CASE StatChanged(p)
  <2>1. gate' \in [Writers -> Doors]
    <3>1. [gate[p] EXCEPT !.phase = "reading"] \in Doors
      BY DEF DoorsTyped, Doors
    <3>2. gate' = [gate EXCEPT ![p] = [gate[p] EXCEPT !.phase = "reading"]]
      BY <1>5 DEF StatChanged
    <3> QED BY <3>1, <3>2 DEF DoorsTyped
  <2>2. DoorsTyped'
    BY <1>5, <2>1 DEF StatChanged, DoorsTyped
  <2>3. WatchTyped'
    BY <1>5 DEF StatChanged, Looks, person, WatchTyped
  <2> QED BY <2>2, <2>3
<1>6. CASE ReadLock(p)
  <2>1. lockLog' \in Seq(Entries) /\ untold' \in BOOLEAN
    <3>1. Tell("Lock", file.scopes) /\ file.scopes \in (SUBSET Targets) \ {{}}
      BY <1>6 DEF ReadLock, WatchTyped
    <3> QED BY <3>1, TellType
  <2> QED BY <1>6, <2>1, JudgeType
          DEF ReadLock, person, WatchTyped, DoorsTyped
<1>7. CASE ReadFails(p)
  BY <1>7, JudgeType DEF ReadFails, person, WatchTyped, DoorsTyped
<1>8. CASE ReadGone(p)
  BY <1>8, LeaveType DEF ReadGone, person, WatchTyped, DoorsTyped
<1> QED BY <1>1, <1>2, <1>3, <1>4, <1>5, <1>6, <1>7, <1>8 DEF Look

LEMMA PersonKeepsTypes == GateTyped /\ PersonActs => GateTyped'
<1> SUFFICES ASSUME GateTyped, PersonActs PROVE GateTyped'
  OBVIOUS
<1>1. /\ UNCHANGED <<now, watch, cur, gate, arrivals>>
      /\ touches' \in Nat /\ unsound' \in Nat
      /\ clear' \in [Targets -> Nat] /\ closed' \in [Targets -> Nat]
  <2>1. Touch
    BY DEF PersonActs, WriteLock, Garble, Mend, RemoveLock
  <2> QED BY <2>1 DEF Touch, GateTyped, WatchTyped
<1>2. file' \in [scopes : SUBSET Targets, sound : BOOLEAN, mtime : Nat]
  <2> USE DEF GateTyped, WatchTyped
  <2>1. ASSUME NEW s \in Scopes, WriteLock(s) \/ Garble(s)
        PROVE  file' \in [scopes : SUBSET Targets, sound : BOOLEAN, mtime : Nat]
    <3>1. {s} \in SUBSET Targets
      BY StarAssumption DEF Targets
    <3>2. \A b \in BOOLEAN : [scopes |-> {s}, sound |-> b, mtime |-> touches + 1]
                \in [scopes : SUBSET Targets, sound : BOOLEAN, mtime : Nat]
      BY <3>1
    <3> QED BY <2>1, <3>2 DEF WriteLock, Garble
  <2>2. CASE Mend
    BY <2>2 DEF Mend
  <2>3. CASE RemoveLock
    BY <2>3 DEF RemoveLock, NoFile
  <2> QED BY <2>1, <2>2, <2>3 DEF PersonActs
<1> QED BY <1>1, <1>2 DEF watch, GateTyped, WatchTyped, DoorsTyped

LEMMA AdmitKeepsTypes ==
    ASSUME LockInv, GateTyped, NEW p \in Writers, Admit(p) PROVE GateTyped'
<1>1. snap[ClientsNs] \in Contents \cup {Absent}
  BY ClientsAssumption DEF LockInv, TypeInv, TypeOK, Stores
<1>2. cur' \in [revision : Nat, known : Contents \cup {Absent},
                quiet : BOOLEAN, built : BOOLEAN]
  BY <1>1 DEF Admit, Set, GateTyped, DoorsTyped, Doors
<1>3. gate' \in [Writers -> Doors]
  BY LeaveType DEF Admit, GateTyped
<1> QED BY <1>2, <1>3 DEF Admit, person, watch, GateTyped, WatchTyped, DoorsTyped

LEMMA GateTypedNext ==
    LockInv /\ GateTyped /\ [GateNext]_allVars => GateTyped'
<1> SUFFICES ASSUME LockInv, GateTyped, [GateNext]_allVars PROVE GateTyped'
  OBVIOUS
<1>t. rev \in Nat /\ wmu \in Writers \cup {Nobody} /\ lastWriteErr \in BOOLEAN
  BY DEF LockInv, TypeInv, TypeOK
<1>1. ASSUME NEW p \in Writers, NEW knock \in Knocks, Arrive(p, knock)
      PROVE  GateTyped'
  <2>1. knock.req \in Requests \cup Peeks /\ knock.client \in Clients
    BY KnocksAssumption
  <2>2. [AtDoor EXCEPT !.phase = "door", !.req = knock.req,
                       !.client = knock.client] \in Doors
    BY <2>1, AtDoorType DEF Doors
  <2>3. gate' \in [Writers -> Doors]
    BY <1>1, <2>2 DEF Arrive, GateTyped, DoorsTyped
  <2> QED BY <1>1, <2>3 DEF Arrive, person, watch, GateTyped, WatchTyped, DoorsTyped
<1>2. ASSUME NEW p \in Writers, ReadSetRevision(p) PROVE GateTyped'
  <2>1. gate[p] \in Doors
    BY DEF GateTyped, DoorsTyped
  <2>2. Calm \in BOOLEAN
    BY DEF Calm
  <2>3. [gate[p] EXCEPT !.phase = "set", !.seen = rev, !.still = Calm] \in Doors
    BY <1>t, <2>1, <2>2, SeenType, StillType
  <2>4. gate' = [gate EXCEPT ![p] = [gate[p] EXCEPT !.phase = "set",
                                         !.seen = rev, !.still = Calm]]
    BY <1>2 DEF ReadSetRevision
  <2>5. gate' \in [Writers -> Doors]
    BY <2>3, <2>4 DEF GateTyped, DoorsTyped
  <2> QED BY <1>2, <2>5
          DEF ReadSetRevision, person, watch, GateTyped, WatchTyped, DoorsTyped
<1>3. CASE Tick
  BY <1>3 DEF Tick, person, watch, GateTyped, WatchTyped, DoorsTyped
<1>4. CASE WriteBehind
  <2>1. ASSUME NEW q \in Writers
        PROVE  [gate[q] EXCEPT !.still = @ /\ Calm'] \in Doors
    <3>1. gate[q] \in Doors
      BY DEF GateTyped, DoorsTyped
    <3>2. (gate[q].still /\ Calm') \in BOOLEAN
      OBVIOUS
    <3> QED BY <3>1, <3>2, StillType
  <2>2. gate' \in [Writers -> Doors]
    BY <1>4, <2>1 DEF WriteBehind
  <2> QED BY <1>4, <2>2
          DEF WriteBehind, person, watch, GateTyped, WatchTyped, DoorsTyped
<1>5. CASE CrashGate
  BY <1>5, AtDoorType
  DEF CrashGate, NoSet, person, GateTyped, WatchTyped, DoorsTyped
<1>6. CASE RestartGate \/ UNCHANGED allVars
  BY <1>6
  DEF RestartGate, allVars, gateVars, person, watch, GateTyped, WatchTyped, DoorsTyped
<1> QED BY <1>1, <1>2, <1>3, <1>4, <1>5, <1>6, LooksKeepTypes, PersonKeepsTypes,
           AdmitKeepsTypes DEF GateNext

GateInv == LockInv /\ GateTyped

LEMMA GateInvariant == GateSpec => []GateInv
<1>1. ASSUME GateInit PROVE GateInv
  <2>1. LockInv
    BY <1>1, LockInvInit DEF GateInit
  <2>2. WatchTyped
    <3>1. lockLog \in Seq(Entries)
      BY <1>1 DEF GateInit
    <3> QED BY <1>1, <3>1, EveryAssumption DEF GateInit, WatchTyped, NoFile
  <2>3. DoorsTyped
    BY <1>1, AtDoorType DEF GateInit, DoorsTyped, NoSet
  <2> QED BY <2>1, <2>2, <2>3 DEF GateInv, GateTyped
<1>2. GateInv /\ [GateNext]_allVars => GateInv'
  BY LockInvBehind, GateTypedNext DEF GateInv
<1> QED BY <1>1, <1>2, PTL DEF GateSpec

\* Every variable of the store, the watch, the cached set and the requests
\* keeps to its values, whatever the person does to the file.
THEOREM GateTypeCorrect == GateSpec => []GateTypeOK
<1>1. GateInv => GateTypeOK
  BY DEF GateInv, LockInv, TypeInv, GateTyped, WatchTyped, DoorsTyped, Doors,
         Entries, GateTypeOK
<1> QED BY <1>1, GateInvariant, PTL

---------------------------------------------------------------------------
(***************************************************************************)
(* The record of locks.                                                     *)
(***************************************************************************)

\* A change that is told becomes the last entry, or the record lost one.
LEMMA TellDef ==
    ASSUME WatchTyped, NEW op \in {"Lock", "Unlock"},
           NEW scopes \in (SUBSET Targets) \ {{}}, Tell(op, scopes)
    PROVE  \/ /\ lockLog' # << >>
              /\ lockLog'[Len(lockLog')] = [op |-> op, scopes |-> scopes]
           \/ untold'
<1>1. [op |-> op, scopes |-> scopes] \in Entries
  BY DEF Entries
<1>2. \A e \in Entries : /\ Append(lockLog, e) # << >>
                         /\ Append(lockLog, e)[Len(Append(lockLog, e))] = e
  <2> TAKE e \in Entries
  <2>1. lockLog \in Seq(Entries) /\ Len(lockLog) \in Nat
    BY DEF WatchTyped
  <2>2. Len(Append(lockLog, e)) = Len(lockLog) + 1
    BY <2>1
  <2>3. Append(lockLog, e)[Len(lockLog) + 1] = e
    BY <2>1
  <2>4. Append(lockLog, e) # << >>
    BY <2>1, <2>2
  <2> QED BY <2>2, <2>3, <2>4
<1>3. /\ Append(lockLog, [op |-> op, scopes |-> scopes]) # << >>
      /\ Append(lockLog, [op |-> op, scopes |-> scopes])
            [Len(Append(lockLog, [op |-> op, scopes |-> scopes]))]
         = [op |-> op, scopes |-> scopes]
  BY <1>1, <1>2, Zenon
<1> QED BY <1>3, Zenon DEF Tell

LEMMA RecordedNext ==
    GateInv /\ LockIsRecorded /\ [GateNext]_allVars => LockIsRecorded'
<1> SUFFICES ASSUME GateInv, LockIsRecorded, [GateNext]_allVars
             PROVE  LockIsRecorded'
  OBVIOUS
<1> USE DEF LockIsRecorded
<1>t. WatchTyped
  BY DEF GateInv, GateTyped
<1>1. CASE UNCHANGED <<lock, lockLog, untold>>
  BY <1>1
<1>2. ASSUME NEW p \in Writers, StatGone(p) PROVE LockIsRecorded'
  <2>1. CASE lock = {}
    BY <1>2, <2>1 DEF StatGone
  <2>2. CASE lock # {}
    <3>1. Tell("Unlock", lock) /\ lock \in (SUBSET Targets) \ {{}} /\ lock' = {}
      BY <1>t, <1>2, <2>2 DEF StatGone, WatchTyped
    <3>2. \/ lockLog'[Len(lockLog')] = [op |-> "Unlock", scopes |-> lock]
          \/ untold'
      BY <1>t, <3>1, TellDef
    <3> QED BY <3>1, <3>2
  <2> QED BY <2>1, <2>2
<1>3. ASSUME NEW p \in Writers, ReadLock(p) PROVE LockIsRecorded'
  <2>1. /\ Tell("Lock", file.scopes) /\ lock' = file.scopes
        /\ file.scopes \in (SUBSET Targets) \ {{}}
    BY <1>t, <1>3 DEF ReadLock, WatchTyped
  <2> QED BY <1>t, <2>1, TellDef
<1>4. ASSUME NEW p \in Writers, ReadGone(p) PROVE LockIsRecorded'
  BY <1>4 DEF ReadGone
<1>5. CASE CrashGate
  BY <1>5 DEF CrashGate
<1>6. ASSUME NEW p \in Writers,
             \/ AnswerFromWatch(p) \/ StatFails(p) \/ StatSame(p)
             \/ StatChanged(p) \/ ReadFails(p)
             \/ ReadSetRevision(p) \/ Admit(p)
             \/ \E knock \in Knocks : Arrive(p, knock)
      PROVE  UNCHANGED <<lock, lockLog, untold>>
  BY <1>6 DEF AnswerFromWatch, StatFails, StatSame, StatChanged, ReadFails,
              ReadSetRevision, Admit, Arrive, watch
<1>7. CASE PersonActs \/ Tick \/ WriteBehind \/ RestartGate \/ UNCHANGED allVars
  BY <1>1, <1>7
  DEF PersonActs, WriteLock, Garble, Mend, RemoveLock, Touch, Tick, WriteBehind,
      RestartGate, allVars, gateVars, watch
<1> QED BY <1>1, <1>2, <1>3, <1>4, <1>5, <1>6, <1>7 DEF GateNext, Look

\* Every lock that is taken up and every one let go is the last word of the
\* record, for as long as no record of one was lost.
THEOREM RecordedTheorem == GateSpec => []LockIsRecorded
<1>1. GateInit => LockIsRecorded
  BY DEF GateInit, LockIsRecorded
<1> QED BY <1>1, RecordedNext, GateInvariant, PTL DEF GateSpec

---------------------------------------------------------------------------
(***************************************************************************)
(* The lock, in time.                                                       *)
(***************************************************************************)

\* A request in decode is one, has no answer before the lock is looked at, and
\* holds w.mu while it reads the file.
Doorstep(p) ==
    /\ gate[p].phase # "out" => gate[p].req \in Requests \cup Peeks
    /\ gate[p].phase \in {"door", "reading"} => gate[p].verdict = "none"
    /\ gate[p].phase = "reading" <=> wmutex = p

Doorsteps == \A p \in Writers : Doorstep(p)

\* What Judge leaves of a request.
LEMMA JudgeDef ==
    ASSUME DoorsTyped, NEW p \in Writers, NEW scopes, Judge(p, scopes)
    PROVE  /\ \A q \in Writers : q # p => gate'[q] = gate[q]
           /\ gate'[p].phase \in {"out", "client"}
           /\ gate'[p].phase = "client" => gate'[p].req = gate[p].req
           /\ gate'[p].verdict = IF Covers(scopes, Target(gate[p].req))
                                 THEN "locked" ELSE "through"
<1>1. CASE Covers(scopes, Target(gate[p].req))
  BY <1>1 DEF Judge, Leave, AtDoor, DoorsTyped, Doors
<1>2. CASE ~Covers(scopes, Target(gate[p].req))
  BY <1>2 DEF Judge, DoorsTyped, Doors
<1> QED BY <1>1, <1>2

LEMMA LooksKeepDoorsteps ==
    ASSUME GateInv, Doorsteps, NEW p \in Writers, Look(p) PROVE Doorsteps'
<1> USE WritersAssumption DEF Doorsteps, Doorstep
<1>t. /\ DoorsTyped /\ gate \in [Writers -> Doors]
      /\ wmutex \in Writers \cup {Nobody}
  BY DEF GateInv, GateTyped, DoorsTyped, WatchTyped
<1>1. CASE AnswerFromWatch(p) \/ StatGone(p) \/ StatFails(p) \/ StatSame(p)
  <2>1. /\ \A q \in Writers : q # p => gate'[q] = gate[q]
        /\ gate'[p].phase \in {"out", "client"}
        /\ gate'[p].phase = "client" => gate'[p].req = gate[p].req
    BY <1>t, <1>1, JudgeDef DEF AnswerFromWatch, StatGone, StatFails, StatSame
  <2>2. /\ gate[p].phase = "door" /\ wmutex = Nobody /\ wmutex' = Nobody
    BY <1>1 DEF AnswerFromWatch, StatGone, StatFails, StatSame, Looks, watch
  <2> QED BY <2>1, <2>2
<1>2. CASE StatChanged(p)
  <2>1. /\ gate[p].phase = "door" /\ wmutex = Nobody /\ wmutex' = p
        /\ gate' = [gate EXCEPT ![p].phase = "reading"]
    BY <1>2 DEF StatChanged, Looks
  <2>2. /\ gate'[p].phase = "reading" /\ gate'[p].req = gate[p].req
        /\ gate'[p].verdict = gate[p].verdict
        /\ \A q \in Writers : q # p => gate'[q] = gate[q]
    BY <1>t, <2>1 DEF Doors
  <2> QED BY <2>1, <2>2
<1>3. CASE ReadLock(p) \/ ReadFails(p)
  <2>1. /\ \A q \in Writers : q # p => gate'[q] = gate[q]
        /\ gate'[p].phase \in {"out", "client"}
        /\ gate'[p].phase = "client" => gate'[p].req = gate[p].req
    BY <1>t, <1>3, JudgeDef DEF ReadLock, ReadFails
  <2>2. gate[p].phase = "reading" /\ wmutex' = Nobody
    BY <1>3 DEF ReadLock, ReadFails
  <2> QED BY <2>1, <2>2
<1>4. CASE ReadGone(p)
  <2>1. /\ gate[p].phase = "reading" /\ wmutex' = Nobody
        /\ gate'[p].phase = "out"
        /\ \A q \in Writers : q # p => gate'[q] = gate[q]
    BY <1>t, <1>4 DEF ReadGone, Leave, AtDoor
  <2> QED BY <2>1
<1> QED BY <1>1, <1>2, <1>3, <1>4 DEF Look

LEMMA DoorstepsNext ==
    GateInv /\ Doorsteps /\ [GateNext]_allVars => Doorsteps'
<1> SUFFICES ASSUME GateInv, Doorsteps, [GateNext]_allVars PROVE Doorsteps'
  OBVIOUS
<1> USE WritersAssumption DEF Doorsteps, Doorstep
<1>t. gate \in [Writers -> Doors]
  BY DEF GateInv, GateTyped, DoorsTyped
<1>1. ASSUME NEW p \in Writers, NEW knock \in Knocks, Arrive(p, knock)
      PROVE  Doorsteps'
  <2>1. knock.req \in Requests \cup Peeks
    BY KnocksAssumption
  <2>2. /\ gate[p].phase = "out" /\ wmutex' = wmutex
        /\ gate' = [gate EXCEPT ![p] = [AtDoor EXCEPT !.phase = "door",
                        !.req = knock.req, !.client = knock.client]]
    BY <1>1 DEF Arrive, watch
  <2>3. /\ gate'[p].phase = "door" /\ gate'[p].req = knock.req
        /\ gate'[p].verdict = "none"
        /\ \A q \in Writers : q # p => gate'[q] = gate[q]
    BY <1>t, <2>2 DEF AtDoor
  <2> QED BY <2>1, <2>2, <2>3
<1>2. ASSUME NEW p \in Writers, ReadSetRevision(p) PROVE Doorsteps'
  <2>1. /\ gate[p].phase = "client" /\ wmutex' = wmutex
        /\ gate' = [gate EXCEPT ![p].phase = "set", ![p].seen = rev,
                                ![p].still = Calm]
    BY <1>2 DEF ReadSetRevision, watch
  <2>2. /\ gate'[p].phase = "set" /\ gate'[p].req = gate[p].req
        /\ \A q \in Writers : q # p => gate'[q] = gate[q]
    BY <1>t, <2>1 DEF Doors
  <2> QED BY <2>1, <2>2
<1>3. ASSUME NEW p \in Writers, Admit(p) PROVE Doorsteps'
  <2>1. /\ gate[p].phase = "set" /\ wmutex' = wmutex
        /\ \E v \in {"unknown", "none"} : Leave(p, v)
    BY <1>3 DEF Admit, watch
  <2>2. /\ gate'[p].phase = "out"
        /\ \A q \in Writers : q # p => gate'[q] = gate[q]
    BY <1>t, <2>1 DEF Leave, AtDoor
  <2> QED BY <2>1, <2>2
<1>4. CASE WriteBehind
  <2>1. /\ wmutex' = wmutex
        /\ gate' = [p \in Writers |-> [gate[p] EXCEPT !.still = @ /\ Calm']]
    BY <1>4 DEF WriteBehind, watch
  <2>2. \A p \in Writers : /\ gate'[p].phase = gate[p].phase
                           /\ gate'[p].req = gate[p].req
                           /\ gate'[p].verdict = gate[p].verdict
    BY <1>t, <2>1 DEF Doors
  <2> QED BY <2>1, <2>2
<1>5. CASE CrashGate
  BY <1>5 DEF CrashGate, AtDoor
<1>6. CASE PersonActs \/ Tick \/ RestartGate \/ UNCHANGED allVars
  <2>1. UNCHANGED <<gate, wmutex>>
    BY <1>6
    DEF PersonActs, WriteLock, Garble, Mend, RemoveLock, Touch, Tick,
        RestartGate, allVars, gateVars, watch
  <2> QED BY <2>1
<1> QED BY <1>1, <1>2, <1>3, <1>4, <1>5, <1>6, LooksKeepDoorsteps DEF GateNext

\* The dates are past, a look under way began now, and a file that says
\* nothing is no file.
Dated ==
    /\ checked <= now
    /\ wmutex # Nobody => checked = now
    /\ \A t \in Targets : clear[t] <= now /\ closed[t] <= now
    /\ file.scopes = {} => file.sound
    /\ file.scopes # {} => file.mtime > 0
    /\ file.mtime <= touches /\ mtime <= touches

\* A file whose mtime the watch has, and which it read without trouble, is the
\* one it holds: no other has that mtime, and to mend a file takes one that
\* could not be read.
HoldsTheFile ==
    (wmutex = Nobody /\ broken = "no" /\ file.scopes # {} /\ file.mtime = mtime)
        => file.sound /\ lock = file.scopes

\* Between looks, what the watch holds was the file's word when it last looked
\* or later.
Trusted ==
    (wmutex = Nobody /\ broken = "no") =>
        \A t \in Targets : IF Covers(lock, t) THEN checked <= LastClosed(t)
                                              ELSE checked <= LastClear(t)

TimeInv == Dated /\ HoldsTheFile /\ Trusted

\* What the watch takes from a file it has just read, or knows to be as it
\* was, is what the file says now.
LEMMA SaysNow ==
    ASSUME file.sound, NEW t \in Targets
    PROVE  IF Covers(file.scopes, t) THEN LastClosed(t) = now
                                     ELSE LastClear(t) = now
BY DEF FileStops, LastClosed, LastClear

LEMMA LooksKeepTime ==
    ASSUME GateInv, Doorsteps, TimeInv, NEW p \in Writers, Look(p)
    PROVE  TimeInv'
<1> USE WritersAssumption DEF TimeInv, Dated, HoldsTheFile, Trusted
<1>t. /\ now \in Nat /\ checked \in Nat /\ mtime \in Nat
      /\ file \in [scopes : SUBSET Targets, sound : BOOLEAN, mtime : Nat]
      /\ touches \in Nat
  BY DEF GateInv, GateTyped, WatchTyped
<1>r. gate[p].phase = "reading" <=> wmutex = p
  BY DEF Doorsteps, Doorstep
<1>p. /\ UNCHANGED <<file, touches, clear, closed, now>>
      /\ \A t \in Targets : /\ LastClear(t)' = LastClear(t)
                            /\ LastClosed(t)' = LastClosed(t)
  <2>1. UNCHANGED <<file, touches, clear, closed, now>>
    BY DEF Look, AnswerFromWatch, StatGone, StatFails, StatSame, StatChanged,
           ReadLock, ReadFails, ReadGone, person
  <2> QED BY <2>1 DEF LastClear, LastClosed, FileStops
<1>1. CASE AnswerFromWatch(p)
  BY <1>1, <1>p DEF AnswerFromWatch, watch
<1>2. CASE StatGone(p)
  <2>1. /\ file.scopes = {} /\ wmutex = Nobody /\ wmutex' = Nobody
        /\ lock' = {} /\ broken' = "no" /\ mtime' = 0 /\ checked' = now
    BY <1>2 DEF StatGone, Looks
  <2>2. \A t \in Targets : IF Covers(lock', t) THEN LastClosed(t) = now
                                               ELSE LastClear(t) = now
    BY <2>1, SaysNow
  <2> QED BY <1>t, <1>p, <2>1, <2>2
<1>3. CASE StatFails(p)
  BY <1>t, <1>p, <1>3 DEF StatFails, Looks
<1>4. CASE StatSame(p)
  <2>1. /\ file.scopes # {} /\ file.mtime = mtime /\ wmutex = Nobody
        /\ checked' = now /\ UNCHANGED <<wmutex, mtime, lock, broken>>
    BY <1>4 DEF StatSame, Looks
  <2>2. broken = "no" =>
          \A t \in Targets : IF Covers(lock, t) THEN LastClosed(t) = now
                                                ELSE LastClear(t) = now
    BY <2>1, SaysNow
  <2> QED BY <1>t, <1>p, <2>1, <2>2
<1>5. CASE StatChanged(p)
  BY <1>t, <1>p, <1>5 DEF StatChanged, Looks
<1>6. CASE ReadLock(p)
  <2>1. /\ gate[p].phase = "reading" /\ file.scopes # {} /\ file.sound
        /\ wmutex' = Nobody /\ lock' = file.scopes /\ broken' = "no"
        /\ UNCHANGED <<checked, mtime>>
    BY <1>6 DEF ReadLock
  <2>2. checked = now
    BY <1>r, <2>1
  <2>3. \A t \in Targets : IF Covers(lock', t) THEN LastClosed(t) = now
                                               ELSE LastClear(t) = now
    BY <2>1, SaysNow
  <2> QED BY <1>t, <1>p, <2>1, <2>2, <2>3
<1>7. CASE ReadFails(p)
  <2>1. /\ wmutex' = Nobody /\ broken' = "read"
        /\ UNCHANGED <<checked, mtime>>
    BY <1>7 DEF ReadFails
  <2> QED BY <1>t, <1>p, <2>1
<1>8. CASE ReadGone(p)
  <2>1. /\ gate[p].phase = "reading" /\ file.scopes = {}
        /\ wmutex' = Nobody /\ lock' = {} /\ broken' = "no"
        /\ UNCHANGED <<checked, mtime>>
    BY <1>8 DEF ReadGone
  <2>2. checked = now
    BY <1>r, <2>1
  <2>3. \A t \in Targets : IF Covers(lock', t) THEN LastClosed(t) = now
                                               ELSE LastClear(t) = now
    BY <2>1, SaysNow
  <2> QED BY <1>t, <1>p, <2>1, <2>2, <2>3
<1> QED BY <1>1, <1>2, <1>3, <1>4, <1>5, <1>6, <1>7, <1>8 DEF Look

\* What the person does never puts a date back, and leaves no file with the
\* mtime of another.
LEMMA PersonKeepsTime == GateInv /\ TimeInv /\ PersonActs => TimeInv'
<1> SUFFICES ASSUME GateInv, TimeInv, PersonActs PROVE TimeInv'
  OBVIOUS
<1> USE DEF TimeInv
<1>t. /\ now \in Nat /\ checked \in Nat /\ mtime \in Nat /\ touches \in Nat
      /\ file \in [scopes : SUBSET Targets, sound : BOOLEAN, mtime : Nat]
      /\ clear \in [Targets -> Nat] /\ closed \in [Targets -> Nat]
  BY DEF GateInv, GateTyped, WatchTyped
<1>1. /\ Touch /\ touches' = touches + 1
      /\ UNCHANGED <<now, wmutex, checked, mtime, lock, broken>>
  BY DEF PersonActs, WriteLock, Garble, Mend, RemoveLock, Touch, watch
<1>2. \A t \in Targets :
        /\ clear'[t] = LastClear(t) /\ closed'[t] = LastClosed(t)
        /\ clear'[t] \in Nat /\ closed'[t] \in Nat
        /\ clear'[t] <= now /\ closed'[t] <= now
  BY <1>t, <1>1 DEF Touch, LastClear, LastClosed, Dated
<1>3. \A t \in Targets :
        /\ LastClear(t)' \in {now, LastClear(t)}
        /\ LastClosed(t)' \in {now, LastClosed(t)}
  BY <1>1, <1>2 DEF LastClear, LastClosed
<1>4. /\ file'.scopes = {} => file'.sound
      /\ file'.scopes # {} => file'.mtime > 0
      /\ file'.mtime <= touches + 1
  <2>1. ASSUME NEW s \in Scopes, WriteLock(s) \/ Garble(s)
        PROVE  file'.scopes # {} /\ file'.mtime = touches + 1
    BY <2>1 DEF WriteLock, Garble
  <2>2. CASE Mend
    <3>1. /\ ~file.sound /\ file'.scopes = file.scopes
          /\ file'.sound /\ file'.mtime = file.mtime
      BY <1>t, <2>2 DEF Mend
    <3> QED BY <1>t, <2>2, <3>1 DEF Dated
  <2>3. CASE RemoveLock
    BY <1>t, <2>3 DEF RemoveLock, NoFile
  <2> QED BY <1>t, <2>1, <2>2, <2>3 DEF PersonActs
<1>5. Dated'
  BY <1>t, <1>1, <1>2, <1>4 DEF Dated
<1>6. HoldsTheFile'
  <2>1. ASSUME NEW s \in Scopes, WriteLock(s) \/ Garble(s)
        PROVE  file'.mtime > mtime'
    BY <1>t, <1>1, <2>1 DEF WriteLock, Garble, Dated
  <2>2. CASE Mend
    <3>1. /\ ~file.sound /\ file'.scopes = file.scopes
          /\ file'.sound /\ file'.mtime = file.mtime
      BY <1>t, <2>2 DEF Mend
    <3> QED BY <1>1, <3>1 DEF HoldsTheFile
  <2>3. CASE RemoveLock
    BY <2>3 DEF RemoveLock, NoFile, HoldsTheFile
  <2> QED BY <1>t, <1>1, <2>1, <2>2, <2>3 DEF PersonActs, HoldsTheFile
<1>7. Trusted'
  BY <1>t, <1>1, <1>2, <1>3 DEF Trusted, Dated
<1> QED BY <1>5, <1>6, <1>7

LEMMA TimeInvNext ==
    GateInv /\ Doorsteps /\ TimeInv /\ [GateNext]_allVars => TimeInv'
<1> SUFFICES ASSUME GateInv, Doorsteps, TimeInv, [GateNext]_allVars
             PROVE  TimeInv'
  OBVIOUS
<1>t. /\ now \in Nat /\ checked \in Nat /\ mtime \in Nat /\ touches \in Nat
      /\ clear \in [Targets -> Nat] /\ closed \in [Targets -> Nat]
      /\ file \in [scopes : SUBSET Targets, sound : BOOLEAN, mtime : Nat]
  BY DEF GateInv, GateTyped, WatchTyped
<1>1. ASSUME UNCHANGED <<person, now, watch>> PROVE TimeInv'
  BY <1>1 DEF TimeInv, Dated, HoldsTheFile, Trusted, LastClear, LastClosed,
              FileStops, person, watch
<1>2. CASE Tick
  <2>1. /\ now' = now + 1 /\ wmutex = Nobody /\ UNCHANGED <<person, watch>>
    BY <1>2 DEF Tick
  <2>2. Dated' /\ HoldsTheFile'
    BY <1>t, <2>1 DEF TimeInv, Dated, HoldsTheFile, person, watch
  <2>3. \A t \in Targets :
          /\ LastClear(t)' \in {LastClear(t), now + 1}
          /\ LastClosed(t)' \in {LastClosed(t), now + 1}
    BY <2>1 DEF LastClear, LastClosed, FileStops, person
  <2>4. Trusted'
    BY <1>t, <2>1, <2>3 DEF TimeInv, Dated, Trusted, watch
  <2> QED BY <2>2, <2>4 DEF TimeInv
<1>3. CASE CrashGate
  <2>1. /\ wmutex' = Nobody /\ checked' = 0 /\ mtime' = 0
        /\ lock' = {} /\ broken' = "no" /\ UNCHANGED <<person, now>>
    BY <1>3 DEF CrashGate
  <2>2. Dated'
    BY <1>t, <2>1 DEF TimeInv, Dated, person
  <2>3. HoldsTheFile'
    BY <1>t, <2>1 DEF TimeInv, Dated, HoldsTheFile, person
  <2>4. \A t \in Targets : ~Covers({}, t) /\ LastClear(t)' \in Nat
    BY <1>t, <2>1 DEF Covers, LastClear, person
  <2>5. Trusted'
    BY <2>1, <2>4 DEF Trusted
  <2> QED BY <2>2, <2>3, <2>5 DEF TimeInv
<1>4. ASSUME NEW p \in Writers,
             ReadSetRevision(p) \/ Admit(p) \/ \E knock \in Knocks : Arrive(p, knock)
      PROVE  UNCHANGED <<person, now, watch>>
  BY <1>4 DEF ReadSetRevision, Admit, Arrive
<1>5. CASE WriteBehind \/ RestartGate \/ UNCHANGED allVars
  BY <1>1, <1>5 DEF WriteBehind, RestartGate, allVars, gateVars
<1> QED BY <1>1, <1>2, <1>3, <1>4, <1>5, LooksKeepTime, PersonKeepsTime
        DEF GateNext

WatchInv == GateInv /\ Doorsteps /\ TimeInv

LEMMA WatchInvariant == GateSpec => []WatchInv
<1>1. ASSUME GateInit PROVE Doorsteps /\ TimeInv
  BY <1>1, WritersAssumption, EveryAssumption
  DEF GateInit, Doorsteps, Doorstep, AtDoor, TimeInv, Dated, HoldsTheFile,
      Trusted, NoFile, Covers, LastClear, FileStops
<1> QED BY <1>1, DoorstepsNext, TimeInvNext, GateInvariant, PTL
        DEF GateSpec, WatchInv

\* In a step of p's request at the lock, p's request is judged by the lock in
\* force, and what is in force was the file's word within the watch's second.
LEMMA JudgedInTime ==
    ASSUME WatchInv, NEW p \in Writers, Look(p)
    PROVE  LET t == Target(gate[p].req) IN
           /\ Answered(p, "through") => now < LastClear(t) + Every
           /\ Answered(p, "locked") /\ broken' = "no" => now < LastClosed(t) + Every
<1> DEFINE t == Target(gate[p].req)
<1>t. /\ now \in Nat /\ checked \in Nat /\ Every \in Nat \ {0}
      /\ DoorsTyped
      /\ clear \in [Targets -> Nat] /\ closed \in [Targets -> Nat]
  BY EveryAssumption DEF WatchInv, GateInv, GateTyped, WatchTyped
<1>d. /\ gate[p].phase \in {"door", "reading"} => gate[p].verdict = "none"
      /\ gate[p].phase # "out" => gate[p].req \in Requests \cup Peeks
      /\ gate[p].phase = "reading" <=> wmutex = p
  BY DEF WatchInv, Doorsteps, Doorstep
<1>q. gate[p].phase \in {"door", "reading"}
  BY DEF Look, AnswerFromWatch, StatGone, StatFails, StatSame, StatChanged,
         ReadLock, ReadFails, ReadGone, Looks
<1>k. t \in Targets
  <2>1. \A r \in Requests : r.op # "Ping" /\ r.ns \in Namespaces
    BY RequestsAssumption DEF Writes, Flips, Publishes, Retires
  <2>2. \A r \in Peeks : r.op = "Ping" \/ r.ns \in Namespaces
    BY PeeksAssumption
  <2> QED BY <1>d, <1>q, <2>1, <2>2 DEF Target, Targets
<1>l. LastClear(t) \in Nat /\ LastClosed(t) \in Nat
  BY <1>t, <1>k DEF LastClear, LastClosed
<1>j. \A scopes : Judge(p, scopes) =>
        /\ Answered(p, "through") => ~Covers(scopes, t)
        /\ Answered(p, "locked") => Covers(scopes, t)
  BY <1>t, JudgeDef DEF Answered
<1>s. Covers({Star}, t) /\ ~Covers({}, t)
  BY DEF Covers
<1> HIDE DEF t
<1> SUFFICES /\ Answered(p, "through") => now < LastClear(t) + Every
             /\ Answered(p, "locked") /\ broken' = "no"
                   => now < LastClosed(t) + Every
  BY DEF t
<1>1. CASE AnswerFromWatch(p)
  <2>1. /\ wmutex = Nobody /\ now - checked < Every
        /\ Judge(p, Effective(broken, lock)) /\ broken' = broken
    BY <1>1 DEF AnswerFromWatch, watch
  <2>2. broken = "no" => IF Covers(lock, t) THEN checked <= LastClosed(t)
                                            ELSE checked <= LastClear(t)
    BY <1>k, <2>1 DEF WatchInv, TimeInv, Trusted
  <2> QED BY <1>t, <1>l, <1>j, <1>s, <2>1, <2>2 DEF Effective
<1>2. CASE StatGone(p)
  <2>1. Judge(p, {}) /\ file.scopes = {}
    BY <1>2 DEF StatGone
  <2>2. LastClear(t) = now
    BY <1>k, <1>s, <2>1, SaysNow DEF WatchInv, TimeInv, Dated
  <2> QED BY <1>t, <1>j, <1>s, <2>1, <2>2
<1>3. CASE StatFails(p) \/ ReadFails(p)
  <2>1. Judge(p, {Star}) /\ broken' # "no"
    BY <1>3 DEF StatFails, ReadFails
  <2> QED BY <1>j, <1>s, <2>1
<1>4. CASE StatSame(p)
  <2>1. /\ file.scopes # {} /\ file.mtime = mtime /\ wmutex = Nobody
        /\ Judge(p, Effective(broken, lock)) /\ broken' = broken
    BY <1>4 DEF StatSame, Looks
  <2>2. broken = "no" => IF Covers(lock, t) THEN LastClosed(t) = now
                                            ELSE LastClear(t) = now
    BY <1>k, <2>1, SaysNow DEF WatchInv, TimeInv, HoldsTheFile
  <2> QED BY <1>t, <1>j, <1>s, <2>1, <2>2 DEF Effective
<1>5. CASE StatChanged(p)
  <2>1. gate'[p].verdict = gate[p].verdict
    BY <1>t, <1>5 DEF StatChanged, DoorsTyped, Doors
  <2> QED BY <1>d, <1>q, <2>1 DEF Answered
<1>6. CASE ReadLock(p)
  <2>1. Judge(p, file.scopes) /\ file.sound
    BY <1>6 DEF ReadLock
  <2>2. IF Covers(file.scopes, t) THEN LastClosed(t) = now
                                  ELSE LastClear(t) = now
    BY <1>k, <2>1, SaysNow
  <2> QED BY <1>t, <1>j, <2>1, <2>2
<1>7. CASE ReadGone(p)
  <2>1. gate'[p].verdict = "dropped"
    BY <1>t, <1>7 DEF ReadGone, Leave, AtDoor, DoorsTyped
  <2> QED BY <2>1 DEF Answered
<1> QED BY <1>1, <1>2, <1>3, <1>4, <1>5, <1>6, <1>7 DEF Look

\* Only a look of p's own answers p's request.
LEMMA OnlyLooksAnswer ==
    ASSUME WatchInv, [GateNext]_allVars, NEW p \in Writers, ~Look(p)
    PROVE  ~Answered(p, "through") /\ ~Answered(p, "locked")
<1> SUFFICES ASSUME gate[p].phase \in {"door", "reading"}
             PROVE  gate'[p].verdict = "none"
  BY DEF Answered
<1>t. /\ gate \in [Writers -> Doors] /\ gate[p].verdict = "none" /\ DoorsTyped
  BY DEF WatchInv, GateInv, GateTyped, DoorsTyped, Doorsteps, Doorstep
<1>1. ASSUME NEW q \in Writers, NEW knock \in Knocks, Arrive(q, knock)
      PROVE  gate'[p].verdict = "none"
  BY <1>t, <1>1 DEF Arrive
<1>2. ASSUME NEW q \in Writers, Look(q) PROVE gate'[p].verdict = "none"
  <2>1. q # p
    BY <1>2
  <2>2. gate'[p] = gate[p]
    BY <1>t, <1>2, <2>1, JudgeDef
    DEF Look, AnswerFromWatch, StatGone, StatFails, StatSame, StatChanged,
        ReadLock, ReadFails, ReadGone, Leave
  <2> QED BY <1>t, <2>2
<1>3. ASSUME NEW q \in Writers, ReadSetRevision(q) PROVE gate'[p].verdict = "none"
  BY <1>t, <1>3 DEF ReadSetRevision
<1>4. ASSUME NEW q \in Writers, Admit(q) PROVE gate'[p].verdict = "none"
  BY <1>t, <1>4 DEF Admit, Leave
<1>5. CASE WriteBehind
  BY <1>t, <1>5 DEF WriteBehind, Doors
<1>6. CASE CrashGate
  BY <1>6 DEF CrashGate, AtDoor
<1>7. CASE PersonActs \/ Tick \/ RestartGate \/ UNCHANGED allVars
  BY <1>t, <1>7
  DEF PersonActs, WriteLock, Garble, Mend, RemoveLock, Touch, Tick,
      RestartGate, allVars, gateVars
<1> QED BY <1>1, <1>2, <1>3, <1>4, <1>5, <1>6, <1>7 DEF GateNext

\* A lock takes effect within the watch's second, for any handlers, scopes and
\* second: no request passes on a word of the file that is older.
THEOREM LockTheorem == GateSpec => LockIsHonoured
<1>1. ASSUME WatchInv, [GateNext]_allVars
      PROVE  \A p \in Writers : Answered(p, "through") =>
                now < LastClear(Target(gate[p].req)) + Every
  BY <1>1, JudgedInTime, OnlyLooksAnswer
<1> QED BY <1>1, WatchInvariant, PTL DEF GateSpec, LockIsHonoured

\* A lock let go is let go within the watch's second: no request is stopped by
\* a lock the watch read on a word of the file that is older.
THEOREM UnlockTheorem == GateSpec => UnlockIsHonoured
<1>1. ASSUME WatchInv, [GateNext]_allVars
      PROVE  \A p \in Writers : (Answered(p, "locked") /\ broken' = "no") =>
                now < LastClosed(Target(gate[p].req)) + Every
  BY <1>1, JudgedInTime, OnlyLooksAnswer
<1> QED BY <1>1, WatchInvariant, PTL DEF GateSpec, UnlockIsHonoured

---------------------------------------------------------------------------
(***************************************************************************)
(* The set of known clients.                                                *)
(***************************************************************************)

\* A write has left its number on disk and not yet returned.
Moving == {"revision", "reload", "publish", "record", "undo", "undoReload",
           "undoPublish"}

\* A request behind the lock is in a process that is up; while nobody has
\* written since it read the revision, the revision stands.
SteadyAt(p) ==
    /\ gate[p].phase # "out" => up
    /\ gate[p].phase = "set" /\ gate[p].still => Calm /\ gate[p].seen = rev

\* A set built in a quiet moment is what the disk held under its number, and a
\* write that is moving has a later one.
SetIsExact ==
    cur.built /\ cur.quiet =>
        /\ cur.revision <= diskRev
        /\ cur.revision = diskRev => cur.known = disk[ClientsNs]
        /\ (up /\ cur.revision = rev) => cur.known = snap[ClientsNs]
        /\ \A p \in Writers : pc[p] \in Moving => cur.revision < diskRev

SetInv == SetIsExact /\ \A p \in Writers : SteadyAt(p)

\* A write's step leaves a set built in a quiet moment exact or outdated.
LEMMA SetBesideWrites ==
    ASSUME LockInv, Next, LockInv', SetIsExact, cur' = cur, cur.revision \in Nat
    PROVE  SetIsExact'
<1> USE WritersAssumption DEF SetIsExact, Moving, Phases
<1>t. /\ pc \in [Writers -> Phases] /\ next \in [Writers -> Nat]
      /\ rev \in Nat /\ diskRev \in Nat
      /\ ~up => \A p \in Writers : pc[p] = "idle"
  BY DEF LockInv, TypeInv, TypeOK, Serving
<1>n. Numbers /\ Mutex
  BY DEF LockInv
<1> USE DEF Numbers, Mutex, Critical
<1>1. ASSUME NEW p \in Writers, NEW r \in Requests, Accept(p, r) PROVE SetIsExact'
  BY <1>t, <1>1 DEF Accept, Goto, memory, onDisk
<1>2. ASSUME NEW p \in Writers, Lock(p) PROVE SetIsExact'
  BY <1>t, <1>2 DEF Lock, Goto, onDisk
<1>3. ASSUME NEW p \in Writers, Proceed(p) PROVE SetIsExact'
  <2>1. CASE Refuse(p)
    BY <1>t, <2>1 DEF Refuse, Return, Goto, onDisk
  <2>2. CASE Commit(p)
    BY <1>t, <1>n, <2>2 DEF Commit, Goto, memory
  <2>3. CASE StoreRevision(p)
    BY <1>t, <1>n, <2>3 DEF StoreRevision, Goto, onDisk
  <2>4. CASE Reload(p)
    BY <1>t, <2>4 DEF Reload, Goto, onDisk, memory
  <2>5. CASE Publish(p)
    BY <1>t, <1>n, <2>5 DEF Publish, Goto, onDisk
  <2>6. CASE Record(p)
    BY <1>t, <2>6 DEF Record, Goto
  <2>7. CASE Undo(p)
    BY <1>t, <2>7 DEF Undo, Goto, memory
  <2>8. CASE UndoPublish(p)
    BY <1>t, <1>n, <2>8 DEF UndoPublish, Return, Goto, onDisk
  <2>9. CASE Reply(p)
    BY <1>t, <2>9 DEF Reply, Return, Goto, memory, onDisk
  <2> QED BY <1>3, <2>1, <2>2, <2>3, <2>4, <2>5, <2>6, <2>7, <2>8, <2>9 DEF Proceed
<1>4. ASSUME NEW p \in Writers, Fails(p) PROVE SetIsExact'
  <2>1. CASE CommitFails(p) \/ ReloadFails(p) \/ UndoFails(p) \/ UndoReloadFails(p)
    BY <1>t, <2>1
    DEF CommitFails, ReloadFails, UndoFails, UndoReloadFails, Return, Goto, onDisk
  <2>2. CASE SinkFails(p) \/ FsyncFails(p)
    BY <1>t, <2>2 DEF SinkFails, FsyncFails, Goto, memory, onDisk
  <2> QED BY <1>4, <2>1, <2>2 DEF Fails
<1>5. ASSUME Crash PROVE SetIsExact'
  BY <1>t, <1>5 DEF Crash, onDisk
<1>6. ASSUME Restart PROVE SetIsExact'
  BY <1>t, <1>6 DEF Restart, onDisk
<1> QED BY <1>1, <1>2, <1>3, <1>4, <1>5, <1>6 DEF Next, WriteStep

\* A write's step keeps the process up, and between two calm states it moves
\* no number.
LEMMA CalmStep ==
    ASSUME LockInv, NEW p \in Writers, Lock(p) \/ Proceed(p) \/ Fails(p)
    PROVE  up' = up /\ (Calm /\ Calm' => rev' = rev)
<1> USE WritersAssumption DEF Calm, Phases, Critical
<1>t. /\ pc \in [Writers -> Phases]
      /\ wmu = Nobody => \A q \in Writers : pc[q] \notin Critical
  BY DEF LockInv, TypeInv, TypeOK, Mutex
<1>1. CASE Lock(p)
  BY <1>1 DEF Lock
<1>2. CASE Proceed(p)
  BY <1>t, <1>2
  DEF Proceed, Refuse, Commit, StoreRevision, Reload, Publish, Record, Undo,
      UndoPublish, Reply, Return, Goto, memory
<1>3. CASE Fails(p)
  BY <1>t, <1>3
  DEF Fails, CommitFails, ReloadFails, SinkFails, FsyncFails, UndoFails,
      UndoReloadFails, Return, Goto, memory
<1> QED BY <1>1, <1>2, <1>3

\* A request that is admitted leaves a set that is exact, if it was built in a
\* quiet moment.
LEMMA AdmitKeepsSet ==
    ASSUME GateInv, SetInv, NEW p \in Writers, Admit(p) PROVE SetInv'
<1>t. /\ gate \in [Writers -> Doors] /\ pc \in [Writers -> Phases]
      /\ diskRev \in Nat /\ rev \in Nat
  BY DEF GateInv, GateTyped, DoorsTyped, LockInv, TypeInv, TypeOK
<1>1. /\ UNCHANGED <<onDisk, memory>>
      /\ \A q \in Writers : pc'[q] \in Moving => pc[q] \in Moving
  <2>1. UNCHANGED vars \/ \E r \in Requests : Accept(p, r)
    BY DEF Admit
  <2> QED BY <1>t, <2>1 DEF Accept, Goto, vars, Moving
<1>2. /\ gate[p].phase = "set" /\ cur' = Set(p)
      /\ \E v \in {"unknown", "none"} : Leave(p, v)
  BY DEF Admit
<1>3. ASSUME NEW q \in Writers PROVE SteadyAt(q)'
  <2>1. gate'[q] = gate[q] \/ gate'[q].phase = "out"
    BY <1>t, <1>2 DEF Leave, AtDoor
  <2> QED BY <1>1, <2>1 DEF SetInv, SteadyAt, Calm, memory
<1>4. CASE cur' = cur
  BY <1>1, <1>3, <1>4 DEF SetInv, SetIsExact, onDisk, memory
<1>5. CASE cur' # cur
  <2>1. cur' = [revision |-> gate[p].seen, known |-> snap[ClientsNs],
                quiet |-> gate[p].still, built |-> TRUE]
    BY <1>2, <1>5 DEF Set
  <2>2. SUFFICES ASSUME gate[p].still PROVE SetIsExact'
    BY <1>3, <2>1 DEF SetInv, SetIsExact
  <2>3. /\ gate[p].seen = rev /\ wmu = Nobody /\ ~lastWriteErr /\ up
    BY <1>2, <2>2 DEF SetInv, SteadyAt, Calm
  <2>4. /\ rev = diskRev /\ snap = disk
        /\ \A q \in Writers : pc[q] \notin Moving
    BY <2>3, WritersAssumption
    DEF GateInv, LockInv, TypeInv, TypeOK, Numbers, Snapshots, Mutex, Critical,
        Phases, Moving
  <2> QED BY <1>t, <1>1, <2>1, <2>3, <2>4 DEF SetIsExact, onDisk, memory
<1> QED BY <1>3, <1>4, <1>5 DEF SetInv

LEMMA SetInvNext == GateInv /\ SetInv /\ [GateNext]_allVars => SetInv'
<1> SUFFICES ASSUME GateInv, SetInv, [GateNext]_allVars PROVE SetInv'
  OBVIOUS
<1>t. /\ gate \in [Writers -> Doors] /\ DoorsTyped /\ cur.revision \in Nat
      /\ LockInv /\ LockInv' /\ SetIsExact /\ \A p \in Writers : SteadyAt(p)
  BY LockInvBehind DEF GateInv, GateTyped, DoorsTyped, SetInv
<1>k. ASSUME UNCHANGED <<onDisk, memory, pc, cur>> PROVE SetIsExact'
  BY <1>t, <1>k DEF SetIsExact, onDisk, memory
<1>1. ASSUME NEW p \in Writers, NEW knock \in Knocks, Arrive(p, knock)
      PROVE  SetInv'
  <2>1. up /\ UNCHANGED <<onDisk, memory, pc, cur>>
    BY <1>1 DEF Arrive, vars
  <2>2. /\ gate'[p].phase = "door"
        /\ \A q \in Writers : q # p => gate'[q] = gate[q]
    BY <1>t, <1>1 DEF Arrive, AtDoor
  <2> QED BY <1>t, <1>k, <2>1, <2>2 DEF SetInv, SteadyAt, Calm, memory
<1>2. ASSUME NEW p \in Writers, Look(p) PROVE SetInv'
  <2>1. UNCHANGED <<onDisk, memory, pc, cur>>
    BY <1>2
    DEF Look, AnswerFromWatch, StatGone, StatFails, StatSame, StatChanged,
        ReadLock, ReadFails, ReadGone, UnchangedStore, vars
  <2>2. \A q \in Writers : q # p => gate'[q] = gate[q]
    BY <1>t, <1>2, JudgeDef
    DEF Look, AnswerFromWatch, StatGone, StatFails, StatSame, StatChanged,
        ReadLock, ReadFails, ReadGone, Leave
  <2>3. gate[p].phase # "out" /\ gate'[p].phase # "set"
    <3>1. CASE StatChanged(p) \/ ReadGone(p)
      BY <1>t, <3>1 DEF StatChanged, ReadGone, Looks, Leave, AtDoor, Doors
    <3>2. CASE ~(StatChanged(p) \/ ReadGone(p))
      BY <1>t, <1>2, <3>2, JudgeDef
      DEF Look, AnswerFromWatch, StatGone, StatFails, StatSame, ReadLock,
          ReadFails, Looks
    <3> QED BY <3>1, <3>2
  <2> QED BY <1>t, <1>k, <2>1, <2>2, <2>3 DEF SetInv, SteadyAt, Calm, memory
<1>3. ASSUME NEW p \in Writers, ReadSetRevision(p) PROVE SetInv'
  <2>1. gate[p].phase = "client" /\ UNCHANGED <<onDisk, memory, pc, cur>>
    BY <1>3 DEF ReadSetRevision, vars
  <2>2. /\ gate'[p].seen = rev /\ gate'[p].still = Calm
        /\ \A q \in Writers : q # p => gate'[q] = gate[q]
    BY <1>t, <1>3 DEF ReadSetRevision, Doors
  <2> QED BY <1>t, <1>k, <2>1, <2>2 DEF SetInv, SteadyAt, Calm, memory
<1>4. CASE WriteBehind
  <2>1. SetIsExact'
    BY <1>t, <1>4, SetBesideWrites DEF WriteBehind, Next, WriteStep
  <2>2. PICK p \in Writers : Lock(p) \/ Proceed(p) \/ Fails(p)
    BY <1>4 DEF WriteBehind
  <2>3. up' = up /\ (Calm /\ Calm' => rev' = rev)
    BY <1>t, <2>2, CalmStep
  <2>4. \A q \in Writers : /\ gate'[q].phase = gate[q].phase
                           /\ gate'[q].seen = gate[q].seen
                           /\ gate'[q].still = (gate[q].still /\ Calm')
    BY <1>t, <1>4 DEF WriteBehind, Doors
  <2> QED BY <1>t, <2>1, <2>3, <2>4 DEF SetInv, SteadyAt
<1>5. CASE CrashGate
  BY <1>5 DEF CrashGate, NoSet, AtDoor, SetInv, SetIsExact, SteadyAt
<1>6. CASE RestartGate
  <2>1. Restart /\ ~up /\ UNCHANGED <<gate, cur>>
    BY <1>6 DEF RestartGate, Restart, gateVars
  <2>2. SetIsExact'
    BY <1>t, <2>1, SetBesideWrites DEF Next
  <2> QED BY <1>t, <2>1, <2>2 DEF SetInv, SteadyAt
<1>7. CASE PersonActs \/ Tick \/ UNCHANGED allVars
  <2>1. UNCHANGED <<onDisk, memory, pc, cur, gate>>
    BY <1>7
    DEF PersonActs, WriteLock, Garble, Mend, RemoveLock, Touch, Tick, allVars,
        gateVars, vars
  <2> QED BY <1>t, <1>k, <2>1 DEF SetInv, SteadyAt, Calm, memory
<1> QED BY <1>1, <1>2, <1>3, <1>4, <1>5, <1>6, <1>7, AdmitKeepsSet DEF GateNext

\* A set built while nobody was writing is the one the store serves for as
\* long as its revision stands, through every undo, fault and restart.
THEOREM SetTheorem == GateSpec => []QuietSetIsExact
<1>1. GateInit => SetInv
  BY DEF GateInit, Init, SetInv, SetIsExact, SteadyAt, NoSet, AtDoor
<1>2. SetInv => QuietSetIsExact
  BY DEF SetInv, SetIsExact, QuietSetIsExact
<1> QED BY <1>1, <1>2, SetInvNext, GateInvariant, PTL DEF GateSpec

=============================================================================
