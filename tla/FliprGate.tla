------------------------------ MODULE FliprGate ------------------------------
(***************************************************************************)
(* What stands between a request and its handler (server.decode): the lock  *)
(* file a person writes, seen through the server's watch of it (lock.go),   *)
(* and the set of known clients, cached by the store's revision             *)
(* (clients.go).  Behind the gate is FliprStore: a request let through may  *)
(* write, and what it writes may be the set of known clients.              *)
(*                                                                         *)
(* The watch looks at the file at most once in Every ticks, with w.mu held: *)
(* a stat, and a read when the stat shows a file it has not read.  The      *)
(* person writes, mends and removes the file between any two steps.        *)
(***************************************************************************)
EXTENDS FliprStore

CONSTANTS
    Peeks,        \* the requests decode sees that only read (ListNamespaces
                  \* never comes to it)
    Clients,      \* what an X-Flipr-Client header names
    Knocks,       \* the requests that arrive, each with its client
    TripleOf,     \* the triple of each client that sends one
    Tool,         \* the client that is fliprctl of the server's own build
    ClientsNs,    \* flipr@clients
    RefuseKey,    \* refuse.other
    RefuseOn,     \* the value that turns refusal on
    Star,         \* the scope "*"
    Every,        \* lockCheckEvery, in ticks
    Scopes,       \* the scopes the person locks
    MaxTouches,   \* bound: what the person does to the file
    MaxArrivals,  \* bound: requests that arrive
    MaxTime       \* bound: the clock

ASSUME PeeksAssumption ==
    Peeks \subseteq [op : {"GetNamespace"}, ns : Namespaces] \cup [op : {"Ping"}]
ASSUME KnocksAssumption ==
    Knocks \subseteq [req : Requests \cup Peeks, client : Clients]
ASSUME ClientsAssumption ==
    /\ Tool \in Clients
    /\ ClientsNs \in Namespaces /\ RefuseKey \in Keys /\ RefuseOn \in Values
    /\ DOMAIN TripleOf \subseteq Clients
    /\ \A c \in DOMAIN TripleOf : TripleOf[c] \in Values
ASSUME StarAssumption ==
    Star \notin Namespaces /\ Scopes \subseteq Namespaces \cup {Star}
ASSUME EveryAssumption == Every \in Nat \ {0}
ASSUME TouchesAssumption ==
    MaxTouches \in Nat /\ MaxArrivals \in Nat /\ MaxTime \in Nat

VARIABLES
    file,      \* flipr.lock: its scope, whether it can be read, its mtime
    now,       \* the clock
    wmutex,    \* who holds w.mu across its look
    checked,   \* lockWatch.checked
    mtime,     \* lockWatch.mtime; 0 is the zero time
    lock,      \* lockWatch.lock: its scopes, none when it is nil
    broken,    \* lockWatch.broken, by what broke it
    lockLog,   \* the Lock and Unlock records
    cur,       \* clientSets.cur
    gate,      \* where each handler's request stands
    touches,   \* history: times the person touched the file
    arrivals,  \* history: requests that arrived
    clear,     \* history: when the file last let each target through
    closed,    \* history: when the file last stopped each target
    unsound,   \* history: when the file was last unreadable
    untold     \* history: the lock in force and its records parted

person   == <<file, touches, clear, closed, unsound>>
watch    == <<wmutex, checked, mtime, lock, broken, lockLog, untold>>
gateVars == <<person, now, watch, cur, gate, arrivals>>
allVars  == <<vars, gateVars>>

\* What a lock can stop: a namespace, or what names none.
Targets == Namespaces \cup {Star}

Target(r) == IF r.op = "Ping" THEN Star ELSE r.ns

NoRequest == [op |-> "none"]

\* No set was built yet.  quiet is history: whether nobody was writing from the
\* read of the revision to the read of the snapshot.
NoSet == [revision |-> 0, known |-> Absent, quiet |-> FALSE, built |-> FALSE]

AtDoor == [phase |-> "out", req |-> NoRequest, client |-> Tool, seen |-> 0,
           still |-> FALSE, verdict |-> "none"]

\* GateTypeOK: the store's TypeOK, and the gate's variables keep to their values.
GateTypeOK ==
    /\ TypeOK
    /\ file \in [scopes : SUBSET Targets, sound : BOOLEAN, mtime : Nat]
    /\ now \in Nat /\ checked \in Nat /\ mtime \in Nat
    /\ wmutex \in Writers \cup {Nobody}
    /\ lock \in SUBSET Targets
    /\ broken \in {"no", "stat", "read"}
    /\ lockLog \in Seq([op : {"Lock", "Unlock"}, scopes : (SUBSET Targets) \ {{}}])
    /\ cur \in [revision : Nat, known : Contents \cup {Absent},
                quiet : BOOLEAN, built : BOOLEAN]
    /\ gate \in [Writers ->
                 [phase : {"out", "door", "reading", "client", "set"},
                  req : Requests \cup Peeks \cup {NoRequest}, client : Clients,
                  seen : Nat, still : BOOLEAN,
                  verdict : {"none", "through", "locked", "unknown", "dropped"}]]
    /\ touches \in Nat /\ arrivals \in Nat
    /\ clear \in [Targets -> Nat] /\ closed \in [Targets -> Nat]
    /\ unsound \in Nat /\ untold \in BOOLEAN

---------------------------------------------------------------------------
NoFile == [scopes |-> {}, sound |-> TRUE, mtime |-> 0]

GateInit ==
    /\ Init
    /\ file = NoFile /\ now = Every /\ touches = 0 /\ arrivals = 0
    /\ wmutex = Nobody /\ checked = 0 /\ mtime = 0
    /\ lock = {} /\ broken = "no" /\ lockLog = << >> /\ untold = FALSE
    /\ cur = NoSet
    /\ gate = [p \in Writers |-> AtDoor]
    /\ clear = [t \in Targets |-> 0] /\ closed = [t \in Targets |-> 0]
    /\ unsound = 0

\* Lock.Covers, with lockFor: "*" stops every rpc, a namespace those naming it.
Covers(scopes, t) == Star \in scopes \/ t \in scopes

\* What the file says of a target: a file that cannot be read stops everything.
FileStops(t) == Covers(file.scopes, t) \/ ~file.sound

Calm == wmu = Nobody /\ ~lastWriteErr

\* A request arrives at decode.
Arrive(p, knock) ==
    /\ up
    /\ pc[p] = "idle" /\ gate[p].phase = "out"
    /\ arrivals < MaxArrivals
    /\ arrivals' = arrivals + 1
    /\ gate' = [gate EXCEPT ![p] =
                  [AtDoor EXCEPT !.phase = "door", !.req = knock.req,
                                   !.client = knock.client]]
    /\ UNCHANGED <<vars, person, now, watch, cur>>

Leave(p, verdict) ==
    gate' = [gate EXCEPT ![p] = [AtDoor EXCEPT !.verdict = verdict]]

\* lockFor: the lock in force stops the request with a 423, or it goes on to
\* be admitted.
Judge(p, scopes) ==
    IF Covers(scopes, Target(gate[p].req))
    THEN Leave(p, "locked")
    ELSE gate' = [gate EXCEPT ![p].phase = "client", ![p].verdict = "through"]

\* effective: a broken file locks all.
Effective(b, scopes) == IF b = "no" THEN scopes ELSE {Star}

\* w.rec: the change goes to the record, and nobody hears when it cannot.
Tell(op, scopes) ==
    \/ /\ lockLog' = Append(lockLog, [op |-> op, scopes |-> scopes])
       /\ untold' = FALSE
       /\ UNCHANGED faults
    \/ /\ Strikes("sink")
       /\ untold' = TRUE
       /\ UNCHANGED lockLog

UnchangedStore == UNCHANGED <<onDisk, memory, pc, locals, answers, parted, accepted>>

\* Mutant: a cached answer moves the time of the last look along.
AnswerSlides(p) ==
    /\ gate[p].phase = "door" /\ wmutex = Nobody
    /\ now - checked < Every
    /\ checked' = now
    /\ Judge(p, Effective(broken, lock))
    /\ UNCHANGED <<vars, person, now, wmutex, mtime, lock, broken, lockLog,
                   untold, cur, arrivals>>

\* current, within a second of the last look.
AnswerFromWatch(p) ==
    /\ gate[p].phase = "door" /\ wmutex = Nobody
    /\ now - checked < Every
    /\ Judge(p, Effective(broken, lock))
    /\ UNCHANGED <<vars, person, now, watch, cur, arrivals>>

Looks(p) ==
    /\ gate[p].phase = "door" /\ wmutex = Nobody
    /\ now - checked >= Every
    /\ checked' = now

\* Mutant: a lock that is gone leaves the watch without a record.
StatGoneUntold(p) ==
    /\ Looks(p)
    /\ file.scopes = {}
    /\ lock' = {} /\ broken' = "no" /\ mtime' = 0
    /\ Judge(p, {})
    /\ UNCHANGED <<vars, person, now, wmutex, lockLog, untold, cur, arrivals>>

\* Mutant: the file is gone and the watch keeps its lock.
StatGoneKeeps(p) ==
    /\ Looks(p)
    /\ file.scopes = {}
    /\ Judge(p, Effective(broken, lock))
    /\ UNCHANGED <<vars, person, now, wmutex, mtime, lock, broken, lockLog,
                   untold, cur, arrivals>>

\* Mutant: the record of a release is written from the lock just cleared.
StatGoneClearedFirst(p) ==
    /\ Looks(p)
    /\ file.scopes = {}
    /\ lock' = {} /\ broken' = "no" /\ mtime' = 0
    /\ IF lock # {}
       THEN Tell("Unlock", lock')
       ELSE UNCHANGED <<lockLog, untold, faults>>
    /\ Judge(p, {})
    /\ UnchangedStore /\ UNCHANGED <<person, now, wmutex, cur, arrivals>>

\* The file is not there: the lock is released.
StatGone(p) ==
    /\ Looks(p)
    /\ file.scopes = {}
    /\ lock' = {} /\ broken' = "no" /\ mtime' = 0
    /\ IF lock # {}
       THEN Tell("Unlock", lock)
       ELSE UNCHANGED <<lockLog, untold, faults>>
    /\ Judge(p, {})
    /\ UnchangedStore /\ UNCHANGED <<person, now, wmutex, cur, arrivals>>

\* The stat itself fails: everything is stopped, and mtime stays.
StatFails(p) ==
    /\ Looks(p)
    /\ Strikes("stat")
    /\ broken' = "stat"
    /\ Judge(p, {Star})
    /\ UnchangedStore
    /\ UNCHANGED <<person, now, wmutex, mtime, lock, lockLog, untold, cur, arrivals>>

\* The same file as before is not read again.
StatSame(p) ==
    /\ Looks(p)
    /\ file.scopes # {} /\ file.mtime = mtime
    /\ Judge(p, Effective(broken, lock))
    /\ UNCHANGED <<vars, person, now, wmutex, mtime, lock, broken, lockLog,
                   untold, cur, arrivals>>

\* Another file: its mtime is noted, and it is read next.
StatChanged(p) ==
    /\ Looks(p)
    /\ file.scopes # {} /\ file.mtime # mtime
    /\ mtime' = file.mtime
    /\ wmutex' = p
    /\ gate' = [gate EXCEPT ![p].phase = "reading"]
    /\ UNCHANGED <<vars, person, now, lock, broken, lockLog, untold, cur, arrivals>>

\* readLock finds what is there by now.
ReadLock(p) ==
    /\ gate[p].phase = "reading"
    /\ file.scopes # {} /\ file.sound
    /\ wmutex' = Nobody
    /\ lock' = file.scopes /\ broken' = "no"
    /\ Tell("Lock", file.scopes)
    /\ Judge(p, file.scopes)
    /\ UnchangedStore
    /\ UNCHANGED <<person, now, checked, mtime, cur, arrivals>>

\* A file that cannot be read or parsed stops everything.
ReadFails(p) ==
    /\ gate[p].phase = "reading"
    /\ ~file.sound
    /\ wmutex' = Nobody
    /\ broken' = "read"
    /\ Judge(p, {Star})
    /\ UNCHANGED <<vars, person, now, checked, mtime, lock, lockLog, untold,
                   cur, arrivals>>

\* The file went between the stat and the read: the lock is nil, its scopes
\* are logged all the same, and the handler panics with the watch unlocked.
ReadGone(p) ==
    /\ gate[p].phase = "reading"
    /\ file.scopes = {}
    /\ wmutex' = Nobody
    /\ lock' = {} /\ broken' = "no"
    /\ untold' = (untold \/ lock # {})
    /\ Leave(p, "dropped")
    /\ UNCHANGED <<vars, person, now, checked, mtime, lockLog, cur, arrivals>>

---------------------------------------------------------------------------
\* clientSets.current reads the revision before it takes c.mu.
ReadSetRevision(p) ==
    /\ gate[p].phase = "client"
    /\ gate' = [gate EXCEPT ![p].phase = "set", ![p].seen = rev, ![p].still = Calm]
    /\ UNCHANGED <<vars, person, now, watch, cur, arrivals>>

\* Mutant: a set that was built is taken along to the next revision.
SetKept(p) ==
    IF cur.built
    THEN [cur EXCEPT !.revision = gate[p].seen, !.quiet = gate[p].still]
    ELSE [revision |-> gate[p].seen, known |-> snap[ClientsNs],
          quiet |-> gate[p].still, built |-> TRUE]

\* Under c.mu: the cached set is a hit at the revision it was built at, else it
\* is built from the snapshot and kept under the revision read before.  The
\* namespace is laid over the global scope, which names no client here.
Set(p) ==
    IF cur.built /\ cur.revision = gate[p].seen THEN cur
    ELSE [revision |-> gate[p].seen, known |-> snap[ClientsNs],
          quiet |-> gate[p].still, built |-> TRUE]

\* clientLabel: the tool of this build, or a triple that some key holds.
Known(contents, c) ==
    \/ c = Tool
    \/ /\ c \in DOMAIN TripleOf
       /\ \E k \in Held(contents) \ {RefuseKey} :
             contents[k].value = TripleOf[c]

Refuses(contents) ==
    RefuseKey \in Held(contents) /\ contents[RefuseKey].value = RefuseOn

\* admit: an unknown client is turned away when the set refuses; a read is
\* answered and a write goes to the store.
Admit(p) ==
    /\ gate[p].phase = "set"
    /\ cur' = Set(p)
    /\ IF Refuses(cur'.known) /\ ~Known(cur'.known, gate[p].client)
       THEN Leave(p, "unknown") /\ UNCHANGED vars
       ELSE /\ Leave(p, "none")
            /\ IF gate[p].req \in Requests
               THEN Accept(p, gate[p].req)
               ELSE UNCHANGED vars
    /\ UNCHANGED <<person, now, watch, arrivals>>

---------------------------------------------------------------------------
\* The person writes, mends or removes the file; what it said is dated.
Touch ==
    /\ touches < MaxTouches
    /\ touches' = touches + 1
    /\ clear' = [t \in Targets |-> IF FileStops(t) THEN clear[t] ELSE now]
    /\ closed' = [t \in Targets |-> IF FileStops(t) THEN now ELSE closed[t]]
    /\ unsound' = IF file.sound THEN unsound ELSE now
    /\ UNCHANGED <<vars, now, watch, cur, gate, arrivals>>

\* ctl lock: writeLock renames a whole file into place, over one that is there.
WriteLock(s) ==
    /\ Touch
    /\ file' = [scopes |-> {s}, sound |-> TRUE, mtime |-> touches + 1]

\* A file that cannot be parsed, or that the server may not open.
Garble(s) ==
    /\ Touch
    /\ file' = [scopes |-> {s}, sound |-> FALSE, mtime |-> touches + 1]

\* The permission is given: the file's mtime and size are what they were.
Mend ==
    /\ ~file.sound
    /\ Touch
    /\ file' = [file EXCEPT !.sound = TRUE]

\* ctl unlock removes the file, whichever scope it is asked about.
RemoveLock ==
    /\ file.scopes # {}
    /\ Touch
    /\ file' = NoFile

\* Time passes between looks.
Tick ==
    /\ now < MaxTime
    /\ wmutex = Nobody
    /\ now' = now + 1
    /\ UNCHANGED <<vars, person, watch, cur, gate, arrivals>>

\* A write beside the gate; those building a set learn of it.
WriteBehind ==
    /\ \E p \in Writers : Lock(p) \/ Proceed(p) \/ Fails(p)
    /\ gate' = [p \in Writers |-> [gate[p] EXCEPT !.still = @ /\ Calm']]
    /\ UNCHANGED <<person, now, watch, cur, arrivals>>

\* The watch, the set and the requests die with the process.
CrashGate ==
    /\ Crash
    /\ wmutex' = Nobody /\ checked' = 0 /\ mtime' = 0
    /\ lock' = {} /\ broken' = "no"
    /\ untold' = (untold \/ lock # {})
    /\ cur' = NoSet
    /\ gate' = [p \in Writers |-> AtDoor]
    /\ UNCHANGED <<person, now, lockLog, arrivals>>

RestartGate == Restart /\ UNCHANGED gateVars

Look(p) ==
    \/ AnswerFromWatch(p) \/ StatGone(p) \/ StatFails(p) \/ StatSame(p)
    \/ StatChanged(p) \/ ReadLock(p) \/ ReadFails(p) \/ ReadGone(p)

PersonActs ==
    \/ \E s \in Scopes : WriteLock(s) \/ Garble(s)
    \/ Mend
    \/ RemoveLock

GateNext ==
    \/ \E p \in Writers :
          \/ \E knock \in Knocks : Arrive(p, knock)
          \/ Look(p)
          \/ ReadSetRevision(p)
          \/ Admit(p)
    \/ PersonActs
    \/ Tick
    \/ WriteBehind
    \/ CrashGate
    \/ RestartGate

GateSpec == GateInit /\ [][GateNext]_allVars

---------------------------------------------------------------------------
(***************************************************************************)
(* Properties.                                                              *)
(***************************************************************************)

LastClear(t)  == IF FileStops(t) THEN clear[t] ELSE now
LastClosed(t) == IF FileStops(t) THEN now ELSE closed[t]
LastUnsound   == IF file.sound THEN unsound ELSE now

\* In this step the watch answers p's request so.
Answered(p, verdict) ==
    gate[p].phase \in {"door", "reading"} /\ gate'[p].verdict = verdict

\* "A lock takes effect within a second": a request passes the lock only if
\* the file let its namespace through less than a second ago, whatever was
\* written between a stat and the read after it.
LockIsHonoured ==
    [][\A p \in Writers : Answered(p, "through") =>
          now < LastClear(Target(gate[p].req)) + Every]_allVars

\* And a lock let go is let go within a second: a request is stopped by a lock
\* the watch has read only if the file stopped it less than a second ago.
UnlockIsHonoured ==
    [][\A p \in Writers : (Answered(p, "locked") /\ broken' = "no") =>
          now < LastClosed(Target(gate[p].req)) + Every]_allVars

\* "The record says who stopped the world": the last Lock or Unlock record is
\* about the lock in force, unless one was lost: to the sink, to a restart, or
\* to a file removed between its stat and its read.
LockIsRecorded ==
    ~untold =>
        IF lock = {}
        THEN lockLog # << >> => lockLog[Len(lockLog)].op = "Unlock"
        ELSE /\ lockLog # << >>
             /\ lockLog[Len(lockLog)] = [op |-> "Lock", scopes |-> lock]

\* "A write anywhere moves the revision, so a hit is exact", where it is so: a
\* set built while nobody was writing is the one served for as long as its
\* revision stands, whatever is undone meanwhile.
QuietSetIsExact ==
    (up /\ cur.built /\ cur.quiet /\ cur.revision = rev)
        => cur.known = snap[ClientsNs]

---------------------------------------------------------------------------
\* What the text says and the code does not do; a run refutes each.

\* "The world is stopped until they fix it": a look that is due and whose own
\* stat is answered does not stop a request for what an earlier look could not
\* read or stat, unless the file stops it or was unreadable within the second.
MendIsSeen ==
    [][\A p \in Writers :
          (Answered(p, "locked") /\ now - checked >= Every
           /\ broken # "no" /\ faults' = faults)
          => \/ FileStops(Target(gate[p].req))
             \/ now < LastUnsound + Every]_allVars
=============================================================================
