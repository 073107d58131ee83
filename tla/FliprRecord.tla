---------------------------- MODULE FliprRecord ----------------------------
(***************************************************************************)
(* The operation record as a file (filelog.go) and the three that write a   *)
(* store and a record side by side: the serving process, its boot with the  *)
(* wipe self-heal (main.go), and the offline restore (ctl.go).              *)
(*                                                                         *)
(* FliprStore takes transact apart; here a write is one step with its ways  *)
(* of failing, and what is taken apart is the file: lines a kill or a full  *)
(* disk left half-written, restores that undo ranges of the record, and     *)
(* replays of it, whole or bounded.  A write's line is a Records element,   *)
(* a restore's a Restores element; a line that does not parse is Garbage.   *)
(***************************************************************************)
EXTENDS FlagRules, FiniteSetsExt

CONSTANTS
    Requests,      \* the writes callers ask of the server
    Offline,       \* the flips the operator's tool writes to the files itself
    Declaration,   \* what flipr publishes about itself at every boot
    Garbage,       \* a line that does not parse
    Faults,        \* the kinds of fault that may strike
    MaxFaults,     \* bound: faults in one behaviour
    MaxStops,      \* bound: stops and wipes in one behaviour
    MaxTries       \* bound: writes, declarations and restores attempted

ASSUME RecordRequests    == Requests \subseteq Writes /\ Offline \subseteq Flips
ASSUME RecordDeclaration == Declaration \in Publishes
ASSUME RecordBounds      == MaxFaults \in Nat /\ MaxStops \in Nat
                            /\ MaxTries \in Nat

Restores == [op : {"Restore"}, rev : Nat, to : Nat, from : Nat]

ASSUME RecordGarbage == Garbage \notin Records \cup Restores

VARIABLES
    exists,   \* the store file is there, with its generation
    disk,     \* bbolt: the flags buckets
    rev,      \* bbolt and memory: the revision
    lines,    \* the file's complete lines, oldest first
    torn,     \* the file ends in bytes without a newline
    ill,      \* the medium under the file refuses writes
    jam,      \* the server's sink: its bufio.Writer holds an error
    mode,     \* which process runs, and how far it is
    bound,    \* restore: the revision asked for
    book,     \* history: the flips in force as of each number
    acked,    \* history: the numbers of the callers' acknowledged writes
    parted,   \* history: namespaces whose contents and record parted
    halved,   \* history: a replay of this store was not finished
    spoiled,  \* history: a half-replayed store has been served
    tries, stops, faults   \* counted against the bounds

store   == <<exists, disk, rev>>
file    == <<lines, torn>>
process == <<jam, mode, bound>>
past    == <<book, acked, parted, halved, spoiled>>
counts  == <<tries, stops, faults>>
vars    == <<store, file, ill, process, past, counts>>

Modes == {"down", "declare", "serving", "append"}

FaultKinds == {"medium", "kill", "fsync", "replay", "unrecorded"}

\* RecordTypeOK: every variable keeps to the values its declaration
\* describes; in particular every line of the file is a record, a restore or
\* garbage, whoever wrote it.
RecordTypeOK ==
    /\ exists \in BOOLEAN /\ disk \in Stores /\ rev \in Nat
    /\ lines \in Seq(Records \cup Restores \cup {Garbage})
    /\ torn \in BOOLEAN /\ ill \in BOOLEAN /\ jam \in BOOLEAN
    /\ mode \in Modes /\ bound \in Nat
    /\ book \in [0..MaxTries -> Stores]
    /\ acked \subseteq Nat
    /\ parted \subseteq Namespaces
    /\ halved \in BOOLEAN /\ spoiled \in BOOLEAN
    /\ tries \in Nat /\ stops \in Nat /\ faults \in Nat

---------------------------------------------------------------------------
\* Reading the file.

Parsed == {i \in DOMAIN lines : lines[i] # Garbage}

RestoresAt == {i \in Parsed : lines[i].op = "Restore"}

\* Mutant: the number before any is one too low.
HighestWrapped == Max({-1} \cup {lines[i].rev : i \in Parsed})

\* scanOplog: the highest stamp in the file.
Highest == Max({0} \cup {lines[i].rev : i \in Parsed})

\* scanOplog refuses a file whose restores are not in the order of their
\* stamps: standing walks them by position.
InOrder ==
    \A i, j \in RestoresAt : i < j => lines[i].rev < lines[j].rev

Readable == Parsed = DOMAIN lines /\ InOrder

\* Mutant: the number the store stood at is not in the range.
UndoesBelow(i, n) == lines[i].to < n /\ n < lines[i].from

\* undoneBy: the range a restore undid, from its own line.
Undoes(i, n) == lines[i].to < n /\ n <= lines[i].from

\* Mutant: an undone restore still undoes.
EveryRestoreStands(b) ==
    {i \in RestoresAt : b # 0 => lines[i].rev <= b}

\* standing: latest first, a restore stamped within the bound stands unless
\* one that stands and came later undid its stamp.  A bound of 0 is no bound.
Standing(b) ==
    LET stands[i \in DOMAIN lines] ==
            /\ i \in RestoresAt
            /\ b # 0 => lines[i].rev <= b
            /\ \A j \in (i+1)..Len(lines) : stands[j] => ~Undoes(j, lines[i].rev)
    IN  {i \in RestoresAt : stands[i]}

\* The lines a replay bounded at b applies: flips and retires within the
\* bound that no standing restore undid.  Publishes and restores carry
\* nothing to apply.
Applied(b) ==
    {i \in Parsed :
        /\ lines[i].op \in {"SetFlag", "DeleteNamespace"}
        /\ b # 0 => lines[i].rev <= b
        /\ \A j \in Standing(b) : ~Undoes(j, lines[i].rev)}

\* ReplayFileTo onto a fresh store: its contents after the first i lines.
\* setFlag runs with the rules off, so nothing is refused.
Replay(b) ==
    LET applied == Applied(b)
        f[i \in 0..Len(lines)] ==
            IF i = 0 THEN EmptyStore
            ELSE IF i \in applied THEN After(f[i-1], lines[i])
            ELSE f[i-1]
    IN  f

\* Each write applied moves the fresh store's number by one.
Counted(b, i) == Cardinality(Applied(b) \cap 1..i)

---------------------------------------------------------------------------
\* Writing the file.

\* FileSink.Write: a line and its newline, behind whatever bytes are there.
Puts(r) ==
    /\ lines' = Append(lines, IF torn THEN Garbage ELSE r)
    /\ torn' = FALSE

\* What the flips recorded so far come to.
Told == book[MaxTries]

\* From number n on, the record says s.
Says(n, s) == book' = [m \in DOMAIN book |-> IF m >= n THEN s ELSE book[m]]

TellsOf(r) == IF r.op = "PublishNamespace" THEN Told ELSE After(Told, r)

Strikes(kind) ==
    /\ kind \in Faults
    /\ faults < MaxFaults
    /\ faults' = faults + 1

Init ==
    /\ exists = FALSE /\ disk = EmptyStore /\ rev = 0
    /\ lines = << >> /\ torn = FALSE /\ ill = FALSE /\ jam = FALSE
    /\ mode = "down" /\ bound = 0
    /\ book = [m \in 0..MaxTries |-> EmptyStore]
    /\ acked = {} /\ parted = {}
    /\ halved = FALSE /\ spoiled = FALSE
    /\ tries = 0 /\ stops = 0 /\ faults = 0

---------------------------------------------------------------------------
\* A write: a caller's, the boot's own declaration, which is fatal when it
\* fails, or a flip of the operator's tool while nothing serves.

Attempt(r) ==
    /\ \/ mode = "serving" /\ r \in Requests
       \/ mode = "declare" /\ r = Declaration
       \/ mode = "down" /\ exists /\ r \in Offline
    /\ ~Refused(disk[r.ns], r)
    /\ tries < MaxTries
    /\ tries' = tries + 1
    /\ rev' = rev + 1
    /\ spoiled' = (spoiled \/ halved)

\* Bytes of a line that was not finished may be in the file, unless the
\* sink's writer was already holding an error and let none through.
Tears == torn' \in IF jam THEN {torn} ELSE {torn, TRUE}

GivesUp == mode' = IF mode = "declare" THEN "down" ELSE mode

\* The write is committed, recorded and acknowledged.
Write(r) ==
    /\ Attempt(r)
    /\ ~ill /\ ~jam
    /\ disk' = After(disk, r)
    /\ Puts(RecordOf(r, rev + 1))
    /\ mode' = IF mode = "declare" THEN "serving" ELSE mode
    /\ acked' = IF mode = "serving" THEN acked \cup {rev + 1} ELSE acked
    /\ Says(rev + 1, TellsOf(r))
    /\ UNCHANGED <<exists, ill, jam, bound, parted, halved,
                   stops, faults>>

\* Mutant: the sink's writer forgets its error and keeps what it wrote.
WriteFailsUnstuck(r) ==
    /\ Attempt(r)
    /\ ill \/ jam
    /\ torn' \in {torn, TRUE}
    /\ GivesUp
    /\ UNCHANGED <<exists, disk, lines, ill, jam, bound, book, acked, parted,
                   halved, stops, faults>>

\* The file refuses the line, or the sink's writer still holds the error of
\* one it refused: the write is rolled back and keeps its number.  What
\* reached the file of the first such line stays there.
WriteFails(r) ==
    /\ Attempt(r)
    /\ ill \/ jam
    /\ jam' = (mode = "serving")
    /\ Tears
    /\ GivesUp
    /\ UNCHANGED <<exists, disk, lines, ill, bound, book, acked, parted,
                   halved, stops, faults>>

\* The line is in the file and its fsync failed: the write is rolled back
\* and recorded.
WriteUnsynced(r) ==
    /\ Strikes("fsync")
    /\ Attempt(r)
    /\ ~ill /\ ~jam
    /\ Puts(RecordOf(r, rev + 1))
    /\ GivesUp
    /\ parted' = parted \cup {r.ns}
    /\ Says(rev + 1, TellsOf(r))
    /\ UNCHANGED <<exists, disk, ill, jam, bound, acked, halved,
                   stops>>

\* The process is killed between the commit and the end of its line.
WriteDies(r) ==
    /\ Strikes("kill")
    /\ Attempt(r)
    /\ disk' = After(disk, r)
    /\ Tears
    /\ mode' = "down" /\ jam' = FALSE
    /\ parted' = parted \cup {r.ns}
    /\ UNCHANGED <<exists, lines, ill, bound, book, acked, halved,
                   stops>>

\* A stop, or a kill while nothing is being written.
Stop ==
    /\ mode \in {"serving", "declare"}
    /\ stops < MaxStops
    /\ stops' = stops + 1
    /\ mode' = "down" /\ jam' = FALSE
    /\ UNCHANGED <<store, file, ill, bound, past, tries, faults>>

MediumFails ==
    /\ Strikes("medium")
    /\ ~ill
    /\ ill' = TRUE
    /\ UNCHANGED <<store, file, process, past, tries, stops>>

MediumRecovers ==
    /\ ill
    /\ ill' = FALSE
    /\ UNCHANGED <<store, file, process, past, counts>>

\* The volume under the store is lost; the record's is another.
Wipe ==
    /\ mode = "down" /\ exists
    /\ stops < MaxStops
    /\ stops' = stops + 1
    /\ exists' = FALSE /\ disk' = EmptyStore /\ rev' = 0
    /\ parted' = {} /\ halved' = FALSE
    /\ UNCHANGED <<file, ill, process, book, acked, spoiled,
                   tries, faults>>

---------------------------------------------------------------------------
\* Boot.

\* OpenStore finds a generation: what the file holds is served as it is.
BootFound ==
    /\ mode = "down" /\ exists
    /\ mode' = "declare"
    /\ spoiled' = (spoiled \/ halved)
    /\ UNCHANGED <<store, file, ill, jam, bound, book, acked, parted,
                   halved, counts>>

\* Mutant: the healed store counts its own replay.
BootHealedUnnumbered ==
    /\ mode = "down" /\ ~exists
    /\ Readable
    /\ exists' = TRUE
    /\ disk' = Replay(0)[Len(lines)]
    /\ rev' = Counted(0, Len(lines))
    /\ mode' = "declare"
    /\ UNCHANGED <<file, ill, jam, bound, past, counts>>

\* A fresh store, healed from the file before anything is served: HealFromFile
\* replays it whole and moves the number to the highest stamp in it.  With no
\* file, or an empty one, that comes to a first boot.
BootHealed ==
    /\ mode = "down" /\ ~exists
    /\ Readable
    /\ exists' = TRUE
    /\ disk' = Replay(0)[Len(lines)]
    /\ rev' = Highest
    /\ mode' = "declare"
    /\ UNCHANGED <<file, ill, jam, bound, past, counts>>

\* A file with a line that does not parse is replayed to its end and the boot
\* is fatal; one whose restores are out of order is refused before the replay.
\* The store minted at the beginning of the boot stays.
BootRefused ==
    /\ mode = "down" /\ ~exists
    /\ ~Readable
    /\ exists' = TRUE
    /\ IF InOrder THEN /\ disk' = Replay(0)[Len(lines)]
                       /\ rev' = Counted(0, Len(lines))
                  ELSE UNCHANGED <<disk, rev>>
    /\ halved' = TRUE
    /\ UNCHANGED <<file, ill, process, book, acked, parted, spoiled,
                   counts>>

\* A replay onto a fresh store is killed, or fails, after i lines.
Halfway(b, i) ==
    /\ exists' = TRUE
    /\ disk' = Replay(b)[i]
    /\ rev' = Counted(b, i)
    /\ parted' = {} /\ halved' = TRUE
    /\ UNCHANGED <<file, ill, process, book, acked, spoiled,
                   tries, stops>>

BootKilled ==
    /\ mode = "down" /\ ~exists
    /\ Strikes("replay")
    /\ InOrder /\ lines # << >>
    /\ \E i \in 0..Len(lines) : Halfway(0, i)

---------------------------------------------------------------------------
\* flipr ctl restore, with the server stopped.

RestoreChecks(to) ==
    /\ mode = "down" /\ exists
    /\ 0 < to /\ to < rev
    /\ Readable /\ lines # << >>
    /\ to <= Highest /\ Highest <= rev

\* Mutant: the replay is not bounded.
RestoreUnbounded(to) ==
    /\ RestoreChecks(to)
    /\ tries < MaxTries
    /\ tries' = tries + 1
    /\ disk' = Replay(0)[Len(lines)]
    /\ rev' = rev + 1
    /\ mode' = "append" /\ bound' = to
    /\ parted' = {} /\ halved' = FALSE
    /\ UNCHANGED <<exists, file, ill, jam, book, acked, spoiled, stops, faults>>

\* The store is moved aside and rebuilt from the record as of revision "to",
\* under a number of its own above everything the file holds and above the
\* number the store stood at, which RestoreChecks left at least as high.
Restore(to) ==
    /\ RestoreChecks(to)
    /\ tries < MaxTries
    /\ tries' = tries + 1
    /\ disk' = Replay(to)[Len(lines)]
    /\ rev' = rev + 1
    /\ mode' = "append" /\ bound' = to
    /\ parted' = {} /\ halved' = FALSE
    /\ UNCHANGED <<exists, file, ill, jam, book, acked, spoiled, stops, faults>>

RestoreKilled(to) ==
    /\ RestoreChecks(to)
    /\ Strikes("replay")
    /\ \E i \in 0..Len(lines) : Halfway(to, i)

\* The restore's own record: the range it undid is (bound, rev - 1].
RestoreRecorded ==
    /\ mode = "append"
    /\ ~ill
    /\ Puts([op |-> "Restore", rev |-> rev, to |-> bound, from |-> rev - 1])
    /\ mode' = "down"
    /\ Says(rev, book[bound])
    /\ UNCHANGED <<store, ill, jam, bound, acked, parted, halved,
                   spoiled, counts>>

\* The record cannot be written: the store is rebuilt and the file does not
\* say so.
RestoreUnrecorded ==
    /\ mode = "append"
    /\ \/ ill /\ UNCHANGED faults
       \/ Strikes("unrecorded")
    /\ torn' \in {torn, TRUE}
    /\ mode' = "down"
    /\ parted' = Namespaces
    /\ UNCHANGED <<store, lines, ill, jam, bound, book, acked, halved,
                   spoiled, tries, stops>>

---------------------------------------------------------------------------
Serve ==
    \E r \in Requests \cup Offline \cup {Declaration} :
        Write(r) \/ WriteFails(r) \/ WriteUnsynced(r) \/ WriteDies(r)

Boot == BootFound \/ BootHealed \/ BootRefused \/ BootKilled

RestoreStep ==
    \/ \E to \in 1..rev : Restore(to) \/ RestoreKilled(to)
    \/ RestoreRecorded \/ RestoreUnrecorded

World == Stop \/ MediumFails \/ MediumRecovers \/ Wipe

Next == Serve \/ Boot \/ RestoreStep \/ World

Spec == Init /\ [][Next]_vars

---------------------------------------------------------------------------
(***************************************************************************)
(* Properties.                                                              *)
(***************************************************************************)

\* "A store healed after a restore comes back as the restore left it, and a
\* replay bounded at a revision ... is the state as of that revision,
\* exactly" (filelog.go): however restores undid each other, a replay bounded
\* at any number comes to the flips in force at that number, and an unbounded
\* one to the flips in force now.
RecordReplays ==
    (Readable /\ ~spoiled) =>
        /\ Replay(0)[Len(lines)] = Told
        /\ \A b \in 1..Highest : Replay(b)[Len(lines)] = book[b]

\* The store and the record tell the same story across heals, restores,
\* rollbacks and restarts: where no fault parted them, every flag the record
\* speaks of has the value it says, and a flag it does not speak of is there
\* only because it was declared.
StoreHoldsTheRecord ==
    (exists /\ ~halved /\ ~spoiled /\ mode # "append") =>
        \A n \in Namespaces \ parted, k \in Keys :
            LET said == Bucket(Told[n])[k]
                held == Bucket(disk[n])[k]
            IN  /\ said # NoFlag => held # NoFlag /\ held.value = said.value
                /\ said = NoFlag /\ held # NoFlag => held.meta # NoMeta

\* "A number names one record forever" (filelog.go): stamps increase along
\* the file and the store's number is never below one of them, through heals,
\* restores, rolled-back writes and lines lost to a torn tail.
NumbersNameOneRecord ==
    ~spoiled =>
        /\ \A i, j \in Parsed : i < j => lines[i].rev < lines[j].rev
        /\ (exists /\ ~halved) => Highest <= rev

\* "A kill -9 after the answer loses nothing" (filelog.go): the line of a
\* write the server answered parses, whatever bytes a kill or a full disk left
\* in the file before it.
AcknowledgedIsReadable ==
    \A n \in acked : \E i \in Parsed : lines[i].rev = n

\* "The way back is another restore" (ctl.go): a restore to the number an
\* earlier one left brings back what stood before it, other restores in
\* between or not.  Once a half-replayed store was served its numbers are
\* given out twice, and the number an earlier restore left may name another
\* record.
WayBack ==
    ~spoiled =>
        \A i, j \in RestoresAt :
            (i < j /\ lines[j].to = lines[i].from) =>
                Replay(lines[j].rev)[Len(lines)]
                    = Replay(lines[i].from)[Len(lines)]

---------------------------------------------------------------------------
(***************************************************************************)
(* What the sources say and the code does not do.                           *)
(***************************************************************************)

\* filelog.go on eachRecord: "A final line without its newline is a process
\* that died mid-write, not a record: ignored".  Whatever was left at the end
\* of the file, every line in it parses.
TornTailIsIgnored == Parsed = DOMAIN lines

\* main.go: a replay that fails is fatal, "refusing to serve a half-restored
\* store".
HalfStoreIsNotServed == mode = "serving" => ~halved
=============================================================================
