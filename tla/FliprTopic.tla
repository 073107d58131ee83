----------------------------- MODULE FliprTopic -----------------------------
(***************************************************************************)
(* The operation record beside its Kafka mirror (kafka.go, the TeeSink of   *)
(* filelog.go) and the boot that chooses which of the two a fresh store is  *)
(* healed from (main.go), over FliprRecord's file, store and process.       *)
(*                                                                         *)
(* A process records to the topic alone, to the file and then the topic, or *)
(* to the file alone, and deployments move along that line: the file was    *)
(* added beside the topic and the brokers are to be dropped.  The broker is *)
(* another program: a publish it did not acknowledge in time may have       *)
(* landed, may land later, or never; retention may remove the oldest        *)
(* records.  The topic has one partition; an offset counts the records      *)
(* before it.  The offline restore knows no topic and stays in FliprRecord. *)
(***************************************************************************)
EXTENDS FliprRecord

CONSTANTS
    Slips,      \* the kinds of trouble with the broker that may come up
    MaxSlips,   \* bound: troubles in one behaviour
    Stall,      \* replayStall, in polls that bring nothing
    Grace       \* replayBase, in polls that bring nothing

ASSUME TopicBounds == MaxSlips \in Nat /\ Stall \in Nat /\ Grace \in Nat

VARIABLES
    sink,      \* where the process records
    source,    \* what its store came from
    topic,     \* every record that landed, oldest first
    base,      \* the start offset: retention removed the records before it
    late,      \* publishes given up that may still land
    phase,     \* where the boot's replay of the topic stands
    target,    \* replay: the end offset, read once
    from,      \* replay: the start offset, read once
    at,        \* replay: the next offset
    skipped,   \* replay: a record could not be parsed
    quiet,     \* replay: polls since a record came
    spent,     \* replay: polls that brought nothing
    gaps,      \* history: namespaces of which the topic tells another story
    apart,     \* history: a process ran without the file, or it was lost
    slips      \* counted against the bound

broker    == <<topic, base, late>>
progress  == <<target, from, at, skipped, quiet, spent>>
topicVars == <<sink, source, broker, phase, progress, gaps, apart, slips>>
tvars     == <<vars, topicVars>>

Sinks == {"topic", "tee", "file"}

SlipKinds == {"publish", "kill", "retention", "foreign", "broker"}

\* TopicTypeOK: the topic holds records of flips, publishes and retires, or
\* what does not parse, and a replay's offsets are numbers.
TopicTypeOK ==
    /\ RecordTypeOK
    /\ sink \in Sinks /\ source \in {"found", "file", "topic"}
    /\ topic \in Seq(Records \cup {Garbage})
    /\ base \in Nat /\ late \subseteq Records
    /\ phase \in {"off", "ends", "starts", "polling", "done"}
    /\ target \in Nat /\ from \in Nat /\ at \in Nat
    /\ skipped \in BOOLEAN /\ quiet \in Nat /\ spent \in Nat
    /\ gaps \subseteq Namespaces /\ apart \in BOOLEAN /\ slips \in Nat

TopicInit ==
    /\ Init
    /\ sink = "topic" /\ source = "found"
    /\ topic = << >> /\ base = 0 /\ late = {}
    /\ phase = "off" /\ target = 0 /\ from = 0 /\ at = 0
    /\ skipped = FALSE /\ quiet = 0 /\ spent = 0
    /\ gaps = {} /\ apart = FALSE /\ slips = 0

Slipped(kind) ==
    /\ kind \in Slips
    /\ slips < MaxSlips
    /\ slips' = slips + 1

---------------------------------------------------------------------------
\* Writing.  What a process does with the file is FliprRecord's; here is
\* what becomes of the topic.

OverFile == phase = "off" /\ (mode = "down" \/ sink # "topic")
OverTee  == mode # "down" /\ sink = "tee"
OverTopic == mode # "down" /\ sink = "topic"

Lands(r) == topic' = Append(topic, r)

\* The namespaces of which something was told, and the topic was not.
Retold == {n \in Namespaces : Told'[n] # Told[n]}

\* The publish was not acknowledged within its six seconds: it landed, or it
\* may land, or it is gone.
Unacknowledged(r) ==
    \/ Lands(r) /\ UNCHANGED late
    \/ late' = late \cup {r} /\ UNCHANGED topic
    \/ UNCHANGED <<topic, late>>

Elsewhere == UNCHANGED <<sink, source, base, phase, progress, apart>>

\* Mutant: the mirror is written before the file.
TeeWriteMirrorFirst(r) ==
    /\ OverTee
    /\ Write(r) \/ WriteFails(r)
    /\ Lands(RecordOf(r, rev + 1))
    /\ UNCHANGED <<late, gaps, slips>> /\ Elsewhere

\* TeeSink.Write: the file first, then the mirror.
TeeWrite(r) ==
    /\ OverTee
    /\ Write(r)
    /\ Lands(RecordOf(r, rev + 1))
    /\ UNCHANGED <<late, gaps, slips>> /\ Elsewhere

\* The mirror's failure is counted and never returned.
MirrorFails(r) ==
    /\ OverTee
    /\ Slipped("publish")
    /\ Write(r)
    /\ Unacknowledged(RecordOf(r, rev + 1))
    /\ gaps' = gaps \cup {r.ns}
    /\ Elsewhere

\* The file refuses, and the mirror is not asked; or there is no mirror, as
\* for every flip of the operator's tool.
FileWrite(r) ==
    /\ OverFile
    /\ \/ ~OverTee /\ Write(r)
       \/ WriteFails(r) \/ WriteUnsynced(r) \/ WriteDies(r)
    /\ gaps' = gaps \cup Retold
    /\ UNCHANGED <<topic, late, slips>> /\ Elsewhere

\* KafkaSink.Write as the only sink, acknowledged by the broker.
TopicWrite(r) ==
    /\ OverTopic
    /\ Attempt(r)
    /\ disk' = After(disk, r)
    /\ Lands(RecordOf(r, rev + 1))
    /\ mode' = IF mode = "declare" THEN "serving" ELSE mode
    /\ acked' = IF mode = "serving" THEN acked \cup {rev + 1} ELSE acked
    /\ Says(rev + 1, TellsOf(r))
    /\ UNCHANGED <<exists, file, ill, jam, bound, parted, halved, stops, faults>>
    /\ UNCHANGED <<late, gaps, slips>> /\ Elsewhere

\* The publish fails or is given up, and the write is rolled back.
TopicWriteFails(r) ==
    /\ OverTopic
    /\ Slipped("publish")
    /\ Attempt(r)
    /\ Unacknowledged(RecordOf(r, rev + 1))
    /\ gaps' = IF topic' = topic THEN gaps ELSE gaps \cup {r.ns}
    /\ GivesUp
    /\ UNCHANGED <<exists, disk, file, ill, jam, bound, book, acked, parted,
                   halved, stops, faults>>
    /\ Elsewhere

\* The process is killed between the commit and the broker's word.
TopicWriteDies(r) ==
    /\ OverTopic
    /\ Slipped("kill")
    /\ Attempt(r)
    /\ disk' = After(disk, r)
    /\ Unacknowledged(RecordOf(r, rev + 1))
    /\ gaps' = IF topic' = topic THEN gaps ELSE gaps \cup {r.ns}
    /\ mode' = "down"
    /\ parted' = parted \cup {r.ns}
    /\ UNCHANGED <<exists, file, ill, jam, bound, book, acked, halved, stops,
                   faults>>
    /\ Elsewhere

---------------------------------------------------------------------------
\* The broker.

LateLands ==
    /\ \E r \in late :
        /\ Lands(r)
        /\ late' = late \ {r}
        /\ gaps' = gaps \cup {r.ns}
    /\ UNCHANGED <<vars, slips>> /\ Elsewhere

Retention ==
    /\ Slipped("retention")
    /\ base' \in (base + 1)..Len(topic)
    /\ UNCHANGED <<vars, sink, source, topic, late, phase, progress, gaps, apart>>

\* Something else wrote to the topic.
ForeignRecord ==
    /\ Slipped("foreign")
    /\ Lands(Garbage)
    /\ UNCHANGED <<vars, late, gaps>> /\ Elsewhere

\* The store's volume is lost, and the record beside it.
VolumeLost ==
    /\ phase = "off" /\ mode = "down" /\ exists
    /\ stops < MaxStops
    /\ stops' = stops + 1
    /\ exists' = FALSE /\ disk' = EmptyStore /\ rev' = 0
    /\ lines' = << >> /\ torn' = FALSE
    /\ parted' = {} /\ halved' = FALSE
    /\ apart' = TRUE
    /\ UNCHANGED <<ill, process, book, acked, spoiled, tries, faults>>
    /\ UNCHANGED <<sink, source, broker, phase, progress, gaps, slips>>

---------------------------------------------------------------------------
\* Boot: the deployment, and the source of a fresh store.

Deploys(s) ==
    /\ phase = "off" /\ mode = "down"
    /\ sink = "topic" \/ s = "file" \/ s = sink
    /\ sink' = s
    /\ apart' = (apart \/ s = "topic")

\* os.Stat: the file exists and is not empty.
FileHolds == lines # << >> \/ torn

NoTopic == UNCHANGED <<broker, phase, progress, gaps, slips>>

\* The store has a generation: nothing is replayed.
StartFound(s) ==
    /\ Deploys(s)
    /\ BootFound
    /\ source' = "found"
    /\ NoTopic

\* The file is configured and holds something, or there is no topic to ask.
StartFromFile(s) ==
    /\ Deploys(s)
    /\ s = "file" \/ (s = "tee" /\ FileHolds)
    /\ BootHealed \/ BootRefused \/ BootKilled
    /\ source' = "file"
    /\ NoTopic

\* NewKafkaSink fails, which is fatal: the generation is committed already.
SinkRefused(s) ==
    /\ Deploys(s) /\ s # "file"
    /\ Slipped("broker")
    /\ ~exists
    /\ exists' = TRUE /\ halved' = TRUE
    /\ UNCHANGED <<disk, rev, file, ill, process, book, acked, parted,
                   spoiled, counts>>
    /\ UNCHANGED <<source, broker, phase, progress, gaps>>

\* The topic is replayed onto the store just minted.
StartFromTopic(s) ==
    /\ Deploys(s)
    /\ s = "topic" \/ (s = "tee" /\ ~FileHolds)
    /\ ~exists
    /\ exists' = TRUE /\ halved' = TRUE
    /\ phase' = "ends"
    /\ source' = "topic"
    /\ UNCHANGED <<disk, rev, file, ill, process, book, acked, parted,
                   spoiled, counts>>
    /\ UNCHANGED <<broker, progress, gaps, slips>>

---------------------------------------------------------------------------
\* Replay.

Replaying == UNCHANGED <<sink, source, broker, gaps, apart>>

\* replayBounds asks for the end offset, then for the start offset.
ReadEnds ==
    /\ phase = "ends"
    /\ phase' = "starts"
    /\ target' = Len(topic)
    /\ UNCHANGED <<vars, from, at, skipped, quiet, spent, slips>> /\ Replaying

\* Mutant: the first offset expected is one too low.
ReadStartsBelow ==
    /\ phase = "starts"
    /\ phase' = IF target = base THEN "done" ELSE "polling"
    /\ from' = base /\ at' = base - 1
    /\ UNCHANGED <<vars, target, skipped, quiet, spent, slips>> /\ Replaying

ReadStarts ==
    /\ phase = "starts"
    /\ phase' = IF target = base THEN "done" ELSE "polling"
    /\ from' = base /\ at' = base
    /\ UNCHANGED <<vars, target, skipped, quiet, spent, slips>> /\ Replaying

\* replayDeadline: the base, and an allowance per record, a poll's worth here.
Deadline == Grace + (target - from)

Expired == quiet > Stall \/ spent > Deadline

\* Mutant: deletes are not replayed.
AppliesFlips(r) == r # Garbage /\ r.op = "SetFlag"

\* A flip or a retire is applied; a publish carries nothing to restore.
Applies(r) == r # Garbage /\ r.op # "PublishNamespace"

\* The next record the broker still has.  A fetch brings a run of them, which
\* may go past the end offset.
Fetch ==
    /\ phase = "polling" /\ ~Expired
    /\ at < target \/ at > from
    /\ LET i == 1 + IF base > at THEN base ELSE at
       IN  /\ i <= Len(topic)
           /\ at' = i
           /\ skipped' = (skipped \/ topic[i] = Garbage)
           /\ IF Applies(topic[i])
              THEN disk' = After(disk, topic[i]) /\ rev' = rev + 1
              ELSE UNCHANGED <<disk, rev>>
    /\ quiet' = 0
    /\ UNCHANGED <<exists, file, ill, process, past, counts>>
    /\ UNCHANGED <<phase, target, from, spent, slips>> /\ Replaying

\* Mutant: a poll that brought nothing starts the clocks again.
EmptyPollUncounted ==
    /\ phase = "polling" /\ ~Expired
    /\ at < target
    /\ quiet' = 0 /\ spent' = 0
    /\ UNCHANGED <<vars, phase, target, from, at, skipped, slips>> /\ Replaying

\* PollFetches comes back empty after its second.
EmptyPoll ==
    /\ phase = "polling" /\ ~Expired
    /\ at < target
    /\ quiet' = quiet + 1 /\ spent' = spent + 1
    /\ UNCHANGED <<vars, phase, target, from, at, skipped, slips>> /\ Replaying

\* Fatal: the process is gone, and the store it minted stays as it is.
GoesDown ==
    /\ phase' = "off"
    /\ target' = 0 /\ from' = 0 /\ at' = 0
    /\ skipped' = FALSE /\ quiet' = 0 /\ spent' = 0
    /\ UNCHANGED vars /\ Replaying

\* Out of time, stalled, or at the end with a record skipped.
ReplayRefused ==
    /\ phase = "polling"
    /\ IF at < target THEN Expired ELSE skipped
    /\ GoesDown
    /\ UNCHANGED slips

\* The broker answers with an error, or the process is killed.
ReplayDies ==
    /\ phase # "off"
    /\ Slipped("broker")
    /\ GoesDown

\* Mutant: a poll that brought nothing is taken for the end.
CaughtUpWhenQuiet ==
    /\ phase = "polling"
    /\ at >= target \/ quiet > 0
    /\ ~skipped
    /\ phase' = "done"
    /\ UNCHANGED <<vars, progress, slips>> /\ Replaying

\* replayCaughtUp, and nothing was skipped.
CaughtUp ==
    /\ phase = "polling"
    /\ at >= target
    /\ ~skipped
    /\ phase' = "done"
    /\ UNCHANGED <<vars, progress, slips>> /\ Replaying

\* Replay returns to main, which goes on to its declaration.
Restored ==
    /\ phase = "done"
    /\ phase' = "off"
    /\ target' = 0 /\ from' = 0 /\ at' = 0
    /\ skipped' = FALSE /\ quiet' = 0 /\ spent' = 0
    /\ mode' = "declare" /\ halved' = FALSE
    /\ UNCHANGED <<store, file, ill, jam, bound, book, acked, parted, spoiled,
                   counts, slips>>
    /\ Replaying

---------------------------------------------------------------------------
TopicServe ==
    \E r \in Requests \cup Offline \cup {Declaration} :
        \/ TeeWrite(r) \/ MirrorFails(r) \/ FileWrite(r)
        \/ TopicWrite(r) \/ TopicWriteFails(r) \/ TopicWriteDies(r)

TopicBoot ==
    \E s \in Sinks :
        StartFound(s) \/ StartFromFile(s) \/ SinkRefused(s) \/ StartFromTopic(s)

\* What a replay does of its own accord; records come when the broker likes.
ReplayStep == ReadEnds \/ ReadStarts \/ EmptyPoll \/ ReplayRefused
              \/ CaughtUp \/ Restored

Broker == LateLands \/ Retention \/ ForeignRecord

Machine ==
    /\ Stop \/ MediumFails \/ MediumRecovers \/ (phase = "off" /\ Wipe)
    /\ UNCHANGED topicVars

TopicNext == TopicServe \/ TopicBoot \/ ReplayStep \/ Fetch \/ ReplayDies
             \/ Broker \/ Machine \/ VolumeLost

TopicSpec == TopicInit /\ [][TopicNext]_tvars

\* A poll gives up after its second, so the loop comes round.  The broker owes
\* nothing.
TopicFairSpec == TopicSpec /\ WF_tvars(ReplayStep)

---------------------------------------------------------------------------
(***************************************************************************)
(* Properties.                                                              *)
(***************************************************************************)

\* The last flips of key k in namespace n among records from+1..at.
Overrides(r, n, k) ==
    /\ r # Garbage /\ r.op # "PublishNamespace" /\ r.ns = n
    /\ r.op = "SetFlag" => r.key = k

LastFlips(n, k) ==
    {i \in (from + 1)..at :
        /\ Overrides(topic[i], n, k) /\ topic[i].op = "SetFlag"
        /\ \A j \in (i + 1)..at : ~Overrides(topic[j], n, k)}

\* The flag is what the last flip of it says, and is there only because of one.
SaysTheLast(n, k) ==
    LET held == Bucket(disk[n])[k]
    IN  /\ \A i \in LastFlips(n, k) :
              held # NoFlag /\ held.value = topic[i].value
        /\ LastFlips(n, k) = {} => held = NoFlag

\* kafka.go on Replay: it never "report[s] success with nothing restored" to a
\* slow broker, nor with "fewer flips than the log holds".  A replay that
\* succeeds has read to the end offset, and every flag is what those records
\* say, unless retention overtook the replay.
TopicIsRestored ==
    (phase = "done" /\ base <= from) =>
        /\ at >= target
        /\ \A n \in Namespaces, k \in Keys : SaysTheLast(n, k)

\* "The replay source that makes a store wipe cost nothing" (kafka.go): on
\* every namespace of which the topic missed nothing and got nothing that was
\* answered as failed, a store healed from it is what callers were told.
TopicKeepsTold ==
    (phase = "done" /\ base = 0) =>
        \A n \in Namespaces \ gaps : disk[n] = Told[n]

\* TeeSink: "the file is the record".  The topic holds no flip or retire that
\* the file does not, so losing the one for the other brings back nothing a
\* caller was told had failed.
MirrorIsRecorded ==
    ~apart => \A i \in DOMAIN topic :
                 Applies(topic[i]) => \E j \in DOMAIN lines : lines[j] = topic[i]

\* A boot that replays the topic ends, whatever the broker does: restored, or
\* refused by the stall or the deadline.
ReplayEnds == (phase # "off") ~> (phase = "off")

=============================================================================
