------------------------- MODULE FliprTopic_proofs -------------------------
(***************************************************************************)
(* Theorems about FliprTopic, for any services, keys, values, requests,     *)
(* faults, troubles with the broker and bounds.                             *)
(***************************************************************************)
EXTENDS FliprTopic, FliprRecord_proofs

---------------------------------------------------------------------------
(***************************************************************************)
(* Types.                                                                   *)
(***************************************************************************)

\* What FliprRecord's writes do keeps its types, whatever wrote the store.
LEMMA WritesKeepTypes ==
    ASSUME RecordTypeOK, NEW r \in Requests \cup Offline \cup {Declaration},
           Write(r) \/ WriteFails(r) \/ WriteUnsynced(r) \/ WriteDies(r)
    PROVE  RecordTypeOK'
<1>1. Attempt(r)
  BY DEF Write, WriteFails, WriteUnsynced, WriteDies
<1>2. /\ After(disk, r) \in Stores /\ TellsOf(r) \in Stores
      /\ RecordOf(r, rev + 1) \in Records
      /\ tries' \in Nat /\ rev' \in Nat /\ rev + 1 \in Nat
      /\ spoiled' \in BOOLEAN
  BY <1>1, AttemptType
<1>3. ASSUME Puts(RecordOf(r, rev + 1)), Says(rev + 1, TellsOf(r))
      PROVE  /\ lines' \in Seq(Records \cup Restores \cup {Garbage})
             /\ torn' \in BOOLEAN
             /\ book' \in [0..MaxTries -> Stores]
  <2>1. lines \in Seq(Lines) /\ book \in [0..MaxTries -> Stores]
    BY DEF RecordTypeOK, Lines
  <2>2. book' \in [0..MaxTries -> Stores]
    BY <1>2, <1>3, <2>1, SaysType
  <2>3. lines' \in Seq(Lines) /\ torn' = FALSE
    BY <1>2, <1>3, <2>1, PutsDef
  <2> QED BY <2>2, <2>3 DEF Lines
<1>4. CASE Write(r)
  <2>1. Puts(RecordOf(r, rev + 1)) /\ Says(rev + 1, TellsOf(r))
    BY <1>4 DEF Write
  <2> QED BY <1>2, <1>3, <1>4, <2>1 DEF RecordTypeOK, Write, Modes
<1>5. CASE WriteFails(r)
  BY <1>2, <1>5 DEF RecordTypeOK, WriteFails, Tears, GivesUp, Modes
<1>6. CASE WriteUnsynced(r)
  <2>1. Puts(RecordOf(r, rev + 1)) /\ Says(rev + 1, TellsOf(r))
    BY <1>6 DEF WriteUnsynced
  <2>2. r.ns \in Namespaces
    BY <1>1, AttemptType
  <2> QED BY <1>2, <1>3, <1>6, <2>1, <2>2
      DEF RecordTypeOK, WriteUnsynced, GivesUp, Strikes, Modes
<1>7. CASE WriteDies(r)
  <2>1. r.ns \in Namespaces
    BY <1>1, AttemptType
  <2>2. torn' \in BOOLEAN
    BY <1>7 DEF RecordTypeOK, WriteDies, Tears
  <2>3. faults' \in Nat /\ parted' \subseteq Namespaces /\ mode' \in Modes
    BY <1>7, <2>1 DEF RecordTypeOK, WriteDies, Strikes, Modes
  <2> QED BY <1>2, <1>7, <2>2, <2>3 DEF RecordTypeOK, WriteDies
<1> QED BY <1>4, <1>5, <1>6, <1>7

\* So does every boot from the file.
LEMMA BootsKeepTypes == RecordTypeOK /\ Boot => RecordTypeOK'
<1> SUFFICES ASSUME RecordTypeOK, Boot PROVE RecordTypeOK'
  OBVIOUS
<1>1. lines \in Seq(Lines) /\ Len(lines) \in 0..Len(lines)
  BY DEF RecordTypeOK, Lines
<1>2. /\ Highest \in Nat
      /\ \A i \in 0..Len(lines) : Replay(0)[i] \in Stores /\ Counted(0, i) \in Nat
  <2>1. Highest \in Nat
    BY <1>1, HighestDef
  <2>2. \A i \in 0..Len(lines) : Replay(0)[i] \in Stores
    BY <1>1, ReplayDef DEF Replays
  <2>3. ASSUME NEW i \in 0..Len(lines) PROVE Counted(0, i) \in Nat
    <3>1. Counted(0, i) \in 0..i
      BY <1>1, CountedType
    <3> QED BY <3>1
  <2> QED BY <2>1, <2>2, <2>3
<1>3. CASE BootFound
  BY <1>3 DEF BootFound, RecordTypeOK, Modes, store, file, counts
<1>4. CASE BootHealed
  BY <1>1, <1>2, <1>4 DEF BootHealed, RecordTypeOK, Modes, file, past, counts
<1>5. CASE BootRefused
  BY <1>1, <1>2, <1>5 DEF BootRefused, RecordTypeOK, file, process, counts
<1>6. CASE BootKilled
  <2>1. PICK i \in 0..Len(lines) : Halfway(0, i)
    BY <1>6 DEF BootKilled
  <2>2. faults' \in Nat
    BY <1>6 DEF BootKilled, Strikes, RecordTypeOK
  <2> QED BY <1>2, <2>1, <2>2 DEF Halfway, RecordTypeOK, file, process
<1> QED BY <1>3, <1>4, <1>5, <1>6 DEF Boot

\* And what befalls the machine.
LEMMA WorldKeepsTypes == RecordTypeOK /\ World => RecordTypeOK'
<1> SUFFICES ASSUME RecordTypeOK, World PROVE RecordTypeOK'
  OBVIOUS
<1>1. EmptyStore \in Stores
  BY DEF EmptyStore, Stores
<1>2. CASE Stop
  <2>1. stops' \in Nat
    BY <1>2 DEF Stop, RecordTypeOK
  <2> QED BY <1>2, <2>1 DEF Stop, RecordTypeOK, Modes, store, file, past
<1>3. CASE MediumFails
  BY <1>3 DEF MediumFails, Strikes, RecordTypeOK, store, file, process, past
<1>4. CASE MediumRecovers
  BY <1>4 DEF MediumRecovers, RecordTypeOK, store, file, process, past, counts
<1>5. CASE Wipe
  <2>1. stops' \in Nat
    BY <1>5 DEF Wipe, RecordTypeOK
  <2> QED BY <1>1, <1>5, <2>1 DEF Wipe, RecordTypeOK, file, process
<1> QED BY <1>2, <1>3, <1>4, <1>5 DEF World

\* The broker's part of the types.
BrokerTypeOK ==
    /\ sink \in Sinks /\ source \in {"found", "file", "topic"}
    /\ topic \in Seq(Records \cup {Garbage})
    /\ base \in Nat /\ late \subseteq Records
    /\ phase \in {"off", "ends", "starts", "polling", "done"}
    /\ target \in Nat /\ from \in Nat /\ at \in Nat
    /\ skipped \in BOOLEAN /\ quiet \in Nat /\ spent \in Nat
    /\ gaps \subseteq Namespaces /\ apart \in BOOLEAN /\ slips \in Nat

LEMMA TopicTypes == TopicTypeOK <=> RecordTypeOK /\ BrokerTypeOK
BY DEF TopicTypeOK, BrokerTypeOK

\* What a publish that is not acknowledged may leave on the broker.
LEMMA UnacknowledgedType ==
    ASSUME BrokerTypeOK, NEW r \in Records,
           Unacknowledged(r) \/ (Lands(r) /\ UNCHANGED late)
    PROVE  topic' \in Seq(Records \cup {Garbage}) /\ late' \subseteq Records
BY DEF BrokerTypeOK, Unacknowledged, Lands

LEMMA TopicInitType == TopicInit => TopicTypeOK
<1> SUFFICES ASSUME TopicInit PROVE TopicTypeOK
  OBVIOUS
<1>1. RecordTypeOK
  BY RecordInvInit DEF TopicInit, RecordInv
<1>2. << >> \in Seq(Records \cup {Garbage}) /\ 0 \in Nat
  OBVIOUS
<1>3. BrokerTypeOK
  BY <1>2 DEF TopicInit, BrokerTypeOK, Sinks
<1> QED BY <1>1, <1>3, TopicTypes

\* The steps of FliprRecord that leave a store to the broker, or take it away.
LEMMA TopicWritesKeepTypes ==
    ASSUME RecordTypeOK, NEW r \in Requests \cup Offline \cup {Declaration},
           TopicWrite(r) \/ TopicWriteFails(r) \/ TopicWriteDies(r)
    PROVE  RecordTypeOK'
<1>1. Attempt(r)
  BY DEF TopicWrite, TopicWriteFails, TopicWriteDies
<1>2. /\ r.ns \in Namespaces
      /\ After(disk, r) \in Stores /\ TellsOf(r) \in Stores
      /\ tries' \in Nat /\ rev' \in Nat /\ rev + 1 \in Nat
      /\ spoiled' \in BOOLEAN
  BY <1>1, AttemptType
<1>3. CASE TopicWrite(r)
  <2>1. book' \in [0..MaxTries -> Stores]
    BY <1>2, <1>3, SaysType DEF TopicWrite, RecordTypeOK
  <2>2. acked' \subseteq Nat /\ mode' \in Modes
    BY <1>2, <1>3 DEF TopicWrite, RecordTypeOK, Modes
  <2> QED BY <1>2, <1>3, <2>1, <2>2 DEF RecordTypeOK, TopicWrite, file
<1>4. CASE TopicWriteFails(r)
  <2>1. mode' \in Modes
    BY <1>4 DEF TopicWriteFails, GivesUp, RecordTypeOK, Modes
  <2> QED BY <1>2, <1>4, <2>1 DEF RecordTypeOK, TopicWriteFails, file
<1>5. CASE TopicWriteDies(r)
  <2>1. parted' \subseteq Namespaces
    BY <1>2, <1>5 DEF TopicWriteDies, RecordTypeOK
  <2> QED BY <1>2, <1>5, <2>1 DEF RecordTypeOK, TopicWriteDies, Modes, file
<1> QED BY <1>3, <1>4, <1>5

\* A record applied keeps a store a store.
LEMMA AppliesType ==
    ASSUME NEW r \in Records \cup {Garbage}, Applies(r), NEW s \in Stores
    PROVE  /\ r \in Records /\ r.ns \in Namespaces
           /\ r.op \in {"SetFlag", "DeleteNamespace"}
           /\ After(s, r) \in Stores
<1>1. r \in Records /\ r.ns \in Namespaces
  BY DEF Applies, Records
<1>2. /\ r.op \in {"SetFlag", "DeleteNamespace"}
      /\ r.op = "SetFlag" => r.key \in Keys /\ r.value \in Values \cup {NoValue}
  BY <1>1 DEF Applies, Records
<1> QED BY <1>1, <1>2, LineType

\* The next record is one the topic has, at or behind the replay's offset.
LEMMA FetchDef ==
    ASSUME BrokerTypeOK, Fetch
    PROVE  /\ at' \in 1..Len(topic) /\ at' \in Nat
           /\ topic[at'] \in Records \cup {Garbage}
           /\ base <= at => at' = at + 1
<1>1. at \in Nat /\ base \in Nat /\ topic \in Seq(Records \cup {Garbage})
  BY DEF BrokerTypeOK
<1>2. /\ at' = 1 + IF base > at THEN base ELSE at
      /\ at' <= Len(topic)
  BY DEF Fetch
<1>3. at' \in 1..Len(topic)
  BY <1>1, <1>2
<1> QED BY <1>1, <1>2, <1>3

LEMMA TopicTypeNext == TopicTypeOK /\ [TopicNext]_tvars => TopicTypeOK'
<1> SUFFICES ASSUME RecordTypeOK, BrokerTypeOK, [TopicNext]_tvars
             PROVE  RecordTypeOK' /\ BrokerTypeOK'
  BY TopicTypes, PTL
<1> USE TopicBounds
<1>1. ASSUME NEW r \in Requests \cup Offline \cup {Declaration}, Attempt(r)
      PROVE  /\ RecordOf(r, rev + 1) \in Records
             /\ gaps \cup {r.ns} \subseteq Namespaces
             /\ gaps \cup Retold \subseteq Namespaces
  BY <1>1, AttemptType DEF BrokerTypeOK, Retold
<1>2. ASSUME NEW r \in Requests \cup Offline \cup {Declaration},
             TeeWrite(r) \/ MirrorFails(r) \/ FileWrite(r)
      PROVE  RecordTypeOK' /\ BrokerTypeOK'
  <2>1. Write(r) \/ WriteFails(r) \/ WriteUnsynced(r) \/ WriteDies(r)
    BY <1>2 DEF TeeWrite, MirrorFails, FileWrite
  <2>2. Attempt(r)
    BY <2>1 DEF Write, WriteFails, WriteUnsynced, WriteDies
  <2>3. topic' \in Seq(Records \cup {Garbage}) /\ late' \subseteq Records
    <3>1. CASE FileWrite(r)
      BY <3>1 DEF FileWrite, BrokerTypeOK
    <3>2. CASE ~FileWrite(r)
      BY <1>1, <1>2, <2>2, <3>2, UnacknowledgedType DEF TeeWrite, MirrorFails
    <3> QED BY <3>1, <3>2
  <2>4. gaps' \subseteq Namespaces /\ slips' \in Nat
    BY <1>1, <1>2, <2>2
    DEF TeeWrite, MirrorFails, FileWrite, Slipped, BrokerTypeOK
  <2>5. BrokerTypeOK'
    BY <1>2, <2>3, <2>4
    DEF TeeWrite, MirrorFails, FileWrite, Elsewhere, progress, BrokerTypeOK
  <2> QED BY <2>1, <2>5, WritesKeepTypes
<1>3. ASSUME NEW r \in Requests \cup Offline \cup {Declaration},
             TopicWrite(r) \/ TopicWriteFails(r) \/ TopicWriteDies(r)
      PROVE  RecordTypeOK' /\ BrokerTypeOK'
  <2>1. Attempt(r)
    BY <1>3 DEF TopicWrite, TopicWriteFails, TopicWriteDies
  <2>2. topic' \in Seq(Records \cup {Garbage}) /\ late' \subseteq Records
    BY <1>1, <1>3, <2>1, UnacknowledgedType
    DEF TopicWrite, TopicWriteFails, TopicWriteDies
  <2>3. gaps' \subseteq Namespaces /\ slips' \in Nat
    BY <1>1, <1>3, <2>1
    DEF TopicWrite, TopicWriteFails, TopicWriteDies, Slipped, BrokerTypeOK
  <2>4. BrokerTypeOK'
    BY <1>3, <2>2, <2>3
    DEF TopicWrite, TopicWriteFails, TopicWriteDies, Elsewhere, progress,
        BrokerTypeOK
  <2> QED BY <1>3, <2>4, TopicWritesKeepTypes
<1>4. CASE Broker
  <2>1. RecordTypeOK'
    BY <1>4 DEF Broker, LateLands, Retention, ForeignRecord, RecordTypeOK, vars,
                store, file, process, past, counts
  <2>2. CASE LateLands
    <3>1. PICK r \in late : Lands(r) /\ late' = late \ {r} /\ gaps' = gaps \cup {r.ns}
      BY <2>2 DEF LateLands
    <3>2. r \in Records /\ r.ns \in Namespaces
      BY DEF BrokerTypeOK, Records
    <3>3. topic' \in Seq(Records \cup {Garbage})
      BY <3>1, <3>2 DEF Lands, BrokerTypeOK
    <3>4. BrokerTypeOK'
      BY <2>2, <3>1, <3>2, <3>3 DEF LateLands, Elsewhere, progress, BrokerTypeOK
    <3> QED BY <2>1, <3>4
  <2>3. CASE Retention
    <3>1. base' \in Nat /\ slips' \in Nat
      BY <2>3 DEF Retention, Slipped, BrokerTypeOK
    <3>2. BrokerTypeOK'
      BY <2>3, <3>1 DEF Retention, progress, BrokerTypeOK
    <3> QED BY <2>1, <3>2
  <2>4. CASE ForeignRecord
    <3>1. topic' \in Seq(Records \cup {Garbage}) /\ slips' \in Nat
      BY <2>4 DEF ForeignRecord, Slipped, Lands, BrokerTypeOK
    <3>2. BrokerTypeOK'
      BY <2>4, <3>1 DEF ForeignRecord, Elsewhere, progress, BrokerTypeOK
    <3> QED BY <2>1, <3>2
  <2> QED BY <1>4, <2>2, <2>3, <2>4 DEF Broker
<1>5. CASE Machine
  <2>1. World
    BY <1>5 DEF Machine, World
  <2>2. BrokerTypeOK'
    BY <1>5 DEF Machine, topicVars, broker, progress, BrokerTypeOK
  <2> QED BY <2>1, <2>2, WorldKeepsTypes
<1>6. CASE VolumeLost
  <2>1. EmptyStore \in Stores /\ << >> \in Seq(Records \cup Restores \cup {Garbage})
    BY DEF EmptyStore, Stores
  <2>2. stops' \in Nat
    BY <1>6 DEF VolumeLost, RecordTypeOK
  <2>3. RecordTypeOK'
    BY <1>6, <2>1, <2>2 DEF VolumeLost, RecordTypeOK, process
  <2> QED BY <1>6, <2>3 DEF VolumeLost, broker, progress, BrokerTypeOK
<1>7. ASSUME NEW s \in Sinks, StartFound(s) \/ StartFromFile(s)
      PROVE  RecordTypeOK' /\ BrokerTypeOK'
  <2>1. Boot
    BY <1>7 DEF StartFound, StartFromFile, Boot
  <2>2. BrokerTypeOK'
    BY <1>7 DEF StartFound, StartFromFile, Deploys, NoTopic, broker, progress,
                BrokerTypeOK
  <2> QED BY <2>1, <2>2, BootsKeepTypes
<1>8. ASSUME NEW s \in Sinks, SinkRefused(s) \/ StartFromTopic(s)
      PROVE  RecordTypeOK' /\ BrokerTypeOK'
  <2>1. RecordTypeOK'
    BY <1>8 DEF SinkRefused, StartFromTopic, RecordTypeOK, file, process, counts
  <2>2. slips' \in Nat /\ sink' \in Sinks /\ apart' \in BOOLEAN
    <3>1. Deploys(s) /\ (slips' = slips \/ Slipped("broker"))
      BY <1>8 DEF SinkRefused, StartFromTopic
    <3>2. slips' \in Nat
      BY <3>1 DEF Slipped, BrokerTypeOK
    <3> QED BY <3>1, <3>2 DEF Deploys, BrokerTypeOK
  <2>3. BrokerTypeOK'
    BY <1>8, <2>2
    DEF SinkRefused, StartFromTopic, broker, progress, BrokerTypeOK
  <2> QED BY <2>1, <2>3
<1>9. CASE ReadEnds \/ ReadStarts \/ EmptyPoll \/ CaughtUp
  <2>1. RecordTypeOK'
    BY <1>9 DEF ReadEnds, ReadStarts, EmptyPoll, CaughtUp, RecordTypeOK, vars,
                store, file, process, past, counts
  <2>2. Len(topic) \in Nat
    BY DEF BrokerTypeOK
  <2>3. BrokerTypeOK'
    BY <1>9, <2>2 DEF ReadEnds, ReadStarts, EmptyPoll, CaughtUp, Replaying,
                      broker, progress, BrokerTypeOK
  <2> QED BY <2>1, <2>3
<1>10. CASE ReplayRefused \/ ReplayDies
  <2>1. GoesDown /\ slips' \in Nat
    BY <1>10 DEF ReplayRefused, ReplayDies, Slipped, BrokerTypeOK
  <2>2. RecordTypeOK'
    BY <2>1 DEF GoesDown, RecordTypeOK, vars, store, file, process, past, counts
  <2>3. BrokerTypeOK'
    BY <2>1 DEF GoesDown, Replaying, broker, BrokerTypeOK
  <2> QED BY <2>2, <2>3
<1>11. CASE Restored
  <2>1. RecordTypeOK'
    BY <1>11 DEF Restored, RecordTypeOK, Modes, store, file, counts
  <2>2. BrokerTypeOK'
    BY <1>11 DEF Restored, Replaying, broker, BrokerTypeOK
  <2> QED BY <2>1, <2>2
<1>12. CASE Fetch
  <2> DEFINE i == at'
  <2>1. /\ i \in Nat /\ topic[i] \in Records \cup {Garbage}
        /\ i = 1 + IF base > at THEN base ELSE at
    BY <1>12, FetchDef DEF Fetch
  <2>2. disk \in Stores /\ rev \in Nat
    BY DEF RecordTypeOK
  <2>3. IF Applies(topic[i])
        THEN disk' = After(disk, topic[i]) /\ rev' = rev + 1
        ELSE UNCHANGED <<disk, rev>>
    BY <1>12, <2>1 DEF Fetch
  <2>4. disk' \in Stores /\ rev' \in Nat
    <3> HIDE DEF i
    <3> QED BY <2>1, <2>2, <2>3, AppliesType
  <2>5. RecordTypeOK'
    BY <1>12, <2>4 DEF Fetch, RecordTypeOK, file, process, past, counts
  <2>6. skipped' \in BOOLEAN
    BY <1>12 DEF Fetch, BrokerTypeOK
  <2>7. BrokerTypeOK'
    BY <1>12, <2>1, <2>6 DEF Fetch, Replaying, broker, BrokerTypeOK
  <2> QED BY <2>5, <2>7
<1>13. CASE UNCHANGED tvars
  BY <1>13 DEF tvars, topicVars, broker, progress, BrokerTypeOK, RecordTypeOK,
               vars, store, file, process, past, counts
<1> QED
  BY <1>2, <1>3, <1>4, <1>5, <1>6, <1>7, <1>8, <1>9, <1>10, <1>11, <1>12, <1>13
  DEF TopicNext, TopicServe, TopicBoot, ReplayStep

\* Every variable keeps to its values: whatever mix of processes wrote the
\* topic, a replay's offsets are numbers and what it builds is a store.
THEOREM TopicTypeCorrect == TopicSpec => []TopicTypeOK
BY TopicInitType, TopicTypeNext, PTL DEF TopicSpec

---------------------------------------------------------------------------
(***************************************************************************)
(* The mirror.                                                              *)
(***************************************************************************)

Holds(log, r) == \E j \in DOMAIN log : log[j] = r

\* Of the records a topic holds or may yet get, the file holds those that
\* carry something to restore.
Covered(log, t, l) ==
    /\ \A i \in DOMAIN t : Applies(t[i]) => Holds(log, t[i])
    /\ \A r \in l : Applies(r) => Holds(log, r)

\* While no process runs without the file, what the topic holds and what may
\* still land there was in the file first: a server's boot wrote behind any
\* torn bytes, and its sink lets nothing through behind its own.
Mirrored ==
    /\ (mode # "down" \/ phase # "off") /\ sink = "topic" => apart
    /\ mode = "serving" /\ sink # "topic" /\ torn => jam
    /\ ~apart => Covered(lines, topic, late)

\* A line written leaves the lines before it where they are.
LEMMA FileGrows ==
    ASSUME RecordTypeOK, NEW r \in Records \cup Restores, Puts(r)
    PROVE  /\ \A x : Holds(lines, x) => Holds(lines', x)
           /\ ~torn => Holds(lines', r)
           /\ torn' = FALSE
<1> DEFINE l == IF torn THEN Garbage ELSE r
<1>1. lines' = Append(lines, l) /\ torn' = FALSE /\ l \in Lines
  BY DEF Puts, Lines
<1>2. lines \in Seq(Lines)
  BY DEF RecordTypeOK, Lines
<1> HIDE DEF l
<1>3. /\ DOMAIN lines = 1..Len(lines) /\ Len(lines) \in Nat
      /\ DOMAIN lines' = 1..(Len(lines) + 1)
      /\ \A i \in 1..Len(lines) : lines'[i] = lines[i]
      /\ lines'[Len(lines) + 1] = l
  BY <1>1, <1>2
<1>4. \A x : Holds(lines, x) => Holds(lines', x)
  BY <1>3 DEF Holds
<1>5. ~torn => Holds(lines', r)
  BY <1>3 DEF Holds, l
<1> QED BY <1>1, <1>4, <1>5

\* A record landed is behind all the topic held.
LEMMA LandsDef ==
    ASSUME BrokerTypeOK, NEW r \in Records \cup {Garbage}, Lands(r)
    PROVE  /\ DOMAIN topic = 1..Len(topic) /\ Len(topic) \in Nat
           /\ DOMAIN topic' = 1..(Len(topic) + 1)
           /\ Len(topic') = Len(topic) + 1
           /\ \A i \in 1..Len(topic) : topic'[i] = topic[i]
           /\ topic'[Len(topic) + 1] = r
BY DEF BrokerTypeOK, Lands

\* What the broker is given, landed or in flight, the file covers.
LEMMA GivenCovered ==
    ASSUME BrokerTypeOK, NEW r \in Records,
           Unacknowledged(r) \/ (Lands(r) /\ UNCHANGED late),
           \A x : Holds(lines, x) => Holds(lines', x),
           Applies(r) => Holds(lines', r),
           Covered(lines, topic, late)
    PROVE  Covered(lines', topic', late')
<1>1. CASE Lands(r) /\ late' = late
  <2>1. \A i \in DOMAIN topic' : (i \in DOMAIN topic /\ topic'[i] = topic[i])
                                \/ topic'[i] = r
    BY <1>1, LandsDef
  <2> QED BY <1>1, <2>1 DEF Covered
<1>2. CASE topic' = topic /\ late' \subseteq late \cup {r}
  BY <1>2 DEF Covered
<1> QED BY <1>1, <1>2 DEF Unacknowledged

LEMMA MirroredNext == TopicTypeOK /\ Mirrored /\ [TopicNext]_tvars => Mirrored'
<1> SUFFICES ASSUME RecordTypeOK, BrokerTypeOK, Mirrored, [TopicNext]_tvars
             PROVE  Mirrored'
  BY TopicTypes
<1>1. ASSUME NEW r \in Requests \cup Offline \cup {Declaration}, Attempt(r)
      PROVE  /\ RecordOf(r, rev + 1) \in Records
             /\ RecordOf(r, rev + 1).op = r.op
  BY <1>1, AttemptType DEF RecordOf
<1>2. ASSUME NEW r \in Requests \cup Offline \cup {Declaration},
             TeeWrite(r) \/ MirrorFails(r)
      PROVE  Mirrored'
  <2> DEFINE l == RecordOf(r, rev + 1)
  <2>1. /\ Write(r) /\ Attempt(r) /\ ~jam /\ Puts(l)
        /\ mode \in {"declare", "serving"} /\ sink = "tee"
        /\ sink' = sink /\ apart' = apart
        /\ Unacknowledged(l) \/ (Lands(l) /\ UNCHANGED late)
    BY <1>2 DEF TeeWrite, MirrorFails, Write, Attempt, OverTee, Elsewhere
  <2>2. l \in Records /\ l.op = r.op
    BY <1>1, <2>1
  <2> HIDE DEF l
  <2>3. /\ \A x : Holds(lines, x) => Holds(lines', x)
        /\ ~torn => Holds(lines', l)
        /\ torn' = FALSE
    BY <2>1, <2>2, FileGrows
  <2>4. Applies(l) => Holds(lines', l)
    <3>1. mode = "declare" => r.op = "PublishNamespace"
      BY <2>1, RecordDeclaration DEF Attempt, Publishes
    <3>2. mode = "serving" => ~torn
      BY <2>1 DEF Mirrored
    <3> QED BY <2>1, <2>2, <2>3, <3>1, <3>2 DEF Applies
  <2>5. ~apart => Covered(lines', topic', late')
    BY <2>1, <2>2, <2>3, <2>4, GivenCovered DEF Mirrored
  <2> QED BY <2>1, <2>3, <2>5 DEF Mirrored
<1>3. ASSUME NEW r \in Requests \cup Offline \cup {Declaration}, FileWrite(r)
      PROVE  Mirrored'
  <2>1. /\ phase = "off" /\ (mode = "down" \/ sink # "topic")
        /\ sink' = sink /\ apart' = apart /\ topic' = topic /\ late' = late
        /\ phase' = phase
    BY <1>3 DEF FileWrite, OverFile, Elsewhere
  <2>2. CASE Write(r) \/ WriteUnsynced(r)
    <3>1. Attempt(r) /\ Puts(RecordOf(r, rev + 1))
      BY <2>2 DEF Write, WriteUnsynced
    <3>2. /\ \A x : Holds(lines, x) => Holds(lines', x)
          /\ torn' = FALSE
      BY <1>1, <3>1, FileGrows
    <3>3. mode = "down" => mode' = "down"
      BY <2>2 DEF Write, WriteUnsynced, GivesUp
    <3>4. ~apart => Covered(lines', topic', late')
      BY <2>1, <3>2 DEF Mirrored, Covered
    <3> QED BY <2>1, <3>2, <3>3, <3>4 DEF Mirrored
  <2>3. CASE WriteFails(r)
    BY <2>1, <2>3 DEF WriteFails, GivesUp, Mirrored
  <2>4. CASE WriteDies(r)
    BY <2>1, <2>4 DEF WriteDies, Mirrored
  <2> QED BY <1>3, <2>2, <2>3, <2>4 DEF FileWrite
<1>4. ASSUME NEW r \in Requests \cup Offline \cup {Declaration},
             TopicWrite(r) \/ TopicWriteFails(r) \/ TopicWriteDies(r)
      PROVE  Mirrored'
  BY <1>4 DEF TopicWrite, TopicWriteFails, TopicWriteDies, OverTopic, Elsewhere,
              Mirrored
<1>5. CASE Broker
  <2>1. CASE LateLands
    <3>1. PICK r \in late : Lands(r) /\ late' = late \ {r}
      BY <2>1 DEF LateLands
    <3>2. r \in Records
      BY DEF BrokerTypeOK
    <3>3. \A i \in DOMAIN topic' : (i \in DOMAIN topic /\ topic'[i] = topic[i])
                                  \/ topic'[i] = r
      BY <3>1, <3>2, LandsDef
    <3>4. Covered(lines, topic, late) => Covered(lines, topic', late')
      BY <3>1, <3>3 DEF Covered
    <3> QED BY <2>1, <3>4 DEF LateLands, Elsewhere, Mirrored, vars, file, process
  <2>2. CASE Retention
    BY <2>2 DEF Retention, Mirrored, vars, file, process
  <2>3. CASE ForeignRecord
    <3>1. \A i \in DOMAIN topic' : (i \in DOMAIN topic /\ topic'[i] = topic[i])
                                  \/ topic'[i] = Garbage
      BY <2>3, LandsDef DEF ForeignRecord
    <3>2. Covered(lines, topic, late) => Covered(lines, topic', late)
      BY <3>1 DEF Covered, Applies
    <3> QED BY <2>3, <3>2
        DEF ForeignRecord, Elsewhere, Mirrored, vars, file, process
  <2> QED BY <1>5, <2>1, <2>2, <2>3 DEF Broker
<1>6. CASE Machine
  BY <1>6 DEF Machine, Stop, MediumFails, MediumRecovers, Wipe, Mirrored,
              topicVars, broker, store, file, process
<1>7. CASE VolumeLost
  BY <1>7 DEF VolumeLost, Mirrored, process
<1>8. ASSUME NEW s \in Sinks,
             StartFound(s) \/ StartFromFile(s) \/ SinkRefused(s) \/ StartFromTopic(s)
      PROVE  Mirrored'
  <2>1. /\ sink' = s /\ apart' = (apart \/ s = "topic")
        /\ topic' = topic /\ late' = late
    BY <1>8 DEF StartFound, StartFromFile, SinkRefused, StartFromTopic, Deploys,
                NoTopic, broker
  <2>2. lines' = lines /\ mode' # "serving"
    BY <1>8 DEF StartFound, StartFromFile, SinkRefused, StartFromTopic, Deploys,
                BootFound, BootHealed, BootRefused, BootKilled, Halfway, file,
                process
  <2> QED BY <2>1, <2>2 DEF Mirrored
<1>9. CASE ReadEnds \/ ReadStarts \/ EmptyPoll \/ CaughtUp
  BY <1>9 DEF ReadEnds, ReadStarts, EmptyPoll, CaughtUp, Replaying, broker,
              Mirrored, vars, file, process
<1>10. CASE ReplayRefused \/ ReplayDies
  BY <1>10 DEF ReplayRefused, ReplayDies, GoesDown, Replaying, broker, Mirrored,
               vars, file, process
<1>11. CASE Restored
  BY <1>11 DEF Restored, Replaying, broker, Mirrored, file
<1>12. CASE Fetch
  BY <1>12 DEF Fetch, Replaying, broker, Mirrored, file, process
<1>13. CASE UNCHANGED tvars
  BY <1>13 DEF tvars, topicVars, broker, Mirrored, vars, file, process
<1> QED
  BY <1>2, <1>3, <1>4, <1>5, <1>6, <1>7, <1>8, <1>9, <1>10, <1>11, <1>12, <1>13
  DEF TopicNext, TopicServe, TopicBoot, ReplayStep

\* "The file is the record": while no process ran without it, no flip or
\* retire is in the topic alone, whatever the medium, the broker and the
\* machine did.
THEOREM MirrorTheorem == TopicSpec => []MirrorIsRecorded
<1>1. TopicInit => Mirrored
  BY DEF TopicInit, Init, Mirrored, Covered
<1>2. Mirrored => MirrorIsRecorded
  BY DEF Mirrored, MirrorIsRecorded, Covered, Holds
<1> QED BY <1>1, <1>2, TopicInitType, TopicTypeNext, MirroredNext, PTL DEF TopicSpec

---------------------------------------------------------------------------
(***************************************************************************)
(* The replay.                                                              *)
(***************************************************************************)

AllSaid == \A n \in Namespaces, k \in Keys : SaysTheLast(n, k)

\* A store is empty until its generation is committed and stays so until a
\* replay polls; and what a replay built so far is what the records up to its
\* offset say.
Restoring ==
    /\ ~exists => disk = EmptyStore
    /\ mode # "down" => exists
    /\ phase # "off" => mode = "down" /\ exists
    /\ base <= Len(topic)
    /\ phase \in {"ends", "starts"} => disk = EmptyStore
    /\ phase \in {"polling", "done"} /\ base <= from =>
          /\ base <= at /\ from <= at /\ at <= Len(topic)
          /\ phase = "done" => at >= target
          /\ AllSaid

\* One record further on, the store says what the records do.
LEMMA FetchSays ==
    ASSUME RecordTypeOK, BrokerTypeOK, Fetch, base <= at, from <= at, AllSaid
    PROVE  AllSaid'
<1> DEFINE r == topic[at + 1]
<1>1. /\ at \in Nat /\ from \in Nat /\ at' = at + 1 /\ from' = from
      /\ topic' = topic /\ r \in Records \cup {Garbage}
      /\ disk \in Stores
      /\ IF Applies(r) THEN disk' = After(disk, r) ELSE disk' = disk
  <2>1. at' = at + 1 /\ topic[at'] \in Records \cup {Garbage}
    BY FetchDef, Zenon
  <2>2. /\ from' = from /\ topic' = topic
        /\ IF Applies(topic[at']) THEN disk' = After(disk, topic[at'])
                                  ELSE disk' = disk
    BY <2>1 DEF Fetch, Replaying, broker
  <2> QED BY <2>1, <2>2 DEF BrokerTypeOK, RecordTypeOK
<1> HIDE DEF r
<1> SUFFICES ASSUME NEW n \in Namespaces, NEW k \in Keys
             PROVE  SaysTheLast(n, k)'
  BY DEF AllSaid
<1>2. SaysTheLast(n, k)
  BY DEF AllSaid
<1>3. (from + 1)..(at + 1) = ((from + 1)..at) \cup {at + 1}
  BY <1>1
<1>4. /\ topic'[at + 1] = r
      /\ \A i \in (from + 1)..at : (i + 1)..(at + 1) = ((i + 1)..at) \cup {at + 1}
      /\ ((at + 1) + 1)..(at + 1) = {}
  <2>1. topic'[at + 1] = r
    BY <1>1 DEF r
  <2>2. ASSUME NEW i \in (from + 1)..at
        PROVE  (i + 1)..(at + 1) = ((i + 1)..at) \cup {at + 1}
    BY <1>1, <2>2
  <2>3. ((at + 1) + 1)..(at + 1) = {}
    BY <1>1
  <2> QED BY <2>1, <2>2, <2>3
<1>5. CASE ~Overrides(r, n, k)
  <2>1. LastFlips(n, k)' = LastFlips(n, k)
    <3>1. LastFlips(n, k)' =
            {i \in (from + 1)..(at + 1) :
              /\ Overrides(topic[i], n, k) /\ topic[i].op = "SetFlag"
              /\ \A j \in (i + 1)..(at + 1) : ~Overrides(topic[j], n, k)}
      BY <1>1 DEF LastFlips
    <3>2. ASSUME NEW i
          PROVE  (i \in LastFlips(n, k)') <=> (i \in LastFlips(n, k))
      BY <1>1, <1>3, <1>4, <1>5, <3>1 DEF LastFlips
    <3> QED BY <3>1, <3>2 DEF LastFlips
  <2>2. Bucket(disk'[n])[k] = Bucket(disk[n])[k]
    <3>1. CASE ~Applies(r)
      BY <1>1, <3>1
    <3>2. CASE Applies(r)
      <4>1. /\ r \in Records /\ r.ns \in Namespaces
            /\ r.op \in {"SetFlag", "DeleteNamespace"}
        BY <1>1, <3>2, AppliesType
      <4>2. disk' = [disk EXCEPT ![r.ns] = Outcome(disk[r.ns], r)]
        BY <1>1, <3>2 DEF After
      <4>3. CASE r.ns # n
        BY <1>1, <4>1, <4>2, <4>3 DEF Stores
      <4>4. CASE r.ns = n
        <5>1. r.op = "SetFlag" /\ r.key # k
          BY <1>5, <3>2, <4>1, <4>4 DEF Overrides, Applies
        <5>2. disk'[n] = Flipped(disk[n], r.key, r.value)
          BY <1>1, <4>2, <4>4, <5>1 DEF Outcome, Stores
        <5>3. disk[n] \in Contents \cup {Absent}
          BY <1>1 DEF Stores
        <5>4. Bucket(disk[n]) \in Contents
          BY <5>3, BucketType
        <5>5. r.key \in Keys /\ r.value \in Values \cup {NoValue}
          BY <4>1, <5>1 DEF Records
        <5>6. disk'[n] \in Contents /\ disk'[n][k] = Bucket(disk[n])[k]
          <6>1. [value |-> r.value,
                 meta |-> IF Bucket(disk[n])[r.key] = NoFlag THEN NoMeta
                          ELSE Bucket(disk[n])[r.key].meta] \in Flag
            BY <5>4, <5>5 DEF Contents, Flag
          <6> QED BY <5>1, <5>2, <5>4, <5>5, <6>1 DEF Flipped, Contents
        <5>7. Bucket(disk'[n]) = disk'[n]
          BY <5>6, SentinelAssumption DEF Bucket, Contents, Flag
        <5> QED BY <5>6, <5>7
      <4> QED BY <4>3, <4>4
    <3> QED BY <3>1, <3>2
  <2> QED BY <1>1, <1>2, <2>1, <2>2 DEF SaysTheLast
<1>6. CASE Overrides(r, n, k)
  <2>1. /\ Applies(r) /\ r.ns = n /\ r \in Records
        /\ r.op = "SetFlag" => r.key = k
    BY <1>1, <1>6 DEF Overrides, Applies
  <2>2. /\ r.op \in {"SetFlag", "DeleteNamespace"}
        /\ disk'[n] = Outcome(disk[n], r)
    BY <1>1, <2>1, AppliesType DEF After, Stores
  <2>3. CASE r.op = "SetFlag"
    <3>1. LastFlips(n, k)' = {at + 1}
      BY <1>1, <1>3, <1>4, <1>6, <2>3 DEF LastFlips
    <3>2. disk[n] \in Contents \cup {Absent}
      BY <1>1 DEF Stores
    <3>3. Bucket(disk[n]) \in Contents
      BY <3>2, BucketType
    <3>4. r.value \in Values \cup {NoValue}
      BY <2>1, <2>3 DEF Records
    <3> DEFINE f == [value |-> r.value,
                     meta |-> IF Bucket(disk[n])[k] = NoFlag THEN NoMeta
                              ELSE Bucket(disk[n])[k].meta]
    <3>5. f \in Flag /\ f.value = r.value
      BY <3>3, <3>4 DEF Contents, Flag
    <3>6. disk'[n] = [Bucket(disk[n]) EXCEPT ![k] = f]
      BY <2>1, <2>2, <2>3 DEF Outcome, Flipped
    <3> HIDE DEF f
    <3>7. disk'[n] \in Contents /\ disk'[n][k] = f
      BY <3>3, <3>5, <3>6 DEF Contents
    <3>8. Bucket(disk'[n]) = disk'[n] /\ f # NoFlag
      BY <3>5, <3>7, SentinelAssumption DEF Bucket, Contents, Flag
    <3> QED BY <1>4, <3>1, <3>5, <3>7, <3>8 DEF SaysTheLast
  <2>4. CASE r.op = "DeleteNamespace"
    <3>1. LastFlips(n, k)' = {}
      BY <1>1, <1>3, <1>4, <1>6, <2>4 DEF LastFlips
    <3>2. Bucket(disk'[n])[k] = NoFlag
      BY <2>2, <2>4 DEF Outcome, Bucket, NoContents
    <3> QED BY <3>1, <3>2 DEF SaysTheLast
  <2> QED BY <2>2, <2>3, <2>4
<1> QED BY <1>5, <1>6

LEMMA RestoringNext == TopicTypeOK /\ Restoring /\ [TopicNext]_tvars => Restoring'
<1> SUFFICES ASSUME RecordTypeOK, BrokerTypeOK, Restoring, [TopicNext]_tvars
             PROVE  Restoring'
  BY TopicTypes
<1>t. base \in Nat /\ at \in Nat /\ from \in Nat /\ target \in Nat
      /\ Len(topic) \in Nat
  BY DEF BrokerTypeOK
<1>l. ASSUME NEW r \in Records \cup {Garbage}, Lands(r) \/ topic' = topic
      PROVE  /\ Len(topic) <= Len(topic')
             /\ \A i \in 1..Len(topic) : topic'[i] = topic[i]
  BY <1>t, <1>l, LandsDef
\* What the records up to the replay's offset say is kept while they are.
<1>k. ASSUME disk' = disk, from' = from, at' = at, at <= Len(topic), AllSaid,
             \A i \in 1..Len(topic) : topic'[i] = topic[i]
      PROVE  AllSaid'
  <2> SUFFICES ASSUME NEW n \in Namespaces, NEW k \in Keys
               PROVE  SaysTheLast(n, k)'
    BY DEF AllSaid
  <2>1. \A i \in (from + 1)..at : topic'[i] = topic[i]
    BY <1>t, <1>k
  <2>2. \A i \in (from + 1)..at : \A j \in (i + 1)..at : topic'[j] = topic[j]
    BY <1>t, <1>k
  <2>3. LastFlips(n, k)' = LastFlips(n, k)
    BY <1>k, <2>1, <2>2 DEF LastFlips
  <2>4. \A i \in LastFlips(n, k) : topic'[i] = topic[i]
    BY <2>1 DEF LastFlips
  <2>5. SaysTheLast(n, k)
    BY <1>k DEF AllSaid
  <2> QED BY <1>k, <2>3, <2>4, <2>5 DEF SaysTheLast
<1>s. ASSUME disk' = disk, from' = from, at' = at, topic' = topic, AllSaid
      PROVE  AllSaid'
  BY <1>s DEF AllSaid, SaysTheLast, LastFlips
<1>1. ASSUME NEW r \in Requests \cup Offline \cup {Declaration},
             \/ TeeWrite(r) \/ MirrorFails(r) \/ FileWrite(r)
             \/ TopicWrite(r) \/ TopicWriteFails(r) \/ TopicWriteDies(r)
      PROVE  Restoring'
  <2>1. Attempt(r)
    BY <1>1 DEF TeeWrite, MirrorFails, FileWrite, TopicWrite, TopicWriteFails,
                TopicWriteDies, Write, WriteFails, WriteUnsynced, WriteDies
  <2>2. exists' = exists
    BY <1>1 DEF TeeWrite, MirrorFails, FileWrite, TopicWrite, TopicWriteFails,
                TopicWriteDies, Write, WriteFails, WriteUnsynced, WriteDies
  <2>3. exists
    BY <2>1 DEF Attempt, Restoring
  <2>4. phase = "off"
    BY <1>1 DEF TeeWrite, MirrorFails, FileWrite, TopicWrite, TopicWriteFails,
                TopicWriteDies, OverTee, OverFile, OverTopic, Restoring
  <2>5. phase' = phase /\ base' = base
    BY <1>1 DEF TeeWrite, MirrorFails, FileWrite, TopicWrite, TopicWriteFails,
                TopicWriteDies, Elsewhere
  <2>6. Lands(RecordOf(r, rev + 1)) \/ topic' = topic
    BY <1>1 DEF TeeWrite, MirrorFails, FileWrite, TopicWrite, TopicWriteFails,
                TopicWriteDies, Unacknowledged
  <2>7. RecordOf(r, rev + 1) \in Records
    BY <2>1, AttemptType
  <2>8. Len(topic) <= Len(topic') /\ Len(topic') \in Nat
    BY <1>t, <2>6, <2>7, LandsDef
  <2> QED BY <1>t, <2>2, <2>3, <2>4, <2>5, <2>8 DEF Restoring
<1>2. CASE LateLands \/ ForeignRecord
  <2>1. PICK r \in Records \cup {Garbage} : Lands(r)
    BY <1>2 DEF LateLands, ForeignRecord, BrokerTypeOK
  <2>2. /\ Len(topic) <= Len(topic') /\ Len(topic') \in Nat
        /\ \A i \in 1..Len(topic) : topic'[i] = topic[i]
    BY <1>t, <2>1, LandsDef
  <2>3. /\ exists' = exists /\ disk' = disk /\ mode' = mode
        /\ phase' = phase /\ base' = base
        /\ from' = from /\ at' = at /\ target' = target
    BY <1>2 DEF LateLands, ForeignRecord, Elsewhere, vars, store, process, progress
  <2> QED BY <1>t, <1>k, <2>2, <2>3 DEF Restoring
<1>3. CASE Retention
  <2>1. /\ exists' = exists /\ disk' = disk /\ mode' = mode
        /\ phase' = phase /\ topic' = topic
        /\ from' = from /\ at' = at /\ target' = target
        /\ base' \in Nat /\ base < base' /\ base' <= Len(topic)
    BY <1>t, <1>3 DEF Retention, vars, store, process, progress
  <2> QED BY <1>t, <1>s, <2>1 DEF Restoring
<1>4. CASE Machine
  <2>1. /\ phase' = phase /\ topic' = topic /\ base' = base
        /\ from' = from /\ at' = at /\ target' = target
    BY <1>4 DEF Machine, topicVars, broker, progress
  <2>2. CASE Stop \/ MediumFails \/ MediumRecovers
    <3>1. exists' = exists /\ disk' = disk /\ mode' \in {mode, "down"}
      BY <2>2 DEF Stop, MediumFails, MediumRecovers, store, process
    <3> QED BY <1>s, <2>1, <3>1 DEF Restoring
  <2>3. CASE phase = "off" /\ Wipe
    BY <2>1, <2>3 DEF Wipe, Restoring, process
  <2> QED BY <1>4, <2>2, <2>3 DEF Machine
<1>5. CASE VolumeLost
  BY <1>5 DEF VolumeLost, Restoring, process, broker
<1>6. ASSUME NEW s \in Sinks,
             StartFound(s) \/ StartFromFile(s) \/ SinkRefused(s)
      PROVE  Restoring'
  <2>1. phase = "off" /\ phase' = phase /\ base' = base /\ topic' = topic
    BY <1>6 DEF StartFound, StartFromFile, SinkRefused, Deploys, NoTopic, broker
  <2>2. exists'
    BY <1>6 DEF StartFound, StartFromFile, SinkRefused, BootFound, BootHealed,
                BootRefused, BootKilled, Halfway, store
  <2> QED BY <2>1, <2>2 DEF Restoring
<1>7. ASSUME NEW s \in Sinks, StartFromTopic(s) PROVE Restoring'
  <2>1. /\ mode = "down" /\ mode' = mode /\ ~exists /\ exists' /\ disk' = disk
        /\ phase' = "ends" /\ base' = base /\ topic' = topic
    BY <1>7 DEF StartFromTopic, Deploys, process, broker
  <2> QED BY <2>1 DEF Restoring
<1>8. CASE ReadEnds \/ EmptyPoll \/ CaughtUp
  <2>1. /\ exists' = exists /\ disk' = disk /\ mode' = mode
        /\ base' = base /\ topic' = topic /\ from' = from /\ at' = at
    BY <1>8 DEF ReadEnds, EmptyPoll, CaughtUp, Replaying, broker, progress, vars,
                store, process
  <2>2. \/ phase = "ends" /\ phase' = "starts"
        \/ /\ phase = "polling" /\ phase' \in {"polling", "done"}
           /\ target' = target
           /\ phase' = "done" => at >= target
    BY <1>8 DEF ReadEnds, EmptyPoll, CaughtUp, progress
  <2> QED BY <1>t, <1>s, <2>1, <2>2 DEF Restoring
<1>9. CASE ReadStarts
  <2>1. /\ exists' = exists /\ disk' = disk /\ mode' = mode
        /\ base' = base /\ topic' = topic /\ from' = base /\ at' = base
        /\ target' = target /\ phase = "starts"
        /\ phase' = IF target = base THEN "done" ELSE "polling"
    BY <1>9 DEF ReadStarts, Replaying, broker, vars, store, process
  <2>2. disk = EmptyStore /\ mode = "down" /\ exists /\ base <= Len(topic)
    BY <2>1 DEF Restoring
  <2>3. AllSaid'
    <3> SUFFICES ASSUME NEW n \in Namespaces, NEW k \in Keys
                 PROVE  SaysTheLast(n, k)'
      BY DEF AllSaid
    <3>1. (base + 1)..base = {}
      BY <1>t
    <3>2. LastFlips(n, k)' = {}
      BY <2>1, <3>1 DEF LastFlips
    <3>3. Bucket(disk'[n])[k] = NoFlag
      BY <2>1, <2>2 DEF EmptyStore, Bucket, NoContents
    <3> QED BY <3>2, <3>3 DEF SaysTheLast
  <2> QED BY <1>t, <2>1, <2>2, <2>3 DEF Restoring
<1>10. CASE ReplayRefused \/ ReplayDies
  <2>1. /\ exists' = exists /\ disk' = disk /\ mode' = mode
        /\ phase' = "off" /\ base' = base /\ topic' = topic
    BY <1>10 DEF ReplayRefused, ReplayDies, GoesDown, Replaying, broker, vars,
                 store, process
  <2> QED BY <2>1 DEF Restoring
<1>11. CASE Restored
  <2>1. /\ exists' = exists /\ disk' = disk /\ phase # "off"
        /\ phase' = "off" /\ base' = base /\ topic' = topic
    BY <1>11 DEF Restored, Replaying, broker, store
  <2> QED BY <2>1 DEF Restoring
<1>12. CASE Fetch
  <2>1. /\ exists' = exists /\ mode' = mode /\ phase = "polling" /\ phase' = phase
        /\ base' = base /\ topic' = topic /\ from' = from
    BY <1>12 DEF Fetch, Replaying, broker, process
  <2>2. at' \in 1..Len(topic) /\ (base <= at => at' = at + 1)
    BY <1>12, FetchDef
  <2>3. CASE base <= from
    <3>1. base <= at /\ from <= at /\ AllSaid
      BY <2>1, <2>3 DEF Restoring
    <3>2. AllSaid'
      BY <1>12, <3>1, FetchSays
    <3> QED BY <1>t, <2>1, <2>2, <3>1, <3>2 DEF Restoring
  <2>4. CASE ~(base <= from)
    BY <2>1, <2>4 DEF Restoring
  <2> QED BY <2>3, <2>4
<1>13. CASE UNCHANGED tvars
  BY <1>s, <1>13 DEF tvars, topicVars, broker, progress, Restoring, vars, store,
                    process
<1> QED
  BY <1>1, <1>2, <1>3, <1>4, <1>5, <1>6, <1>7, <1>8, <1>9, <1>10, <1>11, <1>12,
     <1>13
  DEF TopicNext, TopicServe, TopicBoot, ReplayStep, Broker

LEMMA RestoringInit == TopicInit => Restoring
<1> SUFFICES ASSUME TopicInit PROVE Restoring
  OBVIOUS
<1>1. topic = << >> /\ Len(topic) = 0
  BY DEF TopicInit
<1> QED BY <1>1 DEF TopicInit, Init, Restoring

\* Whatever the broker does while a boot replays it, slow, silent, restarted or
\* written to by others, a replay that succeeds has read to the end offset and
\* built what those records say, unless retention overtook it.
THEOREM RestoredTheorem == TopicSpec => []TopicIsRestored
<1>1. Restoring => TopicIsRestored
  BY DEF Restoring, TopicIsRestored, AllSaid
<1> QED BY <1>1, RestoringInit, TopicInitType, TopicTypeNext, RestoringNext, PTL DEF TopicSpec
---------------------------------------------------------------------------
(***************************************************************************)
(* Numbers.  A replay of the topic counts what it applies, and that is no   *)
(* more than was ever attempted.                                            *)
(***************************************************************************)

\* c counts the records on the topic up to each offset; with those that may
\* still land they are no more than the attempts, and the number of a store
\* being replayed is no more than the records read.
CountsBy(c) ==
    /\ c \in [0..Len(topic) -> Nat]
    /\ \A i, j \in 0..Len(topic) : i <= j => c[i] <= c[j]
    /\ \A i \in 1..Len(topic) : topic[i] # Garbage => c[i-1] < c[i]
    /\ c[Len(topic)] + Cardinality(late) <= tries
    /\ phase \in {"polling", "done"} => at <= Len(topic) /\ rev <= c[at]

Counting ==
    /\ RecordInv
    /\ IsFiniteSet(late)
    /\ ~exists \/ phase \in {"ends", "starts"} => rev = 0
    /\ \E c : CountsBy(c)

\* A step that leaves the topic and what may land, and reads nothing of it.
LEMMA CountsKept ==
    ASSUME BrokerTypeOK, RecordInv, IsFiniteSet(late),
           tries' \in Nat, tries <= tries',
           NEW c, CountsBy(c),
           topic' = topic, late' = late,
           phase' \in {"polling", "done"} =>
               phase \in {"polling", "done"} /\ at' = at /\ rev' = rev
    PROVE  CountsBy(c)'
<1>1. Len(topic) \in Nat /\ c[Len(topic)] \in Nat /\ Cardinality(late) \in Nat
  BY FS_CardinalityType DEF CountsBy, BrokerTypeOK
<1>2. tries \in Nat
  BY DEF RecordInv, RecordTypeOK
<1>3. c[Len(topic)] + Cardinality(late) <= tries'
  <2>1. c[Len(topic)] + Cardinality(late) <= tries
    BY DEF CountsBy
  <2> QED BY <1>1, <1>2, <2>1
<1> QED BY <1>3 DEF CountsBy

\* A record that lands is one more.
LEMMA CountsLanded ==
    ASSUME BrokerTypeOK, NEW r \in Records \cup {Garbage}, Lands(r),
           NEW c, CountsBy(c), NEW d \in {0, 1}, r = Garbage \/ d = 1,
           c[Len(topic)] + d + Cardinality(late') <= tries',
           phase' \in {"polling", "done"} =>
               phase \in {"polling", "done"} /\ at' = at /\ rev' = rev
    PROVE  \E e : CountsBy(e)'
<1> DEFINE n == Len(topic)
<1>1. /\ n \in Nat /\ Len(topic') = n + 1
      /\ \A i \in 1..n : topic'[i] = topic[i]
      /\ topic'[n + 1] = r
  BY LandsDef
<1>2. /\ c \in [0..n -> Nat]
      /\ \A i, j \in 0..n : i <= j => c[i] <= c[j]
      /\ \A i \in 1..n : topic[i] # Garbage => c[i-1] < c[i]
      /\ phase \in {"polling", "done"} => at <= n /\ rev <= c[at]
  BY DEF CountsBy
<1> HIDE DEF n
<1>3. PICK e : e = [i \in 0..(n + 1) |-> IF i = n + 1 THEN c[n] + d ELSE c[i]]
  OBVIOUS
<1>4. /\ e \in [0..(n + 1) -> Nat]
      /\ e[n + 1] = c[n] + d /\ c[n] \in Nat
      /\ \A i \in 0..n : e[i] = c[i]
  BY <1>1, <1>2, <1>3
<1>5. ASSUME NEW i \in 0..(n + 1), NEW j \in 0..(n + 1), i <= j
      PROVE  e[i] <= e[j]
  <2>1. CASE j <= n
    <3>1. i \in 0..n /\ j \in 0..n
      BY <1>1, <1>5, <2>1
    <3> QED BY <1>2, <1>4, <1>5, <3>1
  <2>2. CASE j = n + 1 /\ i <= n
    <3>1. c[i] <= c[n] /\ c[i] \in Nat
      BY <1>1, <1>2, <2>2
    <3> QED BY <1>1, <1>4, <2>2, <3>1
  <2>3. CASE i = n + 1 /\ j = n + 1
    BY <1>1, <1>4, <2>3
  <2> QED BY <1>1, <1>5, <2>1, <2>2, <2>3
<1>6. ASSUME NEW i \in 1..(n + 1), topic'[i] # Garbage
      PROVE  e[i-1] < e[i]
  <2>1. CASE i <= n
    <3>1. i \in 1..n /\ i \in 0..n /\ i - 1 \in 0..n
      BY <1>1, <2>1
    <3> QED BY <1>1, <1>2, <1>4, <1>6, <3>1
  <2>2. CASE i = n + 1
    <3>1. d = 1 /\ i - 1 \in 0..n /\ i - 1 = n
      BY <1>1, <1>6, <2>2
    <3> QED BY <1>4, <2>2, <3>1
  <2> QED BY <1>1, <2>1, <2>2
<1>7. phase' \in {"polling", "done"} => at' <= n + 1 /\ rev' <= e[at']
  <2> SUFFICES ASSUME phase' \in {"polling", "done"}
               PROVE  at' <= n + 1 /\ rev' <= e[at']
    OBVIOUS
  <2>1. at' = at /\ rev' = rev /\ at <= n /\ rev <= c[at] /\ at \in Nat
    BY <1>2 DEF BrokerTypeOK
  <2> QED BY <1>1, <1>4, <2>1
<1>8. e[n + 1] + Cardinality(late') <= tries'
  BY <1>4 DEF n
<1> QED BY <1>1, <1>4, <1>5, <1>6, <1>7, <1>8 DEF CountsBy

\* An attempt may land its record, leave it to land, or lose it.
LEMMA CountsAttempt ==
    ASSUME BrokerTypeOK, Counting, phase' = "off", NEW r \in Records,
           tries' = tries + 1,
           \/ Unacknowledged(r)
           \/ Lands(r) /\ UNCHANGED late
           \/ UNCHANGED <<topic, late>>
    PROVE  IsFiniteSet(late') /\ \E c : CountsBy(c)'
<1>1. PICK c : CountsBy(c)
  BY DEF Counting
<1>2. /\ tries \in Nat /\ IsFiniteSet(late) /\ Cardinality(late) \in Nat
      /\ c[Len(topic)] \in Nat /\ c[Len(topic)] + Cardinality(late) <= tries
  <2>1. tries \in Nat /\ IsFiniteSet(late)
    BY DEF Counting, RecordInv, RecordTypeOK
  <2>2. c[Len(topic)] \in Nat /\ c[Len(topic)] + Cardinality(late) <= tries
    BY <1>1 DEF CountsBy, BrokerTypeOK
  <2> QED BY <2>1, <2>2, FS_CardinalityType
<1>3. CASE Lands(r) /\ UNCHANGED late
  <2>1. c[Len(topic)] + 1 + Cardinality(late') <= tries'
    BY <1>2, <1>3
  <2>2. \E e : CountsBy(e)'
    BY <1>1, <1>3, <2>1, CountsLanded
  <2> QED BY <1>2, <1>3, <2>2
<1>4. CASE late' = late \cup {r} /\ UNCHANGED topic
  <2>1. IsFiniteSet(late') /\ Cardinality(late') <= Cardinality(late) + 1
        /\ Cardinality(late') \in Nat
    <3>1. /\ IsFiniteSet(late \cup {r})
          /\ Cardinality(late \cup {r}) =
                 IF r \in late THEN Cardinality(late) ELSE Cardinality(late) + 1
      BY <1>2, FS_AddElement
    <3> QED BY <1>2, <1>4, <3>1
  <2>2. c[Len(topic)] + Cardinality(late') <= tries'
    BY <1>2, <2>1
  <2>3. CountsBy(c)'
    BY <1>1, <1>4, <2>2 DEF CountsBy
  <2> QED BY <2>1, <2>3
<1>5. CASE UNCHANGED <<topic, late>>
  <2>1. CountsBy(c)'
    <3>1. RecordInv /\ IsFiniteSet(late) /\ tries' \in Nat /\ tries <= tries'
      BY <1>2 DEF Counting
    <3> QED BY <1>1, <1>5, <3>1, CountsKept
  <2> QED BY <1>2, <1>5, <2>1
<1> QED BY <1>3, <1>4, <1>5 DEF Unacknowledged
\* A topic-only write, a boot from the topic and a replay keep a process's
\* numbers within its attempts.
LEMMA NumbersKept ==
    ASSUME RecordInv, RecordTypeOK', lines' = lines, bound' = bound,
           tries <= tries', tries' <= MaxTries, rev' <= tries',
           mode' = "append" => mode = "append" /\ bound < rev'
    PROVE  RecordInv'
<1>1. /\ tries \in Nat /\ bound \in Nat /\ tries' \in Nat /\ lines \in Seq(Lines)
      /\ \A i \in Parsed : lines[i].rev <= tries
      /\ Len(lines) <= tries /\ bound <= tries
      /\ mode = "append" => Len(lines) < tries
  BY DEF RecordInv, RecordTypeOK, Bounded, Lines
<1>2. Parsed' = Parsed /\ \A i \in Parsed : lines[i].rev \in Nat
  BY <1>1, ParsedType DEF Parsed
<1>3. Len(lines) \in Nat
  BY <1>1
<1>4. \A i \in Parsed' : lines'[i].rev <= tries'
  BY <1>1, <1>2
<1>5. Len(lines') <= tries' /\ bound' <= tries'
  BY <1>1, <1>3
<1>6. mode' = "append" => Len(lines') < tries' /\ bound' < rev'
  BY <1>1, <1>3
<1> QED BY <1>4, <1>5, <1>6 DEF RecordInv, Bounded

LEMMA CountingNext ==
    TopicTypeOK /\ Restoring /\ Counting /\ [TopicNext]_tvars => Counting'
<1> SUFFICES ASSUME TopicTypeOK, Restoring, Counting, [TopicNext]_tvars
             PROVE  Counting'
  OBVIOUS
<1>o. RecordTypeOK /\ BrokerTypeOK
  BY TopicTypes
<1>p. RecordTypeOK'
  BY TopicTypeNext DEF TopicTypeOK
<1> USE <1>o, <1>p
<1>t. /\ RecordInv /\ IsFiniteSet(late) /\ Cardinality(late) \in Nat
      /\ tries \in Nat /\ tries <= MaxTries /\ rev \in Nat /\ rev <= tries
      /\ bound \in Nat /\ Len(topic) \in Nat /\ MaxTries \in Nat
  <2>1. RecordInv /\ IsFiniteSet(late) /\ Cardinality(late) \in Nat
    BY FS_CardinalityType DEF Counting
  <2>2. /\ tries \in Nat /\ tries <= MaxTries /\ rev \in Nat /\ rev <= tries
        /\ bound \in Nat
    BY <2>1 DEF RecordInv, RecordTypeOK, Bounded
  <2>3. Len(topic) \in Nat
    BY DEF BrokerTypeOK
  <2> QED BY <2>1, <2>2, <2>3, RecordBounds
<1>c. PICK c : CountsBy(c)
  BY DEF Counting
<1>d. /\ c \in [0..Len(topic) -> Nat]
      /\ c[Len(topic)] + Cardinality(late) <= tries
      /\ c[Len(topic)] \in Nat
  BY <1>c, <1>t DEF CountsBy
<1>u. UNCHANGED vars => RecordInv' /\ tries' = tries /\ rev' = rev /\ exists' = exists
  BY <1>t, RecordInvNext DEF vars, store, counts
<1>1. ASSUME NEW r \in Requests \cup Offline \cup {Declaration},
             \/ TeeWrite(r) \/ MirrorFails(r) \/ FileWrite(r)
             \/ TopicWrite(r) \/ TopicWriteFails(r) \/ TopicWriteDies(r)
      PROVE  Counting'
  <2> DEFINE l == RecordOf(r, rev + 1)
  <2>1. Attempt(r)
    BY <1>1 DEF TeeWrite, MirrorFails, FileWrite, TopicWrite, TopicWriteFails,
                TopicWriteDies, Write, WriteFails, WriteUnsynced, WriteDies
  <2>2. /\ l \in Records /\ tries' = tries + 1 /\ tries' <= MaxTries
        /\ rev' = rev + 1 /\ mode # "append"
    BY <2>1, AttemptType
  <2>3. exists' = exists /\ phase' = phase
    BY <1>1 DEF TeeWrite, MirrorFails, FileWrite, TopicWrite, TopicWriteFails,
                TopicWriteDies, Write, WriteFails, WriteUnsynced, WriteDies,
                Elsewhere
  <2>4. exists /\ phase = "off"
    <3>1. exists
      BY <2>1 DEF Attempt, Restoring
    <3>2. phase = "off"
      BY <1>1 DEF TeeWrite, MirrorFails, FileWrite, TopicWrite, TopicWriteFails,
                  TopicWriteDies, OverTee, OverFile, OverTopic, Restoring
    <3> QED BY <3>1, <3>2
  <2>5. \/ Unacknowledged(l)
        \/ Lands(l) /\ UNCHANGED late
        \/ UNCHANGED <<topic, late>>
    BY <1>1 DEF TeeWrite, MirrorFails, FileWrite, TopicWrite, TopicWriteFails,
                TopicWriteDies
  <2>6. IsFiniteSet(late') /\ \E e : CountsBy(e)'
    <3> HIDE DEF l
    <3> QED BY <2>2, <2>3, <2>4, <2>5, CountsAttempt
  <2>7. RecordInv'
    <3>1. CASE Write(r) \/ WriteFails(r) \/ WriteUnsynced(r) \/ WriteDies(r)
      BY <1>t, <3>1, RecordInvNext DEF Next, Serve
    <3>2. CASE TopicWrite(r) \/ TopicWriteFails(r) \/ TopicWriteDies(r)
      <4>1. lines' = lines /\ bound' = bound /\ mode' # "append"
        BY <2>2, <3>2 DEF TopicWrite, TopicWriteFails, TopicWriteDies, GivesUp, file
      <4>2. rev' <= tries' /\ tries <= tries'
        BY <1>t, <2>2
      <4> QED BY <1>t, <2>2, <4>1, <4>2, NumbersKept
    <3> QED BY <1>1, <3>1, <3>2 DEF TeeWrite, MirrorFails, FileWrite
  <2> QED BY <2>3, <2>4, <2>6, <2>7 DEF Counting
<1>2. CASE LateLands
  <2>1. PICK r \in late : Lands(r) /\ late' = late \ {r}
    BY <1>2 DEF LateLands
  <2>2. /\ phase' = phase /\ at' = at /\ RecordInv' /\ tries' = tries
        /\ rev' = rev /\ exists' = exists
    BY <1>2, <1>u DEF LateLands, Elsewhere, progress
  <2>3. IsFiniteSet(late') /\ Cardinality(late') = Cardinality(late) - 1
    BY <1>t, <2>1, FS_RemoveElement
  <2>4. r \in Records
    BY DEF BrokerTypeOK
  <2>5. \E e : CountsBy(e)'
    <3>1. c[Len(topic)] + 1 + Cardinality(late') <= tries'
      BY <1>t, <1>d, <2>2, <2>3
    <3> QED BY <1>c, <2>1, <2>2, <2>4, <3>1, CountsLanded
  <2> QED BY <2>2, <2>3, <2>5 DEF Counting
<1>3. CASE ForeignRecord
  <2>1. /\ Lands(Garbage) /\ late' = late /\ phase' = phase /\ at' = at
        /\ RecordInv' /\ tries' = tries /\ rev' = rev /\ exists' = exists
    BY <1>3, <1>u DEF ForeignRecord, Elsewhere, progress
  <2>2. \E e : CountsBy(e)'
    <3>1. c[Len(topic)] + 0 + Cardinality(late') <= tries'
      BY <1>t, <1>d, <2>1
    <3> QED BY <1>c, <2>1, <3>1, CountsLanded
  <2> QED BY <2>1, <2>2 DEF Counting
<1>4. CASE Retention \/ EmptyPoll \/ CaughtUp \/ ReadEnds
  <2>1. /\ topic' = topic /\ late' = late /\ at' = at
        /\ \/ phase' = phase
           \/ phase = "ends" /\ phase' = "starts"
           \/ phase = "polling" /\ phase' = "done"
        /\ RecordInv' /\ tries' = tries /\ rev' = rev /\ exists' = exists
    BY <1>4, <1>u DEF Retention, EmptyPoll, CaughtUp, ReadEnds, Replaying, broker,
                      progress
  <2>2. CountsBy(c)'
    BY <1>t, <1>c, <2>1, CountsKept
  <2> QED BY <2>1, <2>2 DEF Counting
<1>5. CASE ReadStarts
  <2>1. /\ topic' = topic /\ late' = late /\ at' = base /\ phase = "starts"
        /\ phase' \in {"polling", "done"}
        /\ RecordInv' /\ tries' = tries /\ rev' = rev /\ exists' = exists
    BY <1>5, <1>u DEF ReadStarts, Replaying, broker
  <2>2. rev = 0 /\ base <= Len(topic) /\ base \in Nat
    BY <2>1 DEF Counting, Restoring, BrokerTypeOK
  <2>3. 0 <= c[base]
    BY <1>t, <1>d, <2>2
  <2>4. CountsBy(c)'
    BY <1>c, <2>1, <2>2, <2>3 DEF CountsBy
  <2>5. exists'
    BY <2>1 DEF Restoring
  <2> QED BY <2>1, <2>4, <2>5 DEF Counting
<1>6. CASE Fetch
  <2>1. /\ topic' = topic /\ late' = late /\ phase = "polling" /\ phase' = phase
        /\ tries' = tries /\ exists' = exists /\ lines' = lines /\ bound' = bound
        /\ mode' = mode
        /\ rev' = IF Applies(topic[at']) THEN rev + 1 ELSE rev
        /\ at' = 1 + IF base > at THEN base ELSE at
    BY <1>6 DEF Fetch, Replaying, broker, counts, file, process
  <2>2. /\ at' \in 1..Len(topic) /\ at \in Nat /\ base \in Nat
        /\ at' - 1 \in 0..Len(topic) /\ at <= at' - 1 /\ at \in 0..Len(topic)
    <3>1. at' \in 1..Len(topic) /\ at \in Nat /\ base \in Nat
      BY <1>6, FetchDef DEF BrokerTypeOK
    <3>2. at <= Len(topic)
      BY <1>c, <2>1 DEF CountsBy
    <3> QED BY <1>t, <2>1, <3>1, <3>2
  <2>3. /\ rev <= c[at] /\ c[at] <= c[at'-1] /\ c[at'-1] <= c[at']
        /\ topic[at'] # Garbage => c[at'-1] < c[at']
        /\ c[at'] <= c[Len(topic)]
    BY <1>t, <1>c, <2>1, <2>2 DEF CountsBy
  <2>4. c[at] \in Nat /\ c[at'-1] \in Nat /\ c[at'] \in Nat
    BY <1>d, <2>2
  <2>5. rev' <= c[at'] /\ rev' <= tries
    <3>1. c[at'] <= tries
      BY <1>t, <1>d, <2>3, <2>4
    <3>2. CASE Applies(topic[at'])
      <4>1. c[at'-1] < c[at'] /\ rev' = rev + 1
        BY <2>1, <2>3, <3>2 DEF Applies
      <4>2. rev + 1 <= c[at']
        BY <1>t, <2>3, <2>4, <4>1
      <4> QED BY <1>t, <2>4, <3>1, <4>1, <4>2
    <3>3. CASE ~Applies(topic[at'])
      <4>1. rev' = rev
        BY <2>1, <3>3
      <4>2. rev <= c[at']
        BY <1>t, <2>3, <2>4
      <4> QED BY <1>t, <2>4, <3>1, <4>1, <4>2
    <3> QED BY <3>2, <3>3
  <2>6. CountsBy(c)'
    <3>1. at' <= Len(topic)
      BY <1>t, <2>2
    <3> QED BY <1>c, <2>1, <2>5, <3>1 DEF CountsBy
  <2>7. exists /\ mode = "down"
    BY <2>1 DEF Restoring
  <2>8. RecordInv'
    BY <1>t, <2>1, <2>5, <2>7, NumbersKept
  <2> QED BY <1>t, <2>1, <2>6, <2>7, <2>8 DEF Counting
<1>7. CASE ReplayRefused \/ ReplayDies \/ Restored
  <2>1. /\ topic' = topic /\ late' = late /\ phase' = "off" /\ tries' = tries
        /\ exists' = exists /\ rev' = rev /\ lines' = lines /\ bound' = bound
        /\ mode' \in {mode, "declare"}
    BY <1>7 DEF ReplayRefused, ReplayDies, GoesDown, Restored, Replaying, broker,
                vars, store, file, process, counts
  <2>2. CountsBy(c)'
    BY <1>t, <1>c, <2>1, CountsKept
  <2>3. mode = "down"
    BY <1>7 DEF ReplayRefused, ReplayDies, Restored, Restoring
  <2>4. RecordInv'
    BY <1>t, <2>1, <2>3, NumbersKept
  <2> QED BY <1>t, <2>1, <2>2, <2>4 DEF Counting
<1>8. CASE Machine
  <2>1. /\ topic' = topic /\ late' = late /\ phase' = phase /\ at' = at
        /\ World
    BY <1>8 DEF Machine, World, topicVars, broker, progress
  <2>2. RecordInv'
    BY <1>t, <2>1, RecordInvNext DEF Next
  <2>3. /\ tries' = tries
        /\ \/ exists' = exists /\ rev' = rev
           \/ phase = "off" /\ rev' = 0
    BY <1>8 DEF Machine, Stop, MediumFails, MediumRecovers, Wipe, store, counts
  <2>4. CountsBy(c)'
    BY <1>t, <1>c, <2>1, <2>3, CountsKept
  <2> QED BY <1>t, <2>1, <2>2, <2>3, <2>4 DEF Counting
<1>9. CASE VolumeLost
  <2>1. /\ topic' = topic /\ late' = late /\ phase = "off" /\ phase' = phase
        /\ tries' = tries /\ rev' = 0 /\ lines' = << >> /\ bound' = bound
        /\ mode' = "down"
    BY <1>9 DEF VolumeLost, broker, process
  <2>2. CountsBy(c)'
    BY <1>t, <1>c, <2>1, CountsKept
  <2>3. RecordInv'
    <3>1. Parsed' = {} /\ Len(lines') = 0
      BY <2>1 DEF Parsed
    <3>2. bound <= tries
      BY <1>t DEF RecordInv, Bounded
    <3> QED BY <1>t, <2>1, <3>1, <3>2 DEF RecordInv, Bounded
  <2> QED BY <1>t, <2>1, <2>2, <2>3 DEF Counting
<1>10. ASSUME NEW s \in Sinks, StartFound(s) \/ StartFromFile(s)
       PROVE  Counting'
  <2>1. /\ Boot /\ topic' = topic /\ late' = late /\ phase = "off" /\ phase' = phase
    BY <1>10 DEF StartFound, StartFromFile, Deploys, NoTopic, Boot, broker
  <2>2. RecordInv'
    BY <1>t, <2>1, RecordInvNext DEF Next
  <2>3. tries' = tries /\ exists'
    BY <1>10 DEF StartFound, StartFromFile, BootFound, BootHealed, BootRefused,
                 BootKilled, Halfway, store, counts
  <2>4. CountsBy(c)'
    BY <1>t, <1>c, <2>1, <2>3, CountsKept
  <2> QED BY <1>t, <2>1, <2>2, <2>3, <2>4 DEF Counting
<1>11. ASSUME NEW s \in Sinks, SinkRefused(s) \/ StartFromTopic(s)
       PROVE  Counting'
  <2>1. /\ topic' = topic /\ late' = late /\ phase = "off"
        /\ phase' \in {"off", "ends"} /\ tries' = tries /\ rev' = rev
        /\ ~exists /\ exists' /\ lines' = lines /\ bound' = bound
        /\ mode = "down" /\ mode' = mode
    BY <1>11 DEF SinkRefused, StartFromTopic, Deploys, broker, counts, file, process
  <2>2. CountsBy(c)'
    BY <1>t, <1>c, <2>1, CountsKept
  <2>3. RecordInv'
    BY <1>t, <2>1, NumbersKept
  <2>4. rev = 0
    BY <2>1 DEF Counting
  <2> QED BY <1>t, <2>1, <2>2, <2>3, <2>4 DEF Counting
<1>12. CASE UNCHANGED tvars
  <2>1. /\ topic' = topic /\ late' = late /\ phase' = phase /\ at' = at
        /\ UNCHANGED vars
    BY <1>12 DEF tvars, topicVars, broker, progress
  <2>2. CountsBy(c)'
    BY <1>t, <1>c, <1>u, <2>1, CountsKept
  <2> QED BY <1>t, <1>u, <2>1, <2>2 DEF Counting
<1> QED
  BY <1>1, <1>2, <1>3, <1>4, <1>5, <1>6, <1>7, <1>8, <1>9, <1>10, <1>11, <1>12
  DEF TopicNext, TopicServe, TopicBoot, ReplayStep, Broker

LEMMA CountingInvariant == TopicSpec => [](TopicTypeOK /\ Restoring /\ Counting)
<1>1. TopicInit => Counting
  <2> SUFFICES ASSUME TopicInit PROVE Counting
    OBVIOUS
  <2>1. /\ RecordInv /\ topic = << >> /\ Len(topic) = 0 /\ late = {}
        /\ rev = 0 /\ tries = 0 /\ phase = "off"
    BY RecordInvInit DEF TopicInit, Init
  <2>2. IsFiniteSet(late) /\ Cardinality(late) = 0
    BY <2>1, FS_EmptySet
  <2>3. CountsBy([i \in 0..0 |-> 0])
    BY <2>1, <2>2 DEF CountsBy
  <2> QED BY <2>1, <2>2, <2>3 DEF Counting
<1> QED BY <1>1, TopicInitType, RestoringInit, TopicTypeNext, RestoringNext,
           CountingNext, PTL DEF TopicSpec
---------------------------------------------------------------------------
(***************************************************************************)
(* What callers were told.                                                  *)
(***************************************************************************)

\* The store one record further on.
OneMore(s, r) == IF Applies(r) THEN After(s, r) ELSE s

\* t is what the records of the topic come to, up to each offset: all of them
\* to what was told, and so does every beginning of the topic that reaches the
\* end offset of a replay; a replay from the first record is one of them.
TracedBy(t) ==
    /\ t \in [0..Len(topic) -> Stores]
    /\ t[0] = EmptyStore
    /\ \A i \in 1..Len(topic) : t[i] = OneMore(t[i-1], topic[i])
    /\ \A n \in Namespaces \ gaps : t[Len(topic)][n] = Told[n]
    /\ phase \in {"starts", "polling", "done"} =>
          /\ target <= Len(topic)
          /\ \A i \in target..Len(topic), n \in Namespaces \ gaps :
                t[i][n] = Told[n]
    /\ phase \in {"polling", "done"} /\ base = 0 =>
          /\ at <= Len(topic)
          /\ phase = "done" => at >= target
          /\ disk = t[at]

Traced == \E t : TracedBy(t)

\* A record's line does to a namespace of the topic what the write did to what
\* was told of it, and nothing to the others.
LEMMA OneMoreTells ==
    ASSUME NEW s \in Stores, Told \in Stores, NEW r \in Writes, NEW m \in Nat,
           NEW n \in Namespaces
    PROVE  /\ s[n] = Told[n] => OneMore(s, RecordOf(r, m))[n] = TellsOf(r)[n]
           /\ n # r.ns => /\ OneMore(s, RecordOf(r, m))[n] = s[n]
                          /\ TellsOf(r)[n] = Told[n]
<1> DEFINE l == RecordOf(r, m)
<1>1. /\ l \in Records /\ l.op = r.op /\ l.ns = r.ns
      /\ r.op \in {"SetFlag", "PublishNamespace", "DeleteNamespace"}
  BY RecordOfType DEF Writes, Flips, Publishes, Retires
<1>2. r.ns \in Namespaces
  BY DEF Writes, Flips, Publishes, Retires
<1>3. Applies(l) <=> r.op # "PublishNamespace"
  BY <1>1, RecordGarbage DEF Applies
<1>4. CASE r.op = "PublishNamespace"
  BY <1>3, <1>4 DEF OneMore, TellsOf
<1>5. CASE r.op # "PublishNamespace"
  <2>1. OneMore(s, l) = After(s, r) /\ TellsOf(r) = After(Told, r)
    <3>1. OneMore(s, l) = After(s, l) /\ TellsOf(r) = After(Told, r)
      BY <1>3, <1>5 DEF OneMore, TellsOf
    <3>2. After(s, l) = After(s, r)
      BY <1>1, <1>5 DEF After, Outcome, RecordOf
    <3> QED BY <3>1, <3>2
  <2>2. \A u \in Stores : After(u, r)[n] = IF n = r.ns THEN Outcome(u[n], r) ELSE u[n]
    BY <1>2 DEF After, Stores
  <2> HIDE DEF l
  <2> QED BY <2>1, <2>2 DEF l
<1> QED BY <1>4, <1>5

\* A record that lands leaves everything traced: if it is not told of, its
\* namespace is given up.
LEMMA LandsTraced ==
    ASSUME BrokerTypeOK, NEW r \in Records \cup {Garbage}, Lands(r),
           NEW t, TracedBy(t), gaps \subseteq gaps',
           \A n \in Namespaces \ gaps' : OneMore(t[Len(topic)], r)[n] = Told'[n],
           \/ phase' \in {"off", "ends"}
           \/ /\ phase' = phase /\ target' = target /\ at' = at
              /\ base' = base /\ disk' = disk /\ Told' = Told
    PROVE  Traced'
<1> DEFINE N == Len(topic)
<1>1. /\ N \in Nat /\ Len(topic') = N + 1
      /\ \A i \in 1..N : topic'[i] = topic[i]
      /\ topic'[N + 1] = r
  BY LandsDef
<1>2. /\ t \in [0..N -> Stores] /\ t[0] = EmptyStore
      /\ \A i \in 1..N : t[i] = OneMore(t[i-1], topic[i])
      /\ t[N] \in Stores
  BY <1>1 DEF TracedBy
<1>3. PICK u : u = [i \in 0..(N + 1) |-> IF i = N + 1 THEN OneMore(t[N], r) ELSE t[i]]
  OBVIOUS
<1>4. OneMore(t[N], r) \in Stores
  BY <1>2, AppliesType DEF OneMore
<1> HIDE DEF N
<1>5. /\ u \in [0..(N + 1) -> Stores]
      /\ u[N + 1] = OneMore(t[N], r)
      /\ \A i \in 0..N : u[i] = t[i]
  BY <1>1, <1>2, <1>3, <1>4
<1>6. u[0] = EmptyStore
  BY <1>1, <1>2, <1>5
<1>7. ASSUME NEW i \in 1..(N + 1) PROVE u[i] = OneMore(u[i-1], topic'[i])
  <2>1. CASE i = N + 1
    <3>1. i - 1 = N /\ N \in 0..N
      BY <1>1, <2>1
    <3> QED BY <1>1, <1>5, <2>1, <3>1
  <2>2. CASE i # N + 1
    <3>1. i \in 1..N /\ i \in 0..N /\ i - 1 \in 0..N
      BY <1>1, <2>2
    <3> QED BY <1>1, <1>2, <1>5, <3>1
  <2> QED BY <2>1, <2>2
<1>8. ASSUME NEW n \in Namespaces \ gaps' PROVE u[N + 1][n] = Told'[n]
  BY <1>5 DEF N
<1>9. ASSUME phase' \in {"starts", "polling", "done"}
      PROVE  /\ target' <= N + 1
             /\ \A i \in target'..(N + 1), n \in Namespaces \ gaps' :
                   u[i][n] = Told'[n]
  <2>1. /\ phase' = phase /\ target' = target /\ Told' = Told
        /\ target \in Nat /\ target <= N
        /\ \A i \in target..N, n \in Namespaces \ gaps : t[i][n] = Told[n]
    BY <1>9 DEF TracedBy, BrokerTypeOK, N
  <2>2. ASSUME NEW i \in target..(N + 1), NEW n \in Namespaces \ gaps'
        PROVE  u[i][n] = Told'[n]
    <3>1. CASE i = N + 1
      BY <1>8, <3>1
    <3>2. CASE i # N + 1
      <4>1. i \in target..N /\ i \in 0..N
        BY <1>1, <2>1, <3>2
      <4> QED BY <1>5, <2>1, <4>1
    <3> QED BY <3>1, <3>2
  <2> QED BY <1>1, <2>1, <2>2
<1>10. ASSUME phase' \in {"polling", "done"}, base' = 0
       PROVE  /\ at' <= N + 1
              /\ phase' = "done" => at' >= target'
              /\ disk' = u[at']
  <2>1. /\ phase' = phase /\ target' = target /\ at' = at /\ disk' = disk
        /\ at \in Nat /\ at <= N /\ (phase = "done" => at >= target)
        /\ disk = t[at]
    BY <1>10 DEF TracedBy, BrokerTypeOK, N
  <2> QED BY <1>1, <1>5, <2>1
<1>11. TracedBy(u)'
  BY <1>1, <1>5, <1>6, <1>7, <1>8, <1>9, <1>10 DEF TracedBy, OneMore, After
<1> QED BY <1>11 DEF Traced
\* Where nothing lands, what is traced stays traced.
LEMMA StillTraced ==
    ASSUME NEW t, TracedBy(t), topic' = topic,
           \A n \in Namespaces \ gaps' : n \notin gaps /\ Told'[n] = Told[n],
           \/ phase' \in {"off", "ends"}
           \/ /\ phase' = phase /\ target' = target
              /\ base' = 0 => base = 0 /\ at' = at /\ disk' = disk
    PROVE  Traced'
<1>1. TracedBy(t)'
  BY DEF TracedBy, OneMore, After
<1> QED BY <1>1 DEF Traced

\* Where nothing lands and nothing is told, a step of a replay has only its own
\* progress to answer for.
LEMMA TracedRead ==
    ASSUME NEW t, TracedBy(t), topic' = topic, gaps' = gaps, Told' = Told,
           phase' \in {"starts", "polling", "done"} =>
               /\ target' <= Len(topic)
               /\ \A i \in target'..Len(topic), n \in Namespaces \ gaps :
                      t[i][n] = Told[n],
           phase' \in {"polling", "done"} /\ base' = 0 =>
               /\ at' <= Len(topic)
               /\ phase' = "done" => at' >= target'
               /\ disk' = t[at']
    PROVE  Traced'
<1>1. t \in [0..Len(topic') -> Stores] /\ t[0] = EmptyStore
  BY DEF TracedBy
<1>2. \A i \in 1..Len(topic') : t[i] = OneMore(t[i-1], topic'[i])
  BY DEF TracedBy
<1>3. \A n \in Namespaces \ gaps' : t[Len(topic')][n] = Told'[n]
  BY DEF TracedBy
<1>4. phase' \in {"starts", "polling", "done"} =>
          /\ target' <= Len(topic')
          /\ \A i \in target'..Len(topic'), n \in Namespaces \ gaps' :
                 t[i][n] = Told'[n]
  OBVIOUS
<1>5. phase' \in {"polling", "done"} /\ base' = 0 =>
          /\ at' <= Len(topic')
          /\ phase' = "done" => at' >= target'
          /\ disk' = t[at']
  OBVIOUS
<1>6. TracedBy(t)'
  BY <1>1, <1>2, <1>3, <1>4, <1>5 DEF TracedBy, OneMore, After
<1> QED BY <1>6 DEF Traced

LEMMA TracedNext ==
    TopicTypeOK /\ Restoring /\ Counting /\ Traced /\ [TopicNext]_tvars => Traced'
<1> SUFFICES ASSUME TopicTypeOK, Restoring, Counting, Traced, [TopicNext]_tvars
             PROVE  Traced'
  OBVIOUS
<1>o. RecordTypeOK /\ BrokerTypeOK
  BY TopicTypes
<1> USE <1>o
<1>c. PICK t : TracedBy(t)
  BY DEF Traced
<1>t. /\ rev \in Nat /\ rev <= tries /\ tries \in Nat /\ MaxTries \in Nat
      /\ Told \in Stores /\ Len(topic) \in Nat /\ t[Len(topic)] \in Stores
  <2>1. rev \in Nat /\ rev <= tries /\ tries \in Nat
    BY DEF Counting, RecordInv, RecordTypeOK, Bounded
  <2>2. Told \in Stores
    BY RecordBounds DEF RecordTypeOK, Told
  <2>3. Len(topic) \in Nat /\ t[Len(topic)] \in Stores
    BY <1>c DEF TracedBy, BrokerTypeOK
  <2> QED BY <2>1, <2>2, <2>3, RecordBounds
<1>b. book' = book => Told' = Told
  BY DEF Told
<1>g. \A n \in Namespaces \ gaps : t[Len(topic)][n] = Told[n]
  BY <1>c DEF TracedBy
<1>w. ASSUME NEW r \in Requests \cup Offline \cup {Declaration}, Attempt(r)
      PROVE  /\ RecordOf(r, rev + 1) \in Records /\ r \in Writes
             /\ RecordOf(r, rev + 1).ns = r.ns
             /\ Says(rev + 1, TellsOf(r)) => Told' = TellsOf(r)
             /\ \A n \in Namespaces \ gaps :
                   OneMore(t[Len(topic)], RecordOf(r, rev + 1))[n] = TellsOf(r)[n]
             /\ \A n \in Namespaces : n # r.ns =>
                   /\ OneMore(t[Len(topic)], RecordOf(r, rev + 1))[n] = t[Len(topic)][n]
                   /\ TellsOf(r)[n] = Told[n]
  <2>1. /\ RecordOf(r, rev + 1) \in Records /\ r \in Writes
        /\ tries' = tries + 1 /\ tries' <= MaxTries
    BY <1>w, AttemptType
  <2>2. rev + 1 \in Nat /\ rev + 1 <= MaxTries
    BY <1>t, <2>1
  <2>3. Says(rev + 1, TellsOf(r)) => Told' = TellsOf(r)
    <3>1. MaxTries \in DOMAIN book
      BY <1>t DEF RecordTypeOK
    <3> QED BY <1>t, <2>2, <3>1 DEF Says, Told
  <2>4. \A n \in Namespaces :
           /\ t[Len(topic)][n] = Told[n] =>
                 OneMore(t[Len(topic)], RecordOf(r, rev + 1))[n] = TellsOf(r)[n]
           /\ n # r.ns =>
                 /\ OneMore(t[Len(topic)], RecordOf(r, rev + 1))[n] = t[Len(topic)][n]
                 /\ TellsOf(r)[n] = Told[n]
    BY <1>t, <2>1, <2>2, OneMoreTells
  <2>5. RecordOf(r, rev + 1).ns = r.ns
    BY DEF RecordOf
  <2> QED BY <1>g, <2>1, <2>3, <2>4, <2>5
<1>f. mode # "down" \/ OverFile => phase = "off"
  BY DEF Restoring, OverFile
<1>1. ASSUME NEW r \in Requests \cup Offline \cup {Declaration},
             TeeWrite(r) \/ TopicWrite(r)
      PROVE  Traced'
  <2>1. /\ Attempt(r) /\ Lands(RecordOf(r, rev + 1)) /\ Says(rev + 1, TellsOf(r))
        /\ gaps' = gaps /\ phase' = phase /\ mode # "down"
    BY <1>1 DEF TeeWrite, TopicWrite, Write, OverTee, OverTopic, Elsewhere
  <2>2. Told' = TellsOf(r) /\ RecordOf(r, rev + 1) \in Records
    BY <1>w, <2>1
  <2>3. \A n \in Namespaces \ gaps' :
            OneMore(t[Len(topic)], RecordOf(r, rev + 1))[n] = Told'[n]
    BY <1>w, <2>1, <2>2
  <2>4. phase' = "off"
    BY <1>f, <2>1
  <2> QED BY <1>c, <2>1, <2>2, <2>3, <2>4, LandsTraced
<1>2. ASSUME NEW r \in Requests \cup Offline \cup {Declaration},
             MirrorFails(r) \/ TopicWriteFails(r) \/ TopicWriteDies(r)
      PROVE  Traced'
  <2>1. /\ Attempt(r) /\ phase' = phase /\ mode # "down"
        /\ Unacknowledged(RecordOf(r, rev + 1))
        /\ \/ gaps' = gaps \cup {r.ns} /\ Says(rev + 1, TellsOf(r))
           \/ /\ gaps' = IF topic' = topic THEN gaps ELSE gaps \cup {r.ns}
              /\ book' = book
    BY <1>2 DEF MirrorFails, TopicWriteFails, TopicWriteDies, Write, OverTee,
                OverTopic, Elsewhere
  <2>2. phase' = "off"
    BY <1>f, <2>1
  <2>3. gaps \subseteq gaps'
    BY <2>1
  <2>4. RecordOf(r, rev + 1) \in Records /\ (Told' = TellsOf(r) \/ Told' = Told)
    BY <1>b, <1>w, <2>1
  <2>5. CASE topic' = topic
    <3>1. \A n \in Namespaces \ gaps' : n \notin gaps /\ Told'[n] = Told[n]
      <4>1. CASE gaps' = gaps \cup {r.ns} /\ Says(rev + 1, TellsOf(r))
        <5>1. Told' = TellsOf(r)
          BY <1>w, <2>1, <4>1
        <5> QED BY <1>w, <2>1, <4>1, <5>1
      <4>2. CASE book' = book
        BY <1>b, <2>3, <4>2
      <4> QED BY <2>1, <4>1, <4>2
    <3> QED BY <1>c, <2>2, <2>5, <3>1, StillTraced
  <2>6. CASE Lands(RecordOf(r, rev + 1)) /\ topic' # topic
    <3>1. \A n \in Namespaces \ gaps' :
              OneMore(t[Len(topic)], RecordOf(r, rev + 1))[n] = Told'[n]
      <4>1. gaps' = gaps \cup {r.ns}
        BY <2>1, <2>6
      <4> QED BY <1>g, <1>w, <2>1, <2>4, <4>1
    <3> QED BY <1>c, <2>2, <2>3, <2>4, <2>6, <3>1, LandsTraced
  <2> QED BY <2>1, <2>5, <2>6 DEF Unacknowledged
<1>3. ASSUME NEW r \in Requests \cup Offline \cup {Declaration}, FileWrite(r)
      PROVE  Traced'
  <2>1. /\ topic' = topic /\ gaps' = gaps \cup Retold /\ phase' = phase /\ OverFile
    BY <1>3 DEF FileWrite, Elsewhere
  <2>2. \A n \in Namespaces \ gaps' : n \notin gaps /\ Told'[n] = Told[n]
    BY <2>1 DEF Retold
  <2>3. phase' = "off"
    BY <1>f, <2>1
  <2> QED BY <1>c, <2>1, <2>2, <2>3, StillTraced
<1>4. CASE LateLands
  <2>1. PICK r \in late : Lands(r) /\ gaps' = gaps \cup {r.ns}
    BY <1>4 DEF LateLands
  <2>2. /\ phase' = phase /\ target' = target /\ at' = at /\ base' = base
        /\ disk' = disk /\ book' = book
    BY <1>4 DEF LateLands, Elsewhere, progress, vars, store, past
  <2>3. r \in Records /\ r.ns \in Namespaces
    BY DEF BrokerTypeOK, Records
  <2>4. \A n \in Namespaces \ gaps' : OneMore(t[Len(topic)], r)[n] = Told'[n]
    <3>1. \A n \in Namespaces : n # r.ns =>
              OneMore(t[Len(topic)], r)[n] = t[Len(topic)][n]
      BY <1>t, <2>3 DEF OneMore, After, Stores
    <3> QED BY <1>b, <1>g, <2>1, <2>2, <3>1
  <2>5. gaps \subseteq gaps' /\ Told' = Told
    BY <1>b, <2>1, <2>2
  <2> QED BY <1>c, <2>1, <2>2, <2>3, <2>4, <2>5, LandsTraced
<1>5. CASE ForeignRecord
  <2>1. /\ Lands(Garbage) /\ gaps' = gaps
        /\ phase' = phase /\ target' = target /\ at' = at /\ base' = base
        /\ disk' = disk /\ book' = book
    BY <1>5 DEF ForeignRecord, Elsewhere, progress, vars, store, past
  <2>2. OneMore(t[Len(topic)], Garbage) = t[Len(topic)]
    BY DEF OneMore, Applies
  <2>3. Told' = Told
    BY <1>b, <2>1
  <2> QED BY <1>c, <1>g, <2>1, <2>2, <2>3, LandsTraced
<1>6. CASE Retention
  <2>1. /\ topic' = topic /\ gaps' = gaps /\ phase' = phase /\ target' = target
        /\ book' = book /\ base' # 0
    BY <1>6 DEF Retention, progress, vars, past, BrokerTypeOK
  <2> QED BY <1>b, <1>c, <2>1, StillTraced
<1>7. CASE Machine
  <2>1. /\ topic' = topic /\ gaps' = gaps /\ phase' = phase /\ target' = target
        /\ base' = base /\ at' = at /\ book' = book
        /\ disk' = disk \/ phase' = "off"
    BY <1>7 DEF Machine, Stop, MediumFails, MediumRecovers, Wipe, topicVars,
                broker, progress, store, past
  <2> QED BY <1>b, <1>c, <2>1, StillTraced
<1>8. CASE VolumeLost
  <2>1. topic' = topic /\ gaps' = gaps /\ phase' = "off" /\ book' = book
    BY <1>8 DEF VolumeLost, broker
  <2> QED BY <1>b, <1>c, <2>1, StillTraced
<1>9. ASSUME NEW s \in Sinks,
             \/ StartFound(s) \/ StartFromFile(s)
             \/ SinkRefused(s) \/ StartFromTopic(s)
      PROVE  Traced'
  <2>1. /\ topic' = topic /\ gaps' = gaps /\ phase' \in {"off", "ends"}
        /\ book' = book
    BY <1>9 DEF StartFound, StartFromFile, SinkRefused, StartFromTopic, Deploys,
                NoTopic, broker, BootFound, BootHealed, BootRefused, BootKilled,
                Halfway, past
  <2> QED BY <1>b, <1>c, <2>1, StillTraced
<1>10. CASE ReadEnds
  <2>1. /\ topic' = topic /\ gaps' = gaps /\ phase' = "starts"
        /\ target' = Len(topic) /\ book' = book
    BY <1>10 DEF ReadEnds, Replaying, broker, vars, past
  <2>2. target' <= Len(topic) /\ target'..Len(topic) = {Len(topic)}
    BY <1>t, <2>1
  <2> QED BY <1>b, <1>c, <1>g, <2>1, <2>2, TracedRead
<1>11. CASE ReadStarts
  <2>1. /\ topic' = topic /\ gaps' = gaps /\ phase = "starts"
        /\ phase' = IF target = base THEN "done" ELSE "polling"
        /\ target' = target /\ base' = base /\ at' = base /\ book' = book
        /\ disk' = disk
    BY <1>11 DEF ReadStarts, Replaying, broker, vars, past, store
  <2>2. disk = EmptyStore
    BY <2>1 DEF Restoring
  <2>3. base' = 0 => /\ at' <= Len(topic)
                     /\ phase' = "done" => at' >= target'
                     /\ disk' = t[at']
    BY <1>c, <1>t, <2>1, <2>2 DEF TracedBy
  <2>4. /\ target' <= Len(topic)
        /\ \A i \in target'..Len(topic), n \in Namespaces \ gaps :
               t[i][n] = Told[n]
    BY <1>c, <2>1 DEF TracedBy
  <2> QED BY <1>b, <1>c, <2>1, <2>3, <2>4, TracedRead
<1>12. CASE EmptyPoll \/ UNCHANGED tvars
  <2>1. /\ topic' = topic /\ gaps' = gaps /\ phase' = phase /\ target' = target
        /\ base' = base /\ at' = at /\ book' = book /\ disk' = disk
    BY <1>12 DEF EmptyPoll, Replaying, broker, vars, past, store, tvars,
                 topicVars, progress
  <2> QED BY <1>b, <1>c, <2>1, StillTraced
<1>13. CASE CaughtUp
  <2>1. /\ topic' = topic /\ gaps' = gaps /\ phase = "polling" /\ phase' = "done"
        /\ target' = target /\ base' = base /\ at' = at /\ book' = book
        /\ disk' = disk /\ at >= target
    BY <1>13 DEF CaughtUp, Replaying, broker, vars, past, store, progress
  <2>2. /\ target' <= Len(topic)
        /\ \A i \in target'..Len(topic), n \in Namespaces \ gaps :
               t[i][n] = Told[n]
    BY <1>c, <2>1 DEF TracedBy
  <2>3. base' = 0 => at' <= Len(topic) /\ disk' = t[at']
    BY <1>c, <2>1 DEF TracedBy
  <2> QED BY <1>b, <1>c, <2>1, <2>2, <2>3, TracedRead
<1>14. CASE ReplayRefused \/ ReplayDies \/ Restored
  <2>1. topic' = topic /\ gaps' = gaps /\ phase' = "off" /\ book' = book
    BY <1>14 DEF ReplayRefused, ReplayDies, GoesDown, Restored, Replaying, broker,
                 vars, past
  <2> QED BY <1>b, <1>c, <2>1, StillTraced
<1>15. CASE Fetch
  <2>1. /\ topic' = topic /\ gaps' = gaps /\ phase = "polling" /\ phase' = phase
        /\ target' = target /\ base' = base /\ book' = book
        /\ at' = 1 + IF base > at THEN base ELSE at
        /\ disk' = OneMore(disk, topic[at'])
    BY <1>15 DEF Fetch, Replaying, broker, past, OneMore
  <2>2. at' \in 1..Len(topic) /\ at \in Nat
    BY <1>15, FetchDef DEF BrokerTypeOK
  <2>3. ASSUME base = 0 PROVE at' <= Len(topic) /\ disk' = t[at']
    <3>1. at' = at + 1 /\ at' - 1 = at
      BY <2>1, <2>2, <2>3
    <3>2. disk = t[at]
      BY <1>c, <2>1, <2>3 DEF TracedBy
    <3>3. t[at'] = OneMore(t[at'-1], topic[at'])
      BY <1>c, <2>2 DEF TracedBy
    <3> QED BY <1>t, <2>1, <2>2, <3>1, <3>2, <3>3
  <2>4. /\ target' <= Len(topic)
        /\ \A i \in target'..Len(topic), n \in Namespaces \ gaps :
               t[i][n] = Told[n]
    BY <1>c, <2>1 DEF TracedBy
  <2> QED BY <1>b, <1>c, <2>1, <2>3, <2>4, TracedRead
<1> QED
  BY <1>1, <1>2, <1>3, <1>4, <1>5, <1>6, <1>7, <1>8, <1>9, <1>10, <1>11, <1>12,
     <1>13, <1>14, <1>15
  DEF TopicNext, TopicServe, TopicBoot, ReplayStep, Broker

\* "The replay source that makes a store wipe cost nothing": on every namespace
\* of which the topic missed nothing and got nothing that was answered as
\* failed, a store healed from it is what callers were told, whatever landed,
\* was lost or was late elsewhere, before the replay or under it.
THEOREM ToldTheorem == TopicSpec => []TopicKeepsTold
<1>1. TopicInit => Traced
  <2> SUFFICES ASSUME TopicInit PROVE Traced
    OBVIOUS
  <2>1. /\ topic = << >> /\ Len(topic) = 0 /\ phase = "off"
        /\ Told = EmptyStore /\ EmptyStore \in Stores
    BY RecordBounds DEF TopicInit, Init, Told, EmptyStore, Stores
  <2>2. TracedBy([i \in 0..0 |-> EmptyStore])
    BY <2>1 DEF TracedBy
  <2> QED BY <2>2 DEF Traced
<1>2. TopicTypeOK /\ Traced => TopicKeepsTold
  <2> SUFFICES ASSUME TopicTypeOK, Traced, phase = "done", base = 0,
                      NEW n \in Namespaces \ gaps
               PROVE  disk[n] = Told[n]
    BY DEF TopicKeepsTold
  <2>1. PICK t : TracedBy(t)
    BY DEF Traced
  <2>2. /\ at \in Nat /\ target \in Nat /\ Len(topic) \in Nat
        /\ at <= Len(topic) /\ at >= target /\ disk = t[at]
        /\ \A i \in target..Len(topic) : t[i][n] = Told[n]
    BY <2>1 DEF TracedBy, TopicTypeOK
  <2> QED BY <2>2
<1> QED BY <1>1, <1>2, CountingInvariant, TracedNext, TopicInitType, PTL
        DEF TopicSpec
=============================================================================
