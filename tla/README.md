# flipr, specified

TLA+ models of flipr, the flag store, with the TLC runs that check them and the
TLAPS proofs of what matters most. Every definition is read from the Go source;
the map in `PROJECT.json` says which lines.

## The system

flipr is one process over one bbolt file, with an operation record in a file
beside it, in a Kafka topic, or in both. Services publish the flags they have, operators flip them with a
reason, clients ask before they do anything expensive.

| part | state | operations | talks to |
|---|---|---|---|
| store (`store.go`) | bbolt buckets per `service@version`, the revision and generation in `meta`; in memory the published snapshot, the revision, `lastWriteErr`, the writer lock | `OpenStore`, `Flip`, `Publish`, `Retire` (all through `transact`), `GetFlag`, `GetNamespace`, `SetRevision` | calls the record from inside the write |
| rules (`validate.go`, `lintExpensive`) | none | names, reasons, value kinds, the budget of 24, the emergency-page discipline | run by the handlers and inside the transaction |
| handlers (`server.go`) | none of their own | decode, lock check, admission, the RPC, the answer with the revision | the store, the lock watch, the client set |
| record (`oplog.go`, `filelog.go`) | an append-only file of one line per mutation, a `bufio.Writer` in front of it | `OpSync`, `FileSink.Write`, `TeeSink.Write` | written under the writer lock |
| replay (`filelog.go`, `main.go`) | the two passes over the file | `scanOplog`, `standing`, `undoneBy`, `ReplayFileTo`, `HealFromFile` | rebuilds a fresh store at boot |
| restore (`ctl.go`) | the store file, moved aside and rebuilt | `ctl restore`, `ctl assess` | the file and the store, server down |
| kafka mirror (`kafka.go`, `main.go`) | a topic of the broker's; of a replay, its two bounds, the next offset, two clocks | publish with a timeout, replay to an end offset | the only sink, or second in `TeeSink`; read at boot when there is no file to heal from |
| lock (`lock.go`) | the lock file; a one-second cache of it | `ctl lock`, `ctl unlock`, `lockWatch.current` | every request |
| admission (`clients.go`) | the known-client set cached by revision | `clientSets.current`, `admit` | the store's snapshot |
| health (`server.go`, `oplog.go`) | none; `OpLog.lastErr` remembers when the sink last refused | looks at the store, the lock, the sink and the last failed write, in turn | probes, `ctl lock` |
| clients (`clients/`) | a cached namespace, the generation, the last answers, a remembered lock | ping on every check, republish on a new generation, back off | the handlers |

What is hard in each, and what makes it right:

- **Store.** A write is eight steps (lock, commit, number, reload, publish,
  record, and two of undo), any of which can fail, with readers and other
  handlers between any two of them and a kill anywhere. Right means: readers are
  served the last commit, a write and its record are one act, an undo takes back
  exactly its write, a number never names two records.
- **Rules.** They are checked against the namespace as it is inside the
  transaction. Right means they hold however two legal requests race.
- **Reads.** A caller checkpoints on the revision, which moves apart from the
  snapshot. Right means "unchanged" is only said to a caller that holds what is
  served.
- **Health.** Four looks, no two at one moment, at state that writes set and
  clear. Right means healthy was true at some moment of the probe.
- **Record, replay, restore.** Restores undo ranges that hold other restores;
  kills and full disks leave half lines; heals and restores renumber. Right
  means a replay bounded at any number is the store as of that number, and an
  acknowledged line can always be read back.
- **Kafka mirror.** A publish that was given up may have landed, may land later, or
  never; a replay meets a broker that is slow, silent, trimmed by retention or
  written to by others, and deployments change which record is the one. Right
  means a replay that succeeds restores what the records say, one that cannot ends
  in a refusal, and the topic never tells of a flip whose caller was told it failed.
- **Lock, admission.** Both are caches in front of every request; the file is
  changed by a person between a stat and a read, the set by writes that pass the
  gate themselves. Right means a lock is honoured, and let go, within its second,
  and a cached set is the one in force.
- **Clients.** Several goroutines share one cache over a lossy network and a
  store that may be wiped, locked or stopped. Right means an answer given as known
  is flipr's and no older than the cache's ttl, a lock is remembered no longer
  than its deadline, and the declarations come back after a wipe.

## The modules

| module | what it is |
|---|---|
| `FlagRules` | flags, namespaces, writes and their records; the mutations and the rules as operators, used by every other module |
| `FlagStore` | the promise: a write and its record are one atomic act. `Lose` and `Ghost` are the two ways a fault breaks it |
| `FliprStore` | `Store.transact` step by step under the three write handlers, with faults, kills and restarts; implements `FlagStore` |
| `FliprReads` | `FliprStore` with callers that poll `GetNamespace` with `since`, and that probe `/health` |
| `FliprRecord` | the record file with the processes around it: the server, its boot and heal, the offline restore and the offline flip |
| `FliprTopic` | `FliprRecord` with the topic beside or instead of the file: the tee, the deployments, the boot's choice of what to heal from, and the replay record by record |
| `FliprGate` | `FliprStore` behind `server.decode`: the watch of the lock file and the person at the file, and the set of known clients cached by revision |
| `FliprClient` | the Go client: goroutines that share its cache, its generation and its remembered lock, over a network that loses attempts, beside a store that is flipped, wiped, locked and stopped |
| `MC*` | the instances TLC checks |
| `*_proofs` | theorems and lemmas |

**FliprStore and the code.** `disk`, `diskRev` and `log` are the bbolt file and
the record, and survive `Crash`; `snap`, `rev`, `lastWriteErr` and `wmu` are the
fields of `Store`. `pc[p]` is where handler p stands in `transact`; `req`,
`prior`, `next`, `view` are its locals. `Accept` is a handler up to its call,
`Lock` takes `wmu`, `Commit` is the `db.Update` that carries the mutation, the
capture of the namespace and the number, `StoreRevision`, `Reload` and `Publish`
are the three statements after it, `Record` is the `OpSync` inside the write,
`Undo`, `Reload` again and `UndoPublish` the rollback, `Reply` the answer after
the lock is released. Every `return err` of `transact` is an action of its own
(`Refuse`, `CommitFails`, `ReloadFails`, `SinkFails`, `FsyncFails`, `UndoFails`,
`UndoReloadFails`). `answers`, `parted`, `faults`, `accepted` are history:
`parted` collects the namespaces where a fault let store and record part, which
is what the properties may then no longer promise.

**FliprReads.** `ReadRevision` and `ReadSnapshot` are the two reads
`handleGetNamespace` makes with writers between them; `held` is what the caller
keeps, and outlives the process. `Probe`, `LookAtLock`, `LookAtSink` and
`LookAtWrite` are the looks of `handleHealth` in its order; `Verdict` is what the
last makes of them. `sinkErr` is `OpLog.lastErr` within its window, set by a record
refused in a write or by a lock's (`LockRecordRefused`), cleared by `Minute` or by
a restart. `refused` and `well` are history: a write's record was refused within
the window, and flipr was well at a moment of the probe.

**FliprRecord.** A write is one step here with its ways of failing
(`WriteFails`, `WriteUnsynced`, `WriteDies`), because `FliprStore` takes it
apart; what is taken apart is the file. `lines` are its complete lines, `torn`
says it ends in bytes without a newline, `jam` that the sink's `bufio.Writer`
holds an error, `ill` that the medium refuses writes. `Parsed`, `Standing`,
`Applied`, `Replay`, `Highest` are the two passes of `ReplayFileTo`. `mode` is the
process that runs: `BootFound`, `BootHealed`, `BootRefused`, `BootKilled` are
main.go up to its declaration, `Restore`, `RestoreKilled`, `RestoreRecorded`,
`RestoreUnrecorded` are `ctl restore` with its checks, and an attempt while
`mode = "down"` is `ctl`'s offline flip. `book` is history: the flips in force as
of each number, kept by applying each recorded write as it happens and, at a
restore, by going back to the page it names. It is what replays are compared
with.

**FliprTopic.** `sink` is what `main.go` wired: the topic, the tee, or the file;
`Deploys` says that it moves along that line. `TeeWrite`, `MirrorFails` and
`FileWrite` are `TeeSink.Write` and `FileSink.Write` over FliprRecord's writes,
`TopicWrite`, `TopicWriteFails` and `TopicWriteDies` are `KafkaSink.Write` as the only
sink. `topic` from `base` on is what the broker holds, `late` what was given up and may
land (`LateLands`); `Retention` and `ForeignRecord` are others' doing. `StartFound`,
`StartFromFile`, `SinkRefused` and `StartFromTopic` are the boot's branches, the last
into `phase`: `ReadEnds` and `ReadStarts` are `replayBounds`, `target` and `from` what
they brought, `Fetch` one record of a poll, `EmptyPoll` a poll that timed out, `quiet`
and `spent` the stall's clock and the deadline's; `CaughtUp`, `ReplayRefused`,
`ReplayDies` and `Restored` are the ways out. `gaps` (namespaces of which the topic
missed something or got something answered as failed) and `apart` (a process ran
without the file, or the file was lost) are history. The topic is modelled as one
partition, with a poll's worth of the deadline per record.

**FliprGate.** `gate[p]` is where handler p's request stands in `decode`. `mtime`,
`lock`, `broken` and `checked` are the fields of `lockWatch`, `wmutex` is `w.mu`
across a look. A look is one step where it only stats (`StatGone`, `StatFails`,
`StatSame`) and two where it reads (`StatChanged`, then `ReadLock`, `ReadFails` or
`ReadGone`), because the person (`WriteLock`, `Garble`, `Mend`, `RemoveLock`) may
come between. `ReadGone` is the handler that panics on the nil lock. `Tell` is the
record of a change, whose error `main.go` drops. `ReadSetRevision` and `Admit` are
the two reads of `clientSets.current`; an admitted write enters `FliprStore` by its
own `Accept`. `clear`, `closed`, `unsound` date what the file said, `untold` is
that the record and the lock in force parted where the code says nothing:
a restart, a refused record, a file gone between stat and read.

**FliprClient.** `pc[t]` is where goroutine t stands in its call, `call[t]` the rpc
it is in and the attempt it has come to, `wire[t]` the answer under way. Every
critical section of `c.mu` is one step; between any two, other goroutines and the
store move. `AnswerFromLock`, `Send`, `Land`, `TryAgain` and `GiveUp` are `rpc` and
`once`, `Verify`, `Published`, `PublishFails` and `PingFails` are `verify`, `Fresh`,
`Fetched`, `Read` and `Unknown` are `Check`, `New` and `FirstContact` the boot. The
store's side (`Serve*`) is the handlers at the size a client sees them: `FliprStore`
and `FliprGate` say why one step is enough. `Stopped` is which methods a lock stops:
under one on the whole store, all that are decoded. `ListNamespaces` is not, so
`ServeList` answers it under any lock, and its 200 clears the client's remembered lock
like any other. `held`, `lockedAt`, `declared` are
history.

In both, `now` is a clock. In `FliprGate` time passes between looks only; in
`FliprClient` while every goroutine is idle or waits for an answer, and no attempt
outlives `Timeout`. So the client's own code takes no time, and the wait before a
retry is inside the attempt; a bound below is a bound to that precision.

## The runs

| run | question | bounds |
|---|---|---|
| `store_faults` | do the snapshot, the record and the rules survive racing handlers, every fault, a kill and a restart, does `transact` implement `FlagStore`, strictly until a fault parts store and record, and is every write that reaches the lock answered? | two namespaces, two keys, three values of two kinds, a budget of one, two handlers, three requests, two faults |
| `reads_quiet` | is a checkpoint read in a quiet moment good for as long as its number stands, and was a healthy flipr healthy? | one caller, two handlers, a namespace over the global scope, three requests, two faults |
| `record_replays` | do replay, store and numbers tell one story over boots, wipes, heals, restores, offline flips and a bad medium, and is the way back another restore? | a service and flipr's own namespace, five attempts, two faults, three stops and wipes |
| `topic_heals` | does a replay of the topic restore what the records say and what callers were told, does it end, does the mirror stay behind the file? | a service and flipr's own namespace, one flip, one retire and the declaration, four attempts, three stops and lost volumes, one fault of the medium, one slip of any kind (publish, kill, retention, foreign record, broker), a stall and a base deadline of one poll |
| `gate_holds` | does a lock hold and let go within its second, does the record say so, is a set built in a quiet moment exact? | two handlers, one write of each, three arrivals, two touches of the file, two faults (stat, sink, kill), a look every second tick, four ticks |
| `client_answers` | is what a client answers as known fresh, flipr's own and after its declarations, is a lock let go, and does every call return? | two goroutines, one flag, two calls of Check, Set or List, a store that starts open, locked or down, one event (a flip, wipe, lock, stop or its end, or a lost attempt), two attempts an rpc, a ttl of two, four ticks; the hold policy |

Two handlers are enough for a race between a write and another's undo; the
third request is the one that meets what the first two left. Two faults let one
strike while the other's damage is in place (a failed sink and then a failed
undo; a torn line and then a kill). Five attempts hold the boot's own
declaration, a flip, a restore, a write after it and a heal, or two flips, a
restore, and the restore that takes it back. The constant `FlagBudget` is 24 in
the code and 1 here, so that two flips fill a namespace; it is a parameter of the
proofs. At the gate, two touches are a lock and its replacement, its mend or its
removal, on either side of a stat; two ticks between looks give one in which the
watch answers from memory. A client needs two goroutines for one to fill the cache
while the other verifies, four ticks for a value or a lock kept past its time to show,
and a store that starts down or locked for a promotion, or a lock's end, to be one
event away; what several events do together is in the proofs, and two of them in
`heal_lost`. Refresh takes a check's verification and fetch without its cache, so the
calls checked walk its steps; with it the instance is too large for a run, and its
safety is in the proofs. In `topic_heals` four attempts
and three stops hold a flip on each of two deployments, the store lost between them, and
the flip after the heal; one slip leaves exactly one publish, record or broker in doubt,
and the rest of the run shows what it comes to.

Six runs show where the code and its own words part. Each checks one
property that quotes the words, and TLC finds it violated:

- `unchanged_stale`: the revision moves before the snapshot is published, so a
  caller between the two is told "unchanged" about a value it never saw, until
  the next write (`store.go:711`).
- `torn_joined`: the sink appends behind a torn tail, the joined line does not
  parse, and every later replay refuses the file (`filelog.go:75`).
- `half_served`: the generation is committed before the replay, so the start
  after a refused replay serves the half-restored store (`store.go:167`).
- `heal_lost`: the client remembers a new generation before it has republished, so
  a republish that fails after a wipe is not tried again (`clients/go/flipr.go:385`).
- `mended_unseen`: a lock file that could not be read is read again only when its
  mtime or size changes, so one mended by `chmod` locks the whole store until it
  is touched (`lock.go:150`). The run lets a stat fail, too: a single failed stat
  does the same, which is what TLC finds when the person may touch the file once
  (`MaxTouches = 1`) and so cannot mend it.
- `unlogged_quiet`: the next commit of any namespace clears the last write failure,
  so a flip that could be neither recorded nor undone is forgotten by a flip elsewhere,
  and `/health` is healthy beside a value the record does not hold (`store.go:718`).
  The other ways a write and its record part are forgotten too: with the one fault
  `reload`, `fsync` or `crash` in the place of the run's two, TLC refutes the same
  property.

Reading for the models showed more of the kind, most of it contained in the
models, with no run spent on it:

- a flip's answer can carry another write's revision, because it is read after the
  lock is released (`server.go:320`, `flipr.proto:131`);
- a rolled-back write's number is in no record, a heal gives it out again
  (`filelog.go:417`, `store.go:824-826`), and `assess` takes the gap it leaves for
  lost records (`ctl.go:431`);
- `bufio.Writer` never forgets an error (`jam`), so after one failed flush every flip
  is rolled back until a restart (`filelog.go:116`, `OPERATION.md:41`);
- a file is preferred to a fuller topic as soon as it holds a line, so the deployment
  that puts a file beside the topic and then loses its store forgets the topic's flips
  (`main.go:107-108`), which `apart` sets aside; a heal from the topic never moves the
  revision to the record's, so numbers are given out again (`store.go:824-826`);
- a broker that is merely slow holds a flip, and with it the writer lock, for the six
  seconds of the publish, though `OPERATION.md:53-54` says it looks like nothing at all;
- a replay that retention overtakes succeeds with fewer records than its end offset
  counted (`base <= from` in `TopicIsRestored`); a `NewKafkaSink` that fails leaves a
  store with a generation, and the next start serves it empty (`SinkRefused`), as does a
  replay that was refused;
- a lock whose record is refused makes `/health` degraded for a minute, though no flip
  failed (`LockRecordRefused`);
- two publishes within the budget of 24 each can leave a namespace above it
  (`validate.go:23-26`); a reader of a write that is then rolled back keeps it under a
  number that stands; every start records a publish that changed nothing
  (`clients.go:201-203`);
- a write that is answered as failed may be in the store: after a reload that fails
  there is neither a record nor an undo (`Lose`; `store.go:712`, against
  `store.go:674`). A kill between commit and record leaves a write without a trace
  (`Lose`; `store.go:722`, against `store.go:453-454`), a failed fsync the trace of a
  write that was rolled back (`Ghost`; `filelog.go:119`, against `store.go:658-659`);
- after a restore whose own record was not written, the next recorded write brings the
  store's number and the record's highest together, and `assess` says consistent
  (`RestoreUnrecorded`; `ctl.go:431`, against `ctl.go:676-678`);
- a known set built between the revision's move and the snapshot's publish is kept
  under the new number until the next write (`clients.go:75`, against
  `clients.go:65-66`; the cause of `unchanged_stale`);
- a lock lifted while the server is down, or recorded to a sink that refuses, stays in
  force in the record (`untold`; `main.go:241`, against `main.go:236-237`);
- where the topic is the only record, a flip that was rolled back because its publish
  was given up is in the topic, and the next heal brings it back (`TopicWriteFails`,
  `gaps`; `kafka.go:106`, against `kafka.go:27-28`);
- `ListNamespaces` looks at no lock and answers under all of them (`ServeList`;
  `server.go:524-533`), though `server.go:811` says that whole-store locks stop every
  RPC; and its 200 clears the lock the client remembered;
- any answer given before a lock and landing after the 423 clears it as well, and the
  client asks again before the deadline it was given (`Land`; `clients/go/flipr.go:721`,
  against `clients/CONTRACT.md:170-171`);
- a lock file removed between its stat and its read panics the handler on a nil
  lock (`lock.go:164-171`), and its release is in no record; a write let through the
  gate may land after the lock it just missed; `unlock --namespace` removes the whole
  file (`ctl.go:474`);
- the client retries `SetFlag` like every rpc, though `retry.go:24-27` says it never
  calls it; after `Set`, another goroutine's fetch in flight can put the old value
  back in the cache (`clients/go/flipr.go:472`); an existing flag can be answered as
  "not declared" when the cache is dropped between `Check`'s two critical sections.

**Fairness.** `FairSpec` asks weak fairness of each step of a handler that holds
the lock or is past it, which is the Go scheduler, and strong fairness of taking
the lock, which is `sync.Mutex`: a waiter passed over for a millisecond is handed
the lock next. Faults, requests and the restart of a dead process are asked of
nobody. `FliprRecord` has no liveness property: what happens next there is an
operator's choice. `TopicFairSpec` asks weak fairness of what a replay does of its own
accord, since each poll is given a second; it asks nothing of the broker, which may
never bring a record. `FliprClient`'s `FairSpec` asks weak fairness of a goroutine's own
steps, which is the scheduler, and of the fate of an attempt: the `http.Client` New
builds has a timeout, so an attempt is answered or fails. It asks nothing of the
store, the operator or the clock.

`CHECK_DEADLOCK FALSE` is everywhere: once the bounds are spent a system with
nothing to do stops.

## What is proved

Every theorem is for any handlers, namespaces, keys, values, requests, faults and
bounds, for any goroutines, policy, ttl, timeout and deadline, from the assumptions
on the constants named in `FlagRules`, `FliprStore`, `FliprReads`, `FliprRecord`,
`FliprTopic`, `FliprGate` and `FliprClient`.

`FliprStore_proofs`. `TypeOK` is not inductive; `TypeInv` adds that a handler in
the middle of a write serves a checked write (`Serving`), and gives
`TypeCorrect`. `LockInv` adds `Mutex` (the handler in the critical section is the
one that holds the lock), `Numbers` (where the number in memory is the one on
disk) and `Snapshots` (where a reloaded view or the snapshot is the disk), and
gives `SnapshotTheorem`. `RecordInv` adds `Stamped` (a write not yet recorded is
numbered above the whole record) and `Acknowledged`, and gives `StampsTheorem`
and `AcknowledgedTheorem`. `StoreInv` adds `Captured`: the namespace a handler
captured, with its write done to it, is the one on disk. From it, `SettledStep`
says what any step does to the settled store and the record: nothing, a write
with its record, a write without, or a record without. `AgreesTheorem`
(the store is what its record says), `RefinementTheorem` (every step is a step of
`FlagStore` or a stutter) and `StrictTheorem` (before a fault parted the two, a
whole write or nothing) follow by cases on it. So do the action properties: `FlagStep`
says what a step does to one flag of the settled store, and `FlagAfter` of
`FlagRules_proofs` what a legal write makes of a flag's value, kind and description.
They give `ValuesTheorem`, `KindTheorem` and `PageTheorem`; `BudgetTheorem` is about the
commit itself, for any budget. The last section takes the store as a part of more:
`Promised` (`StoreInv` and the agreement of store and record) survives a step that leaves
the store alone (`Aside`), and `BesideTheorem` of `FliprReads_proofs` and `BehindTheorem`
of `FliprGate_proofs` conclude that beside the readers and behind the gate the store still
implements `FlagStore` and keeps its promises of snapshot, numbers and record.

`FliprRecord_proofs`. The replay is a recursive function over the lines, so
nothing can be said of it before it is known to exist. `LeastNatural`, the
least-number principle from `NatLessThanWellFounded`, carries the inductions:
`NumbersBounded` (finitely many numbers have a maximum, so `Highest` is one) and
`ReplayDef` (the replay satisfies its equation and yields a store after each
line). `RecordInv` is the type invariant with `Bounded`: every number is that of
an attempt, and there are no more lines than attempts, which is what keeps
`book` a page for every number. It gives `RecordTypeCorrect`. `Numbered` adds the
order of the file, strict while a restore has yet to write its line, and gives
`NumbersTheorem`. `Readables` is the reason an acknowledged line parses although
the file may be torn: the boot's own declaration is written behind any torn
bytes, and once a serving sink has torn the file it lets nothing through. It
gives `AcknowledgedLineTheorem`.

`FliprReplay_proofs` is about restores of restores. `StandsBy` is the equation `Standing`
is chosen by, without its choice: `StandingDef` says the restores standing at a number
satisfy it, found from the last line back, and `StandingUnique` that nothing else does,
which is what makes every later step a comparison of two sets instead of an unfolding.
`Ranged` says of each restore in the file that it undid up to the number before its own, and
of one under way that it will. `Back` is the step the rest stands on: what is applied at a
restore's own number is what was applied at the number it went back to. `WayBackTheorem`
follows at once. Its premise that no half-replayed store was served (`~spoiled`) is needed:
once one was, numbers are given out twice, and TLC finds a restore that goes back to the
wrong flip, in eight attempts, beyond the run's bounds. `Booked` strengthens `RecordReplays`
from the numbers of the file to every number of the book (pages ahead of the file say what
is told now), since the next write may use any of them; `AppendWrite` and `AppendRestore`
say what one more line does to the replay at every number, and `ReplayTheorem` follows.
`Kept` strengthens `StoreHoldsTheRecord` to a restore that has rebuilt the store and not
yet written its line: what such a store holds is the page of the number it goes back to.

`FliprReads_proofs` carries `LockInv` over to the steps beside the readers
(`LockInvBeside`) and proves all four properties. `ReadsAgreeTheorem` is the two ways
of reading a snapshot compared. For `CheckpointTheorem`, `Exact` says that what a
caller was answered in a quiet moment is what the disk held under that number, that
the snapshot says the same while the number stands, and that a write under way has a
later number; `Steady` says that a read in flight which saw nobody write has had
nothing move under it. The undo keeps its write's number, which is why a snapshot put
back can never meet a caller that kept the old one under a number that stands. For `HealthTheorem`, `Cleared` says a
write at the sink has already cleared the failure before it, and `Noted` that a probe
past the sink without a reason has seen a moment that was well, or is in the gap
between a failure and the look that will find it.

`FliprTopic_proofs` reuses the types of FliprRecord's writes (`AttemptType`,
`ReplayDef`) for `TopicTypeCorrect`. `Mirrored` extends `MirrorIsRecorded` to the
publishes that may still land, and gives `MirrorTheorem`: nothing reaches the mirror
before the file holds it (`Covered`), and the file only grows while it is there.
`Restoring` says a replay under way, unless retention overtook it, has read from the
start without a gap, and that every flag is what the last flip read of it says
(`AllSaid`); `FetchSays` is one record's step of it. At the end offset it is
`RestoredTheorem`, for a topic of any length. `ToldTheorem` needs what the topic comes to
at each of its offsets, which is a recursion; `Traced` states it without one, as the
existence of a sequence of stores, each of which is one record more than the last
(`TracedBy`). It says that the last of them is what callers were told wherever there is no
gap, that those past a replay's end offset are too, for what lands under a replay changes
nothing outside the gaps, and that a replay from the start holds the one at its offset.
`Counting` is beside it: a replay counts no more records than there were attempts, so the
numbers it leaves are pages of the book.

`FlagRules_proofs` has the types of the mutations and what each makes of a flag, used by
all of them.

`FliprClient_proofs` proves all four safety properties of the client, for every
verb. `RunStep` and its siblings (`EnterStep`, `ServeStep`, `LandStep`,
`LoseStep`, `OutsideStep`) say once what a step of each kind may do, and the
invariants are proved over them. `Dated` says nothing is dated ahead of the clock
and an attempt ends in time; it gives `Later`, that the dates the properties read
never go back, which is what lets an old fact survive flips, wipes and locks.
On it stand `LockInv` (an answer that says locked was given after its attempt
went out), `PromoteInv` (a goroutine at the cache or in a fetch is over a store
that took the declarations), `StopInv` (a check that met only a stopped store has
had no answer but a lock's) and `FreshInv` (each value on a wire was the store's
when its attempt went out or later, each in the cache within one answer's way of
`refreshed`). `KnownAnswer` ties what is said to that cache. They give
`LockLetGoIsNoticed`, `KnownIsDeclared`, `StoppedIsUnknown` and `KnownIsFresh`.

`FliprGate_proofs` carries `LockInv` behind the gate (`LockInvBehind`) and proves all
five properties. `Doorsteps` says one handler at a time looks at the file, the one that
holds the watch. `TimeInv` has three parts: `Dated` (no date is ahead of the clock, and a
look under way has dated itself), `HoldsTheFile` (a file whose mtime the watch has, and
which it read without trouble, is the one it holds, which is why a look that finds nothing
new may skip the read) and `Trusted` (between looks, what the watch holds was the file's
word when it last looked or later). `SaysNow` is a file just read; `JudgedInTime` and
`OnlyLooksAnswer` then give `LockTheorem` and `UnlockTheorem`, for a second of any length.
`RecordedTheorem` is inductive beside the types. `SetTheorem` follows `CheckpointTheorem`'s
argument: `SetIsExact` for the set in the cache and `SteadyAt` for the one being built.

Only model-checked: `EveryWriteIsAnswered`, `EveryCallReturns` and `ReplayEnds`, because
liveness under fairness is beyond the prover; every other property of the passing runs is
proved. What the runs that expect a violation find stands as found.

## What is not modelled

Spelling of names and reasons (values of the constants are the valid ones),
`UpdatedAt`, metrics, logs and rendering: nothing the store decides depends on
them. The records of locks are in `lockLog` and not in `lines`: they carry the
number they saw and nothing to apply. A restore keeps the old store beside the new one and a
failed one says to move it back; the models stop at the failure. The restore knows no topic and is
not composed with it: a heal from the topic brings back the flips a restore undid, by
its design. Of the topic, the schema registry, the heartbeat and the two encodings of a
record; the stdout sink of a bare local run. Values written before `value_json` existed
are not told apart. `ctl lock` refuses an unhealthy flipr unless told otherwise, and the
person of `FliprGate` always tells it; the probe's look at a store that cannot be read,
which answers down and changes nothing. `ListNamespaces` and `Ping` read what `GetNamespace`
reads, at one moment; `ListNamespaces` passes neither lock nor admission
(`server.go:524-533`), so it is not among the requests at `FliprGate`'s door. Of the client, env mode, the checks of its Config, and
a request that reaches the store after its attempt timed out. The TypeScript and
Python clients are other programs under the same contract.

## Plan

1. What the two replays say of each other: a store healed from the file and one healed
   from the topic hold the same values where no deployment ran without the file, no
   restore was made and nothing was given up.
2. The values' and the page's promises behind the gate, as `BehindTheorem` has the
   store's.
3. The client's requests that land after their attempt, and the TypeScript client's
   shared promise, where they differ from the Go client.
