# A TLA+ model of up4

up4 is a userspace packet switch.  A node (`up4d`) receives Ethernet frames in
UDP datagrams from its configured peers, runs each frame through a pipeline (a
native Rust program, a program in the uBPF virtual machine, or Rust generated by
x4c from P4) and sends the result to other peers.  A control channel on a Unix
socket changes the pipeline's tables while frames flow.  This directory models
the parts of it in which threads, lost messages, failures and wrap-around meet,
and the way a frame and a table request take through each of the three backends,
checks the models with TLC, and proves the central properties with TLAPS.

Paths below are relative to the repository; `crates/` means `src/crates/` here.
`PROJECT.json` gives, for every definition that models code, the lines it models.

## 1. The system and its parts

| Part | State it keeps | Operations | What is hard about it |
|---|---|---|---|
| Fabric datapath, `up4-io/shard.rs`, `tx.rs`, `socket.rs` | per shard: receive batch, one transmit queue and one sequence counter per egress vport | `Shard::run`, `receive`, `dispatch`, `stage`, `flush`, `send`, `Runs::next` | queue full in the middle of a broadcast, sends that fail for part of a flush, GSO rules, stop under load |
| Sequence tracking, `up4-wire/seq.rs` | expected number per ingress vport | `Seq::next`, `Seq::delta`, `SeqTracker::observe` | wrap, reordering, duplication, loss, restart of either end |
| Overlay header codec, `up4-wire/lib.rs` | none | `encode`, `decode` | byte layout only |
| Punt queue, `up4-io/punt.rs` | ring of reused slots, head, count, behind a mutex | `push`, `drain`, `len` | shards push between a drain and its count; full and wrapping ring; reused buffers |
| Table publication, `up4-engine/table.rs` | current table behind a mutex, atomic version; per engine a cached table and its version | `Shared::update/load/version`, `Cached::new/get` | the version is read without the mutex |
| x4c tables, `up4-x4c/pipeline.rs` | journal of operations with generation and live set; per engine a private pipeline and a position in the journal | `table_add/remove/clear/dump`, `compact`, `sync` | the journal is rewritten under the engines |
| uBPF tables, `up4-ubpf/pipeline.rs` | snapshot of encoded tables and its version | `engine`, `process`, table operations | order of its two readings |
| Process lifecycle, `up4d/main.rs`, `up4-io/signal.rs`, `up4-metrics/snapshot.rs` | threads, stop flag, snapshot file, pending signals | `run`, `serve`, `spawn_watcher`, `spawn_snapshot_writer` | failure at any startup step, signal at any time, order of the joins |
| Control channel, `up4-ctl/server.rs`, `client.rs`, `codec.rs` | socket file, one connection, its idle time | `bind`, `run`, `converse`, `handle`, `drop` | one connection at a time, silent, chatty and vanishing clients |
| Match-action tables, `up4-engine/table.rs`, `up4-ubpf/table.rs` | an exact map; groups of entries by prefix length, longest first | `insert`, `remove`, `clear`, `apply`, `lookup`, `iter` | order of the groups, empty groups, host bits, byte images |
| Control-plane values and schemas, `up4-engine/value.rs`, `shim.rs` | none | `parse`, `check`, `check_key`, `typed_params` | what an operator types, refined once |
| Programs `l2fwd`, `l3fwd`, `up4-engine/programs/`, `headers.rs`, `frame.rs` | a table and its default | `TableOps`, `process` | truncated frames, TTL, what is rewritten |
| Compiled programs, `up4-x4c/abi.rs`, `generated/`, `up4-ubpf/pipeline.rs`, `vm.rs`, `generated/` | a generated entry set; key and value images | encoding, `process_packet`, one execution of the bytecode, reading of verdicts | byte orders, reserved ports, reused buffers |
| Catalog and envelope, `up4-engine/catalog.rs`, `envelope.rs`, `up4-catalog` | none | `Selection::parse`, `build`, `admits`, `scrub` | three backends, one function |
| Configuration, `up4-config` | the vport table and its two indexes | `validate`, `build`, `idx_of_id`, `idx_of_peer` | errors are collected, one check depends on another |
| ELF loader, clocks, probe, metrics, warning limiter, `up4ctl`, pktgen, benches | - | - | sequential |

**Interactions.**  `main` builds the pipeline, mints one engine per shard, spawns
the shards, then binds the control socket and spawns the control thread, the
snapshot thread and the signal watcher, and waits.  Shards share with the control
thread the published tables (`Shared`), the punt queue (mutex), the counters
(relaxed atomics) and the stop flag.  Shards share nothing with each other except
the UDP address (`SO_REUSEPORT`).  Nodes share only the fabric, which may lose,
duplicate and reorder.  Clients reach the node through the Unix socket.

**What makes each part correct.**

- Datapath: every frame is accounted for; numbers of a flow are used once and in
  order; nothing stays staged; a run of segments is one the kernel accepts; stop ends it.
- Tracking: wrapping is invisible; gaps less reorders is the loss; restarts are recognised.
- Punt queue: a bounded FIFO; a reply that says "nothing remains" is right.
- Publication, on every backend: a linearizable register as seen from the shards.
- Tables and backends: a backend holds exactly the entries asked for, whatever its
  representation; all backends compute one function of table and frame, answer requests
  alike and dump what they hold; a batch is atomic per entry and stops at its first
  illegal one.
- Configuration: accepted exactly when it obeys every rule; the indexes invert the list.
- Lifecycle: a clean exit leaves a last, exact snapshot and no socket file; a stop is
  honoured; every request is read.

The list of hazards these properties are for, each at its line, is in
`PROJECT.json` under `hazards`; those no property covers say why.

## 2. Modules

| Module | Models | Properties (definitions) |
|---|---|---|
| `TableRegister` | what publication promises: a register with `Write`, `Complete`, `Join`, `BeginRead`, `EndRead` | (abstract) |
| `TablePublish` | `Shared`, `Cached`, the ubpf and x4c readers, at the grain of one mutex or atomic access per step | `TypeOK`, `NoLostUpdate`, `CacheNotBehindTag`, `RegisterSpec`, `ShardsConverge` |
| `X4cJournal` | the x4c journal, its compaction and its replay | `TypeOK`, `SliceInBounds`, `ReplayIsExact`, `RegisterSpec` |
| `SeqFlow` | one flow: sending counter, fabric, tracker, restarts | `TypeOK`, `WrapTransparent`, `LossAccounting`, `RestartRecovers` |
| `PuntFifo` | what the punt queue promises: a bounded FIFO | (abstract) |
| `PuntQueue` | the ring and the control thread's drain, count, reply | `TypeOK`, `FifoSpec`, `DrainedMeansSeen`, `EveryFrameDrained` |
| `Shard` | the shard loop and its transmit path | `TypeOK`, `FrameConservation`, `TxPktsExact`, `FlowNumbers`, `NothingStranded`, `RunsLegal`, `StopEndsShards`, `SenderNumbers`, `LossIsCounted` |
| `Daemon` | the threads of `up4d`, its clients, signals, crash and restart | `TypeOK`, `FinalSnapshotIsLast`, `SocketFile`, `StopHonoured`, `RequestsServed`, `SecondSignalKills` |
| `Values` | typed values, keys, schemas, the refinement of texts | |
| `MatchTables` | `ExactTable`, `Ipv4Prefix`, `LpmTable`, the ubpf `Table` | `Ordered` |
| `Frames` | the headers a program reads and writes, verdicts, the envelope | |
| `NativeBackend`, `X4cBackend`, `UbpfBackend` | `TableOps` and `process` of each backend, with the compiled programs | |
| `NodeConfig` | validation, vport table, selection of program and backend | |
| `Forwarding` | composes the seven above: startup, requests, batches, frames | `TypeOK`, `GroupsOrdered`, `TableFaithful`, `SameFunction`, `BatchExact`, `AnswersSame`, `DumpFaithful`, `ConfigVerdict`, `PerEntryAtomic`, `Interchangeable` |
| `MC*` | instances for TLC: constants and symmetry | |
| `*Proofs` | theorems | section 6 |

Definitions named `Mutant...` are defective variants of the definition after them (a
dropped guard, a swapped order, an off-by-one).  No specification uses them; each
is listed in `PROJECT.json` with the property that notices it.

### How state and actions correspond to the code

**TablePublish.**  `lock`, `current`, `version` are the fields of `Shared`.
`Shared::update` is `UpdateBegin` (lock, compute the successor), `UpdateStore`,
`UpdateBump`, `UpdateUnlock`.  `Cached::new` reads the version, then the table
(`CachedNewVersion`, `CachedNewLoad`); a ubpf engine reads them in the other order
(`UbpfEngineLoad`, `UbpfEngineVersion`); an x4c engine starts with a version no
update publishes (`X4cEngineNew`).  `Cached::get` is `GetVersion`, then `ServeCached` or
`ReloadAndServe`.  A load waits while a writer holds the mutex.  `StartServing` is
`main` starting the control thread after every engine exists.  `HotMint` names the
backends whose engines are also correct if minted while writers run; ubpf is not one
of them, and the assumption on `HotMint` says so.  The tables are abstract (`Values`, `Ops`, `Apply`).
`log`, `ops`, `at` are history.

**X4cJournal.**  `journal` is `Journal` (`generation`, `ops`, `live`), with the
history field `after` (the entries after each operation).  An update is two steps,
storing (`TableAdd`, `TableRemove`, `TableClear`, each with `Compact`) and `Bump`.  `process`
is `SyncVersion`, `SyncLoad` (position reset when the generation changed),
one `ReplayOp` per operation, `SyncDone`, `Run`.  A generated pipeline is a set of
entries.  The comment at `apply` says a second insertion for a key leaves two entries; the
generated `remove`, which looks an entry up with a dummy action, shows that an entry is
known by its key, so that a second insertion changes nothing (`X4cBackend.EntryInsert`).
Either way `apply` has to remove the key's entry before it adds one, as it does and `Apply` does;
after that the two accounts agree and no property depends on which is right.

**SeqFlow.**  `tx_seq` is the sending shard's counter, `expected`, `gap`, `reorder`
the tracker and the two counters `Shard::receive` bumps.  `Observe` is
`SeqTracker::observe`, with `SeqNext` and `SeqDelta` on numbers modulo `2 * Half`.
`Send`, `Lose`, `Deliver`, `DeliverCopy` are the fabric; a frame may be overtaken
by at most `Lateness` others.  `PeerRestart` and `ReceiverRestart` lose the counter
or the tracker.  `PeerRestart` also empties the fabric: frames of the previous incarnation that arrive
after the first of the next are not modelled.

**PuntQueue.**  `head`, `len`, `slots` are `Ring`; slots keep the bytes of the
frame before, as the reused buffers do.  `Push`, `PushFull` are `PuntQueue::push`;
`Drain`, `Count`, `Reply` are the `punt-drain` branch of `handle`, whose `drain` and
`len` take the mutex separately.

**Shard.**  `pc` runs through `Shard::run`: `Poll`, `Recv`, `RecvTimeout`, `RecvError`,
then per segment `UnknownPeer`, `BadHeader`, or `Accept` with any verdict (the
pipeline is arbitrary: `Discard`, `Punt`, `Forward`, `Broadcast`, with any resulting
length), then `Stage`, `StageFull`, `Staged` for each egress in order, and `FlushAll`,
`SendRun`, `SendFails`, `FlushEnd`, `FlushedAll`.  `RunLength` is `Runs::next`.
Counters keep the code's reasons; byte and syscall counters are left out.  Sequence
numbers do not wrap here; that is SeqFlow's subject.

**Daemon.**  `main` runs through `run` and `serve`; `shard`, `ctl`, `snap`,
`watcher` are the other threads.  `StartupFails` may strike at every step that can
return a `Fatal`.  `Kill` is a crash, or SIGKILL, at any time, and `Restart` starts
the next process on what the last one left on disk; `BindCtl` creates the socket file
whatever was there, so a stale file is replaced, and nothing is claimed about the probe that
decides it is stale.  `IdleTicks` is
IDLE_TIMEOUT / ACCEPT_TIMEOUT.  `Chatty` says whether a client may have its next
request ready before the server's read can time out.

**Forwarding.**  `Start` is `run` up to `load_tables`: `Validate`, `Selection`, `Build`,
and the startup batch (`--tables`); a fatal error is `Exit`.  `BeginAdd`, then one
`ApplyEntry` per entry and `FinishBatch` or `RefuseEntry`, are `apply_entries`, for the startup batch and
for a `table-add` request alike; the publication of one entry is one step, and
`Receive` may come between any two.  `TableDel`, `SetDefault`, `Clear`, `Dump` are the
other branches of `handle`; `TableAdd`, `TableRemove` and so on choose the selected backend's
implementation of `TableOps`.  `asked`, `askedDefault` and `aliased` are history: what the requests
add up to, from which `Expected` computes, independently of any backend, what should
happen to a frame.

The backends keep their representations.  A native table is an `ExactTable` or an
`LpmTable`; an x4c table is the live entries and the generated pipeline's entry set, keys
and parameters encoded by `abi.rs` and decoded as p4rs does; a ubpf table is two
byte-image tables, keys and values laid out as the C structs.  `L2ProcessPacket`,
`L3ProcessPacket` (generated Rust) and `L2EntryC`, `L3EntryC` (generated C) are the
compiled programs.  Octets have `OctetBits` bits and a MAC address, an IPv4 address and a
port are two octets, the fewest that tell byte orders apart; so 2^Width - 1 stands for
65535 and 2^Width - 2 for 65534.  A frame is a record of the fields the programs
look at.  A text is what it spells and which parser accepts it.  `scratch` says
whether an x4c engine's output buffer holds an earlier frame.  How an engine
notices a publication is the subject of `TablePublish` and `X4cJournal`; `Forwarding`
takes from them that it uses the current table.

### Deliberate simplifications

- The release profile aborts on panic, so no mutex is ever found poisoned and no thread
  outlives another's panic; a panic is a property to exclude (`SliceInBounds`).
- Branches no caller can reach are left out: `stage`'s refusal after the flush that
  precedes it, and a `FrameCtx::new` that fails on a length the socket cannot deliver.
- Lengths, verdicts, keys and requests are members of small sets.  Logging is left out.

## 3. Runs

| Run | Instance | Shows |
|---|---|---|
| `table_publish` | 2 writers, 2 engines, 2 keys, 2 updates, each backend | no lost update; a cached table is never older than its tag; refinement of `TableRegister`; convergence |
| `x4c_journal` | 1 engine, 1 table, 2 keys, 2 actions, slack 1, 5 updates | the journal stays bounded; the replay slice is in bounds; every frame sees exactly the entries of the journal loaded; refinement of `TableRegister` |
| `seq_flow` | modulus 8, window 3, lateness 2, 9 frames per incarnation, 1 restart, 1 duplicate | wrap transparency, loss accounting, recognition of a restart |
| `punt_queue` | depth 3, MTU 2, 5 pushes, drains of 0, 1 or 3 clamped to 2 | refinement of `PuntFifo`; "remaining 0" is right; every frame is drained in the end |
| `shard` | 1 shard, 2 vports, 3 frames, lengths 1..3, queues of 2 | conservation, exact `tx_pkts`, flow numbers, GSO legality, nothing stranded, stop ends it |
| `daemon` | 1 shard, 1 client, 2 signals | last snapshot, socket file, stop honoured |
| `daemon_clients` | 2 clients | every request is read |
| `forwarding` | 2 programs, 3 backends, octets of 2 bits, at most 2 entries, 21 configurations, 20 batches and 17 frames for l3fwd, 10 and 6 for l2fwd | ordered groups; every backend holds what was asked for and computes one function; batches, answers, dumps; verdict on a configuration; a step changes one entry |
| `shard_sender`, `shard_loss`, `daemon_second` | as small as the disagreement needs | section 5 |
| `forwarding_same` | as `forwarding` | section 5 |

**Why the bounds are enough.**  In `table_publish` two writers and two updates give
every overlap of one update with another and of each with a reader; each reader meets at most one
writer at a time, as the mutex allows one.  In `x4c_journal` five updates with slack 1
make the journal be rewritten, outgrown and rewritten again between two frames of an engine;
engines do not touch each other, so one is enough for the invariants (the theorems
cover any number).  In `seq_flow` nine frames exceed the modulus, so that numbers
wrap inside every combination of loss, reordering and duplication, and a restart
falls before, at or after the wrap.  In `punt_queue` five pushes take head
and tail around a ring of three, and each slot is reused for a shorter frame.  In `shard` a queue
of two fills within the three frames, in the middle of a batch; lengths 1..3 with `MaxBytes` 5 make a run end
at the byte limit, at a longer segment and after a shorter one; with MTU 2, length 3 is the
oversize case.  With two vports a broadcast is one copy and with queues of two the segment limit does not
bind: a queue that fills between two copies of one broadcast, and the segment limit, are
left to the theorems, which hold for any number of vports and any limits.  In `daemon` two ticks of silence separate a pause from the timeout.
In `forwarding` two entries are enough for a longer prefix to hide a shorter one, for one to be
replaced, and for a group to become empty beside another; the batches contain every
way an entry can be refused, first or second; the configurations break each rule alone and several together; each
frame length is one at which a header ends or one less.  Tables of any size are section 6's subject.
`MaxFrames`, `MaxUpdates`, `MaxSend`, `MaxPush`, `MaxCalls`, `MaxCount`, `MaxSignals`,
`MaxRestarts` and `MaxDup` only bound the exploration.  `x4c_journal` uses the symmetry of keys and of
actions, which no definition tells apart; its properties are safety properties, for which that is sound.

Deadlock is checked in every run except `seq_flow`, where a flow ends when the
frames allowed by the bound are sent and gone.

## 4. Fairness

- `TablePublish`: a control thread finishes an update it began (weak fairness of its
  later steps; there is no blocking call among them); engines keep looking up, as
  frames keep arriving; startup goes on.  Nobody is obliged to begin an update.
- `PuntQueue`: the control thread finishes a command (weak); clients ask again and
  again for at least one frame (strong, because a command in progress disables the
  next).  That is the assumption under which a drain client is promised anything.
- `Shard`: weak fairness of each shard's step.  `recv` has a timeout
  (`RECV_TIMEOUT`), so some step of the shard is always enabled.
- `Daemon`: weak fairness of each thread.  Accept, read and the snapshot thread's sleep
  have timeouts; `sigwait` returns when a signal is pending.
  Nothing is assumed of clients, signals or crashes.
- `SeqFlow`, `X4cJournal` and `Forwarding` state safety only.

## 5. Where code and documentation disagree

Four runs expect a violation; each states what the repository says of itself.

1. `shard_sender` / `SenderNumbers`.  `up4-wire/src/lib.rs:61` calls `seq` a
   "Per-(sender, vport) counter, monotonically increasing modulo 2^32".  Each shard
   has its own counters, and with `node.threads` above one they send from one address,
   so a peer receives several interleaved counters.  `FlowNumbers`, the property of one
   shard, holds.
2. `shard_loss` / `LossIsCounted`.  `up4-metrics/src/lib.rs:3`: "Every discard in up4
   is attributable".  A failed GSO run loses all its segments and is counted once.
3. `daemon_second` / `SecondSignalKills`.  `signal.rs:70-72` promises that a second SIGTERM "takes the
   default action ... the escape hatch an operator expects when a graceful shutdown is wedged".  It is blocked in every thread, so it
   stays pending.  The trace also shows how a shutdown gets wedged: `signal.rs:24-25` says the control channel
   checks the stop flag "once per accept timeout", but `converse` looks at it only when a read times out, so a client that
   never pauses holds it up.  With clients that pause, `StopHonoured` holds (run `daemon`); with
   `Chatty = TRUE` it does not.
4. `forwarding_same` / `Interchangeable`.  `up4d/src/main.rs:46-47`: "The three are interchangeable: same
   `.p4`, same tables, same `up4ctl` calls", and `up4-catalog/src/lib.rs:23-25`: they compute "the same
   function ... with no exceptions".  Four things stand against that, one conjunct each; TLC stops at the first, and
   putting a conjunct's name in the cfg shows the trace of each of the others.
   - `SameCallsAccepted`: "the same `up4ctl` call must be accepted by every backend of a program"
     (`up4-catalog/src/lib.rs:70-72`).  Removing a key that is not there is an error on the native backend and succeeds on the others.
   - `ReservedEverywhere`: 65535 punts and 65534 broadcasts, "reserved across every backend, not just this one"
     (`p4/programs/l2fwd/l2fwd.ubpf.p4:14-16`).  A native table whose entry forwards to either sends the frame there; the
     schemas accept such an entry on every backend, and 65534 is a legal vport id.
   - `OwnBytes`: when an x4c pipeline's single output is port 65534, `process` reads it as a broadcast without refilling
     `scratch_out`, and copies into the frame what an earlier one left there.
   - `SpellingIrrelevant`: `10.0.0.5/24` and `10.0.0.0/24` "are the same value and a table cannot hold two entries
     that mean the same route" (`up4-engine/src/table.rs:185-187`).  The native and the ubpf table mask a key; x4c
     keeps it as typed, so that a deletion in another spelling succeeds and leaves the entry, and two
     spellings are two entries of which either may answer.

The passing properties of `forwarding` say nothing of these cases: `Promised` names the frames `SameFunction` speaks
of, and `AnswersSame` speaks of deletions of a key that is there.  Further disagreements, and differences that the
repository admits, without a run of their own:

- `up4-engine/src/headers.rs:101-109` says that "both compiled backends forward a frame this rejects" (a
  wrong version, or an IHL beyond the frame), and cites a `NATIVE_IS_STRICTER` that is not in the conformance test.
  The envelope applies the same parser before a compiled `l3fwd` sees the frame, so all three drop it, as
  `docs/deviations.md` D10 has it; `SameFunction` and its theorem say so.
- `up4-config/src/lib.rs:189-190`: "Every violation found is reported, not just the first".  Duplicates are looked for
  only if every vport is legal by itself, so an operator may learn of them only after the first
  correction.  `ConfigVerdict` asks for the vport-local violations only.
- `up4-engine/src/shim.rs:277`: a dump holds the key "in the syntax an operator would type".  The ubpf backend prints a
  number, which neither the MAC nor the IPv4 parser accepts, and leaves the parameters of a default out.
  `DumpFaithful` asks of ubpf only that the entries are the ones it holds.
- x4c cannot change a default (`docs/deviations.md` D12), so `AnswersSame` asks it only of the others.
- The ubpf backend drops a frame longer than its packet buffer of 2048 bytes; the fabric's inner MTU
  is 1460 (`up4-wire/src/lib.rs:37`), so no such frame could be sent on (`Promised`).

## 6. Proofs

All theorems hold for every value of the constants that satisfies the named
assumptions (`ASSUME ...Assumption`), the bounds among them.

**TablePublishProofs** (`TypeCorrect`, `UpdatesAreSerial`, `TagsAreHonest`,
`PublicationRefinesRegister`).  Neither `NoLostUpdate` nor `CacheNotBehindTag` is
inductive: the first needs that only the lock's holder is inside an update and that
its successor was computed from the table still current (`MutexInv`, which also says the
version lags the stored updates by at most the one not yet bumped); the second needs that what a reader has seen is not
ahead of the version and, for ubpf, that nothing is written between its two readings
(`ReaderInv`).  The refinement maps storing to `Write`, bumping to `Complete`, reading the version to
`BeginRead` and serving to `EndRead`.  Assumed: `Apply` stays within `Values`, and
`HotMint` does not contain ubpf.

**X4cJournalProofs** (`TypeCorrect`, `SyncNeverPanics`, `ReplayIsFaithful`,
`JournalRefinesRegister`).  What replay computes is a fold over the log, which would
need induction over sequences.  The history field `after` records the fold step by
step instead; `Unrolls` says that it is the fold and ends in the live set, and each update extends it or
rebuilds it.  `Position`: an engine of the current generation stands at a point of the
journal where its pipeline is `after` at that point.  `Replaying`: the same for the
journal it loaded, which is a prefix of the current one if the generations agree.

**SeqFlowProofs** (`TypeCorrect`, `WrapIsTransparent`, `LossIsAccounted`,
`RestartIsRecognised`).  Assumed: `Lateness < Window < Half`; in the code the window is 1024
and half the ring 2^31.  `FlowInv`: wire numbers are congruent to
the frames they stand for and everything in flight is recent, so that signed distance
modulo the ring is the true distance.  `LossInv` and `LossAccounting` together
survive each received frame by two lemmas on cardinality (`MissingAdvance`, `MissingFill`).
`RestartInv`: until it resynchronises, the tracker can only have taken for reordered
the frames in the window behind its stale expectation.

**PuntQueueProofs** (`TypeCorrect`, `EmptyMeansSeen`, `RingImplementsFifo`).
`RingInv`: the live slots from head on, modulo the depth, hold the frames accepted and
not yet taken; `RingShift` and `RingDistinct` are the modular arithmetic under it.
`CountInv` relates the count of the reply to the frames accepted when the command began.

**TableProofs** (`InsertIsOneEntry`, `RemoveIsOneEntry`, `LongestPrefixWins`;
`GroupsOrderedHolds`, `LongestMatchHolds`, `ConfigVerdictHolds`, `TableFaithfulHolds`,
`PerEntryAtomicHolds`, `AnswersSameHolds`, `BatchExactHolds`).
The first three are about sequences of groups of any length.  `PositionIs` shows that what the
binary search looks for exists when the groups are ordered (the least place with nothing longer
after it) and that a group of the wanted length is there.  Insertion and removal then
either replace the group there, insert one or remove one; each of the three keeps the order
(`ReplaceGroup`, `InsertGroup`, `RemoveGroup`) and changes the entries of one
length only (`...Contents`).  Ordered groups make the first match the longest.

The next two rest on `GroupsInv`: `GroupsOrdered` is not inductive, since an insertion needs the
groups to be a sequence with natural lengths and the length comes out of the text of a batch
under way.  `ConfigVerdict` needs no invariant: `NodeVerdict`, `VportVerdict` and
`DuplicateVerdict` say of each rule when it is reported, and `IdIndex` and `PeerIndex` that the two
lookup tables, filled in order, find the vport of a legal configuration and no other.

The table theorems share one argument.  `Content` reads the entries off a backend's
representation and `Shape` says the representation is one the code can produce: the native
maps, the x4c live list beside the pipeline's encoded entries, the ubpf buckets of byte
images.  For each backend three lemmas (`L2Ops` and `L3Ops`, `X4cOps`, `UbpfOps`) show that
adding, removing and clearing keep the shape and act on the content as on a dictionary
(`Added`, `Removed`).  Under them lie the encodings: a key or a value that was typed by the
schema decodes to what was encoded (`MaskFull`, `PowAdd`, splitting into octets and masking
octet by octet is splitting and masking the number).  `RefinedIs` ties the text of a request to
the typed call (`EntryLegal` is exactly what parsing and checking accept).  The inductive
invariant `FaithInv` then says: the shape holds, the content is `AskedEntries` unless x4c has met
a key with host bits, and x4c's pipeline is its live list always.
`TableFaithful` is a part of it, and `PerEntryAtomic` its step-by-step form.
`AnswersSame` needs it because a deletion must be accepted when the key was there before the request
in whatever spelling (`info.had`) and a clear says how many there were (`info.count`); `CountIs` shows that
`entry_count` is the size of the content, by a bijection from each representation.  `BatchExact` needs `BatchInv`: the part of the batch
already applied is legal, and each of its entries is asked for or replaced by a later one with
the same key; nothing but the batch writes until the reply.

**ForwardingProofs** (`SameFunctionHolds`, `TypeOKHolds`, `DumpFaithfulHolds`).
`SameFunction` follows a frame through both programs on all three backends.  What it needs beyond `FaithInv` is
`SameInv`: every entry asked for is a typed call of the program's schema, the default a backend
holds is the one asked for, and the radix x4c was built with is at least 3.  From the shape
and the content a lookup in each representation gives the call `Meaning` reads off the
dictionary: `LongestPrefixWins` for native tables, the first bucket of ubpf's with
a masked image equal to the stored one, for x4c any choice the generated code's
set of matches allows (`NativeTreats`, `UbpfTreats`, `XTreats`).  Then one lemma per
program and backend (`NativeAgrees`, `UbpfL2Agrees`, `UbpfL3Agrees`, `XL2Agrees`, `XL3Agrees`)
shows that running the call on the frame leaves the outcome `Expected` states: octets
reversed on the way into a header and back, ports encoded in a bitmap or a return
code, the envelope's admission and scrubbing around the compiled programs.  `FrameOnly`
closes the induction: no other action leaves a frame as the last event.  The agreement lemmas say
more than `SameFunction` does: `SameReading` also covers a frame sent to a reserved port, with what each backend reads
it as, and `AgreesPlainly` takes from it the frames `Promised`.  The type invariant
collects its parts from these invariants; that a verdict is one of the harness's comes
from the agreement (`TreatedVerdict`).

`DumpFaithful` needs no further invariant, but it needs that sorting gives each element once
(`InOrder` chooses a sequence, and one must exist).  `HasListing` shows it for any finite set
with a strict total order, by a least counterexample: take the greatest element away, list the
rest, put it back.  The four orders are total on what they sort because an entry is known by its
key (`PrefixesInOrder`, `LiveInOrder`, `ImagesInOrder`).  A dump then describes the content
one to one (`Describes`, `DescribedList`), `TypedBack` parses the printed key again, and
`DumpOnly` closes the induction as `FrameOnly` does.

Assumed by both modules: octets have at least one bit and the entry bound is a number; the raw
configuration has integers where the TOML types demand them (`RawAssumption`); prefix lengths in
texts are numbers and a request names each parameter once, its parameters being a map in
the protocol (`TextAssumption`); a frame's fields are numbers of their widths (`FrameAssumption`).

**DaemonProofs** (`TypeCorrect`, `SnapshotIsLast`, `SocketFileHolds`).  Both properties
speak of a clean exit and need what each join established to last until then.  `JoinInv`:
past a join the threads waited for are still ended, so nothing is counted or appended behind
`serve`'s back; `FileInv`: the file is there from bind to the end of the control thread and
only then removed; `IdleInv`: a connection being served is within the idle limit, without
which the bound on `idle` is not inductive.  A crash or a restart at any point re-establishes
them (`GoneIInv`).  Assumed: the bounds are numbers and the idle limit is positive.

**ShardProofs** (`TypesHold`, `FramesConserved`, `TxPktsHold`, `NumbersHold`,
`NothingStrandedHolds`, `RunsAreLegal`).  For any finite sets of shards and vports.  The
inductive invariant `ShardInv` has six parts.  `ControlInv` (in `TInv`, with the types) ties
each shard's program counter to what it holds: which frames a receive call left, where in the
queues a flush stands and what is in its current run.  `NothingStranded` and `FlowNumbers`
are inductive given that.  `CreditInv`: a vport's `tx_pkts` lags what is on its wire by exactly what
flushes under way have sent and not yet credited, so `TxPktsExact` holds whenever none is.
`InBalance` and `OutBalance` are the two sides of `FrameConservation` for a receive batch only partly
worked off, and a flush only partly accounted for.  The sums over vports and the length
`Runs::next` computes are inductions over data; they are done here by a least counterexample
(`MinimalSubset`: a property of finite sets that fails fails at a smallest one;
`LeastNat`: likewise for numbers), which needs no operator as a parameter.  Assumed: `Shards` and
`Vports` are finite, the bounds are natural numbers and the batch of a send call is not empty.

**Only model-checked.**  Liveness (`ShardsConverge`, `EveryFrameDrained`,
`StopEndsShards`, `StopHonoured`, `RequestsServed`), which needs fairness, and the four disagreements.
Every invariant and every safety action property of the passing runs is proved.

## 7. Not modelled

- The ELF loader, and the interpreter and JIT of rbpf: a program is modelled by the C it was
  compiled from.  The runtime of the generated Rust (p4rs) is modelled from its use.
- `null`, a benchmark oracle that `up4d`'s registry never offers.
- Value kinds `u8` and `u32`, which no shipped schema uses.
- Build tools, benches; `up4ctl` (parsing and printing), the JSON framing, base64; the
  capability probe and clocks (one question to the kernel).
- The byte layout of the overlay header; histograms and per-byte counters; the warning
  limiter; pktgen.
- Two processes on one control socket; a client that does not read its replies.

## 8. Plan

Done: publication, x4c journal, sequence tracking, punt queue, shard, daemon, tables,
backends, configuration, and the proofs of section 6.  Next, in this order:

1. A composition of two nodes: `Shard` over a lossy fabric into `SeqFlow`'s tracker.
2. The overlay header round trip, histograms, the loss report of pktgen.
3. A control connection with a bounded socket buffer.
