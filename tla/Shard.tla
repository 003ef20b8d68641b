-------------------------------- MODULE Shard --------------------------------
(***************************************************************************)
(* The datapath: up4-io's Shard, one thread per socket.  A shard reads a   *)
(* batch of buffers, which GRO may have filled with many segments, runs    *)
(* the pipeline on each segment, stages copies per egress vport and sends  *)
(* each staging queue in GSO runs.  Shards share the counters and the      *)
(* fabric, nothing else.                                                   *)
(*                                                                         *)
(* A frame is its length and what the pipeline says of it.  The receive    *)
(* sequence tracker is in module SeqFlow, the punt ring in PuntQueue;      *)
(* numbers do not wrap here.  Syscall counters, byte counters, histograms  *)
(* and log lines are left out.                                             *)
(***************************************************************************)
EXTENDS Integers, Sequences, FiniteSets, FiniteSetsExt, Functions

CONSTANTS
  Shards,      \* datapath threads (node.threads)
  Vports,      \* indices of the configured vports
  Mtu,         \* the largest inner frame
  Hdr,         \* OVERLAY_HDR_LEN
  RxBatch,     \* RX_BATCH: reads per batch
  GroMax,      \* segments one read may hold
  TxBatch,     \* TX_BATCH: segments a staging queue holds
  MaxSegments, \* max_gso_segments
  MaxBytes,    \* GSO_MAX_BYTES
  Lens,        \* lengths the pipeline's frames may have
  MaxFrames    \* bound on the segments received

ASSUME ShardAssumption ==
  /\ IsFiniteSet(Shards)
  /\ Vports \subseteq Nat /\ IsFiniteSet(Vports)
  /\ {Mtu, Hdr, RxBatch, GroMax, TxBatch, MaxSegments, MaxBytes, MaxFrames} \subseteq Nat
  /\ Lens \subseteq Nat
  /\ TxBatch > 0

Unknown == -1      \* no vport: an unconfigured peer, an unconfigured port

VARIABLES
  punt_on,      \* [punt] is configured
  stop,         \* the process-wide Stop flag
  pc,           \* where each shard is in Shard::run
  reads,        \* the reads of its batch still to process
  frame,        \* the length of the frame it is dispatching
  targets,      \* the egress vports that frame is still to be staged for
  tx,           \* staging queues
  tx_seq,       \* next sequence number per egress
  egress,       \* the queue being flushed
  unsent,       \* its segments whose run has not been tried yet
  sent,         \* how many of its segments have left
  back,         \* where flush returns to
  ctr,          \* node-wide counters
  rx_pkts, tx_pkts, tx_broadcast,  \* per-vport counters
  received,     \* history: segments read from the sockets
  punted,       \* history: frames the punt queue took
  wire,         \* history: what was sent to each vport's peer, in order
  lost          \* history: staged segments whose run failed, per shard and egress

envVars == <<punt_on, stop>>
countVars == <<ctr, rx_pkts, tx_pkts, tx_broadcast>>
histVars == <<received, punted, wire, lost>>
localVars == <<reads, frame, targets>>
queueVars == <<tx, tx_seq>>
flushVars == <<egress, unsent, sent, back>>
vars == <<envVars, pc, localVars, queueVars, flushVars, countVars, histVars>>

Counters == { "unknown_peer", "bad_header", "oversize", "would_block", "unconfigured",
              "overflow", "unknown_port", "send_error", "engine_drop" }

Bump(c, n) == ctr' = [ctr EXCEPT ![c] = @ + n]

(* Shard::new.                                                             *)
Init ==
  /\ punt_on \in BOOLEAN
  /\ stop = FALSE
  /\ pc = [s \in Shards |-> "loop"]
  /\ reads = [s \in Shards |-> <<>>]
  /\ frame = [s \in Shards |-> 0]
  /\ targets = [s \in Shards |-> {}]
  /\ tx = [s \in Shards |-> [v \in Vports |-> <<>>]]
  /\ tx_seq = [s \in Shards |-> [v \in Vports |-> 0]]
  /\ egress = [s \in Shards |-> Unknown]
  /\ unsent = [s \in Shards |-> <<>>]
  /\ sent = [s \in Shards |-> 0]
  /\ back = [s \in Shards |-> "loop"]
  /\ ctr = [c \in Counters |-> 0]
  /\ rx_pkts = [v \in Vports |-> 0]
  /\ tx_pkts = [v \in Vports |-> 0]
  /\ tx_broadcast = [v \in Vports |-> 0]
  /\ received = 0 /\ punted = 0
  /\ wire = [v \in Vports |-> <<>>]
  /\ lost = [s \in Shards |-> [v \in Vports |-> 0]]

Goto(s, label) == pc' = [pc EXCEPT ![s] = label]
------------------------------------------------------------------------------
(* Shard::run.  A batch of reads arrives: each from a configured vport or  *)
(* from a stranger, each of one or more segments, or empty.                *)
Reads == [from : Vports \cup {Unknown}, left : 0 .. GroMax]

Pending(batch) == SumFunction([i \in DOMAIN batch |-> batch[i].left])

(* The head of the loop looks at the stop flag; what arrives after that is *)
(* still processed, whatever the flag says by then.                        *)
Poll(s) ==
  /\ pc[s] = "loop" /\ ~stop
  /\ Goto(s, "recv")
  /\ UNCHANGED <<envVars, localVars, queueVars, flushVars, countVars, histVars>>

Recv(s) ==
  /\ pc[s] = "recv"
  /\ \E n \in 1 .. RxBatch : \E batch \in [1 .. n -> Reads] :
       /\ received + Pending(batch) <= MaxFrames
       /\ reads' = [reads EXCEPT ![s] = batch]
       /\ received' = received + Pending(batch)
  /\ Goto(s, "segments")
  /\ UNCHANGED <<envVars, frame, targets, queueVars, flushVars, countVars,
                 punted, wire, lost>>

(* A transient error, the receive timeout above all, is the heartbeat.     *)
RecvTimeout(s) ==
  /\ pc[s] = "recv"
  /\ Goto(s, "loop")
  /\ UNCHANGED <<envVars, localVars, queueVars, flushVars, countVars, histVars>>

(* Any other receive error ends the shard; up4d's thread then stops the    *)
(* process.                                                                *)
RecvError(s) ==
  /\ pc[s] = "recv"
  /\ Goto(s, "failed")
  /\ stop' = TRUE
  /\ UNCHANGED <<punt_on, localVars, queueVars, flushVars, countVars, histVars>>

(* The loop's end: what is staged is flushed once more.                    *)
StopSeen(s) ==
  /\ pc[s] = "loop" /\ stop
  /\ Goto(s, "final")
  /\ UNCHANGED <<envVars, localVars, queueVars, flushVars, countVars, histVars>>

RequestStop ==
  /\ ~stop
  /\ stop' = TRUE
  /\ UNCHANGED <<punt_on, pc, localVars, queueVars, flushVars, countVars,
                 histVars>>
------------------------------------------------------------------------------
(* Shard::receive, one read at a time.                                     *)
TakeSegment(s) == reads' = [reads EXCEPT ![s][1].left = @ - 1]

(* An empty read, or one whose segments have all been processed.           *)
NextRead(s) ==
  /\ pc[s] = "segments" /\ reads[s] # <<>>
  /\ reads[s][1].left = 0
  /\ reads' = [reads EXCEPT ![s] = Tail(@)]
  /\ UNCHANGED <<envVars, pc, frame, targets, queueVars, flushVars, countVars,
                 histVars>>

(* Waits for a queue to fill before it sends anything.                     *)
MutantBatchDone(s) ==
  /\ pc[s] = "segments" /\ reads[s] = <<>>
  /\ Goto(s, IF \E v \in Vports : Len(tx[s][v]) >= TxBatch THEN "flush_all" ELSE "loop")
  /\ UNCHANGED <<envVars, localVars, queueVars, flushVars, countVars, histVars>>

BatchDone(s) ==
  /\ pc[s] = "segments" /\ reads[s] = <<>>
  /\ Goto(s, "flush_all")
  /\ UNCHANGED <<envVars, localVars, queueVars, flushVars, countVars, histVars>>

(* The source tuple is demultiplexed once per read.                        *)
UnknownPeer(s) ==
  /\ pc[s] = "segments" /\ reads[s] # <<>>
  /\ reads[s][1].from = Unknown /\ reads[s][1].left > 0
  /\ Bump("unknown_peer", reads[s][1].left)
  /\ reads' = [reads EXCEPT ![s] = Tail(@)]
  /\ UNCHANGED <<envVars, pc, frame, targets, queueVars, flushVars, rx_pkts,
                 tx_pkts, tx_broadcast, histVars>>

HasSegment(s) ==
  /\ pc[s] = "segments" /\ reads[s] # <<>>
  /\ reads[s][1].from # Unknown /\ reads[s][1].left > 0

BadHeader(s) ==
  /\ HasSegment(s)
  /\ Bump("bad_header", 1)
  /\ TakeSegment(s)
  /\ UNCHANGED <<envVars, pc, frame, targets, queueVars, flushVars, rx_pkts,
                 tx_pkts, tx_broadcast, histVars>>

(* Counted as received on its vport, whatever becomes of it.               *)
Accept(s) ==
  /\ HasSegment(s)
  /\ rx_pkts' = [rx_pkts EXCEPT ![reads[s][1].from] = @ + 1]
  /\ TakeSegment(s)

(* The pipeline drops the frame, or leaves it longer than the fabric       *)
(* carries, or punts it, or forwards it to a port that does not exist; the *)
(* counter is the one that names the reason.                               *)
Discard(s, reason) ==
  /\ Accept(s)
  /\ Bump(reason, 1)
  /\ UNCHANGED <<envVars, pc, frame, targets, queueVars, flushVars, tx_pkts,
                 tx_broadcast, histVars>>

Punt(s) ==
  /\ Accept(s)
  /\ punted' = punted + 1
  /\ UNCHANGED <<envVars, pc, frame, targets, queueVars, flushVars, ctr,
                 tx_pkts, tx_broadcast, received, wire, lost>>

DispatchTo(s, len, out) ==
  /\ frame' = [frame EXCEPT ![s] = len]
  /\ targets' = [targets EXCEPT ![s] = out]
  /\ Goto(s, "stage")

Forward(s, len, port) ==
  /\ len <= Mtu
  /\ Accept(s)
  /\ DispatchTo(s, len, {port})
  /\ UNCHANGED <<envVars, queueVars, flushVars, ctr, tx_pkts, tx_broadcast,
                 histVars>>

(* Floods the ingress too.                                                 *)
MutantBroadcast(s, len) ==
  /\ len <= Mtu
  /\ Accept(s)
  /\ tx_broadcast' = [tx_broadcast EXCEPT ![reads[s][1].from] = @ + 1]
  /\ DispatchTo(s, len, Vports)
  /\ UNCHANGED <<envVars, queueVars, flushVars, ctr, tx_pkts, histVars>>

Broadcast(s, len) ==
  /\ len <= Mtu
  /\ Accept(s)
  /\ tx_broadcast' = [tx_broadcast EXCEPT ![reads[s][1].from] = @ + 1]
  /\ DispatchTo(s, len, Vports \ {reads[s][1].from})
  /\ UNCHANGED <<envVars, queueVars, flushVars, ctr, tx_pkts, histVars>>
------------------------------------------------------------------------------
(* Shard::stage, in fan-out order.  A full queue is flushed first.         *)
Staging(s) == pc[s] = "stage" /\ targets[s] # {}
Target(s) == Min(targets[s])

(* Off by one.                                                             *)
MutantFull(s, v) == Len(tx[s][v]) > TxBatch

Full(s, v) == Len(tx[s][v]) >= TxBatch

(* Does not advance the number.                                            *)
MutantStage(s) ==
  /\ Staging(s) /\ ~Full(s, Target(s))
  /\ LET v == Target(s)
     IN  /\ tx' = [tx EXCEPT ![s][v] =
                     Append(@, [seq |-> tx_seq[s][v], len |-> Hdr + frame[s]])]
         /\ targets' = [targets EXCEPT ![s] = @ \ {v}]
  /\ UNCHANGED <<envVars, pc, reads, frame, tx_seq, flushVars, countVars,
                 histVars>>

Stage(s) ==
  /\ Staging(s) /\ ~Full(s, Target(s))
  /\ LET v == Target(s)
     IN  /\ tx' = [tx EXCEPT ![s][v] =
                     Append(@, [seq |-> tx_seq[s][v], len |-> Hdr + frame[s]])]
         /\ tx_seq' = [tx_seq EXCEPT ![s][v] = @ + 1]
         /\ targets' = [targets EXCEPT ![s] = @ \ {v}]
  /\ UNCHANGED <<envVars, pc, reads, frame, flushVars, countVars, histVars>>

Staged(s) ==
  /\ pc[s] = "stage" /\ targets[s] = {}
  /\ Goto(s, "segments")
  /\ UNCHANGED <<envVars, localVars, queueVars, flushVars, countVars, histVars>>

(* Shard::flush begins on a queue that is not empty.                       *)
BeginFlush(s, v) ==
  /\ egress' = [egress EXCEPT ![s] = v]
  /\ unsent' = [unsent EXCEPT ![s] = tx[s][v]]
  /\ sent' = [sent EXCEPT ![s] = 0]
  /\ back' = [back EXCEPT ![s] = pc[s]]
  /\ Goto(s, "flush")
  /\ UNCHANGED <<envVars, localVars, queueVars, countVars, histVars>>

StageFull(s) ==
  /\ Staging(s) /\ Full(s, Target(s))
  /\ BeginFlush(s, Target(s))

(* Shard::flush_all, after every batch and once more at the end.           *)
Waiting(s) == {v \in Vports : tx[s][v] # <<>>}

FlushAll(s) ==
  /\ pc[s] \in {"flush_all", "final"} /\ Waiting(s) # {}
  /\ BeginFlush(s, Min(Waiting(s)))

(* Goes straight back to the socket while traffic keeps coming.            *)
MutantFlushedAll(s) ==
  /\ pc[s] \in {"flush_all", "final"} /\ Waiting(s) = {}
  /\ Goto(s, IF pc[s] = "final" THEN "done" ELSE "recv")
  /\ UNCHANGED <<envVars, localVars, queueVars, flushVars, countVars, histVars>>

FlushedAll(s) ==
  /\ pc[s] \in {"flush_all", "final"} /\ Waiting(s) = {}
  /\ Goto(s, IF pc[s] = "final" THEN "done" ELSE "loop")
  /\ UNCHANGED <<envVars, localVars, queueVars, flushVars, countVars, histVars>>

(* Forgets the byte bound.                                                 *)
MutantRunLength(q) ==
  LET limit == IF MaxSegments > 1 THEN MaxSegments ELSE 1
      size == q[1].len
      grow[c \in 0 .. Len(q)] ==
        IF c = limit \/ c = Len(q) THEN c
        ELSE IF q[c + 1].len > size THEN c
        ELSE IF q[c + 1].len < size THEN c + 1
        ELSE grow[c + 1]
  IN  grow[0]

(* Runs::next: how many of these segments the next GSO run takes.  Equal   *)
(* lengths go on; a shorter one is the last; a longer one, or one past the *)
(* byte bound, starts a run of its own.                                    *)
RunLength(q) ==
  LET limit == IF MaxSegments > 1 THEN MaxSegments ELSE 1
      size == q[1].len
      grow[c \in 0 .. Len(q)] ==
        IF c = limit \/ c = Len(q) THEN c
        ELSE IF c > 0 /\ c * size + q[c + 1].len > MaxBytes THEN c
        ELSE IF q[c + 1].len > size THEN c
        ELSE IF q[c + 1].len < size THEN c + 1
        ELSE grow[c + 1]
  IN  grow[0]

Run(s) == SubSeq(unsent[s], 1, RunLength(unsent[s]))

(* Shard::send: the run leaves, at once or when retried ...                *)
SendRun(s) ==
  /\ pc[s] = "flush" /\ unsent[s] # <<>>
  /\ wire' = [wire EXCEPT ![egress[s]] =
                @ \o [i \in DOMAIN Run(s) |-> [from |-> s, seq |-> Run(s)[i].seq]]]
  /\ sent' = [sent EXCEPT ![s] = @ + Len(Run(s))]
  /\ unsent' = [unsent EXCEPT ![s] = SubSeq(@, Len(Run(s)) + 1, Len(@))]
  /\ UNCHANGED <<envVars, pc, localVars, queueVars, egress, back, countVars,
                 received, punted, lost>>

(* ... or fails: would-block twice, or another error.  Either counter is   *)
(* bumped once for the run.                                                *)
SendFails(s, reason) ==
  /\ pc[s] = "flush" /\ unsent[s] # <<>>
  /\ Bump(reason, 1)
  /\ lost' = [lost EXCEPT ![s][egress[s]] = @ + Len(Run(s))]
  /\ unsent' = [unsent EXCEPT ![s] = SubSeq(@, Len(Run(s)) + 1, Len(@))]
  /\ UNCHANGED <<envVars, pc, localVars, queueVars, egress, sent, back,
                 rx_pkts, tx_pkts, tx_broadcast, received, punted, wire>>

(* Credits the whole queue, sent or not.                                   *)
MutantFlushEnd(s) ==
  /\ pc[s] = "flush" /\ unsent[s] = <<>>
  /\ tx_pkts' = [tx_pkts EXCEPT ![egress[s]] = @ + Len(tx[s][egress[s]])]
  /\ tx' = [tx EXCEPT ![s][egress[s]] = <<>>]
  /\ egress' = [egress EXCEPT ![s] = Unknown]
  /\ sent' = [sent EXCEPT ![s] = 0]
  /\ Goto(s, back[s])
  /\ UNCHANGED <<envVars, localVars, tx_seq, unsent, back, ctr, rx_pkts,
                 tx_broadcast, histVars>>

(* The runs are exhausted: tx_pkts is credited and the queue cleared.      *)
FlushEnd(s) ==
  /\ pc[s] = "flush" /\ unsent[s] = <<>>
  /\ tx_pkts' = [tx_pkts EXCEPT ![egress[s]] = @ + sent[s]]
  /\ tx' = [tx EXCEPT ![s][egress[s]] = <<>>]
  /\ egress' = [egress EXCEPT ![s] = Unknown]
  /\ sent' = [sent EXCEPT ![s] = 0]
  /\ Goto(s, back[s])
  /\ UNCHANGED <<envVars, localVars, tx_seq, unsent, back, ctr, rx_pkts,
                 tx_broadcast, histVars>>
------------------------------------------------------------------------------
(* One segment of a known peer, through Shard::receive and ::dispatch: its *)
(* header fails to decode; or it counts as received and the pipeline drops *)
(* it; or, not dropped but too long, it is refused; or it is punted,       *)
(* forwarded or broadcast.                                                 *)
Segment(s) ==
  \/ BadHeader(s)
  \/ Discard(s, "engine_drop")
  \/ (\E len \in Lens : len > Mtu) /\ Discard(s, "oversize")
  \/ ~punt_on /\ Discard(s, "unconfigured")
  \/ punt_on /\ (Punt(s) \/ Discard(s, "overflow"))
  \/ Discard(s, "unknown_port")
  \/ \E len \in Lens : Broadcast(s, len) \/ \E port \in Vports : Forward(s, len, port)

ShardStep(s) ==
  \/ Poll(s) \/ Recv(s) \/ RecvTimeout(s) \/ RecvError(s) \/ StopSeen(s)
  \/ NextRead(s) \/ BatchDone(s) \/ UnknownPeer(s) \/ Segment(s)
  \/ Stage(s) \/ Staged(s) \/ StageFull(s)
  \/ FlushAll(s) \/ FlushedAll(s)
  \/ SendRun(s) \/ SendFails(s, "would_block") \/ SendFails(s, "send_error")
  \/ FlushEnd(s)

Ended(s) == pc[s] \in {"done", "failed"}

Terminated == (\A s \in Shards : Ended(s)) /\ UNCHANGED vars

Next == RequestStop \/ (\E s \in Shards : ShardStep(s)) \/ Terminated

Spec == Init /\ [][Next]_vars

(* A shard thread keeps running; recv returns within its timeout.          *)
FairSpec == Spec /\ \A s \in Shards : WF_vars(ShardStep(s))
------------------------------------------------------------------------------
(* Properties.                                                             *)
Labels == {"loop", "recv", "segments", "stage", "flush", "flush_all", "final", "done", "failed"}
Segs == [seq : Nat, len : Nat]

(* Each piece of a shard's state is of its kind, and no staging queue      *)
(* outgrows TX_BATCH, for which its buffer was allocated (TxQueue::new).   *)
TypeOK ==
  /\ punt_on \in BOOLEAN /\ stop \in BOOLEAN
  /\ pc \in [Shards -> Labels]
  /\ reads \in [Shards -> Seq(Reads)]
  /\ frame \in [Shards -> Nat]
  /\ targets \in [Shards -> SUBSET Vports]
  /\ tx \in [Shards -> [Vports -> Seq(Segs)]]
  /\ \A s \in Shards, v \in Vports : Len(tx[s][v]) <= TxBatch
  /\ tx_seq \in [Shards -> [Vports -> Nat]]
  /\ egress \in [Shards -> Vports \cup {Unknown}]
  /\ unsent \in [Shards -> Seq(Segs)]
  /\ sent \in [Shards -> Nat]
  /\ back \in [Shards -> Labels]
  /\ ctr \in [Counters -> Nat]
  /\ rx_pkts \in [Vports -> Nat]
  /\ tx_pkts \in [Vports -> Nat]
  /\ tx_broadcast \in [Vports -> Nat]
  /\ received \in Nat /\ punted \in Nat
  /\ wire \in [Vports -> Seq([from : Shards, seq : Nat])]
  /\ lost \in [Shards -> [Vports -> Nat]]

(* Segments of the queue being flushed that have been tried are no longer  *)
(* waiting, though Shard::flush clears the queue only at its end.          *)
Queued(s, v) == IF pc[s] = "flush" /\ egress[s] = v THEN unsent[s] ELSE tx[s][v]

PerShard(f(_)) == SumFunction([s \in Shards |-> f(s)])
PerVport(f(_)) == SumFunction([v \in Vports |-> f(v)])

(* Every segment a socket delivered is in exactly one place: still to be   *)
(* processed, or counted under the reason it went no further, or copied to *)
(* its egress vports, and every copy is queued, on the wire, or in a run   *)
(* Shard::send reported lost.                                              *)
FrameConservation ==
  LET accepted == SumFunction(rx_pkts)
      floods == SumFunction(tx_broadcast)
      refused == ctr["engine_drop"] + ctr["oversize"] + ctr["unconfigured"]
                 + ctr["overflow"] + ctr["unknown_port"] + punted
      copies == PerShard(LAMBDA s :
                  Cardinality(targets[s]) + PerVport(LAMBDA v :
                    Len(Queued(s, v)) + lost[s][v]))
                + PerVport(LAMBDA v : Len(wire[v]))
  IN  /\ received = ctr["unknown_peer"] + ctr["bad_header"] + accepted
                    + PerShard(LAMBDA s : Pending(reads[s]))
      /\ accepted - refused - floods + floods * (Cardinality(Vports) - 1) = copies

(* tx_pkts is exact whenever no flush is under way.                        *)
TxPktsExact ==
  (\A s \in Shards : pc[s] # "flush") =>
    \A v \in Vports : tx_pkts[v] = Len(wire[v])

(* The numbers one shard puts on one egress are used once and in order,    *)
(* and a number that never appears is a segment Shard::send lost: what the *)
(* peer's SeqTracker counts as a gap is exactly the loss.                  *)
FlowNumbers ==
  \A s \in Shards, v \in Vports :
    LET mine == {i \in DOMAIN wire[v] : wire[v][i].from = s}
        queue == Queued(s, v)
    IN  /\ \A i, j \in mine : i < j => wire[v][i].seq < wire[v][j].seq
        /\ \A i, j \in DOMAIN queue : i < j => queue[i].seq < queue[j].seq
        /\ \A i \in mine, j \in DOMAIN queue : wire[v][i].seq < queue[j].seq
        /\ \A i \in mine : wire[v][i].seq < tx_seq[s][v]
        /\ \A i \in DOMAIN queue : queue[i].seq < tx_seq[s][v]
        /\ Cardinality(mine) + Len(queue) + lost[s][v] = tx_seq[s][v]

(* A shard never waits for traffic, or ends, with frames still staged      *)
(* (Shard::run flushes after every batch).                                 *)
NothingStranded ==
  \A s \in Shards : pc[s] \in {"loop", "recv"} \/ Ended(s) => Waiting(s) = {}

(* What the kernel takes as one segmented datagram.                        *)
GsoAccepts(run) ==
  /\ Len(run) <= MaxSegments \/ Len(run) = 1
  /\ \A i \in 1 .. Len(run) - 1 : run[i].len = run[1].len
  /\ run[Len(run)].len <= run[1].len
  /\ Len(run) > 1 =>
       SumFunction([i \in DOMAIN run |-> run[i].len]) <= MaxBytes

(* Whatever mix of lengths has been staged, each run Runs::next cuts off   *)
(* is one the kernel accepts, and the longest such.                        *)
RunsLegal ==
  \A s \in Shards : pc[s] = "flush" /\ unsent[s] # <<>> =>
    LET k == Len(Run(s))
    IN  /\ k > 0 /\ GsoAccepts(Run(s))
        /\ k < Len(unsent[s]) => ~GsoAccepts(SubSeq(unsent[s], 1, k + 1))

(* Once stop is requested every shard's Shard::run returns, however much   *)
(* traffic keeps arriving.                                                 *)
StopEndsShards == stop ~> \A s \in Shards : Ended(s)

(* Hdr.seq as up4-wire documents it: "Per-(sender, vport) counter,         *)
(* monotonically increasing modulo 2^32", for the node, not for one of its *)
(* shards.                                                                 *)
SenderNumbers ==
  \A v \in Vports : \A i, j \in DOMAIN wire[v] :
    i < j => wire[v][i].seq < wire[v][j].seq

(* "Every discard in up4 is attributable" (up4-metrics): every staged      *)
(* segment that did not leave is counted by tx_would_block or              *)
(* tx_send_error.                                                          *)
LossIsCounted ==
  ctr["would_block"] + ctr["send_error"]
    = PerShard(LAMBDA s : PerVport(LAMBDA v : lost[s][v]))
==============================================================================
