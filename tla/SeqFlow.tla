------------------------------- MODULE SeqFlow -------------------------------
(***************************************************************************)
(* Sequence accounting of one flow: a peer shard stamps the frames it      *)
(* sends through one vport (Shard::stage), the fabric loses, duplicates    *)
(* and reorders them, and the receiving shard classifies each with its     *)
(* SeqTracker (up4-wire's seq.rs) and counts what the tracker says         *)
(* (Shard::receive).  Numbers on the wire are modulo M = 2 * Half (2^32 in *)
(* the code); every frame also carries the unbounded number n it stands    *)
(* for, which no code reads and the properties do.                         *)
(***************************************************************************)
EXTENDS Integers, FiniteSets

CONSTANTS
  Half,         \* 2^31: half the ring of sequence numbers
  Window,       \* REORDER_WINDOW
  Lateness,     \* how many frames the fabric may overtake one by
  MaxSend,      \* bound on the frames of one incarnation of the peer
  MaxRestarts,  \* bound on restarts, of the peer or of the receiver
  MaxDup        \* bound on frames duplicated by the fabric

(* REORDER_WINDOW is far below half the ring, and the fabric lets fewer    *)
(* than that many frames overtake one: overtaken by k, a frame arrives     *)
(* k + 1 behind the expectation.                                           *)
ASSUME SeqAssumption ==
  /\ Half \in Nat /\ Window \in Nat /\ Lateness \in Nat
  /\ 0 < Window /\ Window < Half
  /\ Lateness < Window
ASSUME SeqBoundAssumption ==
  MaxSend \in Nat /\ MaxRestarts \in Nat /\ MaxDup \in Nat

M == 2 * Half
None == -1                  \* SeqTracker.expected before the first frame
Raw == 0 .. M - 1           \* Seq(u32)

(* Seq::next and Seq::delta: wrapping_add(1), and wrapping_sub read as a   *)
(* signed number of the same width.                                        *)
(* Does not wrap.                                                          *)
MutantSeqNext(s) == s + 1
SeqNext(s) == IF s = M - 1 THEN 0 ELSE s + 1
SeqDelta(a, b) ==
  IF a - b >= Half THEN a - b - M
  ELSE IF a - b < -Half THEN a - b + M
  ELSE a - b

VARIABLES
  tx_seq,     \* the peer shard's next number for this egress
  sent,       \* how many frames this incarnation has sent (tx_seq unwrapped)
  net,        \* frames in the fabric
  expected,   \* SeqTracker.expected
  gap,        \* rx_seq_gap_total
  reorder,    \* rx_reorder
  restarts, dups,  \* bounded environment events so far
  synced,     \* history: expected comes from a frame of this incarnation
  first,      \* history: the frame that synchronized the tracker
  mark,       \* history: one past the newest frame since then
  got,        \* history: the frames received since then, first included
  extra,      \* history: frames received since then twice, or before first
  base,       \* history: gap - reorder when the tracker synchronized
  strangers   \* history: frames of this incarnation received out of sync

peerVars == <<tx_seq, sent>>
trackerVars == <<expected, gap, reorder>>
histVars == <<synced, first, mark, got, extra, base, strangers>>
vars == <<peerVars, net, trackerVars, restarts, dups, histVars>>

Init ==
  /\ tx_seq = 0 /\ sent = 0
  /\ net = {}
  /\ expected = None /\ gap = 0 /\ reorder = 0
  /\ restarts = 0 /\ dups = 0
  /\ synced = FALSE
  /\ first = 0 /\ mark = 0 /\ got = {} /\ extra = 0 /\ base = 0
  /\ strangers = {}
------------------------------------------------------------------------------
(* The peer stages a frame: it carries tx_seq, which moves on.  A receiver *)
(* with an expectation has missed fewer than Half frames in a row, or it   *)
(* could not tell ahead from behind; a frame overtaken by more than        *)
(* Lateness others is lost.                                                *)
Send ==
  /\ sent < MaxSend
  /\ expected = None \/ sent - (IF synced THEN mark ELSE 0) < Half
  /\ tx_seq' = SeqNext(tx_seq)
  /\ sent' = sent + 1
  /\ net' = {f \in net : sent - f.n <= Lateness} \cup {[n |-> sent, seq |-> tx_seq]}
  /\ UNCHANGED <<trackerVars, restarts, dups, histVars>>

Lose(f) ==
  /\ net' = net \ {f}
  /\ UNCHANGED <<peerVars, trackerVars, restarts, dups, histVars>>

(* What SeqTracker::observe says of a frame `d` ahead of the expectation.  *)
Event(d) == IF d = 0 THEN "InOrder" ELSE IF d > 0 THEN "Gap" ELSE "Reorder"

(* Treats every frame behind the expectation as a restarted peer.          *)
MutantObserve(e, seq) ==
  LET d == IF e = None THEN 0 ELSE SeqDelta(seq, e)
  IN  [ event |-> Event(d),
        skipped |-> IF d > 0 THEN d ELSE 0,
        expected |-> SeqNext(seq) ]

(* Never resynchronizes on a frame behind the expectation.                 *)
MutantObserveStuck(e, seq) ==
  LET d == IF e = None THEN 0 ELSE SeqDelta(seq, e)
  IN  [ event |-> Event(d),
        skipped |-> IF d > 0 THEN d ELSE 0,
        expected |-> IF d < 0 THEN e ELSE SeqNext(seq) ]

(* SeqTracker::observe: the event, and the expectation it leaves.  A frame *)
(* within the window behind it is late and leaves it alone; one further    *)
(* behind resynchronizes it, and so does any other.                        *)
Observe(e, seq) ==
  LET d == IF e = None THEN 0 ELSE SeqDelta(seq, e)
  IN  [ event |-> Event(d),
        skipped |-> IF d > 0 THEN d ELSE 0,
        expected |-> IF d < 0 /\ -d <= Window THEN e ELSE SeqNext(seq) ]

(* Shard::receive's accounting of one frame, whatever the tracker says.    *)
Count(r) ==
  /\ expected' = r.expected
  /\ gap' = gap + r.skipped
  /\ reorder' = reorder + (IF r.event = "Reorder" THEN 1 ELSE 0)

(* The history the properties speak of.  The tracker is in sync with this  *)
(* incarnation from the first of its frames that moves the expectation.    *)
Synchronize(n) ==
  /\ synced' = TRUE
  /\ first' = n /\ mark' = n + 1 /\ got' = {n}
  /\ extra' = 0 /\ base' = gap' - reorder'
  /\ UNCHANGED strangers

RecordStranger(n) ==
  /\ strangers' = strangers \cup {n}
  /\ UNCHANGED <<synced, first, mark, got, extra, base>>

RecordInSync(n) ==
  /\ mark' = IF n >= mark THEN n + 1 ELSE mark
  /\ got' = IF n >= first THEN got \cup {n} ELSE got
  /\ extra' = IF n < first \/ n \in got THEN extra + 1 ELSE extra
  /\ UNCHANGED <<synced, first, base, strangers>>

Receive(f) ==
  /\ Count(Observe(expected, f.seq))
  /\ \/ synced /\ RecordInSync(f.n)
     \/ ~synced /\ expected' # expected /\ Synchronize(f.n)
     \/ ~synced /\ expected' = expected /\ RecordStranger(f.n)

Deliver(f) ==
  /\ Receive(f)
  /\ net' = net \ {f}
  /\ UNCHANGED <<peerVars, restarts, dups>>

(* The fabric delivers a copy and keeps the frame.                         *)
DeliverCopy(f) ==
  /\ dups < MaxDup
  /\ dups' = dups + 1
  /\ Receive(f)
  /\ UNCHANGED <<peerVars, net, restarts>>
------------------------------------------------------------------------------
OutOfSync ==
  /\ synced' = FALSE
  /\ first' = 0 /\ mark' = 0 /\ got' = {} /\ extra' = 0 /\ base' = 0
  /\ strangers' = {}

(* Shard::new starts every egress at sequence number 0.  A node takes far  *)
(* longer to start than a datagram lives, so nothing the previous          *)
(* incarnation sent is still in the fabric.                                *)
PeerRestart ==
  /\ restarts < MaxRestarts
  /\ restarts' = restarts + 1
  /\ tx_seq' = 0 /\ sent' = 0
  /\ net' = {}
  /\ OutOfSync
  /\ UNCHANGED <<trackerVars, dups>>

(* ... and every ingress at an empty tracker and zero counters.            *)
ReceiverRestart ==
  /\ restarts < MaxRestarts
  /\ restarts' = restarts + 1
  /\ expected' = None /\ gap' = 0 /\ reorder' = 0
  /\ OutOfSync
  /\ UNCHANGED <<peerVars, net, dups>>

Next ==
  \/ Send
  \/ \E f \in net : Lose(f) \/ Deliver(f) \/ DeliverCopy(f)
  \/ PeerRestart
  \/ ReceiverRestart

Spec == Init /\ [][Next]_vars
------------------------------------------------------------------------------
(* Properties.                                                             *)
Frames == [n : Nat, seq : Raw]

(* Wire numbers and the expectation are u32 values (Seq), the counters     *)
(* never go backwards past zero.                                           *)
TypeOK ==
  /\ tx_seq \in Raw /\ sent \in Nat
  /\ net \subseteq Frames
  /\ expected \in Raw \cup {None}
  /\ gap \in Nat /\ reorder \in Nat
  /\ restarts \in Nat /\ dups \in Nat
  /\ synced \in BOOLEAN
  /\ first \in Nat /\ mark \in Nat /\ got \subseteq Nat
  /\ extra \in Nat /\ base \in Int /\ strangers \subseteq Nat

(* Wrapping is invisible: once in sync, the signed distance Seq::delta     *)
(* computes from wrapped numbers is the true distance of every frame in    *)
(* flight from the newest frame received.  In particular no late or        *)
(* duplicate frame ever moves SeqTracker's expectation back, and none is   *)
(* taken for a restarted peer.                                             *)
WrapTransparent ==
  synced => \A f \in net : SeqDelta(f.seq, expected) = f.n - mark

(* The counters account for loss exactly: rx_seq_gap_total less rx_reorder *)
(* has grown, since the frame that synchronized the tracker, by the number *)
(* of frames of Shard::stage that have not arrived, less one for every     *)
(* duplicate and every straggler from before that frame.                   *)
LossAccounting ==
  synced =>
    gap + extra = base + reorder + Cardinality((first .. mark - 1) \ got)

(* A restarted peer is recognised: at most REORDER_WINDOW of its frames    *)
(* are reported as reordered before SeqTracker::observe follows the new    *)
(* numbering ("so the flow does not report every subsequent frame as       *)
(* reordered forever").                                                    *)
RestartRecovers == Cardinality(strangers) <= Window

(* The inductive invariant behind them.  Two wire numbers are as far apart *)
(* as the frames they stand for, up to one turn of the ring.               *)
Congruent(a, n, b, m) == a - b \in {n - m, n - m + M, n - m - M}

(* Frames in flight are recent and numbered like the peer's counter; an    *)
(* expectation in sync is at most Half behind it.                          *)
FlowInv ==
  /\ \A f \in net :
       /\ f.n < sent /\ sent - f.n <= Lateness + 1
       /\ Congruent(f.seq, f.n, tx_seq, sent)
  /\ synced =>
       /\ expected \in Raw
       /\ mark <= sent /\ sent - mark <= Half
       /\ Congruent(expected, mark, tx_seq, sent)

LossInv ==
  synced => got \subseteq first .. mark - 1 /\ first \in got

(* Out of sync with a restarted peer, numbers have not wrapped yet, and    *)
(* every stranger lies in the window behind the stale expectation.         *)
RestartInv ==
  /\ IsFiniteSet(strangers)
  /\ ~synced /\ expected = None => strangers = {}
  /\ ~synced /\ expected # None =>
       /\ sent <= Half /\ tx_seq = sent
       /\ \A f \in net : f.seq = f.n
       /\ strangers \subseteq (expected - Window) .. (expected - 1)

IInv ==
  /\ TypeOK /\ FlowInv /\ LossInv /\ RestartInv
  /\ LossAccounting /\ RestartRecovers
==============================================================================
