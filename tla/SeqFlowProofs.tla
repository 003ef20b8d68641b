---------------------------- MODULE SeqFlowProofs ----------------------------
(***************************************************************************)
(* Sequence accounting is exact on a ring of any size, for any number of   *)
(* frames, losses, duplicates and restarts: SeqFlow's invariants, proved   *)
(* from IInv.                                                              *)
(***************************************************************************)
EXTENDS SeqFlow, FiniteSetTheorems, TLAPS

(* Seq::delta of numbers less than half a ring apart is the distance of    *)
(* the frames they stand for.                                              *)
LEMMA DeltaExact ==
  ASSUME NEW a \in Raw, NEW b \in Raw, NEW n \in Int, NEW m \in Int,
         Congruent(a, n, b, m), -Half <= n - m, n - m < Half
  PROVE  SeqDelta(a, b) = n - m
BY SeqAssumption DEF Congruent, SeqDelta, Raw, M

(* Congruence to the peer's counter makes numbers congruent to each other. *)
LEMMA CongruentTrans ==
  ASSUME NEW a \in Raw, NEW b \in Raw, NEW c \in Raw,
         NEW n \in Int, NEW m \in Int, NEW p \in Int,
         Congruent(a, n, c, p), Congruent(b, m, c, p),
         -M < n - m, n - m < M
  PROVE  Congruent(a, n, b, m)
BY SeqAssumption DEF Congruent, Raw, M

(* Seq::next keeps a number in step with the frame it stands for.          *)
LEMMA NextCongruent ==
  ASSUME NEW a \in Raw, NEW c \in Raw, NEW n \in Int, NEW p \in Int,
         Congruent(a, n, c, p), -Half <= n - p, n < p
  PROVE  /\ SeqNext(a) \in Raw
         /\ Congruent(SeqNext(a), n + 1, c, p)
BY SeqAssumption DEF Congruent, SeqNext, Raw, M

(* ... and Seq::next of the peer's counter keeps the older numbers in step *)
(* with it.                                                                *)
LEMMA CounterNextCongruent ==
  ASSUME NEW a \in Raw, NEW c \in Raw, NEW n \in Int, NEW p \in Int,
         Congruent(a, n, c, p), n <= p, p - n < Half
  PROVE  /\ SeqNext(c) \in Raw
         /\ Congruent(a, n, SeqNext(c), p + 1)
BY SeqAssumption DEF Congruent, SeqNext, Raw, M

(* What SeqTracker::observe makes of a frame the fabric may deliver.       *)
LEMMA ObserveFrame ==
  ASSUME IInv, NEW f \in net
  PROVE  LET r == Observe(expected, f.seq) IN
         /\ r.skipped \in Nat
         /\ r.expected \in {expected, SeqNext(f.seq)}
         /\ synced /\ f.n >= mark =>
              /\ r.event # "Reorder" /\ r.skipped = f.n - mark
              /\ r.expected = SeqNext(f.seq)
         /\ synced /\ f.n < mark =>
              /\ r.event = "Reorder" /\ r.skipped = 0 /\ r.expected = expected
         /\ expected = None => r.expected = SeqNext(f.seq)
         /\ ~synced /\ expected # None /\ r.expected = expected =>
              f.n \in (expected - Window) .. (expected - 1)
<1>1. /\ f.n \in Nat /\ f.seq \in Raw /\ tx_seq \in Raw /\ sent \in Nat
      /\ mark \in Nat /\ expected \in Raw \cup {None}
      /\ f.n < sent /\ sent - f.n <= Lateness + 1
      /\ Congruent(f.seq, f.n, tx_seq, sent)
  BY DEF IInv, TypeOK, FlowInv, Frames
<1>2. expected # None => SeqDelta(f.seq, expected) \in Int
  BY <1>1, SeqAssumption DEF SeqDelta, Raw, M
<1>3. CASE synced
  <2>1. /\ expected \in Raw /\ expected # None
        /\ mark <= sent /\ sent - mark <= Half
        /\ Congruent(expected, mark, tx_seq, sent)
    BY <1>3, SeqAssumption DEF IInv, FlowInv, Raw, M, None
  <2>2. -Window <= f.n - mark /\ f.n - mark < Half
    BY <1>1, <2>1, SeqAssumption
  <2>3. Congruent(f.seq, f.n, expected, mark)
    BY <1>1, <2>1, <2>2, CongruentTrans, SeqAssumption DEF M
  <2>4. SeqDelta(f.seq, expected) = f.n - mark
    BY <1>1, <2>1, <2>2, <2>3, DeltaExact, SeqAssumption
  <2> QED
    BY <1>1, <1>3, <2>1, <2>2, <2>4, SeqAssumption DEF Observe, Event
<1>4. CASE ~synced /\ expected = None
  BY <1>1, <1>4 DEF Observe, Event
<1>5. CASE ~synced /\ expected # None
  <2>1. /\ sent <= Half /\ f.seq = f.n /\ expected \in Raw
    BY <1>1, <1>5 DEF IInv, RestartInv
  <2>2. LET d == SeqDelta(f.seq, expected) IN
          d < 0 /\ -d <= Window => f.n \in (expected - Window) .. (expected - 1)
    BY <1>1, <2>1, SeqAssumption DEF SeqDelta, Raw, M
  <2>3. LET d == SeqDelta(f.seq, expected) IN
          ~(d < 0 /\ -d <= Window) => SeqNext(f.seq) # expected
    BY <1>1, <2>1, SeqAssumption DEF SeqDelta, SeqNext, Raw, M
  <2> QED
    BY <1>1, <1>2, <1>5, <2>2, <2>3 DEF Observe, Event
<1> QED
  BY <1>3, <1>4, <1>5
------------------------------------------------------------------------------
(* The frames missing from first .. mark - 1, as the tracker counts them.  *)
Missing(lo, hi, G) == (lo .. hi - 1) \ G

(* A frame at or past the mark adds the ones it skipped to the missing; a  *)
(* late one that was missing removes itself.                               *)
LEMMA MissingAdvance ==
  ASSUME NEW lo \in Nat, NEW hi \in Nat, NEW n \in Nat, NEW G \in SUBSET Nat,
         lo < hi, hi <= n, \A g \in G : g \in lo .. hi - 1
  PROVE  Cardinality(Missing(lo, n + 1, G \cup {n}))
           = Cardinality(Missing(lo, hi, G)) + (n - hi)
<1>1. Missing(lo, n + 1, G \cup {n}) = Missing(lo, hi, G) \cup (hi .. n - 1)
  BY DEF Missing
<1>2. Missing(lo, hi, G) \cap (hi .. n - 1) = {}
  BY DEF Missing
<1>3. IsFiniteSet(lo .. hi - 1)
  BY FS_Interval
<1>4. IsFiniteSet(Missing(lo, hi, G))
  BY <1>3, FS_Difference DEF Missing
<1>5. IsFiniteSet(hi .. n - 1) /\ Cardinality(hi .. n - 1) = n - hi
  BY FS_Interval
<1>6. Cardinality(Missing(lo, n + 1, G \cup {n})) =
        Cardinality(Missing(lo, hi, G)) + Cardinality(hi .. n - 1) - Cardinality({})
  BY <1>1, <1>2, <1>4, <1>5, FS_Union
<1>7. Cardinality(Missing(lo, hi, G)) \in Nat
  BY <1>4, FS_CardinalityType
<1> QED
  BY <1>5, <1>6, <1>7, FS_EmptySet

(* Hearing a number already inside the span of the tracker leaves one      *)
(* number fewer missing when it was not heard before, and none otherwise:  *)
(* what SeqTracker::observe counts as Reordered.                           *)
LEMMA MissingFill ==
  ASSUME NEW lo \in Nat, NEW hi \in Nat, NEW n \in lo .. hi - 1, NEW G
  PROVE  /\ Cardinality(Missing(lo, hi, G \cup {n}))
              = Cardinality(Missing(lo, hi, G)) - (IF n \in G THEN 0 ELSE 1)
         /\ Cardinality(Missing(lo, hi, G)) \in Nat
<1>1. Missing(lo, hi, G \cup {n}) = Missing(lo, hi, G) \ {n}
  BY DEF Missing
<1>2. n \in Missing(lo, hi, G) <=> n \notin G
  BY DEF Missing
<1>3. IsFiniteSet(lo .. hi - 1)
  BY FS_Interval
<1>4. IsFiniteSet(Missing(lo, hi, G))
  BY <1>3, FS_Difference DEF Missing
<1>5. Cardinality(Missing(lo, hi, G)) \in Nat
  BY <1>4, FS_CardinalityType
<1>6. Cardinality(Missing(lo, hi, G) \ {n}) =
        IF n \in Missing(lo, hi, G) THEN Cardinality(Missing(lo, hi, G)) - 1
        ELSE Cardinality(Missing(lo, hi, G))
  BY <1>4, FS_RemoveElement
<1> DEFINE old == Cardinality(Missing(lo, hi, G))
<1>7. Cardinality(Missing(lo, hi, G \cup {n})) = IF n \in G THEN old ELSE old - 1
  BY <1>1, <1>2, <1>6
<1> HIDE DEF old
<1>8. Cardinality(Missing(lo, hi, G \cup {n})) = old - (IF n \in G THEN 0 ELSE 1)
  BY <1>5, <1>7 DEF old
<1> QED
  BY <1>5, <1>8 DEF old
------------------------------------------------------------------------------
(* Every frame the fabric delivers, once or twice, preserves IInv.         *)
LEMMA ReceiveIInv ==
  ASSUME IInv, NEW f \in net, Receive(f),
         net' \subseteq net, UNCHANGED peerVars,
         restarts' \in Nat, dups' \in Nat
  PROVE  IInv'
<1> DEFINE r == Observe(expected, f.seq)
<1>1. /\ f.n \in Nat /\ f.seq \in Raw /\ tx_seq \in Raw /\ sent \in Nat
      /\ mark \in Nat /\ first \in Nat /\ got \subseteq Nat
      /\ extra \in Nat /\ base \in Int /\ strangers \subseteq Nat
      /\ expected \in Raw \cup {None} /\ gap \in Nat /\ reorder \in Nat
      /\ f.n < sent /\ sent - f.n <= Lateness + 1
      /\ Congruent(f.seq, f.n, tx_seq, sent)
      /\ tx_seq' = tx_seq /\ sent' = sent
  BY DEF IInv, TypeOK, FlowInv, Frames, peerVars
<1>2. /\ SeqNext(f.seq) \in Raw
      /\ Congruent(SeqNext(f.seq), f.n + 1, tx_seq, sent)
  BY <1>1, NextCongruent, SeqAssumption
<1>3. /\ r.skipped \in Nat
      /\ r.expected \in {expected, SeqNext(f.seq)}
      /\ synced /\ f.n >= mark =>
           /\ r.event # "Reorder" /\ r.skipped = f.n - mark
           /\ r.expected = SeqNext(f.seq)
      /\ synced /\ f.n < mark =>
           /\ r.event = "Reorder" /\ r.skipped = 0 /\ r.expected = expected
      /\ expected = None => r.expected = SeqNext(f.seq)
      /\ ~synced /\ expected # None /\ r.expected = expected =>
           f.n \in (expected - Window) .. (expected - 1)
  BY ObserveFrame
<1>4. /\ expected' = r.expected /\ gap' = gap + r.skipped
      /\ reorder' = reorder + (IF r.event = "Reorder" THEN 1 ELSE 0)
  BY DEF Receive, Count
<1> HIDE DEF r
<1>5. /\ expected' \in Raw \cup {None} /\ gap' \in Nat /\ reorder' \in Nat
      /\ net' \subseteq Frames
      /\ tx_seq' \in Raw /\ sent' \in Nat
  BY <1>1, <1>2, <1>3, <1>4 DEF IInv, TypeOK
<1>6. \A g \in net' :
        /\ g.n < sent' /\ sent' - g.n <= Lateness + 1
        /\ Congruent(g.seq, g.n, tx_seq', sent')
  BY <1>1 DEF IInv, FlowInv
<1>7. CASE synced /\ RecordInSync(f.n)
  <2>1. /\ expected \in Raw /\ mark <= sent /\ sent - mark <= Half
        /\ Congruent(expected, mark, tx_seq, sent)
        /\ got \subseteq first .. mark - 1 /\ first \in got /\ first < mark
        /\ synced' /\ synced' \in BOOLEAN
        /\ first' = first /\ base' = base /\ strangers' = strangers
    BY <1>1, <1>7 DEF IInv, FlowInv, LossInv, RecordInSync, TypeOK
  <2>2. gap + extra = base + reorder + Cardinality(Missing(first, mark, got))
    BY <1>7 DEF IInv, LossAccounting, Missing
  <2>10. Cardinality(Missing(first, mark, got)) \in Nat
    <3>1. IsFiniteSet(first .. mark - 1)
      BY <1>1, FS_Interval
    <3> QED
      BY <3>1, FS_Difference, FS_CardinalityType DEF Missing
  <2>3. /\ mark' \in Nat /\ got' \subseteq Nat /\ extra' \in Nat
        /\ got' \subseteq first .. mark' - 1 /\ first \in got'
    <3>1. mark' \in Nat /\ mark <= mark' /\ f.n < mark'
      BY <1>1, <1>7 DEF RecordInSync
    <3>2. got' \subseteq got \cup {f.n} /\ first \in got'
      BY <1>7, <2>1 DEF RecordInSync
    <3>3. \A n \in got' : n \in first .. mark' - 1
      BY <1>1, <1>7, <2>1, <3>1 DEF RecordInSync
    <3>4. extra' \in Nat
      BY <1>1, <1>7 DEF RecordInSync
    <3> QED
      BY <1>1, <3>1, <3>2, <3>3, <3>4
  <2>4. /\ expected' \in Raw /\ mark' <= sent /\ sent - mark' <= Half
        /\ Congruent(expected', mark', tx_seq, sent)
    BY <1>1, <1>2, <1>3, <1>4, <1>7, <2>1, SeqAssumption DEF RecordInSync
  <2>5. gap' + extra' = base + reorder' + Cardinality(Missing(first, mark', got'))
    <3>1. CASE f.n >= mark
      <4>1. /\ mark' = f.n + 1 /\ got' = got \cup {f.n} /\ extra' = extra
        BY <1>1, <1>7, <2>1, <3>1 DEF RecordInSync
      <4>2. gap' = gap + (f.n - mark) /\ reorder' = reorder
        BY <1>1, <1>3, <1>4, <1>7, <3>1
      <4>3. Cardinality(Missing(first, mark', got')) =
              Cardinality(Missing(first, mark, got)) + (f.n - mark)
        <5>1. Cardinality(Missing(first, f.n + 1, got \cup {f.n})) =
                Cardinality(Missing(first, mark, got)) + (f.n - mark)
          <6>1. /\ first \in Nat /\ mark \in Nat /\ f.n \in Nat
                /\ first < mark /\ mark <= f.n
            BY <1>1, <2>1, <3>1
          <6>2. got \in SUBSET Nat /\ got \subseteq first .. mark - 1
            BY <1>1, <2>1
          <6> QED
            BY <6>1, <6>2, MissingAdvance
        <5> QED
          BY <4>1, <5>1
      <4>4. ASSUME NEW c \in Nat, gap + extra = base + reorder + c
            PROVE  (gap + (f.n - mark)) + extra = base + reorder + (c + (f.n - mark))
        BY <1>1, <4>4
      <4>5. (gap + (f.n - mark)) + extra =
              base + reorder + (Cardinality(Missing(first, mark, got)) + (f.n - mark))
        BY <2>2, <2>10, <4>4
      <4> QED
        BY <4>1, <4>2, <4>3, <4>5
    <3>2. CASE f.n < mark /\ f.n >= first
      <4>1. /\ mark' = mark /\ got' = got \cup {f.n}
            /\ extra' = extra + (IF f.n \in got THEN 1 ELSE 0)
        BY <1>1, <1>7, <2>1, <3>2 DEF RecordInSync
      <4>2. gap' = gap /\ reorder' = reorder + 1
        BY <1>1, <1>3, <1>4, <1>7, <3>2
      <4>3. /\ Cardinality(Missing(first, mark', got')) =
                 Cardinality(Missing(first, mark, got)) - (IF f.n \in got THEN 0 ELSE 1)
            /\ Cardinality(Missing(first, mark, got)) \in Nat
        <5>1. f.n \in first .. mark - 1
          BY <1>1, <3>2
        <5>2. /\ Cardinality(Missing(first, mark, got \cup {f.n})) =
                   Cardinality(Missing(first, mark, got)) - (IF f.n \in got THEN 0 ELSE 1)
              /\ Cardinality(Missing(first, mark, got)) \in Nat
          <6>1. first \in Nat /\ mark \in Nat
            BY <1>1
          <6> QED
            BY <5>1, <6>1, MissingFill
        <5> QED
          BY <4>1, <5>2
      <4> QED
        BY <1>1, <2>2, <4>1, <4>2, <4>3
    <3>3. CASE f.n < first
      <4>1. mark' = mark /\ got' = got /\ extra' = extra + 1
        BY <1>1, <1>7, <2>1, <3>3 DEF RecordInSync
      <4>2. gap' = gap /\ reorder' = reorder + 1
        BY <1>1, <1>3, <1>4, <1>7, <2>1, <3>3
      <4> QED
        BY <1>1, <2>2, <2>10, <4>1, <4>2
    <3> QED
      BY <1>1, <3>1, <3>2, <3>3
  <2>6. TypeOK'
    BY <1>1, <1>5, <2>1, <2>3 DEF TypeOK
  <2>7. FlowInv' /\ LossInv' /\ LossAccounting'
    BY <1>1, <1>6, <2>1, <2>3, <2>4, <2>5
    DEF FlowInv, LossInv, LossAccounting, Missing
  <2>8. RestartInv' /\ RestartRecovers'
    BY <2>1 DEF IInv, RestartInv, RestartRecovers
  <2> QED
    BY <2>6, <2>7, <2>8 DEF IInv
<1>8. CASE ~synced /\ expected' # expected /\ Synchronize(f.n)
  <2>1. /\ synced' /\ synced' \in BOOLEAN
        /\ first' = f.n /\ mark' = f.n + 1 /\ got' = {f.n}
        /\ extra' = 0 /\ base' = gap' - reorder' /\ strangers' = strangers
        /\ expected' = SeqNext(f.seq)
    BY <1>3, <1>4, <1>8 DEF Synchronize
  <2>2. TypeOK'
    BY <1>1, <1>5, <2>1 DEF TypeOK
  <2>3. FlowInv' /\ LossInv'
    BY <1>1, <1>2, <1>6, <2>1, SeqAssumption DEF FlowInv, LossInv
  <2>4. LossAccounting'
    <3>1. (first' .. mark' - 1) \ got' = {}
      BY <1>1, <2>1
    <3>2. Cardinality((first' .. mark' - 1) \ got') = 0
      BY <3>1, FS_EmptySet
    <3>3. gap' + extra' = base' + reorder' + 0
      <4>1. gap' \in Int /\ reorder' \in Int
        BY <1>5
      <4>2. base' = gap' - reorder' /\ extra' = 0
        BY <2>1
      <4> QED
        BY <4>1, <4>2
    <3> QED
      BY <3>2, <3>3 DEF LossAccounting
  <2>5. RestartInv' /\ RestartRecovers'
    BY <2>1 DEF IInv, RestartInv, RestartRecovers
  <2> QED
    BY <2>2, <2>3, <2>4, <2>5 DEF IInv
<1>9. CASE ~synced /\ expected' = expected /\ RecordStranger(f.n)
  <2>1. /\ ~synced' /\ synced' \in BOOLEAN
        /\ first' = first /\ mark' = mark /\ got' = got
        /\ extra' = extra /\ base' = base /\ strangers' = strangers \cup {f.n}
    BY <1>9 DEF RecordStranger, IInv, TypeOK
  <2>2. expected # None
    BY <1>1, <1>2, <1>3, <1>4, <1>9, SeqAssumption DEF Raw, None, M
  <2>3. TypeOK'
    BY <1>1, <1>5, <2>1 DEF TypeOK
  <2>4. FlowInv' /\ LossInv' /\ LossAccounting'
    BY <1>6, <2>1 DEF FlowInv, LossInv, LossAccounting
  <2>5. /\ strangers' \subseteq (expected - Window) .. (expected - 1)
        /\ sent <= Half /\ tx_seq = sent /\ \A g \in net : g.seq = g.n
        /\ expected \in Int
    <3>1. expected \in Int
      BY <1>1, <2>2, SeqAssumption DEF Raw, M
    <3>2. f.n \in (expected - Window) .. (expected - 1)
      BY <1>3, <1>4, <1>9, <2>2
    <3>3. /\ strangers \subseteq (expected - Window) .. (expected - 1)
          /\ sent <= Half /\ tx_seq = sent /\ \A g \in net : g.seq = g.n
      BY <1>9, <2>2 DEF IInv, RestartInv
    <3> QED
      BY <2>1, <3>1, <3>2, <3>3
  <2>6. IsFiniteSet(strangers') /\ Cardinality(strangers') <= Window
    <3>1. /\ IsFiniteSet((expected - Window) .. (expected - 1))
          /\ Cardinality((expected - Window) .. (expected - 1)) = Window
      <4>1. /\ expected - Window \in Int /\ expected - 1 \in Int
            /\ ~(expected - Window > expected - 1)
            /\ (expected - 1) - (expected - Window) + 1 = Window
        BY <2>5, SeqAssumption
      <4> QED
        BY <4>1, FS_Interval
    <3> QED
      BY <2>5, <3>1, FS_Subset
  <2>7. RestartInv' /\ RestartRecovers'
    BY <1>1, <1>9, <2>1, <2>2, <2>5, <2>6 DEF RestartInv, RestartRecovers
  <2> QED
    BY <2>3, <2>4, <2>7 DEF IInv
<1> QED
  BY <1>7, <1>8, <1>9 DEF Receive
------------------------------------------------------------------------------
(* The tracker of a fresh shard satisfies IInv.                            *)
LEMMA InitIInv == Init => IInv
<1> SUFFICES ASSUME Init PROVE IInv
  OBVIOUS
<1>1. TypeOK
  <2>1. synced \in BOOLEAN
    BY Zenon DEF Init
  <2>2. tx_seq \in Raw /\ expected \in Raw \cup {None}
    BY SeqAssumption DEF Init, Raw, M, None
  <2>3. /\ sent \in Nat /\ net \subseteq Frames /\ gap \in Nat /\ reorder \in Nat
        /\ restarts \in Nat /\ dups \in Nat
        /\ first \in Nat /\ mark \in Nat /\ got \subseteq Nat
        /\ extra \in Nat /\ base \in Int /\ strangers \subseteq Nat
    BY DEF Init
  <2> QED
    BY <2>1, <2>2, <2>3 DEF TypeOK
<1>2. FlowInv /\ LossInv /\ LossAccounting
  BY DEF Init, FlowInv, LossInv, LossAccounting
<1>3. RestartInv /\ RestartRecovers
  BY SeqAssumption, FS_EmptySet DEF Init, RestartInv, RestartRecovers
<1> QED
  BY <1>1, <1>2, <1>3 DEF IInv

(* Shard::stage keeps the fabric's frames, its counter and the receiver's  *)
(* expectation in step.                                                    *)
LEMMA SendIInv ==
  ASSUME IInv, Send
  PROVE  IInv'
<1> DEFINE new == [n |-> sent, seq |-> tx_seq]
<1>1. /\ tx_seq \in Raw /\ sent \in Nat /\ mark \in Nat /\ net \subseteq Frames
      /\ expected \in Raw \cup {None} /\ sent' = sent + 1 /\ tx_seq' = SeqNext(tx_seq)
      /\ UNCHANGED <<trackerVars, restarts, dups, histVars>>
      /\ net' = {f \in net : sent - f.n <= Lateness} \cup {new}
  BY DEF IInv, TypeOK, Send
<1>2. tx_seq' \in Raw
  BY <1>1, SeqAssumption DEF SeqNext, Raw, M
<1>3. new \in Frames /\ new.n = sent /\ new.seq = tx_seq
  BY <1>1 DEF Frames
<1> HIDE DEF new
<1>4. TypeOK'
  BY <1>1, <1>2, <1>3 DEF IInv, TypeOK, trackerVars, histVars
<1>5. \A f \in net' :
        /\ f.n < sent' /\ sent' - f.n <= Lateness + 1
        /\ Congruent(f.seq, f.n, tx_seq', sent')
  <2> SUFFICES ASSUME NEW f \in net'
               PROVE  /\ f.n < sent' /\ sent' - f.n <= Lateness + 1
                      /\ Congruent(f.seq, f.n, tx_seq', sent')
    OBVIOUS
  <2>1. CASE f = new
    <3>1. Congruent(tx_seq, sent, tx_seq, sent)
      BY <1>1, SeqAssumption DEF Congruent, Raw, M
    <3>2. Congruent(tx_seq, sent, SeqNext(tx_seq), sent + 1)
      BY <1>1, <3>1, CounterNextCongruent, SeqAssumption
    <3> QED
      BY <1>1, <1>3, <2>1, <3>2, SeqAssumption
  <2>2. CASE f \in net /\ sent - f.n <= Lateness
    <3>1. /\ f.n \in Nat /\ f.seq \in Raw /\ f.n < sent
          /\ Congruent(f.seq, f.n, tx_seq, sent)
      BY <1>1, <2>2 DEF IInv, FlowInv, Frames
    <3>2. Congruent(f.seq, f.n, SeqNext(tx_seq), sent + 1)
      BY <1>1, <2>2, <3>1, CounterNextCongruent, SeqAssumption
    <3> QED
      BY <1>1, <2>2, <3>1, <3>2, SeqAssumption
  <2> QED
    BY <1>1, <2>1, <2>2
<1>6. synced => /\ expected' \in Raw /\ mark' <= sent' /\ sent' - mark' <= Half
                /\ Congruent(expected', mark', tx_seq', sent')
  <2> SUFFICES ASSUME synced
               PROVE  /\ expected' \in Raw /\ mark' <= sent' /\ sent' - mark' <= Half
                      /\ Congruent(expected', mark', tx_seq', sent')
    OBVIOUS
  <2>1. /\ expected \in Raw /\ mark <= sent
        /\ Congruent(expected, mark, tx_seq, sent)
    BY DEF IInv, FlowInv
  <2>2. sent - mark < Half
    BY <2>1, SeqAssumption DEF Send, Raw, None, M
  <2>3. Congruent(expected, mark, SeqNext(tx_seq), sent + 1)
    BY <1>1, <2>1, <2>2, CounterNextCongruent
  <2> QED
    BY <1>1, <2>1, <2>2, <2>3, SeqAssumption DEF trackerVars, histVars
<1>7. FlowInv'
  BY <1>1, <1>5, <1>6 DEF FlowInv, histVars
<1>8. LossInv' /\ LossAccounting' /\ RestartRecovers'
  BY <1>1 DEF IInv, LossInv, LossAccounting, RestartRecovers, trackerVars, histVars
<1>9. RestartInv'
  <2>1. /\ IsFiniteSet(strangers') /\ strangers' = strangers
        /\ expected' = expected /\ synced' = synced
    BY <1>1 DEF IInv, RestartInv, trackerVars, histVars
  <2>2. CASE ~synced /\ expected # None
    <3>1. /\ sent <= Half /\ tx_seq = sent /\ \A f \in net : f.seq = f.n
          /\ strangers \subseteq (expected - Window) .. (expected - 1)
      BY <2>2 DEF IInv, RestartInv
    <3>2. sent < Half
      BY <1>1, <2>2 DEF Send
    <3>3. sent' <= Half /\ tx_seq' = sent'
      BY <1>1, <3>1, <3>2, SeqAssumption DEF SeqNext, M
    <3>4. \A f \in net' : f.seq = f.n
      BY <1>1, <1>3, <3>1
    <3>5. strangers' \subseteq (expected' - Window) .. (expected' - 1)
      BY <2>1, <3>1
    <3> QED
      BY <2>1, <2>2, <3>3, <3>4, <3>5, Zenon DEF RestartInv
  <2> QED
    BY <2>1, <2>2 DEF IInv, RestartInv
<1> QED
  BY <1>4, <1>7, <1>8, <1>9 DEF IInv

(* A restart of either end leaves a state IInv describes.                  *)
LEMMA RestartIInv ==
  ASSUME IInv, PeerRestart \/ ReceiverRestart
  PROVE  IInv'
<1>0. OutOfSync
  BY DEF PeerRestart, ReceiverRestart
<1>1. /\ ~synced' /\ synced' \in BOOLEAN
      /\ first' = 0 /\ mark' = 0 /\ got' = {} /\ extra' = 0 /\ base' = 0
      /\ strangers' = {}
      /\ restarts' \in Nat /\ dups' \in Nat
  <2>1. synced' = FALSE
    BY <1>0, Zenon DEF OutOfSync
  <2>2. /\ first' = 0 /\ mark' = 0 /\ got' = {} /\ extra' = 0 /\ base' = 0
        /\ strangers' = {}
    BY <1>0, Zenon DEF OutOfSync
  <2>3. restarts' \in Nat /\ dups' \in Nat
    BY DEF PeerRestart, ReceiverRestart, IInv, TypeOK
  <2> QED
    BY <2>1, <2>2, <2>3
<1>2. LossInv' /\ LossAccounting'
  BY <1>1 DEF LossInv, LossAccounting
<1>3. IsFiniteSet(strangers') /\ RestartRecovers'
  BY <1>1, SeqAssumption, FS_EmptySet DEF RestartRecovers
<1>4. CASE PeerRestart
  <2>1. /\ tx_seq' = 0 /\ sent' = 0 /\ net' = {}
        /\ expected' = expected /\ gap' = gap /\ reorder' = reorder
    BY <1>4 DEF PeerRestart, trackerVars
  <2>2. TypeOK'
    BY <1>1, <2>1, SeqAssumption DEF IInv, TypeOK, Raw, M
  <2>3. FlowInv'
    BY <1>1, <2>1 DEF FlowInv
  <2>4. RestartInv'
    BY <1>1, <1>3, <2>1, SeqAssumption DEF RestartInv
  <2> QED
    BY <1>2, <1>3, <2>2, <2>3, <2>4 DEF IInv
<1>5. CASE ReceiverRestart
  <2>1. /\ tx_seq' = tx_seq /\ sent' = sent /\ net' = net
        /\ expected' = None /\ gap' = 0 /\ reorder' = 0
    BY <1>5 DEF ReceiverRestart, peerVars
  <2>2. TypeOK'
    BY <1>1, <2>1 DEF IInv, TypeOK
  <2>3. FlowInv'
    BY <1>1, <2>1 DEF IInv, FlowInv
  <2>4. RestartInv'
    BY <1>1, <1>3, <2>1 DEF RestartInv
  <2> QED
    BY <1>2, <1>3, <2>2, <2>3, <2>4 DEF IInv
<1> QED
  BY <1>4, <1>5

(* Every step of the peer, the fabric or the receiver preserves IInv.      *)
LEMMA NextIInv == IInv /\ [Next]_vars => IInv'
<1> SUFFICES ASSUME IInv, [Next]_vars PROVE IInv'
  OBVIOUS
<1>1. CASE Send
  BY <1>1, SendIInv
<1>2. ASSUME NEW f \in net, Lose(f) PROVE IInv'
  <2>1. /\ net' \subseteq net
        /\ UNCHANGED <<peerVars, trackerVars, restarts, dups, histVars>>
    BY <1>2 DEF Lose
  <2>2. TypeOK' /\ FlowInv'
    BY <2>1 DEF IInv, TypeOK, FlowInv, peerVars, trackerVars, histVars
  <2>3. LossInv' /\ LossAccounting' /\ RestartRecovers' /\ RestartInv'
    BY <2>1 DEF IInv, LossInv, LossAccounting, RestartRecovers, RestartInv,
                peerVars, trackerVars, histVars
  <2> QED
    BY <2>2, <2>3 DEF IInv
<1>3. ASSUME NEW f \in net, Deliver(f) \/ DeliverCopy(f) PROVE IInv'
  <2>1. /\ Receive(f) /\ net' \subseteq net /\ UNCHANGED peerVars
        /\ restarts' \in Nat /\ dups' \in Nat
    BY <1>3 DEF Deliver, DeliverCopy, IInv, TypeOK
  <2> QED
    BY <2>1, ReceiveIInv
<1>4. CASE PeerRestart \/ ReceiverRestart
  BY <1>4, RestartIInv
<1>5. CASE UNCHANGED vars
  <2>1. UNCHANGED <<peerVars, net, trackerVars, restarts, dups, histVars>>
    BY <1>5 DEF vars
  <2>2. TypeOK' /\ FlowInv'
    BY <2>1 DEF IInv, TypeOK, FlowInv, peerVars, trackerVars, histVars
  <2>3. LossInv' /\ LossAccounting' /\ RestartRecovers' /\ RestartInv'
    BY <2>1 DEF IInv, LossInv, LossAccounting, RestartRecovers, RestartInv,
                peerVars, trackerVars, histVars
  <2> QED
    BY <2>2, <2>3 DEF IInv
<1> QED
  BY <1>1, <1>2, <1>3, <1>4, <1>5 DEF Next

(* Frames close to the mark are measured exactly.                          *)
LEMMA IInvExact == IInv => WrapTransparent
<1> SUFFICES ASSUME IInv, synced, NEW f \in net
             PROVE  SeqDelta(f.seq, expected) = f.n - mark
  BY DEF WrapTransparent
<1>1. /\ f.n \in Nat /\ f.seq \in Raw /\ tx_seq \in Raw /\ sent \in Nat /\ mark \in Nat
      /\ expected \in Raw
      /\ f.n < sent /\ sent - f.n <= Lateness + 1
      /\ mark <= sent /\ sent - mark <= Half
      /\ Congruent(f.seq, f.n, tx_seq, sent)
      /\ Congruent(expected, mark, tx_seq, sent)
  BY DEF IInv, TypeOK, FlowInv, Frames
<1>2. -Window <= f.n - mark /\ f.n - mark < Half
  BY <1>1, SeqAssumption
<1>3. Congruent(f.seq, f.n, expected, mark)
  BY <1>1, <1>2, CongruentTrans, SeqAssumption DEF M
<1> QED
  BY <1>1, <1>2, <1>3, DeltaExact, SeqAssumption
------------------------------------------------------------------------------
(* IInv holds of every reachable state.                                    *)
THEOREM Invariance == Spec => []IInv
BY InitIInv, NextIInv, PTL DEF Spec

(* Sequence numbers, the expectation and the counters keep their types.    *)
THEOREM TypeCorrect == Spec => []TypeOK
<1>1. IInv => TypeOK
  BY DEF IInv
<1> QED
  BY <1>1, Invariance, PTL

(* Seq::delta is exact in sync, wherever on the ring the flow is.          *)
THEOREM WrapIsTransparent == Spec => []WrapTransparent
BY IInvExact, Invariance, PTL

(* rx_seq_gap_total and rx_reorder account for every missing frame.        *)
THEOREM LossIsAccounted == Spec => []LossAccounting
<1>1. IInv => LossAccounting
  BY DEF IInv
<1> QED
  BY <1>1, Invariance, PTL

(* A restarted peer is misreported for at most REORDER_WINDOW frames.      *)
THEOREM RestartIsRecognised == Spec => []RestartRecovers
<1>1. IInv => RestartRecovers
  BY DEF IInv
<1> QED
  BY <1>1, Invariance, PTL
==============================================================================
