--------------------------- MODULE PuntQueueProofs ---------------------------
(***************************************************************************)
(* The punt ring is a FIFO queue for every depth, slot size and number of  *)
(* frames.                                                                 *)
(***************************************************************************)
EXTENDS PuntQueue, TLAPS

(* Where the i-th slot from h is, without division.                        *)
LEMMA RingIndex ==
  ASSUME NEW h \in 0 .. Depth - 1, NEW i \in 0 .. Depth
  PROVE  (h + i) % Depth = IF h + i < Depth THEN h + i ELSE h + i - Depth
BY PuntAssumption

(* Moving the head by k renumbers the slots behind it.                     *)
LEMMA RingShift ==
  ASSUME NEW h \in 0 .. Depth - 1, NEW k \in 0 .. Depth, NEW i \in 0 .. Depth,
         k + i < Depth
  PROVE  /\ (h + k) % Depth \in 0 .. Depth - 1
         /\ (((h + k) % Depth) + i) % Depth = (h + (k + i)) % Depth
<1>1. (h + k) % Depth = IF h + k < Depth THEN h + k ELSE h + k - Depth
  BY RingIndex
<1>2. (h + k) % Depth \in 0 .. Depth - 1
  BY <1>1, PuntAssumption
<1>3. (((h + k) % Depth) + i) % Depth =
        IF ((h + k) % Depth) + i < Depth THEN ((h + k) % Depth) + i
        ELSE ((h + k) % Depth) + i - Depth
  BY <1>2, RingIndex
<1>4. (h + (k + i)) % Depth = IF h + (k + i) < Depth THEN h + (k + i) ELSE h + (k + i) - Depth
  <2>1. k + i \in 0 .. Depth
    BY PuntAssumption
  <2> QED
    BY <2>1, RingIndex
<1> QED
  BY <1>1, <1>2, <1>3, <1>4, PuntAssumption

(* The slot push writes is not one of the live ones.                       *)
LEMMA RingDistinct ==
  ASSUME NEW h \in 0 .. Depth - 1, NEW i \in 0 .. Depth, NEW j \in 0 .. Depth,
         i < j, j < Depth
  PROVE  (h + i) % Depth # (h + j) % Depth
<1>1. (h + i) % Depth = IF h + i < Depth THEN h + i ELSE h + i - Depth
  BY RingIndex
<1>2. (h + j) % Depth = IF h + j < Depth THEN h + j ELSE h + j - Depth
  BY RingIndex
<1> QED
  BY <1>1, <1>2, PuntAssumption

(* A frame is read back as it was offered, whatever the slot held before.  *)
LEMMA FillReads ==
  ASSUME NEW slot \in Slots, NEW byte \in Bytes, NEW n \in 0 .. Mtu, NEW v \in Vports
  PROVE  /\ Fill(slot, byte, n, v) \in Slots
         /\ PuntFrame(Fill(slot, byte, n, v)) = Offered(byte, n, v)
         /\ Offered(byte, n, v) \in PuntFrames
<1>1. Least(n, Mtu) = n
  BY PuntAssumption DEF Least
<1>2. Fill(slot, byte, n, v) =
        [vport |-> v, len |-> n,
         buf |-> [j \in 1 .. Mtu |-> IF j <= n THEN byte ELSE slot.buf[j]]]
  BY <1>1 DEF Fill
<1>3. Fill(slot, byte, n, v) \in Slots
  <2>1. [j \in 1 .. Mtu |-> IF j <= n THEN byte ELSE slot.buf[j]] \in [1 .. Mtu -> Bytes]
    BY DEF Slots
  <2> QED
    BY <1>2, <2>1 DEF Slots
<1>4. [i \in 1 .. n |-> Fill(slot, byte, n, v).buf[i]] = [i \in 1 .. n |-> byte]
  BY <1>2, PuntAssumption
<1>5. PuntFrame(Fill(slot, byte, n, v)) = Offered(byte, n, v)
  <2>1. Fill(slot, byte, n, v).vport = v /\ Fill(slot, byte, n, v).len = n
    BY <1>2
  <2>2. PuntFrame(Fill(slot, byte, n, v)) =
          [vport |-> v, bytes |-> [i \in 1 .. n |-> Fill(slot, byte, n, v).buf[i]]]
    BY <2>1, Zenon DEF PuntFrame
  <2> QED
    BY <1>1, <1>4, <2>2 DEF Offered
<1>6. Offered(byte, n, v) \in [vport : Vports, bytes : [1 .. n -> Bytes]]
  BY <1>1 DEF Offered
<1> QED
  BY <1>3, <1>5, <1>6 DEF PuntFrames

(* Reading a slot of the ring gives a frame.                               *)
LEMMA PuntFrameType ==
  ASSUME NEW slot \in Slots, slot.vport \in Vports
  PROVE  PuntFrame(slot) \in PuntFrames
<1>1. slot.len \in 0 .. Mtu /\ slot.buf \in [1 .. Mtu -> Bytes]
  BY DEF Slots
<1>2. [i \in 1 .. slot.len |-> slot.buf[i]] \in [1 .. slot.len -> Bytes]
  BY <1>1, PuntAssumption
<1>3. PuntFrame(slot) \in [vport : Vports, bytes : [1 .. slot.len -> Bytes]]
  BY <1>2 DEF PuntFrame
<1> QED
  BY <1>1, <1>3 DEF PuntFrames
------------------------------------------------------------------------------
(* An empty ring satisfies IInv.                                           *)
LEMMA InitIInv == Init => IInv
<1> SUFFICES ASSUME Init PROVE IInv
  OBVIOUS
<1>1. slots \in [0 .. Depth - 1 -> Slots]
  <2>1. [j \in 1 .. Mtu |-> 0] \in [1 .. Mtu -> Bytes]
    BY PuntAssumption DEF Bytes
  <2>2. [vport |-> 0, len |-> 0, buf |-> [j \in 1 .. Mtu |-> 0]] \in Slots
    BY <2>1, PuntAssumption DEF Slots
  <2> QED
    BY <2>2 DEF Init
<1>2. TypeOK
  BY <1>1, PuntAssumption DEF Init, TypeOK
<1>3. RingInv /\ CountInv
  BY DEF Init, RingInv, CountInv
<1> QED
  BY <1>2, <1>3 DEF IInv

(* push puts a frame behind the live ones and touches none of them.        *)
LEMMA PushIInv ==
  ASSUME IInv, NEW n \in 0 .. Mtu, NEW v \in Vports, Push(n, v)
  PROVE  IInv'
<1> DEFINE at == (head + len) % Depth
           byte == Len(accepted) + 1
           new == Fill(slots[at], byte, n, v)
<1>1. /\ head \in 0 .. Depth - 1 /\ len \in 0 .. Depth - 1
      /\ slots \in [0 .. Depth - 1 -> Slots]
      /\ accepted \in Seq(PuntFrames) /\ taken \in Nat
      /\ overflow \in Nat /\ Len(accepted) \in Nat /\ Len(accepted) < MaxPush
      /\ Len(accepted) = taken + len
      /\ asked \in Nat
  BY PuntAssumption DEF IInv, TypeOK, RingInv, Push
<1>2. at \in 0 .. Depth - 1
  BY <1>1, RingIndex, PuntAssumption
<1>3. byte \in Bytes
  BY <1>1, PuntAssumption DEF Bytes
<1>4. /\ new \in Slots /\ PuntFrame(new) = Offered(byte, n, v)
      /\ Offered(byte, n, v) \in PuntFrames
  BY <1>1, <1>2, <1>3, FillReads
<1>5. /\ slots' = [slots EXCEPT ![at] = new] /\ len' = len + 1
      /\ accepted' = Append(accepted, Offered(byte, n, v))
      /\ head' = head /\ overflow' = overflow /\ taken' = taken
      /\ pc' = pc /\ out' = out /\ remaining' = remaining /\ asked' = asked
  BY DEF Push, cmdVars
<1> HIDE DEF at, byte, new
<1>6. /\ accepted' \in Seq(PuntFrames) /\ Len(accepted') = Len(accepted) + 1
      /\ \A i \in 1 .. Len(accepted) : accepted'[i] = accepted[i]
      /\ accepted'[Len(accepted) + 1] = Offered(byte, n, v)
  <2>1. Append(accepted, Offered(byte, n, v)) \in Seq(PuntFrames)
    BY <1>1, <1>4
  <2>2. /\ Len(Append(accepted, Offered(byte, n, v))) = Len(accepted) + 1
        /\ Append(accepted, Offered(byte, n, v))[Len(accepted) + 1] = Offered(byte, n, v)
    BY <1>1, <1>4
  <2>3. \A i \in 1 .. Len(accepted) : Append(accepted, Offered(byte, n, v))[i] = accepted[i]
    BY <1>1, <1>4
  <2> QED
    BY <1>5, <2>1, <2>2, <2>3
<1>7. TypeOK'
  BY <1>1, <1>2, <1>4, <1>5, <1>6, PuntAssumption DEF IInv, TypeOK
<1>8. RingInv'
  <2>1. Len(accepted') = taken' + len'
    BY <1>1, <1>5, <1>6
  <2>2. ASSUME NEW i \in 0 .. len' - 1
        PROVE  PuntFrame(slots'[(head' + i) % Depth]) = accepted'[taken' + i + 1]
    <3>1. CASE i = len
      <4>1. slots'[(head' + i) % Depth] = new
        BY <1>1, <1>2, <1>5, <3>1 DEF at
      <4>2. taken' + i + 1 = Len(accepted) + 1
        BY <1>1, <1>5, <3>1
      <4> QED
        BY <1>4, <1>6, <4>1, <4>2
    <3>2. CASE i < len
      <4>1. i \in 0 .. len - 1 /\ i \in 0 .. Depth /\ len \in 0 .. Depth /\ len < Depth
        BY <1>1, <3>2, <2>2, <1>5, PuntAssumption
      <4>2. (head + i) % Depth # at
        BY <1>1, <3>2, <4>1, RingDistinct DEF at
      <4>3. (head + i) % Depth \in 0 .. Depth - 1
        BY <1>1, <4>1, RingIndex, PuntAssumption
      <4>4. slots'[(head' + i) % Depth] = slots[(head + i) % Depth]
        BY <1>1, <1>5, <4>2, <4>3
      <4>5. PuntFrame(slots[(head + i) % Depth]) = accepted[taken + i + 1]
        BY <4>1 DEF IInv, RingInv
      <4>6. taken' + i + 1 = taken + i + 1 /\ taken + i + 1 \in 1 .. Len(accepted)
        BY <1>1, <1>5, <4>1
      <4> QED
        BY <1>6, <4>4, <4>5, <4>6
    <3> QED
      BY <1>1, <1>5, <2>2, <3>1, <3>2
  <2> QED
    BY <2>1, <2>2 DEF RingInv
<1>9. CountInv'
  BY <1>1, <1>5, <1>6 DEF IInv, CountInv, TypeOK
<1> QED
  BY <1>7, <1>8, <1>9 DEF IInv

(* drain returns the frames accepted and not yet taken, oldest first, and  *)
(* leaves the rest where they are.                                         *)
LEMMA DrainReturns ==
  ASSUME IInv, NEW max \in Asks, Drain(max)
  PROVE  LET take == Least(Least(max, DrainMax), len) IN
         /\ take \in 0 .. len
         /\ out' = [i \in 1 .. take |-> accepted[taken + i]]
<1> DEFINE take == Least(Least(max, DrainMax), len)
<1>1. /\ head \in 0 .. Depth - 1 /\ len \in 0 .. Depth /\ taken \in Nat /\ max \in Nat
  BY PuntAssumption DEF IInv, TypeOK
<1>2. take \in 0 .. len
  BY <1>1, PuntAssumption DEF Least
<1>3. out' = [i \in 1 .. take |-> PuntFrame(slots[(head + i - 1) % Depth])]
  BY DEF Drain
<1> HIDE DEF take
<1>4. ASSUME NEW i \in 1 .. take
      PROVE  PuntFrame(slots[(head + i - 1) % Depth]) = accepted[taken + i]
  <2>1. /\ i - 1 \in 0 .. len - 1
        /\ head + i - 1 = head + (i - 1) /\ taken + (i - 1) + 1 = taken + i
    BY <1>1, <1>2
  <2>2. PuntFrame(slots[(head + (i - 1)) % Depth]) = accepted[taken + (i - 1) + 1]
    BY <2>1 DEF IInv, RingInv
  <2> QED
    BY <2>1, <2>2
<1>5. out' = [i \in 1 .. take |-> accepted[taken + i]]
  BY <1>3, <1>4
<1> QED
  BY <1>2, <1>5 DEF take

(* punt-drain's first half preserves IInv.                                 *)
LEMMA DrainIInv ==
  ASSUME IInv, NEW max \in Asks, Drain(max)
  PROVE  IInv'
<1> DEFINE take == Least(Least(max, DrainMax), len)
<1>1. /\ head \in 0 .. Depth - 1 /\ len \in 0 .. Depth /\ taken \in Nat
      /\ accepted \in Seq(PuntFrames) /\ Len(accepted) \in Nat
      /\ Len(accepted) = taken + len
  BY DEF IInv, TypeOK, RingInv
<1>2. take \in 0 .. len /\ out' = [i \in 1 .. take |-> accepted[taken + i]]
  BY DrainReturns
<1>3. /\ head' = (head + take) % Depth /\ len' = len - take /\ taken' = taken + take
      /\ asked' = Len(accepted) /\ pc' = "drained"
      /\ slots' = slots /\ overflow' = overflow /\ remaining' = remaining
      /\ accepted' = accepted
  BY DEF Drain
<1> HIDE DEF take
<1>4. out' \in Seq(PuntFrames)
  <2>1. \A i \in 1 .. take : accepted[taken + i] \in PuntFrames
    BY <1>1, <1>2
  <2>2. take \in Nat
    BY <1>1, <1>2
  <2> QED
    BY <1>2, <2>1, <2>2
<1>5. head' \in 0 .. Depth - 1
  BY <1>1, <1>2, <1>3, RingIndex, PuntAssumption
<1>6. TypeOK'
  <2>1. len' \in 0 .. Depth /\ taken' \in Nat /\ asked' \in Nat
    BY <1>1, <1>2, <1>3, PuntAssumption
  <2> QED
    BY <1>3, <1>4, <1>5, <2>1 DEF IInv, TypeOK
<1>7. RingInv'
  <2>1. Len(accepted') = taken' + len'
    BY <1>1, <1>2, <1>3
  <2>2. ASSUME NEW i \in 0 .. len' - 1
        PROVE  PuntFrame(slots'[(head' + i) % Depth]) = accepted'[taken' + i + 1]
    <3>1. /\ take \in 0 .. Depth /\ i \in 0 .. Depth /\ take + i < Depth
          /\ take + i \in 0 .. len - 1
          /\ taken + (take + i) + 1 = taken' + i + 1
      BY <1>1, <1>2, <1>3, <2>2, PuntAssumption
    <3>2. (head' + i) % Depth = (head + (take + i)) % Depth
      BY <1>1, <1>3, <3>1, RingShift
    <3>3. PuntFrame(slots[(head + (take + i)) % Depth]) = accepted[taken + (take + i) + 1]
      BY <3>1 DEF IInv, RingInv
    <3> QED
      BY <1>3, <3>1, <3>2, <3>3
  <2> QED
    BY <2>1, <2>2 DEF RingInv
<1>8. CountInv'
  BY <1>1, <1>3 DEF CountInv
<1> QED
  BY <1>6, <1>7, <1>8 DEF IInv

(* Every step of a shard or of the control thread preserves IInv.          *)
LEMMA NextIInv == IInv /\ [Next]_vars => IInv'
<1> SUFFICES ASSUME IInv, [Next]_vars PROVE IInv'
  OBVIOUS
<1>1. CASE PushFull
  BY <1>1 DEF PushFull, IInv, TypeOK, RingInv, CountInv, ringVars, cmdVars
<1>2. CASE \E n \in 0 .. Mtu, v \in Vports : Push(n, v)
  BY <1>2, PushIInv
<1>3. CASE \E max \in Asks : Drain(max)
  BY <1>3, DrainIInv
<1>4. CASE Count
  BY <1>4, PuntAssumption DEF Count, IInv, TypeOK, RingInv, CountInv, ringVars
<1>5. CASE Reply
  BY <1>5 DEF Reply, IInv, TypeOK, RingInv, CountInv, ringVars
<1>6. CASE UNCHANGED vars
  BY <1>6 DEF vars, IInv, TypeOK, RingInv, CountInv, ringVars, cmdVars
<1> QED
  BY <1>1, <1>2, <1>3, <1>4, <1>5, <1>6 DEF Next
------------------------------------------------------------------------------
(* IInv holds of every reachable state.                                    *)
THEOREM Invariance == Spec => []IInv
BY InitIInv, NextIInv, PTL DEF Spec

(* The ring's indices and slots keep their types.                          *)
THEOREM TypeCorrect == Spec => []TypeOK
<1>1. IInv => TypeOK
  BY DEF IInv
<1> QED
  BY <1>1, Invariance, PTL

(* `remaining` 0 means everything asked for has been handed out.           *)
THEOREM EmptyMeansSeen == Spec => []DrainedMeansSeen
<1>1. IInv => DrainedMeansSeen
  BY DEF IInv, TypeOK, CountInv, DrainedMeansSeen
<1> QED
  BY <1>1, Invariance, PTL

(* A step of the ring is a step of the queue, or none at all.              *)
LEMMA StepRefines == IInv /\ [Next]_vars => [Fifo!Next]_(Fifo!vars)
<1> SUFFICES ASSUME IInv, [Next]_vars PROVE [Fifo!Next]_(Fifo!vars)
  OBVIOUS
<1>1. /\ len \in 0 .. Depth /\ Fifo!Waiting = len
  BY DEF IInv, TypeOK, RingInv, Fifo!Waiting
<1>2. CASE PushFull
  <2>1. Fifo!Refuse
    BY <1>1, <1>2 DEF PushFull, Fifo!Refuse, cmdVars
  <2> QED
    BY <2>1 DEF Fifo!Next
<1>3. ASSUME NEW n \in 0 .. Mtu, NEW v \in Vports, Push(n, v)
      PROVE  Fifo!Accept
  <2> DEFINE at == (head + len) % Depth
             byte == Len(accepted) + 1
  <2>1. at \in 0 .. Depth - 1
    <3>1. head \in 0 .. Depth - 1 /\ len \in 0 .. Depth
      BY DEF IInv, TypeOK
    <3> QED
      BY <3>1, RingIndex, PuntAssumption
  <2>2. slots[at] \in Slots
    BY <2>1 DEF IInv, TypeOK
  <2>3. byte \in Bytes
    BY <1>3, PuntAssumption DEF Push, IInv, TypeOK, Bytes
  <2>4. Offered(byte, n, v) \in PuntFrames
    BY <2>2, <2>3, FillReads
  <2>5. Fifo!Waiting < Depth
    BY <1>1, <1>3, PuntAssumption DEF Push
  <2>6. accepted' = Append(accepted, Offered(byte, n, v)) /\ UNCHANGED <<taken, overflow, out>>
    BY <1>3 DEF Push, cmdVars
  <2> QED
    BY <2>4, <2>5, <2>6 DEF Fifo!Accept
<1>4. ASSUME NEW max \in Asks, Drain(max)
      PROVE  Fifo!Drain
  <2> DEFINE take == Least(Least(max, DrainMax), len)
  <2>1. take \in 0 .. len /\ out' = [i \in 1 .. take |-> accepted[taken + i]]
    BY <1>4, DrainReturns
  <2>2. taken' = taken + take /\ UNCHANGED <<accepted, overflow>>
    BY <1>4 DEF Drain
  <2> QED
    BY <1>1, <2>1, <2>2 DEF Fifo!Drain
<1>5. CASE Count \/ Reply \/ UNCHANGED vars
  BY <1>5 DEF Count, Reply, vars, cmdVars, Fifo!vars
<1> QED
  BY <1>2, <1>3, <1>4, <1>5 DEF Next, Fifo!Next

(* The mutex-guarded ring implements the bounded FIFO queue.               *)
THEOREM RingImplementsFifo == Spec => FifoSpec
<1>1. Init => Fifo!Init
  BY DEF Init, Fifo!Init
<1>2. Spec => Fifo!Spec
  BY <1>1, StepRefines, Invariance, PTL DEF Spec, Fifo!Spec
<1> QED
  BY <1>2 DEF FifoSpec
==============================================================================
