------------------------------ MODULE PuntQueue ------------------------------
(***************************************************************************)
(* The punt queue: up4-io's mutex-guarded ring of preallocated slots,      *)
(* filled by the shards (Shard::dispatch) and emptied by the control       *)
(* thread (punt-drain).  push, drain and len each run under one hold of    *)
(* the mutex and are one step; the punt-drain command takes it twice, once *)
(* to drain and once to count what is left, and shards push in between.    *)
(*                                                                         *)
(* A byte of a frame is the frame's number, so that a slot holding the end *)
(* of an older, longer frame behind a newer one shows.                     *)
(***************************************************************************)
EXTENDS Integers, Sequences

CONSTANTS
  Depth,     \* slots in the ring (PUNT_DEPTH)
  Mtu,       \* bytes in a slot (the inner MTU)
  Vports,    \* ingress vports
  DrainMax,  \* PUNT_DRAIN_MAX
  Asks,      \* the `max` values clients ask for
  MaxPush    \* bound on the frames the shards punt

ASSUME PuntAssumption ==
  /\ Depth \in Nat \ {0} /\ Mtu \in Nat
  /\ DrainMax \in Nat /\ Asks \subseteq Nat /\ MaxPush \in Nat

VARIABLES
  head, len, slots,   \* Ring
  overflow,           \* punt_overflow_drop
  pc,                 \* where the control thread is in punt-drain
  out,                \* the frames its reply will carry
  remaining,          \* the count its reply will carry
  accepted,           \* history: PuntFrames of the frames push accepted
  taken,              \* history: how many of them were drained
  asked               \* history: Len(accepted) when the command began

ringVars == <<head, len, slots>>
cmdVars == <<pc, out, remaining, asked>>
vars == <<ringVars, overflow, cmdVars, accepted, taken>>

Bytes == 0 .. MaxPush
Slots == [vport : Vports \cup {0}, len : 0 .. Mtu, buf : [1 .. Mtu -> Bytes]]

Least(a, b) == IF a <= b THEN a ELSE b

(* The part of a slot that is live, as the control channel sees it.        *)
PuntFrame(slot) ==
  [vport |-> slot.vport, bytes |-> [i \in 1 .. slot.len |-> slot.buf[i]]]

(* PuntQueue::with_depth.                                                  *)
Init ==
  /\ head = 0 /\ len = 0
  /\ slots = [i \in 0 .. Depth - 1 |->
                [vport |-> 0, len |-> 0, buf |-> [j \in 1 .. Mtu |-> 0]]]
  /\ overflow = 0
  /\ pc = "idle" /\ out = <<>> /\ remaining = 0 /\ asked = 0
  /\ accepted = <<>> /\ taken = 0
------------------------------------------------------------------------------
(* Keeps the length of a longer frame that was there before.               *)
MutantFill(slot, byte, n, v) ==
  [slot EXCEPT !.vport = v,
               !.len = IF @ > n THEN @ ELSE n,
               !.buf = [j \in 1 .. Mtu |-> IF j <= n THEN byte ELSE @[j]]]

(* The slot a frame of n bytes, all `byte`, leaves behind: the copy stops  *)
(* at the slot's size and does not touch what lies past the frame.         *)
Fill(slot, byte, n, v) ==
  LET live == Least(n, Mtu)
  IN  [vport |-> v, len |-> live,
       buf |-> [j \in 1 .. Mtu |-> IF j <= live THEN byte ELSE slot.buf[j]]]

(* The frame as it was offered.                                            *)
Offered(byte, n, v) == [vport |-> v, bytes |-> [i \in 1 .. Least(n, Mtu) |-> byte]]

(* push on a full ring: the shard counts the frame.                        *)
PushFull ==
  /\ overflow + Len(accepted) < MaxPush
  /\ len = Depth
  /\ overflow' = overflow + 1
  /\ UNCHANGED <<ringVars, cmdVars, accepted, taken>>

(* Checks nothing: the oldest frame is overwritten.                        *)
MutantPush(n, v) ==
  LET at == (head + len) % Depth
      byte == Len(accepted) + 1
  IN  /\ overflow + Len(accepted) < MaxPush
      /\ slots' = [slots EXCEPT ![at] = Fill(@, byte, n, v)]
      /\ len' = len + 1
      /\ accepted' = Append(accepted, Offered(byte, n, v))
      /\ UNCHANGED <<head, overflow, cmdVars, taken>>

Push(n, v) ==
  LET at == (head + len) % Depth
      byte == Len(accepted) + 1
  IN  /\ overflow + Len(accepted) < MaxPush
      /\ len # Depth
      /\ slots' = [slots EXCEPT ![at] = Fill(@, byte, n, v)]
      /\ len' = len + 1
      /\ accepted' = Append(accepted, Offered(byte, n, v))
      /\ UNCHANGED <<head, overflow, cmdVars, taken>>
------------------------------------------------------------------------------
(* Stops one frame short: the newest frame stays behind.                   *)
MutantDrain(max) ==
  LET take == Least(Least(max, DrainMax), IF len = 0 THEN 0 ELSE len - 1)
  IN  /\ pc = "idle"
      /\ out' = [i \in 1 .. take |-> PuntFrame(slots[(head + i - 1) % Depth])]
      /\ head' = (head + take) % Depth
      /\ len' = len - take
      /\ taken' = taken + take
      /\ asked' = Len(accepted)
      /\ pc' = "drained"
      /\ UNCHANGED <<slots, overflow, remaining, accepted>>

(* The punt-drain command.  drain(max.min(PUNT_DRAIN_MAX)) ...             *)
Drain(max) ==
  LET take == Least(Least(max, DrainMax), len)
  IN  /\ pc = "idle"
      /\ out' = [i \in 1 .. take |-> PuntFrame(slots[(head + i - 1) % Depth])]
      /\ head' = (head + take) % Depth
      /\ len' = len - take
      /\ taken' = taken + take
      /\ asked' = Len(accepted)
      /\ pc' = "drained"
      /\ UNCHANGED <<slots, overflow, remaining, accepted>>

(* Reports whether the last drain came back short.                         *)
MutantCount ==
  /\ pc = "drained"
  /\ remaining' = IF Len(out) < DrainMax THEN 0 ELSE len
  /\ pc' = "counted"
  /\ UNCHANGED <<ringVars, overflow, out, asked, accepted, taken>>

(* ... then queue.len(), under a lock of its own ...                       *)
Count ==
  /\ pc = "drained"
  /\ remaining' = len
  /\ pc' = "counted"
  /\ UNCHANGED <<ringVars, overflow, out, asked, accepted, taken>>

(* ... then the reply, which the client may or may not still be there to   *)
(* read; the frames are gone from the ring either way.                     *)
Reply ==
  /\ pc = "counted"
  /\ pc' = "idle"
  /\ UNCHANGED <<ringVars, overflow, out, remaining, asked, accepted, taken>>

Next ==
  \/ PushFull
  \/ \E n \in 0 .. Mtu, v \in Vports : Push(n, v)
  \/ \E max \in Asks : Drain(max)
  \/ Count
  \/ Reply

Spec == Init /\ [][Next]_vars

(* The control thread finishes a command it began, and clients ask again   *)
(* and again for at least one frame, whatever else they ask for.           *)
Fairness ==
  /\ WF_vars(Count \/ Reply)
  /\ SF_vars(\E max \in Asks \ {0} : Drain(max))

FairSpec == Spec /\ Fairness
------------------------------------------------------------------------------
(* Properties.                                                             *)
PuntFrames ==
  UNION {[vport : Vports, bytes : [1 .. n -> Bytes]] : n \in 0 .. Mtu}

(* The ring's indices stay inside it (Ring::head, Ring::len), every slot   *)
(* is a slot.                                                              *)
TypeOK ==
  /\ head \in 0 .. Depth - 1 /\ len \in 0 .. Depth
  /\ slots \in [0 .. Depth - 1 -> Slots]
  /\ overflow \in Nat
  /\ pc \in {"idle", "drained", "counted"}
  /\ out \in Seq(PuntFrames) /\ remaining \in 0 .. Depth /\ asked \in Nat
  /\ accepted \in Seq(PuntFrames) /\ taken \in Nat
  /\ Len(accepted) <= MaxPush

Fifo == INSTANCE PuntFifo WITH Frames <- PuntFrames, refused <- overflow

(* The ring implements the queue, wherever its head is: frames come out    *)
(* once, oldest first and byte for byte as PuntQueue::push took them, and  *)
(* one is refused only when Depth frames really wait.                      *)
FifoSpec == Fifo!Spec

(* A client may stop at `remaining` 0: it has been given every frame       *)
(* accepted before its command began, although shards pushed between       *)
(* handle's drain and its len.                                             *)
DrainedMeansSeen ==
  pc = "counted" /\ remaining = 0 => asked <= taken

(* A client that goes on draining gets every frame that was accepted.      *)
EveryFrameDrained ==
  \A k \in 1 .. MaxPush : Len(accepted) >= k ~> taken >= k

(* The inductive invariant: the live slots, from head on, are the frames   *)
(* accepted and not yet taken.                                             *)
RingInv ==
  /\ Len(accepted) = taken + len
  /\ \A i \in 0 .. len - 1 :
       PuntFrame(slots[(head + i) % Depth]) = accepted[taken + i + 1]

CountInv ==
  /\ asked <= Len(accepted)
  /\ pc = "counted" => asked <= taken + remaining

IInv == TypeOK /\ RingInv /\ CountInv
==============================================================================
