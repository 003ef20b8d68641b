---------------------------- MODULE DaemonProofs ----------------------------
(***************************************************************************)
(* The threads of up4d, for any number of shards, clients, calls and       *)
(* signals: types, the last snapshot and the control socket's file.        *)
(***************************************************************************)
EXTENDS Daemon, TLAPS

(* Where main is once it has joined the shards, the control thread and the *)
(* snapshot thread.                                                        *)
ShardsJoined == {"join_ctl", "join_snapshots", "final", "done"}
CtlJoined == {"join_snapshots", "final", "done"}
SnapJoined == {"final", "done"}

(* What a join waited for stays as it was: a thread that has ended does    *)
(* nothing, so nothing is counted or appended behind serve's back.         *)
JoinInv ==
  /\ main \in ShardsJoined => \A s \in Shards : shard[s] = "ended"
  /\ main \in CtlJoined => ctl = "ended"
  /\ main \in SnapJoined => snap \in {"none", "ended"} /\ final = counted
  /\ wrote => main = "done" /\ lines = final
  /\ exit = "ok" => main = "done"

(* The file is made before the control thread and removed when it ends.    *)
FileInv ==
  /\ main \in {"prepare", "shards", "ctl"} => ctl = "none"
  /\ main = "ctl" => file
  /\ ctl \in {"loop", "accept", "converse"} => file
  /\ ctl = "ended" => ~file

(* A connection being served has not been silent for IDLE_TIMEOUT.         *)
IdleInv == ctl = "converse" => idle < IdleTicks

IInv == TypeOK /\ JoinInv /\ FileInv /\ IdleInv
------------------------------------------------------------------------------
LEMMA BoundsAreNat ==
  /\ IdleTicks \in Nat /\ IdleTicks > 0
  /\ MaxCalls \in Nat /\ MaxCount \in Nat /\ MaxSignals \in Nat
  BY DaemonAssumption DEF DaemonAssumption

(* The flags, and everything else: the provers take them one at a time.    *)
Flags ==
  /\ stop \in BOOLEAN /\ pending \in BOOLEAN /\ file \in BOOLEAN /\ wrote \in BOOLEAN
  /\ snap_on \in BOOLEAN /\ snap_file \in BOOLEAN

Data ==
  /\ exit \in {"running", "ok", "startup", "killed"}
  /\ main \in Startup \cup {"wait", "join_shards", "join_ctl", "join_snapshots", "final",
                          "done"}
  /\ shard \in [Shards -> {"none", "loop", "recv", "flush", "ended"}]
  /\ counted \in Nat
  /\ ctl \in {"none", "loop", "accept", "converse", "ended"}
  /\ conn \in Clients \cup {None}
  /\ idle \in 0 .. IdleTicks
  /\ backlog \in Seq(Clients)
  /\ client \in [Clients -> {"away", "here", "waiting", "left"}]
  /\ request \in [Clients -> {None, "shutdown", "other", "garbage"}]
  /\ calls \in [Clients -> 0 .. MaxCalls]
  /\ snap \in {"none", "loop", "sleep", "append", "ended"}
  /\ {held, lines, final} \subseteq Nat \cup {-1}
  /\ watcher \in {"none", "sigwait", "ended"}
  /\ signals \in 0 .. MaxSignals

LEMMA TypeSplit == (TypeOK <=> Flags /\ Data) /\ (TypeOK' <=> (Flags /\ Data)')
  BY DEF TypeOK, Flags, Data

LEMMA InitIInv == Init => IInv
<1> SUFFICES ASSUME Init PROVE IInv
  OBVIOUS
<1>1. Flags
  BY DEF Init, Flags
<1>2. Data
  BY BoundsAreNat DEF Init, Fresh, Data, Startup, None
<1>3. JoinInv /\ FileInv /\ IdleInv
  BY DEF Init, JoinInv, FileInv, IdleInv, ShardsJoined, CtlJoined, SnapJoined
<1> QED
  BY <1>1, <1>2, <1>3, TypeSplit DEF IInv

(* A process that has gone, or one that has not begun.                     *)
LEMMA GoneIInv ==
  ASSUME IInv, Gone, main' = "prepare", file' \in BOOLEAN,
         exit' \in {"running", "startup", "killed"}
  PROVE  IInv'
<1>1. Flags'
  BY TypeSplit DEF IInv, Gone, Flags
<1>2. Data'
  BY BoundsAreNat DEF Gone, Fresh, Data, Startup, None
<1>3. (JoinInv /\ FileInv /\ IdleInv)'
  BY DEF Gone, JoinInv, FileInv, IdleInv, ShardsJoined, CtlJoined, SnapJoined
<1> QED
  BY <1>1, <1>2, <1>3, TypeSplit DEF IInv

(* What main's steps keep.                                                *)
LEMMA MainKeeps ==
  ASSUME IInv,
         \/ Prepare \/ (\E s \in Shards : SpawnShard(s)) \/ BindCtl \/ SpawnCtl
         \/ SpawnSnapshots \/ SpawnWatcher \/ StopSeen \/ JoinShards
         \/ JoinCtl \/ JoinSnapshots \/ WriteFinal \/ ExitOk
  PROVE  IInv'
<1> USE DEF Running, flags, shardVars, ctlVars, clientVars, snapVars, signalVars, reportVars,
            ctlFrame, shardFrame, mainFrame, MainTo
<1>1. CASE Prepare
  <2>1. Flags'
    BY <1>1, TypeSplit DEF IInv, Prepare, Flags
  <2>2. Data'
    BY <1>1, TypeSplit, BoundsAreNat DEF IInv, Prepare, Data, Startup, None
  <2>3. (JoinInv /\ FileInv /\ IdleInv)'
    BY <1>1, TypeSplit, BoundsAreNat
    DEF IInv, Prepare, Flags, Data, JoinInv, FileInv, IdleInv, ShardsJoined, CtlJoined, SnapJoined
  <2> QED
    BY <2>1, <2>2, <2>3, TypeSplit DEF IInv
<1>2. CASE \E s \in Shards : SpawnShard(s)
  <2>0. PICK s \in Shards : SpawnShard(s)
    BY <1>2
  <2>1. Flags'
    BY <2>0, TypeSplit DEF IInv, SpawnShard, Flags
  <2>2. Data'
    BY <2>0, TypeSplit, BoundsAreNat DEF IInv, SpawnShard, Data, Startup, None
  <2>3. (JoinInv /\ FileInv /\ IdleInv)'
    BY <2>0, TypeSplit, BoundsAreNat
    DEF IInv, SpawnShard, Flags, Data, JoinInv, FileInv, IdleInv, ShardsJoined, CtlJoined, SnapJoined
  <2> QED
    BY <2>1, <2>2, <2>3, TypeSplit DEF IInv
<1>3. CASE BindCtl
  <2>1. Flags'
    BY <1>3, TypeSplit DEF IInv, BindCtl, Flags
  <2>2. Data'
    BY <1>3, TypeSplit, BoundsAreNat DEF IInv, BindCtl, Data, Startup, None
  <2>3. (JoinInv /\ FileInv /\ IdleInv)'
    BY <1>3, TypeSplit, BoundsAreNat
    DEF IInv, BindCtl, Flags, Data, JoinInv, FileInv, IdleInv, ShardsJoined, CtlJoined, SnapJoined
  <2> QED
    BY <2>1, <2>2, <2>3, TypeSplit DEF IInv
<1>4. CASE SpawnCtl
  <2>1. Flags'
    BY <1>4, TypeSplit DEF IInv, SpawnCtl, Flags
  <2>2. Data'
    BY <1>4, TypeSplit, BoundsAreNat DEF IInv, SpawnCtl, Data, Startup, None
  <2>3. (JoinInv /\ FileInv /\ IdleInv)'
    BY <1>4, TypeSplit, BoundsAreNat
    DEF IInv, SpawnCtl, Flags, Data, JoinInv, FileInv, IdleInv, ShardsJoined, CtlJoined, SnapJoined
  <2> QED
    BY <2>1, <2>2, <2>3, TypeSplit DEF IInv
<1>5. CASE SpawnSnapshots
  <2>1. Flags'
    BY <1>5, TypeSplit DEF IInv, SpawnSnapshots, Flags
  <2>2. Data'
    BY <1>5, TypeSplit, BoundsAreNat DEF IInv, SpawnSnapshots, Data, Startup, None
  <2>3. (JoinInv /\ FileInv /\ IdleInv)'
    BY <1>5, TypeSplit, BoundsAreNat
    DEF IInv, SpawnSnapshots, Flags, Data, JoinInv, FileInv, IdleInv, ShardsJoined, CtlJoined, SnapJoined
  <2> QED
    BY <2>1, <2>2, <2>3, TypeSplit DEF IInv
<1>6. CASE SpawnWatcher
  <2>1. Flags'
    BY <1>6, TypeSplit DEF IInv, SpawnWatcher, Flags
  <2>2. Data'
    BY <1>6, TypeSplit, BoundsAreNat DEF IInv, SpawnWatcher, Data, Startup, None
  <2>3. (JoinInv /\ FileInv /\ IdleInv)'
    BY <1>6, TypeSplit, BoundsAreNat
    DEF IInv, SpawnWatcher, Flags, Data, JoinInv, FileInv, IdleInv, ShardsJoined, CtlJoined, SnapJoined
  <2> QED
    BY <2>1, <2>2, <2>3, TypeSplit DEF IInv
<1>7. CASE StopSeen
  <2>1. Flags'
    BY <1>7, TypeSplit DEF IInv, StopSeen, Flags
  <2>2. Data'
    BY <1>7, TypeSplit, BoundsAreNat DEF IInv, StopSeen, Data, Startup, None
  <2>3. (JoinInv /\ FileInv /\ IdleInv)'
    BY <1>7, TypeSplit, BoundsAreNat
    DEF IInv, StopSeen, Flags, Data, JoinInv, FileInv, IdleInv, ShardsJoined, CtlJoined, SnapJoined
  <2> QED
    BY <2>1, <2>2, <2>3, TypeSplit DEF IInv
<1>8. CASE JoinShards
  <2>1. Flags'
    BY <1>8, TypeSplit DEF IInv, JoinShards, Flags
  <2>2. Data'
    BY <1>8, TypeSplit, BoundsAreNat DEF IInv, JoinShards, Data, Startup, None
  <2>3. (JoinInv /\ FileInv /\ IdleInv)'
    BY <1>8, TypeSplit, BoundsAreNat
    DEF IInv, JoinShards, Flags, Data, JoinInv, FileInv, IdleInv, ShardsJoined, CtlJoined, SnapJoined
  <2> QED
    BY <2>1, <2>2, <2>3, TypeSplit DEF IInv
<1>9. CASE JoinCtl
  <2>1. Flags'
    BY <1>9, TypeSplit DEF IInv, JoinCtl, Flags
  <2>2. Data'
    BY <1>9, TypeSplit, BoundsAreNat DEF IInv, JoinCtl, Data, Startup, None
  <2>3. (JoinInv /\ FileInv /\ IdleInv)'
    BY <1>9, TypeSplit, BoundsAreNat
    DEF IInv, JoinCtl, Flags, Data, JoinInv, FileInv, IdleInv, ShardsJoined, CtlJoined, SnapJoined
  <2> QED
    BY <2>1, <2>2, <2>3, TypeSplit DEF IInv
<1>10. CASE JoinSnapshots
  <2>1. Flags'
    BY <1>10, TypeSplit DEF IInv, JoinSnapshots, Flags
  <2>2. Data'
    BY <1>10, TypeSplit, BoundsAreNat DEF IInv, JoinSnapshots, Data, Startup, None
  <2>3. (JoinInv /\ FileInv /\ IdleInv)'
    BY <1>10, TypeSplit, BoundsAreNat
    DEF IInv, JoinSnapshots, Flags, Data, JoinInv, FileInv, IdleInv, ShardsJoined, CtlJoined, SnapJoined
  <2> QED
    BY <2>1, <2>2, <2>3, TypeSplit DEF IInv
<1>11. CASE WriteFinal
  <2>1. Flags'
    BY <1>11, TypeSplit DEF IInv, WriteFinal, Flags
  <2>2. Data'
    BY <1>11, TypeSplit, BoundsAreNat DEF IInv, WriteFinal, Data, Startup, None
  <2>3. (JoinInv /\ FileInv /\ IdleInv)'
    BY <1>11, TypeSplit, BoundsAreNat
    DEF IInv, WriteFinal, Flags, Data, JoinInv, FileInv, IdleInv, ShardsJoined, CtlJoined, SnapJoined
  <2> QED
    BY <2>1, <2>2, <2>3, TypeSplit DEF IInv
<1>12. CASE ExitOk
  <2>1. Flags'
    BY <1>12, TypeSplit DEF IInv, ExitOk, Flags
  <2>2. Data'
    BY <1>12, TypeSplit, BoundsAreNat DEF IInv, ExitOk, Data, Startup, None
  <2>3. (JoinInv /\ FileInv /\ IdleInv)'
    BY <1>12, TypeSplit, BoundsAreNat
    DEF IInv, ExitOk, Flags, Data, JoinInv, FileInv, IdleInv, ShardsJoined, CtlJoined, SnapJoined
  <2> QED
    BY <2>1, <2>2, <2>3, TypeSplit DEF IInv
<1> QED
  BY <1>1, <1>2, <1>3, <1>4, <1>5, <1>6, <1>7, <1>8, <1>9, <1>10, <1>11, <1>12

(* What a shard's steps keep.                                             *)
LEMMA ShardKeeps ==
  ASSUME IInv, NEW s \in Shards,
         \/ ShardPolls(s) \/ ShardTimesOut(s) \/ ShardReceives(s) \/ ShardFlushes(s)
         \/ ShardFails(s)
  PROVE  IInv'
<1> USE DEF Running, flags, shardVars, ctlVars, clientVars, snapVars, signalVars, reportVars,
            ctlFrame, shardFrame, mainFrame, Shard, Count
<1>1. CASE ShardPolls(s)
  <2>1. Flags'
    BY <1>1, TypeSplit DEF IInv, ShardPolls, Flags
  <2>2. Data'
    BY <1>1, TypeSplit, BoundsAreNat DEF IInv, ShardPolls, Data, Startup, None
  <2>3. (JoinInv /\ FileInv /\ IdleInv)'
    BY <1>1, TypeSplit, BoundsAreNat
    DEF IInv, ShardPolls, Flags, Data, JoinInv, FileInv, IdleInv, ShardsJoined, CtlJoined, SnapJoined
  <2> QED
    BY <2>1, <2>2, <2>3, TypeSplit DEF IInv
<1>2. CASE ShardTimesOut(s)
  <2>1. Flags'
    BY <1>2, TypeSplit DEF IInv, ShardTimesOut, Flags
  <2>2. Data'
    BY <1>2, TypeSplit, BoundsAreNat DEF IInv, ShardTimesOut, Data, Startup, None
  <2>3. (JoinInv /\ FileInv /\ IdleInv)'
    BY <1>2, TypeSplit, BoundsAreNat
    DEF IInv, ShardTimesOut, Flags, Data, JoinInv, FileInv, IdleInv, ShardsJoined, CtlJoined, SnapJoined
  <2> QED
    BY <2>1, <2>2, <2>3, TypeSplit DEF IInv
<1>3. CASE ShardReceives(s)
  <2>1. Flags'
    BY <1>3, TypeSplit DEF IInv, ShardReceives, Flags
  <2>2. Data'
    BY <1>3, TypeSplit, BoundsAreNat DEF IInv, ShardReceives, Data, Startup, None
  <2>3. (JoinInv /\ FileInv /\ IdleInv)'
    BY <1>3, TypeSplit, BoundsAreNat
    DEF IInv, ShardReceives, Flags, Data, JoinInv, FileInv, IdleInv, ShardsJoined, CtlJoined, SnapJoined
  <2> QED
    BY <2>1, <2>2, <2>3, TypeSplit DEF IInv
<1>4. CASE ShardFlushes(s)
  <2>1. Flags'
    BY <1>4, TypeSplit DEF IInv, ShardFlushes, Flags
  <2>2. Data'
    BY <1>4, TypeSplit, BoundsAreNat DEF IInv, ShardFlushes, Data, Startup, None
  <2>3. (JoinInv /\ FileInv /\ IdleInv)'
    BY <1>4, TypeSplit, BoundsAreNat
    DEF IInv, ShardFlushes, Flags, Data, JoinInv, FileInv, IdleInv, ShardsJoined, CtlJoined, SnapJoined
  <2> QED
    BY <2>1, <2>2, <2>3, TypeSplit DEF IInv
<1>5. CASE ShardFails(s)
  <2>1. Flags'
    BY <1>5, TypeSplit DEF IInv, ShardFails, Flags
  <2>2. Data'
    BY <1>5, TypeSplit, BoundsAreNat DEF IInv, ShardFails, Data, Startup, None
  <2>3. (JoinInv /\ FileInv /\ IdleInv)'
    BY <1>5, TypeSplit, BoundsAreNat
    DEF IInv, ShardFails, Flags, Data, JoinInv, FileInv, IdleInv, ShardsJoined, CtlJoined, SnapJoined
  <2> QED
    BY <2>1, <2>2, <2>3, TypeSplit DEF IInv
<1> QED
  BY <1>1, <1>2, <1>3, <1>4, <1>5

(* What the control thread's steps keep.                                  *)
LEMMA CtlKeeps ==
  ASSUME IInv,
         \/ CtlPolls \/ CtlTimesOut \/ CtlFails \/ CtlAccepts
         \/ CtlHangsUp \/ CtlTicks \/ CtlAnswers
  PROVE  IInv'
<1> USE DEF Running, flags, shardVars, ctlVars, clientVars, snapVars, signalVars, reportVars,
            ctlFrame, shardFrame, mainFrame, Ctl, EndCtl, Reset, Fresh, Hangup, Silent
<1>1. CASE CtlPolls
  <2>1. Flags'
    BY <1>1, TypeSplit DEF IInv, CtlPolls, Flags
  <2>2. Data'
    <3>1. CASE stop
      BY <1>1, <3>1, TypeSplit DEF IInv, CtlPolls, Data, Startup, None
    <3>2. CASE ~stop
      BY <1>1, <3>2, TypeSplit DEF IInv, CtlPolls, Data, Startup, None
    <3> QED
      BY <3>1, <3>2
  <2>3. (JoinInv /\ FileInv /\ IdleInv)'
    BY <1>1, TypeSplit, BoundsAreNat
    DEF IInv, CtlPolls, Flags, Data, JoinInv, FileInv, IdleInv, ShardsJoined, CtlJoined, SnapJoined
  <2> QED
    BY <2>1, <2>2, <2>3, TypeSplit DEF IInv
<1>2. CASE CtlTimesOut
  <2>1. Flags'
    BY <1>2, TypeSplit DEF IInv, CtlTimesOut, Flags
  <2>2. Data'
    BY <1>2, TypeSplit, BoundsAreNat DEF IInv, CtlTimesOut, Data, Startup, None
  <2>3. (JoinInv /\ FileInv /\ IdleInv)'
    BY <1>2, TypeSplit, BoundsAreNat
    DEF IInv, CtlTimesOut, Flags, Data, JoinInv, FileInv, IdleInv, ShardsJoined, CtlJoined, SnapJoined
  <2> QED
    BY <2>1, <2>2, <2>3, TypeSplit DEF IInv
<1>3. CASE CtlFails
  <2>1. Flags'
    BY <1>3, TypeSplit DEF IInv, CtlFails, Flags
  <2>2. Data'
    BY <1>3, TypeSplit, BoundsAreNat DEF IInv, CtlFails, Data, Startup, None
  <2>3. (JoinInv /\ FileInv /\ IdleInv)'
    BY <1>3, TypeSplit, BoundsAreNat
    DEF IInv, CtlFails, Flags, Data, JoinInv, FileInv, IdleInv, ShardsJoined, CtlJoined, SnapJoined
  <2> QED
    BY <2>1, <2>2, <2>3, TypeSplit DEF IInv
<1>4. CASE CtlAccepts
  <2>1. Flags'
    BY <1>4, TypeSplit DEF IInv, CtlAccepts, Flags
  <2>2. Data'
    BY <1>4, TypeSplit, BoundsAreNat DEF IInv, CtlAccepts, Data, Startup, None
  <2>3. (JoinInv /\ FileInv /\ IdleInv)'
    BY <1>4, TypeSplit, BoundsAreNat
    DEF IInv, CtlAccepts, Flags, Data, JoinInv, FileInv, IdleInv, ShardsJoined, CtlJoined, SnapJoined
  <2> QED
    BY <2>1, <2>2, <2>3, TypeSplit DEF IInv
<1>5. CASE CtlHangsUp
  <2>1. Flags'
    BY <1>5, TypeSplit DEF IInv, CtlHangsUp, Flags
  <2>2. Data'
    BY <1>5, TypeSplit, BoundsAreNat DEF IInv, CtlHangsUp, Data, Startup, None
  <2>3. (JoinInv /\ FileInv /\ IdleInv)'
    BY <1>5, TypeSplit, BoundsAreNat
    DEF IInv, CtlHangsUp, Flags, Data, JoinInv, FileInv, IdleInv, ShardsJoined, CtlJoined, SnapJoined
  <2> QED
    BY <2>1, <2>2, <2>3, TypeSplit DEF IInv
<1>6. CASE CtlTicks
  <2>1. Flags'
    BY <1>6, TypeSplit DEF IInv, CtlTicks, Flags
  <2>2. Data'
    <3>1. CASE stop
      BY <1>6, <3>1, TypeSplit DEF IInv, CtlTicks, Data, Startup, None
    <3>2. CASE ~stop
      <4>1. idle' = idle + 1 /\ idle' \in 0 .. IdleTicks
        BY <1>6, <3>2, TypeSplit, BoundsAreNat DEF IInv, CtlTicks, Data, IdleInv
      <4>2. CASE idle' >= IdleTicks
        BY <1>6, <4>1, <4>2, TypeSplit DEF IInv, CtlTicks, Data, Startup, None
      <4>3. CASE ~(idle' >= IdleTicks)
        BY <1>6, <3>2, <4>1, <4>3, TypeSplit DEF IInv, CtlTicks, Data, Startup, None
      <4> QED
        BY <4>2, <4>3
    <3> QED
      BY <3>1, <3>2
  <2>3. (JoinInv /\ FileInv /\ IdleInv)'
    <3>1. CASE stop \/ idle' >= IdleTicks
      BY <1>6, <3>1, TypeSplit
      DEF IInv, CtlTicks, Flags, Data, JoinInv, FileInv, IdleInv, ShardsJoined, CtlJoined, SnapJoined
    <3>2. CASE ~(stop \/ idle' >= IdleTicks)
      <4>1. idle' < IdleTicks
        BY <2>2, <3>2, BoundsAreNat DEF Data
      <4> QED
        BY <1>6, <3>2, <4>1, TypeSplit
        DEF IInv, CtlTicks, Flags, Data, JoinInv, FileInv, IdleInv, ShardsJoined, CtlJoined, SnapJoined
    <3> QED
      BY <3>1, <3>2
  <2> QED
    BY <2>1, <2>2, <2>3, TypeSplit DEF IInv
<1>7. CASE CtlAnswers
  <2>1. Flags'
    BY <1>7, TypeSplit DEF IInv, CtlAnswers, Flags
  <2>2. Data'
    <3> DEFINE frame == <<exit, main, shardVars, ctlFrame>>
    <3>0. idle' \in 0 .. IdleTicks
      BY <1>7, BoundsAreNat DEF CtlAnswers
    <3>1. CASE client[conn] = "left"
      <4>1. Hangup /\ UNCHANGED frame
        BY <1>7, <3>1, Zenon DEF CtlAnswers
      <4> QED
        BY <3>0, <4>1, TypeSplit DEF IInv, Data, Startup, None
    <3>2. CASE client[conn] # "left"
      <4>1. /\ client' = [client EXCEPT ![conn] = "here"]
            /\ request' = [request EXCEPT ![conn] = None]
            /\ UNCHANGED <<ctl, conn, file, backlog, calls>> /\ UNCHANGED frame
        BY <1>7, <3>2, Zenon DEF CtlAnswers
      <4>2. client' \in [Clients -> {"away", "here", "waiting", "left"}]
        BY <4>1, TypeSplit DEF IInv, Data
      <4>3. request' \in [Clients -> {None, "shutdown", "other", "garbage"}]
        BY <4>1, TypeSplit DEF IInv, Data
      <4>4. UNCHANGED <<ctl, conn, file, backlog, calls>> /\ UNCHANGED frame
        BY <4>1
      <4> QED
        BY <3>0, <4>2, <4>3, <4>4, TypeSplit DEF IInv, Data
    <3> QED
      BY <3>1, <3>2
  <2>3. (JoinInv /\ FileInv /\ IdleInv)'
    BY <1>7, TypeSplit, BoundsAreNat
    DEF IInv, CtlAnswers, Flags, Data, JoinInv, FileInv, IdleInv, ShardsJoined, CtlJoined, SnapJoined
  <2> QED
    BY <2>1, <2>2, <2>3, TypeSplit DEF IInv
<1> QED
  BY <1>1, <1>2, <1>3, <1>4, <1>5, <1>6, <1>7

(* What clients keep.                                                     *)
LEMMA ClientKeeps ==
  ASSUME IInv, NEW c \in Clients, NEW what \in {"shutdown", "other", "garbage"},
         \/ Connect(c) \/ Leave(c) \/ Call(c, what)
  PROVE  IInv'
<1> USE DEF Running, flags, shardVars, ctlVars, clientVars, snapVars, signalVars, reportVars,
            ctlFrame, shardFrame, mainFrame
<1>1. CASE Connect(c)
  <2>1. Flags'
    BY <1>1, TypeSplit DEF IInv, Connect, Flags
  <2>2. Data'
    BY <1>1, TypeSplit, BoundsAreNat DEF IInv, Connect, Data, Startup, None
  <2>3. (JoinInv /\ FileInv /\ IdleInv)'
    BY <1>1, TypeSplit, BoundsAreNat
    DEF IInv, Connect, Flags, Data, JoinInv, FileInv, IdleInv, ShardsJoined, CtlJoined, SnapJoined
  <2> QED
    BY <2>1, <2>2, <2>3, TypeSplit DEF IInv
<1>2. CASE Leave(c)
  <2>1. Flags'
    BY <1>2, TypeSplit DEF IInv, Leave, Flags
  <2>2. Data'
    BY <1>2, TypeSplit, BoundsAreNat DEF IInv, Leave, Data, Startup, None
  <2>3. (JoinInv /\ FileInv /\ IdleInv)'
    BY <1>2, TypeSplit, BoundsAreNat
    DEF IInv, Leave, Flags, Data, JoinInv, FileInv, IdleInv, ShardsJoined, CtlJoined, SnapJoined
  <2> QED
    BY <2>1, <2>2, <2>3, TypeSplit DEF IInv
<1>3. CASE Call(c, what)
  <2>1. Flags'
    BY <1>3, TypeSplit DEF IInv, Call, Flags
  <2>2. Data'
    BY <1>3, TypeSplit, BoundsAreNat DEF IInv, Call, Data, Startup, None
  <2>3. (JoinInv /\ FileInv /\ IdleInv)'
    BY <1>3, TypeSplit, BoundsAreNat
    DEF IInv, Call, Flags, Data, JoinInv, FileInv, IdleInv, ShardsJoined, CtlJoined, SnapJoined
  <2> QED
    BY <2>1, <2>2, <2>3, TypeSplit DEF IInv
<1> QED
  BY <1>1, <1>2, <1>3

(* What the snapshot thread's steps keep.                                 *)
LEMMA SnapKeeps ==
  ASSUME IInv,
         \/ SnapPolls \/ SnapWakes \/ SnapReads \/ SnapAppends
  PROVE  IInv'
<1> USE DEF Running, flags, shardVars, ctlVars, clientVars, snapVars, signalVars, reportVars,
            ctlFrame, shardFrame, mainFrame, Snap
<1>1. CASE SnapPolls
  <2>1. Flags'
    BY <1>1, TypeSplit DEF IInv, SnapPolls, Flags
  <2>2. Data'
    BY <1>1, TypeSplit, BoundsAreNat DEF IInv, SnapPolls, Data, Startup, None
  <2>3. (JoinInv /\ FileInv /\ IdleInv)'
    BY <1>1, TypeSplit, BoundsAreNat
    DEF IInv, SnapPolls, Flags, Data, JoinInv, FileInv, IdleInv, ShardsJoined, CtlJoined, SnapJoined
  <2> QED
    BY <2>1, <2>2, <2>3, TypeSplit DEF IInv
<1>2. CASE SnapWakes
  <2>1. Flags'
    BY <1>2, TypeSplit DEF IInv, SnapWakes, Flags
  <2>2. Data'
    BY <1>2, TypeSplit, BoundsAreNat DEF IInv, SnapWakes, Data, Startup, None
  <2>3. (JoinInv /\ FileInv /\ IdleInv)'
    BY <1>2, TypeSplit, BoundsAreNat
    DEF IInv, SnapWakes, Flags, Data, JoinInv, FileInv, IdleInv, ShardsJoined, CtlJoined, SnapJoined
  <2> QED
    BY <2>1, <2>2, <2>3, TypeSplit DEF IInv
<1>3. CASE SnapReads
  <2>1. Flags'
    BY <1>3, TypeSplit DEF IInv, SnapReads, Flags
  <2>2. Data'
    BY <1>3, TypeSplit, BoundsAreNat DEF IInv, SnapReads, Data, Startup, None
  <2>3. (JoinInv /\ FileInv /\ IdleInv)'
    BY <1>3, TypeSplit, BoundsAreNat
    DEF IInv, SnapReads, Flags, Data, JoinInv, FileInv, IdleInv, ShardsJoined, CtlJoined, SnapJoined
  <2> QED
    BY <2>1, <2>2, <2>3, TypeSplit DEF IInv
<1>4. CASE SnapAppends
  <2>1. Flags'
    BY <1>4, TypeSplit DEF IInv, SnapAppends, Flags
  <2>2. Data'
    BY <1>4, TypeSplit, BoundsAreNat DEF IInv, SnapAppends, Data, Startup, None
  <2>3. (JoinInv /\ FileInv /\ IdleInv)'
    BY <1>4, TypeSplit, BoundsAreNat
    DEF IInv, SnapAppends, Flags, Data, JoinInv, FileInv, IdleInv, ShardsJoined, CtlJoined, SnapJoined
  <2> QED
    BY <2>1, <2>2, <2>3, TypeSplit DEF IInv
<1> QED
  BY <1>1, <1>2, <1>3, <1>4

(* What signals and the watcher keep.                                     *)
LEMMA SignalKeeps ==
  ASSUME IInv,
         \/ SendSignal \/ Watch
  PROVE  IInv'
<1> USE DEF Running, flags, shardVars, ctlVars, clientVars, snapVars, signalVars, reportVars,
            ctlFrame, shardFrame, mainFrame
<1>1. CASE SendSignal
  <2>1. Flags'
    BY <1>1, TypeSplit DEF IInv, SendSignal, Flags
  <2>2. Data'
    BY <1>1, TypeSplit, BoundsAreNat DEF IInv, SendSignal, Data, Startup, None
  <2>3. (JoinInv /\ FileInv /\ IdleInv)'
    BY <1>1, TypeSplit, BoundsAreNat
    DEF IInv, SendSignal, Flags, Data, JoinInv, FileInv, IdleInv, ShardsJoined, CtlJoined, SnapJoined
  <2> QED
    BY <2>1, <2>2, <2>3, TypeSplit DEF IInv
<1>2. CASE Watch
  <2>1. Flags'
    BY <1>2, TypeSplit DEF IInv, Watch, Flags
  <2>2. Data'
    BY <1>2, TypeSplit, BoundsAreNat DEF IInv, Watch, Data, Startup, None
  <2>3. (JoinInv /\ FileInv /\ IdleInv)'
    BY <1>2, TypeSplit, BoundsAreNat
    DEF IInv, Watch, Flags, Data, JoinInv, FileInv, IdleInv, ShardsJoined, CtlJoined, SnapJoined
  <2> QED
    BY <2>1, <2>2, <2>3, TypeSplit DEF IInv
<1> QED
  BY <1>1, <1>2

LEMMA NextIInv == IInv /\ [Next]_vars => IInv'
<1> SUFFICES ASSUME IInv, [Next]_vars PROVE IInv'
  OBVIOUS
<1>1. CASE MainStep
  <2>1. CASE StartupFails
    <3>1. file' \in BOOLEAN
      BY <2>1, TypeSplit DEF IInv, StartupFails, Flags
    <3> QED
      BY <2>1, <3>1, GoneIInv DEF StartupFails
  <2>2. CASE ~StartupFails
    BY <1>1, <2>2, MainKeeps DEF MainStep
  <2> QED
    BY <2>1, <2>2
<1>2. CASE CtlStep
  BY <1>2, CtlKeeps DEF CtlStep
<1>3. CASE SnapStep
  BY <1>3, SnapKeeps DEF SnapStep
<1>4. CASE Watch \/ SendSignal
  BY <1>4, SignalKeeps
<1>5. CASE \E s \in Shards : ShardStep(s)
  BY <1>5, ShardKeeps DEF ShardStep
<1>6. CASE \E c \in Clients : ClientStep(c)
  BY <1>6, ClientKeeps DEF ClientStep
<1>7. CASE Kill \/ Restart
  <2>1. file' \in BOOLEAN
    BY <1>7, TypeSplit DEF IInv, Kill, Restart, Flags
  <2> QED
    BY <1>7, <2>1, GoneIInv DEF Kill, Restart
<1>8. CASE UNCHANGED vars
  <2> USE DEF vars, flags, shardVars, ctlVars, clientVars, snapVars, signalVars, reportVars
  <2>1. Flags'
    BY <1>8, TypeSplit DEF IInv, Flags
  <2>2. Data'
    BY <1>8, TypeSplit DEF IInv, Data
  <2>3. (JoinInv /\ FileInv /\ IdleInv)'
    BY <1>8 DEF IInv, JoinInv, FileInv, IdleInv
  <2> QED
    BY <2>1, <2>2, <2>3, TypeSplit DEF IInv
<1> QED
  BY <1>1, <1>2, <1>3, <1>4, <1>5, <1>6, <1>7, <1>8 DEF Next

LEMMA Inductive == Spec => []IInv
  BY InitIInv, NextIInv, PTL DEF Spec
------------------------------------------------------------------------------
(* Whatever the threads, the clients and the operator do, each piece of    *)
(* state stays of its kind and no connection outlives IDLE_TIMEOUT         *)
(* (converse).                                                             *)
THEOREM TypeCorrect == Spec => []TypeOK
<1>1. IInv => TypeOK
  BY DEF IInv
<1> QED
  BY <1>1, Inductive, PTL

(* serve's order of joins: at a clean exit every shard has ended, nothing  *)
(* was counted after the final snapshot, and if it was appended no older   *)
(* line of the periodic thread follows it.                                 *)
THEOREM SnapshotIsLast == Spec => []FinalSnapshotIsLast
<1>1. IInv => FinalSnapshotIsLast
  BY DEF IInv, JoinInv, FinalSnapshotIsLast, ShardsJoined, SnapJoined
<1> QED
  BY <1>1, Inductive, PTL

(* Server::bind, Server::drop and the join of the control thread: the      *)
(* socket's file is there while requests are served and gone after a clean *)
(* exit, whatever the process before left behind.                          *)
THEOREM SocketFileHolds == Spec => []SocketFile
<1>1. IInv => SocketFile
  BY DEF IInv, JoinInv, FileInv, SocketFile, CtlJoined
<1> QED
  BY <1>1, Inductive, PTL
=============================================================================
