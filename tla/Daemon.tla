------------------------------- MODULE Daemon -------------------------------
(***************************************************************************)
(* The life of an up4d process: up4d's run and serve bring up the shards,  *)
(* the control channel, the snapshot writer and the signal watcher, wait   *)
(* for the stop flag and unwind.  The threads meet in the stop flag, the   *)
(* counters, the control socket's file and the snapshot file; the last two *)
(* outlive the process.                                                    *)
(*                                                                         *)
(* A shard is reduced to the counting and staging of its loop (module      *)
(* Shard has the loop itself), a request to whether it is shutdown, a      *)
(* snapshot to the sum of the counters it read.                            *)
(***************************************************************************)
EXTENDS Integers, Sequences, FiniteSets

CONSTANTS
  Shards,     \* datapath threads
  Clients,    \* control clients
  IdleTicks,  \* IDLE_TIMEOUT / ACCEPT_TIMEOUT
  Chatty,     \* a client may call again and again, never pausing
  MaxCalls,   \* calls one client makes when not chatty
  MaxCount,   \* bound on the events the shards count
  MaxSignals  \* bound on the signals sent to one process

ASSUME DaemonAssumption ==
  /\ {IdleTicks, MaxCalls, MaxCount, MaxSignals} \subseteq Nat
  /\ IdleTicks > 0
  /\ Chatty \in BOOLEAN

None == "none"      \* no connection, no request

VARIABLES
  exit,       \* how the process ended, or "running"
  main,       \* what serve is doing
  stop,       \* the process-wide Stop flag
  shard,      \* each shard thread
  counted,    \* the sum of all counters
  ctl,        \* the control thread
  conn,       \* the connection it is conversing on
  idle,       \* timeouts since that client last spoke
  backlog,    \* connections not accepted yet
  client,     \* each client
  request,    \* the request a client has sent and nobody has read
  calls,      \* calls each client has made
  snap_on,    \* metrics_interval is configured
  snap,       \* the periodic snapshot thread
  held,       \* the snapshot it has read and not appended
  watcher,    \* the signal thread
  pending,    \* a terminating signal is pending
  signals,    \* how many were sent
  final,      \* the final snapshot as logged, -1 before
  file,       \* the control socket's file exists
  snap_file,  \* the periodic thread opened its file
  lines,      \* the last line this process appended to its file, -1 if none
  wrote       \* the final snapshot was appended

flags == <<exit, main, stop>>
shardVars == <<shard, counted>>
ctlVars == <<ctl, conn, idle, file>>
clientVars == <<backlog, client, request, calls>>
snapVars == <<snap_on, snap_file, snap, held, lines>>
signalVars == <<watcher, pending, signals>>
reportVars == <<final, wrote>>
vars == <<flags, shardVars, ctlVars, clientVars, snapVars, signalVars, reportVars>>

\* What one thread's steps leave alone.
ctlFrame == <<snapVars, signalVars, reportVars>>
shardFrame == <<ctlVars, clientVars, ctlFrame>>
mainFrame == <<exit, stop, shardVars, shardFrame>>

Running == exit = "running"

Fresh ==
  [ shard |-> [s \in Shards |-> "none"],
    client |-> [c \in Clients |-> "away"],
    request |-> [c \in Clients |-> None] ]

Init ==
  /\ exit = "running" /\ main = "prepare" /\ stop = FALSE
  /\ shard = Fresh.shard /\ counted = 0
  /\ ctl = "none" /\ conn = None /\ idle = 0 /\ file \in BOOLEAN
  /\ backlog = <<>> /\ client = Fresh.client /\ request = Fresh.request
  /\ calls = [c \in Clients |-> 0]
  /\ snap_on \in BOOLEAN /\ snap_file = FALSE
  /\ snap = "none" /\ held = -1 /\ lines = -1
  /\ watcher = "none" /\ pending = FALSE /\ signals = 0
  /\ final = -1 /\ wrote = FALSE

(* What a new process starts from, and all that is left of one that died:  *)
(* its threads are gone, its connections reset.                            *)
Gone ==
  /\ stop' = FALSE
  /\ shard' = Fresh.shard /\ counted' = 0
  /\ ctl' = "none" /\ conn' = None /\ idle' = 0
  /\ backlog' = <<>> /\ client' = Fresh.client /\ request' = Fresh.request
  /\ calls' = [c \in Clients |-> 0]
  /\ snap_file' = FALSE /\ snap' = "none" /\ held' = -1 /\ lines' = -1
  /\ watcher' = "none" /\ pending' = FALSE /\ signals' = 0
  /\ final' = -1 /\ wrote' = FALSE
  /\ UNCHANGED snap_on
------------------------------------------------------------------------------
(* serve, before it waits.                                                 *)
MainTo(from, to) == Running /\ main = from /\ main' = to

(* run: configuration, pipeline, startup tables; then every socket.        *)
Prepare ==
  /\ MainTo("prepare", "shards")
  /\ UNCHANGED mainFrame

SpawnShard(s) ==
  /\ MainTo("shards", "shards")
  /\ shard[s] = "none"
  /\ shard' = [shard EXCEPT ![s] = "loop"]
  /\ UNCHANGED <<exit, stop, counted, ctlVars, clientVars, ctlFrame>>

(* Server::bind.  The file of a process that did not remove it is removed. *)
BindCtl ==
  /\ MainTo("shards", "ctl")
  /\ \A s \in Shards : shard[s] # "none"
  /\ file' = TRUE
  /\ UNCHANGED <<exit, stop, shardVars, ctl, conn, idle, clientVars, ctlFrame>>

SpawnCtl ==
  /\ MainTo("ctl", "snapshots")
  /\ ctl' = "loop"
  /\ UNCHANGED <<exit, stop, shardVars, conn, idle, file, clientVars, ctlFrame>>

(* spawn_snapshot_writer: the thread runs even when the file cannot be     *)
(* opened, but then has nothing to do.                                     *)
SpawnSnapshots ==
  /\ MainTo("snapshots", "watcher")
  /\ snap' = IF snap_on THEN "loop" ELSE "none"
  /\ snap_file' \in {FALSE, snap_on}
  /\ UNCHANGED <<exit, stop, shardVars, ctlVars, clientVars, snap_on, held,
                 lines, signalVars, reportVars>>

SpawnWatcher ==
  /\ MainTo("watcher", "wait")
  /\ watcher' = "sigwait"
  /\ UNCHANGED <<exit, stop, shardVars, ctlVars, clientVars, snapVars,
                 pending, signals, reportVars>>

Startup == {"prepare", "shards", "ctl", "snapshots", "watcher"}

(* A Fatal at any of these steps leaves main at once.  Server::bind may    *)
(* fail before or after it removed an old file or made a new one; a        *)
(* control thread that cannot be spawned drops its server.                 *)
StartupFails ==
  /\ Running /\ main \in Startup \ {"snapshots"}
  /\ exit' = "startup" /\ main' = "prepare"
  /\ Gone
  /\ \/ main = "shards" /\ file' \in BOOLEAN
     \/ main = "ctl" /\ file' = FALSE
     \/ main \in {"prepare", "watcher"} /\ file' = file
------------------------------------------------------------------------------
(* serve, from the wait on.                                                *)
StopSeen ==
  /\ MainTo("wait", "join_shards")
  /\ stop
  /\ UNCHANGED mainFrame

JoinShards ==
  /\ MainTo("join_shards", "join_ctl")
  /\ \A s \in Shards : shard[s] = "ended"
  /\ UNCHANGED mainFrame

JoinCtl ==
  /\ MainTo("join_ctl", "join_snapshots")
  /\ ctl = "ended"
  /\ UNCHANGED mainFrame

(* Does not wait for the snapshot thread.                                  *)
MutantJoinSnapshots ==
  /\ MainTo("join_snapshots", "final")
  /\ final' = counted
  /\ UNCHANGED <<exit, stop, shardVars, ctlVars, clientVars, snapVars,
                 signalVars, wrote>>

(* The snapshot thread is joined; the final snapshot is read and logged.   *)
JoinSnapshots ==
  /\ MainTo("join_snapshots", "final")
  /\ snap \in {"none", "ended"}
  /\ final' = counted
  /\ UNCHANGED <<exit, stop, shardVars, ctlVars, clientVars, snapVars,
                 signalVars, wrote>>

(* write_final_snapshot may fail, which is a warning; exit 0 either way.   *)
WriteFinal ==
  /\ MainTo("final", "done")
  /\ \/ snap_on /\ wrote' = TRUE /\ lines' = final
     \/ UNCHANGED <<wrote, lines>>
  /\ UNCHANGED <<exit, stop, shardVars, ctlVars, clientVars, snap_on,
                 snap_file, snap, held, signalVars, final>>

(* The watcher may still be parked; what it and the counters held is kept  *)
(* for the properties to look at.                                          *)
ExitOk ==
  /\ Running /\ main = "done"
  /\ exit' = "ok"
  /\ pending' = FALSE
  /\ UNCHANGED <<main, stop, shardVars, ctlVars, clientVars, snapVars,
                 watcher, signals, reportVars>>
------------------------------------------------------------------------------
(* A shard thread.                                                         *)
Shard(s, from, to) == Running /\ shard[s] = from /\ shard' = [shard EXCEPT ![s] = to]
Count == counted < MaxCount /\ counted' = counted + 1

ShardPolls(s) ==
  /\ Shard(s, "loop", IF stop THEN "ended" ELSE "recv")
  /\ UNCHANGED <<flags, counted, shardFrame>>

ShardTimesOut(s) ==
  /\ Shard(s, "recv", "loop")
  /\ UNCHANGED <<flags, counted, shardFrame>>

(* A batch is counted as it is received and again as it is flushed.        *)
ShardReceives(s) ==
  /\ Shard(s, "recv", "flush")
  /\ Count
  /\ UNCHANGED <<flags, shardFrame>>

ShardFlushes(s) ==
  /\ Shard(s, "flush", "loop")
  /\ counted' = counted + 1
  /\ UNCHANGED <<flags, shardFrame>>

(* Shard::run returns an error: the thread stops the process.              *)
ShardFails(s) ==
  /\ Shard(s, "recv", "ended")
  /\ stop' = TRUE
  /\ UNCHANGED <<exit, main, counted, shardFrame>>

ShardStep(s) ==
  ShardPolls(s) \/ ShardTimesOut(s) \/ ShardReceives(s) \/ ShardFlushes(s) \/ ShardFails(s)
------------------------------------------------------------------------------
(* The control thread: Server::serve and ::converse.                       *)
Ctl(from, to) == Running /\ ctl = from /\ ctl' = to

Reset == backlog' = <<>> /\ client' = Fresh.client /\ request' = Fresh.request

(* Forgets the file.                                                       *)
MutantEndCtl == ctl' = "ended" /\ UNCHANGED file /\ Reset

(* serve returns and the Server is dropped, which removes the file and     *)
(* closes the listener.                                                    *)
EndCtl == ctl' = "ended" /\ file' = FALSE /\ Reset

CtlPolls ==
  /\ Running /\ ctl = "loop"
  /\ IF stop THEN EndCtl ELSE ctl' = "accept" /\ UNCHANGED <<file, backlog, client, request>>
  /\ UNCHANGED <<flags, shardVars, conn, idle, calls, ctlFrame>>

CtlTimesOut ==
  /\ Ctl("accept", "loop") /\ backlog = <<>>
  /\ UNCHANGED <<flags, shardVars, conn, idle, file, clientVars, ctlFrame>>

(* An error that is not transient ends the control channel and nothing     *)
(* else.                                                                   *)
CtlFails ==
  /\ Running /\ ctl = "accept"
  /\ EndCtl
  /\ UNCHANGED <<flags, shardVars, conn, idle, calls, ctlFrame>>

CtlAccepts ==
  /\ Ctl("accept", "converse")
  /\ backlog # <<>>
  /\ conn' = Head(backlog) /\ backlog' = Tail(backlog)
  /\ idle' = 0
  /\ UNCHANGED <<flags, shardVars, file, client, request, calls, ctlFrame>>

Hangup ==
  /\ Ctl("converse", "loop")
  /\ client' = [client EXCEPT ![conn] = "away"]
  /\ request' = [request EXCEPT ![conn] = None]
  /\ conn' = None
  /\ UNCHANGED <<file, backlog, calls>>

(* The peer has closed and left nothing to read, or sent what is not a     *)
(* control frame.                                                          *)
CtlHangsUp ==
  /\ Running /\ ctl = "converse"
  /\ \/ client[conn] = "left" /\ request[conn] = None
     \/ request[conn] = "garbage"
  /\ Hangup
  /\ UNCHANGED <<flags, shardVars, idle, ctlFrame>>

Silent == ctl = "converse" /\ request[conn] = None /\ client[conn] # "left"

(* One timeout too many.                                                   *)
MutantCtlTicksLate ==
  /\ Running /\ Silent
  /\ idle' = IF stop THEN idle ELSE idle + 1
  /\ IF stop \/ idle' > IdleTicks THEN Hangup ELSE UNCHANGED <<ctl, conn, file, clientVars>>
  /\ UNCHANGED <<flags, shardVars, ctlFrame>>

(* No idle limit.                                                          *)
MutantCtlTicks ==
  /\ Running /\ Silent
  /\ IF stop THEN Hangup ELSE UNCHANGED <<ctl, conn, file, clientVars>>
  /\ UNCHANGED <<flags, shardVars, idle, ctlFrame>>

(* ACCEPT_TIMEOUT passes without a request.                                *)
CtlTicks ==
  /\ Running /\ Silent
  /\ idle' = IF stop THEN idle ELSE idle + 1
  /\ IF stop \/ idle' >= IdleTicks THEN Hangup ELSE UNCHANGED <<ctl, conn, file, clientVars>>
  /\ UNCHANGED <<flags, shardVars, ctlFrame>>

(* handle, and the reply.  A client that gave up has its request executed  *)
(* all the same, and the failed reply ends the conversation.               *)
CtlAnswers ==
  /\ Running /\ ctl = "converse" /\ request[conn] \in {"shutdown", "other"}
  /\ stop' = (stop \/ request[conn] = "shutdown")
  /\ idle' = 0
  /\ IF client[conn] = "left"
     THEN Hangup
     ELSE /\ client' = [client EXCEPT ![conn] = "here"]
          /\ request' = [request EXCEPT ![conn] = None]
          /\ UNCHANGED <<ctl, conn, file, backlog, calls>>
  /\ UNCHANGED <<exit, main, shardVars, ctlFrame>>

CtlStep == CtlPolls \/ CtlTimesOut \/ CtlFails \/ CtlAccepts \/ CtlHangsUp \/ CtlTicks \/ CtlAnswers

(* Clients: Client::connect, ::call, and going away at any time, with or   *)
(* without the reply (CALL_TIMEOUT).                                       *)
Listening == Running /\ main \notin {"prepare", "shards"} /\ ctl # "ended"

Connect(c) ==
  /\ Listening /\ client[c] = "away" /\ calls[c] < MaxCalls
  /\ client' = [client EXCEPT ![c] = "here"]
  /\ backlog' = Append(backlog, c)
  /\ UNCHANGED <<flags, shardVars, ctlVars, request, calls, ctlFrame>>

Call(c, what) ==
  /\ Running /\ client[c] = "here" /\ calls[c] < MaxCalls
  /\ client' = [client EXCEPT ![c] = "waiting"]
  /\ request' = [request EXCEPT ![c] = what]
  /\ calls' = IF Chatty THEN calls ELSE [calls EXCEPT ![c] = @ + 1]
  /\ UNCHANGED <<flags, shardVars, ctlVars, backlog, ctlFrame>>

Leave(c) ==
  /\ Running /\ client[c] \in {"here", "waiting"}
  /\ client' = [client EXCEPT ![c] = "left"]
  /\ UNCHANGED <<flags, shardVars, ctlVars, backlog, request, calls, ctlFrame>>
------------------------------------------------------------------------------
(* The periodic snapshot thread reads the counters, then appends a line.   *)
Snap(from, to) == Running /\ snap = from /\ snap' = to

SnapPolls ==
  /\ Snap("loop", IF stop THEN "ended" ELSE "sleep")
  /\ UNCHANGED <<flags, shardVars, ctlVars, clientVars, snap_on, snap_file,
                 held, lines, signalVars, reportVars>>

(* Nothing is due yet, or there is no file to write to.                    *)
SnapWakes ==
  /\ Snap("sleep", "loop")
  /\ UNCHANGED <<flags, shardVars, ctlVars, clientVars, snap_on, snap_file,
                 held, lines, signalVars, reportVars>>

SnapReads ==
  /\ Snap("sleep", "append") /\ snap_file
  /\ held' = counted
  /\ UNCHANGED <<flags, shardVars, ctlVars, clientVars, snap_on, snap_file,
                 lines, signalVars, reportVars>>

SnapAppends ==
  /\ Snap("append", "loop")
  /\ lines' \in {held, lines}
  /\ held' = -1
  /\ UNCHANGED <<flags, shardVars, ctlVars, clientVars, snap_on, snap_file,
                 signalVars, reportVars>>

(* Signals are blocked in every thread: they wait for sigwait, of which    *)
(* there is one.                                                           *)
SendSignal ==
  /\ Running /\ signals < MaxSignals
  /\ pending' = TRUE
  /\ signals' = signals + 1
  /\ UNCHANGED <<flags, shardVars, ctlVars, clientVars, snapVars, watcher,
                 reportVars>>

(* Collects the signal and tells nobody.                                   *)
MutantWatch ==
  /\ Running /\ watcher = "sigwait" /\ pending
  /\ watcher' = "ended" /\ pending' = FALSE
  /\ UNCHANGED <<flags, shardVars, ctlVars, clientVars, snapVars, signals,
                 reportVars>>

Watch ==
  /\ Running /\ watcher = "sigwait" /\ pending
  /\ watcher' = "ended" /\ pending' = FALSE
  /\ stop' = TRUE
  /\ UNCHANGED <<exit, main, shardVars, ctlVars, clientVars, snapVars,
                 signals, reportVars>>

(* SIGKILL, a crash, or an abort on a panic.                               *)
Kill ==
  /\ Running
  /\ exit' = "killed" /\ main' = "prepare"
  /\ Gone /\ UNCHANGED file

(* The next start finds the socket's file as the last process left it.     *)
Restart ==
  /\ ~Running
  /\ exit' = "running" /\ main' = "prepare"
  /\ Gone /\ UNCHANGED file

MainStep ==
  \/ Prepare \/ (\E s \in Shards : SpawnShard(s)) \/ BindCtl \/ SpawnCtl
  \/ SpawnSnapshots \/ SpawnWatcher \/ StartupFails
  \/ StopSeen \/ JoinShards \/ JoinCtl \/ JoinSnapshots \/ WriteFinal \/ ExitOk

SnapStep == SnapPolls \/ SnapWakes \/ SnapReads \/ SnapAppends

ClientStep(c) ==
  \/ Connect(c) \/ Leave(c)
  \/ \E what \in {"shutdown", "other", "garbage"} : Call(c, what)

Next ==
  \/ MainStep \/ CtlStep \/ SnapStep \/ Watch
  \/ \E s \in Shards : ShardStep(s)
  \/ \E c \in Clients : ClientStep(c)
  \/ SendSignal \/ Kill \/ Restart

Spec == Init /\ [][Next]_vars

(* Every thread keeps being scheduled, and every blocking call of a loop   *)
(* has a timeout.  Nothing is assumed of clients, signals or crashes.      *)
FairSpec ==
  /\ Spec
  /\ WF_vars(MainStep) /\ WF_vars(CtlStep) /\ WF_vars(SnapStep) /\ WF_vars(Watch)
  /\ \A s \in Shards : WF_vars(ShardStep(s))
------------------------------------------------------------------------------
(* Properties.                                                             *)

(* Each piece of state is of its kind, and a connection is never kept past *)
(* IDLE_TIMEOUT (converse).                                                *)
TypeOK ==
  /\ exit \in {"running", "ok", "startup", "killed"}
  /\ main \in Startup \cup {"wait", "join_shards", "join_ctl", "join_snapshots", "final",
                          "done"}
  /\ stop \in BOOLEAN /\ pending \in BOOLEAN /\ file \in BOOLEAN /\ wrote \in BOOLEAN
  /\ shard \in [Shards -> {"none", "loop", "recv", "flush", "ended"}]
  /\ counted \in Nat
  /\ ctl \in {"none", "loop", "accept", "converse", "ended"}
  /\ conn \in Clients \cup {None}
  /\ idle \in 0 .. IdleTicks
  /\ backlog \in Seq(Clients)
  /\ client \in [Clients -> {"away", "here", "waiting", "left"}]
  /\ request \in [Clients -> {None, "shutdown", "other", "garbage"}]
  /\ calls \in [Clients -> 0 .. MaxCalls]
  /\ snap_on \in BOOLEAN /\ snap_file \in BOOLEAN
  /\ snap \in {"none", "loop", "sleep", "append", "ended"}
  /\ {held, lines, final} \subseteq Nat \cup {-1}
  /\ watcher \in {"none", "sigwait", "ended"}
  /\ signals \in 0 .. MaxSignals

(* "rx stops, staged frames flush, then the final snapshot, then exit 0"   *)
(* (serve): a clean exit leaves a final snapshot that nothing was counted  *)
(* after, and if it was appended it is the file's last line, not followed  *)
(* by an older one of the periodic thread.                                 *)
FinalSnapshotIsLast ==
  exit = "ok" =>
    /\ \A s \in Shards : shard[s] = "ended"
    /\ final = counted
    /\ wrote => lines = final

(* While the control thread serves, clients can find its file; after a     *)
(* clean exit the file is gone (Server::drop, and serve joins the thread). *)
SocketFile ==
  /\ Running /\ ctl \in {"loop", "accept", "converse"} => file
  /\ exit = "ok" => ~file

(* A terminating signal, whenever it comes, and a stop, from whichever     *)
(* source, end the process: "the control channel [checks] once per accept  *)
(* timeout" (Stop), so no client can hold it up.                           *)
StopHonoured == (stop \/ pending) ~> ~Running

(* Connections are served one at a time, but IDLE_TIMEOUT sees to it that  *)
(* every request is read in the end.                                       *)
RequestsServed == \A c \in Clients : (request[c] # None) ~> (request[c] = None)

(* The watcher "exits after the first signal; a second SIGTERM therefore   *)
(* takes the default action, which is the escape hatch an operator expects *)
(* when a graceful shutdown is wedged" (spawn_watcher).                    *)
SecondSignalKills == (watcher = "ended" /\ pending) ~> ~Running
=============================================================================
