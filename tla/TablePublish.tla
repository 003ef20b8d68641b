---------------------------- MODULE TablePublish ----------------------------
(***************************************************************************)
(* Table publication: up4-engine's Shared<T> and the shard-local views of  *)
(* it (Cached<T> of the native backend, the snapshot of a ubpf engine, the *)
(* journal position of an x4c engine).  Control threads replace the value  *)
(* under a mutex and bump an atomic version; shards compare versions       *)
(* without the mutex and take it only to reload.  Every access to the      *)
(* mutex or the atomic is a step of its own.                               *)
(*                                                                         *)
(* For an x4c engine `value` stands for the tables its journal replay has  *)
(* built (module X4cJournal refines that step).                            *)
(***************************************************************************)
EXTENDS Integers, Sequences

CONSTANTS
  Writers,     \* threads that call Shared::update
  Readers,     \* the shards' engines, one each
  Values,      \* table contents
  Ops,         \* control operations
  Apply(_, _), \* Apply(op, v): the successor f(&v) builds
  InitVal,     \* the table Shared::new publishes
  Backends,    \* the backends a pipeline may have been built for
  HotMint,     \* backends whose engines may be minted while writers run
  MaxUpdates   \* bound on the number of updates

ASSUME ValuesAssumption ==
  /\ InitVal \in Values
  /\ Ops # {}
  /\ \A op \in Ops, v \in Values : Apply(op, v) \in Values
ASSUME FreeAssumption == "free" \notin Writers
ASSUME BoundAssumption == MaxUpdates \in Nat
ASSUME BackendAssumption == Backends \subseteq {"native", "ubpf", "x4c"}

(* up4d mints every engine before it starts the control thread, so for it  *)
(* HotMint is empty.  Native and x4c engines tolerate a concurrent update  *)
(* while they are minted; a ubpf engine reads the value before the version *)
(* and does not.                                                           *)
ASSUME HotMintAssumption == HotMint \subseteq {"native", "x4c"}

VARIABLES
  backend,  \* the backend this pipeline was built for
  serving,  \* the control plane is running
  lock,     \* who holds Shared.current's mutex, or Free
  current,  \* *Shared.current
  version,  \* Shared.version
  wpc,      \* where each writer is in Shared::update
  wop,      \* the operation each writer is performing
  next,     \* the successor value each writer has built
  rpc,      \* where each engine is in its constructor or in a lookup
  value,    \* the engine's cached table
  tag,      \* the version the engine's table is tagged with
  seen,     \* the version the engine read last
  log,      \* history: log[i + 1] is the table after i updates
  ops,      \* history: the operations, in the order they were stored
  at        \* history: how many updates value[r] includes

sharedVars == <<lock, current, version>>
writerVars == <<wpc, wop, next>>
readerVars == <<rpc, value, tag, seen, at>>
vars == <<backend, serving, sharedVars, writerVars, readerVars, log, ops>>

Free == "free"

(* u64::MAX in X4cEngine: a version no update ever publishes.              *)
NeverSynced == -1

Init ==
  /\ backend \in Backends
  /\ serving = (backend \in HotMint)
  /\ lock = Free
  /\ current = InitVal
  /\ version = 0
  /\ wpc = [w \in Writers |-> "idle"]
  /\ wop = [w \in Writers |-> CHOOSE op \in Ops : TRUE]
  /\ next = [w \in Writers |-> InitVal]
  /\ rpc = [r \in Readers |-> "unborn"]
  /\ value = [r \in Readers |-> InitVal]
  /\ tag = [r \in Readers |-> 0]
  /\ seen = [r \in Readers |-> 0]
  /\ log = <<InitVal>>
  /\ ops = <<>>
  /\ at = [r \in Readers |-> 0]
------------------------------------------------------------------------------
(* Shared::update, called by the control thread, or by main for the        *)
(* startup batch before the first engine exists.                           *)
MayWrite == serving \/ \A r \in Readers : rpc[r] = "unborn"

MutantBeginUnlocked(w, op) ==
  /\ wpc[w] = "idle"
  /\ MayWrite
  /\ Len(ops) < MaxUpdates
  /\ lock' = w
  /\ wop' = [wop EXCEPT ![w] = op]
  /\ next' = [next EXCEPT ![w] = Apply(op, current)]
  /\ wpc' = [wpc EXCEPT ![w] = "built"]
  /\ UNCHANGED <<backend, serving, current, version, readerVars, log, ops>>

UpdateBegin(w, op) ==
  /\ wpc[w] = "idle"
  /\ MayWrite
  /\ Len(ops) < MaxUpdates
  /\ lock = Free
  /\ lock' = w
  /\ wop' = [wop EXCEPT ![w] = op]
  /\ next' = [next EXCEPT ![w] = Apply(op, current)]
  /\ wpc' = [wpc EXCEPT ![w] = "built"]
  /\ UNCHANGED <<backend, serving, current, version, readerVars, log, ops>>

UpdateStore(w) ==
  /\ wpc[w] = "built"
  /\ current' = next[w]
  /\ log' = Append(log, next[w])
  /\ ops' = Append(ops, wop[w])
  /\ wpc' = [wpc EXCEPT ![w] = "stored"]
  /\ UNCHANGED <<backend, serving, lock, version, wop, next, readerVars>>

MutantBumpTwice(w) ==
  /\ wpc[w] = "stored"
  /\ version' = version + 2
  /\ wpc' = [wpc EXCEPT ![w] = "bumped"]
  /\ UNCHANGED <<backend, serving, lock, current, wop, next, readerVars, log, ops>>

UpdateBump(w) ==
  /\ wpc[w] = "stored"
  /\ version' = version + 1
  /\ wpc' = [wpc EXCEPT ![w] = "bumped"]
  /\ UNCHANGED <<backend, serving, lock, current, wop, next, readerVars, log, ops>>

(* The guard is dropped.                                                   *)
UpdateUnlock(w) ==
  /\ wpc[w] = "bumped"
  /\ lock' = Free
  /\ wpc' = [wpc EXCEPT ![w] = "idle"]
  /\ UNCHANGED <<backend, serving, current, version, wop, next, readerVars, log, ops>>
------------------------------------------------------------------------------
Minted(r) == rpc[r] \in {"idle", "hit", "stale"}

(* Minting an engine: Cached::new reads the version, then the value.       *)
(* UbpfPipeline::engine reads the value, then the version.                 *)
(* X4cPipeline::engine reads neither.                                      *)
CachedNewVersion(r) ==
  /\ backend = "native"
  /\ rpc[r] = "unborn"
  /\ seen' = [seen EXCEPT ![r] = version]
  /\ rpc' = [rpc EXCEPT ![r] = "new_load"]
  /\ UNCHANGED <<backend, serving, sharedVars, writerVars, value, tag, at, log, ops>>

CachedNewLoad(r) ==
  /\ rpc[r] = "new_load"
  /\ lock = Free
  /\ value' = [value EXCEPT ![r] = current]
  /\ at' = [at EXCEPT ![r] = Len(ops)]
  /\ tag' = [tag EXCEPT ![r] = seen[r]]
  /\ rpc' = [rpc EXCEPT ![r] = "idle"]
  /\ UNCHANGED <<backend, serving, sharedVars, writerVars, seen, log, ops>>

UbpfEngineLoad(r) ==
  /\ backend = "ubpf"
  /\ rpc[r] = "unborn"
  /\ lock = Free
  /\ value' = [value EXCEPT ![r] = current]
  /\ at' = [at EXCEPT ![r] = Len(ops)]
  /\ rpc' = [rpc EXCEPT ![r] = "new_version"]
  /\ UNCHANGED <<backend, serving, sharedVars, writerVars, tag, seen, log, ops>>

UbpfEngineVersion(r) ==
  /\ rpc[r] = "new_version"
  /\ tag' = [tag EXCEPT ![r] = version]
  /\ seen' = [seen EXCEPT ![r] = version]
  /\ rpc' = [rpc EXCEPT ![r] = "idle"]
  /\ UNCHANGED <<backend, serving, sharedVars, writerVars, value, at, log, ops>>

X4cEngineNew(r) ==
  /\ backend = "x4c"
  /\ rpc[r] = "unborn"
  /\ tag' = [tag EXCEPT ![r] = NeverSynced]
  /\ rpc' = [rpc EXCEPT ![r] = "idle"]
  /\ UNCHANGED <<backend, serving, sharedVars, writerVars, value, seen, at, log, ops>>

(* Starts the control thread while engines are still being minted.         *)
MutantStartServingEarly ==
  /\ ~serving
  /\ serving' = TRUE
  /\ UNCHANGED <<backend, sharedVars, writerVars, readerVars, log, ops>>

(* main starts the control thread once every engine has been minted.       *)
StartServing ==
  /\ ~serving
  /\ \A r \in Readers : Minted(r)
  /\ serving' = TRUE
  /\ UNCHANGED <<backend, sharedVars, writerVars, readerVars, log, ops>>
------------------------------------------------------------------------------
(* Refreshes only when it is at least two updates behind.                  *)
MutantGetVersionLazy(r) ==
  /\ rpc[r] = "idle"
  /\ seen' = [seen EXCEPT ![r] = version]
  /\ rpc' = [rpc EXCEPT ![r] = IF version <= tag[r] + 1 THEN "hit" ELSE "stale"]
  /\ UNCHANGED <<backend, serving, sharedVars, writerVars, value, tag, at, log, ops>>

(* A lookup: Cached::get, and the same prologue in UbpfEngine::process and *)
(* X4cEngine::sync.  The version is read without the mutex; the lookup is  *)
(* then served from the cached table, or from a reloaded one.              *)
GetVersion(r) ==
  /\ rpc[r] = "idle"
  /\ seen' = [seen EXCEPT ![r] = version]
  /\ rpc' = [rpc EXCEPT ![r] = IF version = tag[r] THEN "hit" ELSE "stale"]
  /\ UNCHANGED <<backend, serving, sharedVars, writerVars, value, tag, at, log, ops>>

ServeCached(r) ==
  /\ rpc[r] = "hit"
  /\ rpc' = [rpc EXCEPT ![r] = "idle"]
  /\ UNCHANGED <<backend, serving, sharedVars, writerVars, value, tag, seen, at, log, ops>>

ReloadAndServe(r) ==
  /\ rpc[r] = "stale"
  /\ lock = Free
  /\ value' = [value EXCEPT ![r] = current]
  /\ at' = [at EXCEPT ![r] = Len(ops)]
  /\ tag' = [tag EXCEPT ![r] = seen[r]]
  /\ rpc' = [rpc EXCEPT ![r] = "idle"]
  /\ UNCHANGED <<backend, serving, sharedVars, writerVars, seen, log, ops>>
------------------------------------------------------------------------------
WriterStep(w) ==
  \/ \E op \in Ops : UpdateBegin(w, op)
  \/ UpdateStore(w)
  \/ UpdateBump(w)
  \/ UpdateUnlock(w)

ReaderStep(r) ==
  \/ CachedNewVersion(r)
  \/ CachedNewLoad(r)
  \/ UbpfEngineLoad(r)
  \/ UbpfEngineVersion(r)
  \/ X4cEngineNew(r)
  \/ GetVersion(r)
  \/ ServeCached(r)
  \/ ReloadAndServe(r)

Next ==
  \/ \E w \in Writers : WriterStep(w)
  \/ \E r \in Readers : ReaderStep(r)
  \/ StartServing

Spec == Init /\ [][Next]_vars

(* A control thread finishes the update it began; shards keep looking up   *)
(* as long as frames arrive.  Nobody is obliged to begin an update.        *)
Fairness ==
  /\ \A w \in Writers : WF_vars(UpdateStore(w) \/ UpdateBump(w) \/ UpdateUnlock(w))
  /\ \A r \in Readers : WF_vars(ReaderStep(r))
  /\ WF_vars(StartServing)

FairSpec == Spec /\ Fairness
------------------------------------------------------------------------------
(* Properties.                                                             *)
RPcs == {"unborn", "new_load", "new_version", "idle", "hit", "stale"}
WPcs == {"idle", "built", "stored", "bumped"}

(* Every variable holds what its declaration says (Shared, Cached,         *)
(* UbpfEngine, X4cEngine), and the mutex has a writer or nobody.           *)
TypeOK ==
  /\ backend \in Backends
  /\ serving \in BOOLEAN
  /\ lock \in Writers \cup {Free}
  /\ current \in Values
  /\ version \in 0 .. MaxUpdates
  /\ wpc \in [Writers -> WPcs]
  /\ wop \in [Writers -> Ops]
  /\ next \in [Writers -> Values]
  /\ rpc \in [Readers -> RPcs]
  /\ value \in [Readers -> Values]
  /\ tag \in [Readers -> Nat \cup {NeverSynced}]
  /\ seen \in [Readers -> Nat]
  /\ log \in Seq(Values)
  /\ ops \in Seq(Ops)
  /\ at \in [Readers -> Nat]

(* No control operation is lost or applied to anything but the table the   *)
(* operation before it produced: Shared::update reads, computes and stores *)
(* under one hold of the mutex.                                            *)
NoLostUpdate ==
  /\ Len(log) = Len(ops) + 1
  /\ current = log[Len(log)]
  /\ \A i \in 1 .. Len(ops) : log[i + 1] = Apply(ops[i], log[i])

(* An engine's table is one the history contained and includes at least    *)
(* the updates its version tag claims.  If it were ever behind its tag,    *)
(* Cached::get would go on serving it until the next update.               *)
CacheNotBehindTag ==
  \A r \in Readers :
    /\ at[r] <= Len(ops)
    /\ value[r] = log[at[r] + 1]
    /\ Minted(r) => tag[r] <= at[r]

(* What ties the parts together (the inductive invariant's other half).    *)
(* The mutex has at most one writer inside, which alone is past `idle`;    *)
(* the version lags the stored updates by the one not yet bumped.          *)
MutexInv ==
  /\ \A w \in Writers : wpc[w] # "idle" <=> lock = w
  /\ \A w \in Writers : wpc[w] = "built" =>
       /\ next[w] = Apply(wop[w], current)
       /\ Len(ops) < MaxUpdates
  /\ \A w \in Writers : wpc[w] = "stored" => version = Len(ops) - 1
  /\ (\A w \in Writers : wpc[w] # "stored") => version = Len(ops)
  /\ Len(ops) <= MaxUpdates

(* What an engine has read is no newer than what was published, and a      *)
(* lookup that found its tag current has a table at least that new.  While *)
(* a ubpf engine is between its two readings nothing can be written.       *)
ReaderInv ==
  /\ serving /\ backend \notin HotMint => \A r \in Readers : Minted(r)
  /\ \A r \in Readers :
       /\ seen[r] <= version
       /\ rpc[r] = "unborn" => at[r] = 0
       /\ rpc[r] = "hit" => seen[r] = tag[r]
       /\ rpc[r] = "new_version" =>
            backend = "ubpf" /\ lock = Free /\ at[r] = Len(ops)

IInv == TypeOK /\ NoLostUpdate /\ CacheNotBehindTag /\ MutexInv /\ ReaderInv

Register == INSTANCE TableRegister WITH
  history <- log,
  completed <- version,
  joined <- {r \in Readers : Minted(r)},
  floor <- [r \in Readers |-> IF rpc[r] \in {"hit", "stale"} THEN seen[r] ELSE -1],
  view <- [r \in Readers |-> IF Minted(r) THEN at[r] ELSE 0]

(* The versioned caches implement the abstract register: Shared::update    *)
(* and Cached::get give every lookup a table that includes each operation  *)
(* completed before the lookup began, and never an older one than before.  *)
RegisterSpec == Register!Spec

(* Once updates stop, every shard that goes on looking up ends up serving  *)
(* the final table (the comment on Cached::new: "which the next `get`      *)
(* repairs").                                                              *)
ShardsConverge ==
  <>[](\A r \in Readers : value[r] = current)
==============================================================================
