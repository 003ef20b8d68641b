----------------------------- MODULE X4cJournal -----------------------------
(***************************************************************************)
(* The x4c backend's tables (up4-x4c's pipeline.rs).  A generated pipeline *)
(* cannot be shared, so what is published is a journal of operations, and  *)
(* every shard's engine replays it into a pipeline of its own.  When the   *)
(* journal has grown past twice the live entries it is rewritten as one    *)
(* Add per entry and its generation is bumped, which tells an engine that  *)
(* its position in the journal means nothing any more.                     *)
(*                                                                         *)
(* Publication itself is module TablePublish; here an update is its two    *)
(* visible steps, storing the journal and bumping the version, and a load  *)
(* waits while an update is between them (the mutex of Shared).            *)
(*                                                                         *)
(* Keys and actions are model values.  The live entries are a set: their   *)
(* order in the Vec decides only the order compaction and table_clear log  *)
(* them in, and any order is allowed here.                                 *)
(***************************************************************************)
EXTENDS Integers, Sequences, FiniteSets, Functions

CONSTANTS
  Readers,    \* the shards' engines, one each
  Tables,     \* Desc::schemas
  Keys,       \* keys of a table
  Actions,    \* an action with its parameters
  Slack,      \* how far the journal may outgrow twice the live set (16)
  MaxUpdates  \* bound on the number of updates

Miss == "miss"      \* no entry: the table's default action

ASSUME JournalAssumption ==
  /\ Slack \in Nat /\ MaxUpdates \in Nat
  /\ Miss \notin Actions

Ids == Tables \X Keys
Entries == [id : Ids, action : Actions]
Op == [kind : {"add", "remove"}, id : Ids, action : Actions \cup {Miss}]

Add(e) == [kind |-> "add", id |-> e.id, action |-> e.action]
Remove(id) == [kind |-> "remove", id |-> id, action |-> Miss]

(* u64::MAX: a version no update ever publishes.                           *)
NeverSynced == -1

VARIABLES
  journal,     \* the published Journal; `after` is history, see Fresh
  version,     \* Shared.version
  busy,        \* an update has stored its journal and not bumped the version
  pc,          \* where each engine is in process
  pipe,        \* the entries of its private pipeline
  generation,  \* X4cEngine.generation
  applied,     \* X4cEngine.applied, and the position of sync's loop
  tag,         \* X4cEngine.version
  seen,        \* the version sync read
  snap,        \* the journal sync loaded
  log,         \* history: log[i + 1] is the table after i updates
  upto,        \* history: how many updates snap[r] includes
  view         \* history: how many updates the table r served last includes

sharedVars == <<journal, version, busy, log>>
engineVars == <<pipe, generation, applied, tag, snap, upto>>
vars == <<sharedVars, pc, engineVars, seen, view>>

(* Journal::default.  after[i] is what replaying the first i operations    *)
(* from an empty pipeline gives: a history, which no action looks at.      *)
Fresh == [generation |-> 0, ops |-> <<>>, live |-> {}, after |-> [i \in {0} |-> {}]]

(* What a table is to its user: one action, or none, for each key.         *)
Perform(req, t) ==
  [id \in Ids |->
     IF req.what = "add" /\ req.id = id THEN req.action
     ELSE IF req.what = "remove" /\ req.id = id THEN Miss
     ELSE IF req.what = "clear" /\ req.table = id[1] THEN Miss
     ELSE t[id]]

Requests ==
  [what : {"add"}, id : Ids, action : Actions]
    \cup [what : {"remove"}, id : Ids] \cup [what : {"clear"}, table : Tables]

Empty == [id \in Ids |-> Miss]

Init ==
  /\ journal = Fresh /\ version = 0 /\ busy = FALSE
  /\ log = <<Empty>>
  /\ pc = [r \in Readers |-> "unborn"]
  /\ pipe = [r \in Readers |-> {}]
  /\ generation = [r \in Readers |-> 0]
  /\ applied = [r \in Readers |-> 0]
  /\ tag = [r \in Readers |-> NeverSynced]
  /\ seen = [r \in Readers |-> 0]
  /\ snap = [r \in Readers |-> Fresh]
  /\ upto = [r \in Readers |-> 0]
  /\ view = [r \in Readers |-> 0]
------------------------------------------------------------------------------
(* An Add does not remove first; the second for a key then leaves both     *)
(* entries, as the comment at X4cEngine::apply says.                       *)
MutantApply(entries, op) ==
  IF op.kind = "add"
  THEN entries \cup {[id |-> op.id, action |-> op.action]}
  ELSE {e \in entries : e.id # op.id}

(* apply: an Add removes first.                                            *)
Apply(entries, op) ==
  LET kept == {e \in entries : e.id # op.id}
  IN  IF op.kind = "add" THEN kept \cup {[id |-> op.id, action |-> op.action]} ELSE kept

(* The live set: find, then replace or push; or remove.                    *)
Uninstall(live, id) == {e \in live : e.id # id}
Install(live, e) == Uninstall(live, e.id) \cup {e}

(* A journal with operations appended; states[i] is the live set once i of *)
(* them have been performed.                                               *)
Logged(j, ops, states) ==
  [ generation |-> j.generation,
    ops |-> j.ops \o ops,
    live |-> states[Len(ops)],
    after |-> [i \in 0 .. Len(j.ops) + Len(ops) |->
                 IF i <= Len(j.ops) THEN j.after[i] ELSE states[i - Len(j.ops)]] ]

LoggedOne(j, op, live) == Logged(j, <<op>>, [i \in 0 .. 1 |-> IF i = 0 THEN j.live ELSE live])

(* The entries of a set, one after another.                                *)
Orders(S) == Bijection(1 .. Cardinality(S), S)

Rewritten(j, g, order) ==
  [ generation |-> g,
    ops |-> [i \in DOMAIN order |-> Add(order[i])],
    live |-> j.live,
    after |-> [i \in 0 .. Cardinality(j.live) |-> {order[k] : k \in 1 .. i}] ]

Short(j) == Len(j.ops) <= 2 * Cardinality(j.live) + Slack

(* Never rewrites the log.                                                 *)
MutantCompactNever(j) == {j}

(* Rewrites the log and keeps its generation.                              *)
MutantCompact(j) ==
  IF Short(j) THEN {j} ELSE {Rewritten(j, j.generation, o) : o \in Orders(j.live)}

(* Journal::compact.                                                       *)
Compact(j) ==
  IF Short(j) THEN {j} ELSE {Rewritten(j, j.generation + 1, o) : o \in Orders(j.live)}
------------------------------------------------------------------------------
(* The control plane.  A request whose table, key or action the schema     *)
(* does not allow, and every table_set_default, is refused and changes     *)
(* nothing.                                                                *)
Publish(req, j) ==
  /\ ~busy /\ Len(log) <= MaxUpdates
  /\ journal' \in Compact(j)
  /\ busy' = TRUE
  /\ log' = Append(log, Perform(req, log[Len(log)]))
  /\ UNCHANGED <<version, pc, engineVars, seen, view>>

TableAdd(id, a) ==
  LET e == [id |-> id, action |-> a]
  IN  Publish([what |-> "add", id |-> id, action |-> a],
              LoggedOne(journal, Add(e), Install(journal.live, e)))

TableRemove(id) ==
  Publish([what |-> "remove", id |-> id],
          LoggedOne(journal, Remove(id), Uninstall(journal.live, id)))

Victims(t) == {e \in journal.live : e.id[1] = t}

TableClear(t) ==
  \E v \in Orders(Victims(t)) :
    Publish([what |-> "clear", table |-> t],
            Logged(journal, [i \in DOMAIN v |-> Remove(v[i].id)],
                   [i \in 0 .. Cardinality(Victims(t)) |->
                      journal.live \ {v[k] : k \in 1 .. i}]))

(* The version is bumped before the mutex is released.                     *)
Bump ==
  /\ busy
  /\ busy' = FALSE
  /\ version' = version + 1
  /\ UNCHANGED <<journal, log, pc, engineVars, seen, view>>
------------------------------------------------------------------------------
(* X4cPipeline::engine.                                                    *)
EngineNew(r) ==
  /\ pc[r] = "unborn"
  /\ pc' = [pc EXCEPT ![r] = "idle"]
  /\ UNCHANGED <<sharedVars, engineVars, seen, view>>

(* X4cEngine::sync, when a frame arrives.                                  *)
SyncVersion(r) ==
  /\ pc[r] = "idle"
  /\ seen' = [seen EXCEPT ![r] = version]
  /\ pc' = [pc EXCEPT ![r] = IF version = tag[r] THEN "run" ELSE "load"]
  /\ UNCHANGED <<sharedVars, engineVars, view>>

(* A new generation starts over on a new pipeline.                         *)
SyncLoad(r) ==
  /\ pc[r] = "load" /\ ~busy
  /\ snap' = [snap EXCEPT ![r] = journal]
  /\ upto' = [upto EXCEPT ![r] = Len(log) - 1]
  /\ IF generation[r] # journal.generation
     THEN /\ pipe' = [pipe EXCEPT ![r] = {}]
          /\ generation' = [generation EXCEPT ![r] = journal.generation]
          /\ applied' = [applied EXCEPT ![r] = 0]
     ELSE UNCHANGED <<pipe, generation, applied>>
  /\ pc' = [pc EXCEPT ![r] = "replay"]
  /\ UNCHANGED <<sharedVars, tag, seen, view>>

(* The loop over j.ops[applied..], on a journal nobody can change.         *)
ReplayOp(r) ==
  /\ pc[r] = "replay" /\ applied[r] < Len(snap[r].ops)
  /\ pipe' = [pipe EXCEPT ![r] = Apply(@, snap[r].ops[applied[r] + 1])]
  /\ applied' = [applied EXCEPT ![r] = @ + 1]
  /\ UNCHANGED <<sharedVars, pc, generation, tag, seen, snap, upto, view>>

(* Tags the pipeline with the version as it is now.                        *)
MutantSyncDone(r) ==
  /\ pc[r] = "replay" /\ applied[r] = Len(snap[r].ops)
  /\ tag' = [tag EXCEPT ![r] = version]
  /\ pc' = [pc EXCEPT ![r] = "run"]
  /\ UNCHANGED <<sharedVars, pipe, generation, applied, seen, snap, upto, view>>

SyncDone(r) ==
  /\ pc[r] = "replay" /\ applied[r] = Len(snap[r].ops)
  /\ tag' = [tag EXCEPT ![r] = seen[r]]
  /\ pc' = [pc EXCEPT ![r] = "run"]
  /\ UNCHANGED <<sharedVars, pipe, generation, applied, seen, snap, upto, view>>

(* The frame is processed on the private pipeline.                         *)
Run(r) ==
  /\ pc[r] = "run"
  /\ view' = [view EXCEPT ![r] = upto[r]]
  /\ pc' = [pc EXCEPT ![r] = "idle"]
  /\ UNCHANGED <<sharedVars, engineVars, seen>>

ControlStep ==
  \/ \E id \in Ids : TableRemove(id) \/ \E a \in Actions : TableAdd(id, a)
  \/ \E t \in Tables : TableClear(t)
  \/ Bump

EngineStep(r) ==
  \/ EngineNew(r) \/ SyncVersion(r) \/ SyncLoad(r)
  \/ ReplayOp(r) \/ SyncDone(r) \/ Run(r)

Next == ControlStep \/ \E r \in Readers : EngineStep(r)

Spec == Init /\ [][Next]_vars
------------------------------------------------------------------------------
(* Properties.                                                             *)
Pcs == {"unborn", "idle", "load", "replay", "run"}

JournalOK(j) ==
  /\ j = [generation |-> j.generation, ops |-> j.ops, live |-> j.live, after |-> j.after]
  /\ j.generation \in Nat
  /\ j.ops \in Seq(Op)
  /\ j.live \in SUBSET Entries
  /\ j.after \in [0 .. Len(j.ops) -> SUBSET Entries]

(* Each piece of state is of its kind, and "a long-running switch with     *)
(* route churn keeps a bounded log" (pipeline.rs): the journal is never    *)
(* longer than twice the live entries plus the slack.                      *)
TypeOK ==
  /\ JournalOK(journal) /\ Short(journal)
  /\ version \in Nat /\ busy \in BOOLEAN
  /\ log \in Seq([Ids -> Actions \cup {Miss}]) /\ Len(log) \in 1 .. MaxUpdates + 1
  /\ pc \in [Readers -> Pcs]
  /\ pipe \in [Readers -> SUBSET Entries]
  /\ generation \in [Readers -> Nat]
  /\ applied \in [Readers -> Nat]
  /\ tag \in [Readers -> Nat \cup {NeverSynced}]
  /\ seen \in [Readers -> Nat]
  /\ DOMAIN snap = Readers /\ \A r \in Readers : JournalOK(snap[r])
  /\ upto \in [Readers -> Nat]
  /\ view \in [Readers -> Nat]

(* Wherever an engine stands when it loads the journal, its position is    *)
(* inside it: sync's slice j.ops[applied..] would otherwise panic, which   *)
(* aborts the process.                                                     *)
SliceInBounds ==
  \A r \in Readers :
    pc[r] = "load" /\ generation[r] = journal.generation =>
      applied[r] <= Len(journal.ops)

Entered(t) == {e \in Entries : t[e.id] = e.action}

(* "all shards converge on identical table state" (pipeline.rs): however   *)
(* often the log was rewritten since its last frame, a frame finds in its  *)
(* shard's pipeline exactly the entries that the updates published with    *)
(* the loaded journal leave, and no second entry for a key; table_dump     *)
(* lists the same.                                                         *)
ReplayIsExact ==
  /\ journal.live = Entered(log[Len(log)])
  /\ \A r \in Readers : pc[r] = "run" => pipe[r] = Entered(log[upto[r] + 1])

(* Why: `after` really is the fold of the log, and the live set its end;   *)
(* an engine of the current generation stands somewhere on it, and one     *)
(* that is replaying an older journal stands on that one's fold.           *)
Unrolls(j) ==
  /\ j.after[0] = {}
  /\ j.after[Len(j.ops)] = j.live
  /\ \A i \in 1 .. Len(j.ops) : j.after[i] = Apply(j.after[i - 1], j.ops[i])

JournalInv ==
  /\ Unrolls(journal)
  /\ IsFiniteSet(journal.live)
  /\ busy => version = Len(log) - 2
  /\ ~busy => version = Len(log) - 1

VersionInv(r) ==
  /\ seen[r] <= version
  /\ tag[r] <= upto[r]
  /\ view[r] <= upto[r]
  /\ upto[r] < Len(log)
  /\ pc[r] \in {"replay", "run"} => seen[r] <= upto[r]
  /\ pc[r] = "unborn" => view[r] = 0

Position(r) ==
  /\ generation[r] <= journal.generation
  /\ generation[r] = journal.generation =>
       /\ applied[r] <= Len(journal.ops)
       /\ pipe[r] = journal.after[applied[r]]

Replaying(r) ==
  /\ Unrolls(snap[r])
  /\ snap[r].generation = generation[r]
  /\ snap[r].live = Entered(log[upto[r] + 1])
  /\ applied[r] <= Len(snap[r].ops)
  /\ pipe[r] = snap[r].after[applied[r]]
  /\ generation[r] = journal.generation =>
       /\ Len(snap[r].ops) <= Len(journal.ops)
       /\ \A i \in 0 .. Len(snap[r].ops) : snap[r].after[i] = journal.after[i]

EngineInv ==
  \A r \in Readers :
    /\ VersionInv(r)
    /\ Position(r)
    /\ pc[r] = "replay" => Replaying(r)
    /\ pc[r] # "replay" /\ tag[r] # NeverSynced => pipe[r] = Entered(log[upto[r] + 1])
    /\ pc[r] = "run" => tag[r] # NeverSynced

IInv == TypeOK /\ SliceInBounds /\ ReplayIsExact /\ JournalInv /\ EngineInv

Register == INSTANCE TableRegister WITH
  Ops <- Requests,
  Apply <- Perform,
  InitVal <- Empty,
  history <- log,
  completed <- version,
  joined <- {r \in Readers : pc[r] # "unborn"},
  floor <- [r \in Readers |->
              IF pc[r] \in {"load", "replay", "run"} THEN seen[r] ELSE -1]

(* Journal, generations and private pipelines implement the same abstract  *)
(* register as the shared tables of the other backends: every frame is     *)
(* served a table that includes each update completed before it arrived,   *)
(* and never an older one than the frame before.                           *)
RegisterSpec == Register!Spec
==============================================================================
