---------------------------- MODULE Forwarding ----------------------------
(***************************************************************************)
(* One up4d node from its command line to its verdicts: the configuration  *)
(* is validated, a program and a backend are selected and built, the       *)
(* startup batch (--tables) is installed, and then the control thread      *)
(* answers table requests while a shard's engine processes frames.  The    *)
(* modules it composes hold the operations; this one holds the order in    *)
(* which the daemon performs them (run and load_tables of up4d's main.rs,  *)
(* handle and apply_entries of up4-ctl's server.rs).                       *)
(*                                                                         *)
(* Every publication of a table is one step and frames may come between    *)
(* any two, so between any two entries of a batch.  That an engine         *)
(* notices a publication at its next frame is the subject of TablePublish  *)
(* and X4cJournal.                                                         *)
(***************************************************************************)
EXTENDS UbpfBackend, NodeConfig

CONSTANTS
  RawConfigs,         \* what up4.toml may hold
  CliBackends,        \* --backend: <<>> or <<name>>
  Batches(_),         \* a program's batches of entries, sequences of EntrySpec
  TableNames,         \* the table names a request may use
  KeyTexts(_),        \* the texts given as keys for a program
  DefaultCalls(_),    \* [action, params] given to set-default
  Arrivals(_),        \* the frames that may arrive
  MaxEntries          \* bound on the entries installed at a time

ASSUME BoundAssumption == MaxEntries \in Nat

(* What deserialising RawConfig guarantees: integers, and lists of them.   *)
ASSUME RawAssumption ==
  \A raw \in RawConfigs :
    /\ raw.threads \in Int
    /\ raw.pin_cores \in Seq(Seq(Int))
    /\ raw.vports \in Seq([id : Int, peer : STRING])

(* TypedKey::parse reads a prefix length, when there is one, as a u8, and  *)
(* the parameters given by name are a map.                                 *)
ASSUME TextAssumption ==
  \A p \in Programs :
    /\ \A b \in Batches(p) : /\ b \in Seq(Range(b))
                             /\ \A e \in Range(b) : e.key.len \in Seq(Nat)
                             /\ \A e \in Range(b) : DistinctNames(e.params)
    /\ \A t \in KeyTexts(p) : t.len \in Seq(Nat)
    /\ \A c \in DefaultCalls(p) : DistinctNames(c.params)

(* What arrives is bytes.                                                  *)
ASSUME FrameAssumption == \A p \in Programs : Arrivals(p) \subseteq InnerFrames

VARIABLES
  phase,         \* "down", "loading" the startup batch, or "up"
  sel,           \* the Selection, [program, backend]
  radix,         \* X4cPipeline.radix
  table,         \* the backend's table
  scratch,       \* X4cEngine.scratch_out holds an earlier frame
  batch,         \* the batch being applied, <<>> or <<[given, done]>>
  last,          \* the last event and its outcome
  asked,         \* history: the entries the operator's requests add up to
  askedDefault,  \* history: the miss action likewise
  aliased        \* history: since the last clear a key had host bits set

vars == <<phase, sel, radix, table, scratch, batch, last, asked, askedDefault, aliased>>
nodeVars == <<phase, sel, radix>>
askedVars == <<asked, askedDefault, aliased>>

NoSel == [program |-> "none", backend |-> "none"]

Init ==
  /\ phase = "down"
  /\ sel = NoSel
  /\ radix = 0
  /\ table = NoEntries
  /\ scratch = FALSE
  /\ batch = <<>>
  /\ last = [kind |-> "none"]
  /\ asked = NoEntries
  /\ askedDefault = [action |-> "none", params |-> <<>>]
  /\ aliased = FALSE

---------------------------------------------------------------------------
(* What the history variables say a key and a call mean.                   *)
Canon(key) == [n |-> Mask(key.value.n, key.len), len |-> key.len]
Numbers(vals) == [i \in DOMAIN vals |-> vals[i].n]
Call(name, vals) == [action |-> name, params |-> Numbers(vals)]
HasHostBits(key) == Canon(key).n # key.value.n

---------------------------------------------------------------------------
(* Startup: run of main.rs, up to load_tables.                             *)

(* up4_catalog::build.                                                     *)
Build(s) ==
  CASE s.backend = "native" -> NativeNew(s.program)
    [] s.backend = "x4c" -> X4cNew
    [] OTHER -> UbpfPipelineNew(s.program)

(* A fatal error ends the process; what it held is gone.                   *)
Exit(event) ==
  /\ phase' = "down"
  /\ sel' = NoSel
  /\ radix' = 0
  /\ table' = NoEntries
  /\ scratch' = FALSE
  /\ batch' = <<>>
  /\ asked' = NoEntries
  /\ askedDefault' = [action |-> "none", params |-> <<>>]
  /\ aliased' = FALSE
  /\ last' = event

Start(raw, backend, file) ==
  LET config == Validate(raw, Registry)
      s == Selection(raw.pipeline, backend)
  IN /\ phase = "down"
     /\ IF ~config.ok
          THEN Exit([kind |-> "rejected", raw |-> raw, errs |-> config.err])
        ELSE IF ~s.ok
          THEN Exit([kind |-> "unselected", err |-> s.err])
        ELSE
          /\ phase' = "loading"
          /\ sel' = s.val
          /\ radix' = Radix({raw.vports[i].id : i \in DOMAIN raw.vports})
          /\ table' = Build(s.val)
          /\ batch' = <<[given |-> file, done |-> 0]>>
          /\ askedDefault' = [action |-> DefaultActionOf(s.val.program), params |-> <<>>]
          /\ last' = [kind |-> "configured", raw |-> raw, vports |-> config.val.vports]
          /\ UNCHANGED <<scratch, asked, aliased>>

Stop ==
  /\ phase = "up"
  /\ batch = <<>>
  /\ Exit([kind |-> "none"])

---------------------------------------------------------------------------
(* TableOps of the selected backend.                                       *)

TableAdd(name, key, action, vals) ==
  CASE sel.backend = "native" -> NativeAdd(sel.program, table, name, key, action, vals)
    [] sel.backend = "x4c" -> X4cAdd(sel.program, table, name, key, action, vals)
    [] OTHER -> UbpfAdd(sel.program, table, name, key, action, vals)

TableRemove(name, key) ==
  CASE sel.backend = "native" -> NativeRemove(sel.program, table, name, key)
    [] sel.backend = "x4c" -> X4cRemove(sel.program, table, name, key)
    [] OTHER -> UbpfTableRemove(sel.program, table, name, key)

TableSetDefault(name, action, vals) ==
  CASE sel.backend = "native" -> NativeSetDefault(sel.program, table, name, action, vals)
    [] sel.backend = "x4c" -> X4cSetDefault(sel.program, table, name)
    [] OTHER -> UbpfTableSetDefault(sel.program, table, name, action, vals)

TableClear(name) ==
  CASE sel.backend = "native" -> NativeClear(sel.program, table, name)
    [] sel.backend = "x4c" -> X4cClear(sel.program, table, name)
    [] OTHER -> UbpfTableClear(sel.program, table, name)

TableDump ==
  CASE sel.backend = "native" /\ sel.program = "l2fwd" -> L2Dump(table)
    [] sel.backend = "native" /\ sel.program = "l3fwd" -> L3Dump(table)
    [] sel.backend = "x4c" -> X4cDump(table)
    [] OTHER -> UbpfDump(sel.program, table)

(* table_default; the compiled backends give no parameters.                *)
TableDefault ==
  CASE sel.backend = "native" ->
         LET d == Describe(sel.program, "*", table.default_action)
         IN [action |-> d.action, params |-> d.params]
    [] sel.backend = "x4c" -> [action |-> DefaultActionOf(sel.program), params |-> <<>>]
    [] OTHER -> [action |-> UbpfDefault(sel.program, table), params |-> <<>>]

---------------------------------------------------------------------------
(* handle: one reply per request.  A TableAdd request and the startup      *)
(* batch both go through apply_entries, one step per entry.                *)

Idle == phase = "up" /\ batch = <<>>

Reply(op, res, info) == last' = [kind |-> "reply", op |-> op, res |-> res, info |-> info]

BeginAdd(entries) ==
  /\ Idle
  /\ Cardinality(DOMAIN asked) + Len(entries) <= MaxEntries
  /\ batch' = <<[given |-> entries, done |-> 0]>>
  /\ last' = [kind |-> "none"]
  /\ UNCHANGED <<nodeVars, table, scratch, askedVars>>

(* The loop body of apply_entries: refine, then table_add.                 *)
Refined(spec) ==
  LET k == ParseKeyFor(sel.program, spec.table, spec.key)
      p == TypedParams(SchemaOf(sel.program), spec.action, spec.params)
  IN IF ~k.ok THEN k ELSE IF ~p.ok THEN p ELSE Ok([key |-> k.val, vals |-> p.val])

AddResult(spec) ==
  LET r == Refined(spec) IN
  IF ~r.ok THEN Result(r, table)
  ELSE TableAdd(spec.table, r.val.key, spec.action, r.val.vals)

Pending == batch # <<>> /\ batch[1].done < Len(batch[1].given)

ApplyEntry ==
  /\ Pending
  /\ LET b == batch[1]
         spec == b.given[b.done + 1]
         r == AddResult(spec)
         key == Refined(spec).val.key
     IN /\ r.res.ok
        /\ table' = r.table
        /\ batch' = <<[b EXCEPT !.done = @ + 1]>>
        /\ asked' = Put(asked, Canon(key), Call(spec.action, Refined(spec).val.vals))
        /\ aliased' = (aliased \/ HasHostBits(key))
        /\ last' = [kind |-> "none"]
        /\ UNCHANGED <<nodeVars, scratch, askedDefault>>

(* The first refusal ends the batch and says how many took effect; at      *)
(* startup it is fatal.                                                    *)
BatchReply(b, res) ==
  [kind |-> "reply", op |-> "add", res |-> res, info |-> b]

(* A bug: a refused entry is skipped and the batch goes on.                *)
MutantRefuseEntry ==
  /\ Pending
  /\ ~AddResult(batch[1].given[batch[1].done + 1]).res.ok
  /\ batch' = <<[batch[1] EXCEPT !.done = @ + 1]>>
  /\ last' = [kind |-> "none"]
  /\ UNCHANGED <<nodeVars, table, scratch, askedVars>>

RefuseEntry ==
  /\ Pending
  /\ LET b == batch[1]
         r == AddResult(b.given[b.done + 1])
     IN /\ ~r.res.ok
        /\ IF phase = "loading"
             THEN Exit([kind |-> "unloaded", err |-> r.res.err])
             ELSE /\ batch' = <<>>
                  /\ last' = BatchReply(b, r.res)
                  /\ UNCHANGED <<nodeVars, table, scratch, askedVars>>

FinishBatch ==
  /\ batch # <<>>
  /\ ~Pending
  /\ phase' = "up"
  /\ batch' = <<>>
  /\ last' = BatchReply(batch[1], Ok(Len(batch[1].given)))
  /\ UNCHANGED <<sel, radix, table, scratch, askedVars>>

TableDel(name, text) ==
  LET k == ParseKeyFor(sel.program, name, text)
      r == IF ~k.ok THEN Result(k, table) ELSE TableRemove(name, k.val)
      had == k.ok /\ Canon(k.val) \in DOMAIN asked
  IN /\ Idle
     /\ table' = r.table
     /\ asked' = IF k.ok THEN Without(asked, Canon(k.val)) ELSE asked
     /\ aliased' = (aliased \/ (k.ok /\ HasHostBits(k.val)))
     /\ Reply("del", r.res, [name |-> name, text |-> text, had |-> had])
     /\ UNCHANGED <<nodeVars, scratch, batch, askedDefault>>

SetDefault(name, call) ==
  LET s == FindSchema(sel.program, name)
      p == TypedParams(SchemaOf(sel.program), call.action, call.params)
      r == IF ~s.ok THEN Result(s, table)
           ELSE IF ~p.ok THEN Result(p, table)
           ELSE TableSetDefault(name, call.action, p.val)
  IN /\ Idle
     /\ table' = r.table
     /\ askedDefault' = IF r.res.ok THEN Call(call.action, p.val) ELSE askedDefault
     /\ Reply("set_default", r.res, [name |-> name, call |-> call])
     /\ UNCHANGED <<nodeVars, scratch, batch, asked, aliased>>

Clear(name) ==
  LET r == TableClear(name) IN
  /\ Idle
  /\ table' = r.table
  /\ asked' = IF r.res.ok THEN NoEntries ELSE asked
  /\ aliased' = (aliased /\ ~r.res.ok)
  /\ Reply("clear", r.res, [name |-> name, count |-> Cardinality(DOMAIN asked),
                            exact |-> ~aliased])
  /\ UNCHANGED <<nodeVars, scratch, batch, askedDefault>>

Dump(name) ==
  LET s == FindSchema(sel.program, name) IN
  /\ Idle
  /\ Reply("dump", IF s.ok THEN Ok([entries |-> TableDump, default |-> TableDefault]) ELSE s,
           [name |-> name])
  /\ UNCHANGED <<nodeVars, table, scratch, batch, askedVars>>

---------------------------------------------------------------------------
(* The shard hands a frame to its engine.  build wraps the compiled        *)
(* backends in the program's envelope; the native renderings fuse it.      *)

Receive(f) ==
  /\ phase = "up"
  /\ \E matches \in (IF sel.backend = "x4c" THEN Matches(sel.program, table.pipe, f)
                     ELSE {<<>>}) :
       LET x == X4cRun(sel.program, radix, matches, scratch, f)
           admitted == Admits(Envelope(sel.program).admit, f)
           out == CASE sel.backend = "native" -> NativeProcess(sel.program, table, f)
                    [] sel.backend # "native" /\ ~admitted -> Out(Drop, f)
                    [] sel.backend = "x4c" /\ admitted -> Departing(sel.program, x.out)
                    [] OTHER -> Departing(sel.program, UbpfProcess(sel.program, table, f))
       IN /\ scratch' = IF sel.backend = "x4c" /\ admitted THEN x.scratch ELSE scratch
          /\ last' = [kind |-> "frame", in |-> f, out |-> out]
  /\ UNCHANGED <<nodeVars, table, batch, askedVars>>

---------------------------------------------------------------------------
Request ==
  \/ \E entries \in Batches(sel.program) : BeginAdd(entries)
  \/ \E name \in TableNames, text \in KeyTexts(sel.program) : TableDel(name, text)
  \/ \E name \in TableNames, call \in DefaultCalls(sel.program) : SetDefault(name, call)
  \/ \E name \in TableNames : Clear(name) \/ Dump(name)

Next ==
  \/ \E raw \in RawConfigs, b \in CliBackends :
       \E file \in Batches(raw.pipeline) : Start(raw, b, file)
  \/ Stop
  \/ Request
  \/ ApplyEntry
  \/ RefuseEntry
  \/ FinishBatch
  \/ \E f \in Arrivals(sel.program) : Receive(f)

Spec == Init /\ [][Next]_vars

---------------------------------------------------------------------------
(* The table a backend holds, whatever its representation, as a set of     *)
(* [key, action, params].                                                  *)

Entry(n, len, action, params) ==
  [key |-> [n |-> n, len |-> len], action |-> action, params |-> params]

NativeEntry(n, len, a) ==
  Entry(n, len, a.name, Describe(sel.program, "", a).params)

X4cParams(e) ==
  [i \in 1 .. Len(e.parameter_data) \div 2 |->
     FromLe(ExtractParameter(e.parameter_data, 2 * (i - 1)))]

Installed ==
  CASE sel.backend = "native" /\ sel.program = "l2fwd" ->
         {NativeEntry(n, Width, table.entries[n]) : n \in DOMAIN table.entries}
    [] sel.backend = "native" /\ sel.program = "l3fwd" ->
         {NativeEntry(e.base, e.len, e.action) : e \in LpmEntries(table)}
    [] sel.backend = "x4c" ->
         {Entry(e.key.n, e.key.len, e.action_id, X4cParams(e)) : e \in table.pipe}
    [] sel.backend = "ubpf" ->
         {LET d == UbpfDescribe(Abi(sel.program), e)
          IN Entry(d.key.value.n, IF d.key.len = <<>> THEN Width ELSE d.key.len[1],
                   d.action, d.params) : e \in UbpfEntries(table.entries)}
    [] OTHER -> {}

AskedEntries == {Entry(k.n, k.len, asked[k].action, asked[k].params) : k \in DOMAIN asked}

(* The x4c backend keeps keys as typed, so once a key with host bits was   *)
(* used its entries are not those of the other backends (see the README).  *)
Diverged == sel.backend = "x4c" /\ aliased

---------------------------------------------------------------------------
(* The reference: what a request and a frame mean, from the operator's     *)
(* dictionary alone.                                                       *)

LegalKey(name, text) ==
  /\ name = SchemaOf(sel.program).name
  /\ text.value.form = Form(SchemaOf(sel.program).kind)
  /\ text.value.n \in Num
  /\ text.len # <<>> => sel.program = "l3fwd" /\ text.len[1] <= Width

LegalCall(call) ==
  LET sig == SchemaOf(sel.program).actions IN
  /\ call.action \in DOMAIN sig
  /\ ParamCount(call.params) = Len(sig[call.action])
  /\ \A i \in DOMAIN sig[call.action] :
       \E t \in GivenText(call.params, sig[call.action], i) :
         t.form = Form(sig[call.action][i].kind) /\ t.n \in Num

LegalEntry(spec) ==
  LegalKey(spec.table, spec.key) /\ LegalCall([action |-> spec.action, params |-> spec.params])

(* The action for a destination: the longest prefix asked for, or the      *)
(* default; an exact key is a prefix of full length.                       *)
Meaning(n) ==
  LET hits == {k \in DOMAIN asked : Mask(n, k.len) = k.n} IN
  IF hits = {} THEN askedDefault
  ELSE asked[CHOOSE k \in hits : \A h \in hits : h.len <= k.len]

(* A frame a router may route.                                             *)
Routable(f) ==
  /\ f.len >= 34 /\ f.ethertype = ETHERTYPE_IPV4 /\ f.version = 4
  /\ f.hl >= 20 /\ f.hl + 14 <= f.len /\ f.ttl > 0

Expected(f) ==
  LET m == Meaning(IF sel.program = "l2fwd" THEN f.dst ELSE f.ipdst) IN
  IF f.len < 14 \/ (sel.program = "l3fwd" /\ ~Routable(f)) THEN Out(Drop, f)
  ELSE CASE m.action = "drop" -> Out(Drop, f)
         [] m.action = "punt" -> Out(Punt, f)
         [] m.action = "broadcast" -> Out(Broadcast, f)
         [] m.action = "forward" /\ sel.program = "l2fwd" -> Out(Forward(m.params[1]), f)
         [] OTHER -> Out(Forward(m.params[1]),
                         ZeroInnerChecksums([f EXCEPT !.ttl = @ - 1, !.dst = m.params[2]]))

(* Port numbers the compiled backends read as verdicts of their own.       *)
Reserved(v) == v \in {Forward(X4C_PUNT_PORT), Forward(X4C_BROADCAST_PORT)}

---------------------------------------------------------------------------
(* Every variable has its type: the node is up only with a selection, a    *)
(* batch is under way only while loading or up, and the engine's verdict   *)
(* is one the harness knows.                                               *)
TypeOK ==
  /\ phase \in {"down", "loading", "up"}
  /\ sel \in [program : Programs, backend : Backends] \cup {NoSel}
  /\ (phase = "down") = (sel = NoSel)
  /\ radix \in Num
  /\ phase # "down" => radix >= 3
  /\ phase = "loading" => batch # <<>>
  /\ batch # <<>> => batch[1].done \in 0 .. Len(batch[1].given)
  /\ aliased \in BOOLEAN /\ scratch \in BOOLEAN
  /\ DOMAIN asked \subseteq [n : Num, len : 0 .. Width]
  /\ last.kind = "frame" => last.out.verdict \in Verdicts
  /\ last.kind = "reply" /\ ~last.res.ok => last.res.err \in TableErrors

(* The invariant written at LpmTable.groups (table.rs) and relied on by    *)
(* the ubpf Table's buckets: group lengths strictly decrease and no group  *)
(* is empty, so the first group that matches holds the longest prefix.     *)
GroupsOrdered ==
  /\ sel = [program |-> "l3fwd", backend |-> "native"] => Ordered(table.groups)
  /\ sel.backend = "ubpf" => Ordered(table.entries.buckets)

(* Whatever representation a backend keeps (hash maps, generated entry     *)
(* sets, byte images), it holds exactly the entries the operator's         *)
(* requests add up to; the x4c backend's pipelines hold exactly its live   *)
(* entries even when keys with host bits were used.                        *)
TableFaithful ==
  /\ ~Diverged => Installed = AskedEntries
  /\ sel.backend = "x4c" =>
       Installed = {LET e == table.live[i] IN
                    Entry(e.key.value.n, e.key.len, e.action, Numbers(e.params))
                      : i \in DOMAIN table.live}

(* The frames that SameFunction speaks of: those whose entry does not      *)
(* forward to a reserved port, on a node where no key was typed with host  *)
(* bits or the backend is not x4c (Interchangeable below is about the      *)
(* others), and that fit the ubpf packet buffer, as all frames of the      *)
(* fabric's inner MTU do.                                                  *)
Promised ==
  /\ last.kind = "frame"
  /\ ~Diverged
  /\ ~Reserved(Expected(last.in).verdict)
  /\ ~(sel.backend = "ubpf" /\ last.in.len > MTU)

(* The promise of up4_catalog::build: all three backends "end up computing *)
(* the same function" of the tables and the frame, verdict and bytes, even *)
(* for a frame that arrives in the middle of a batch.                      *)
SameFunction ==
  Promised => /\ last.out.verdict = Expected(last.in).verdict
              /\ last.out.frame = Expected(last.in).frame

(* A batch is refused at its first illegal entry and at no other, and then *)
(* all the entries before it are installed (server.rs: "atomic per entry,  *)
(* not per batch, so the error says how many took effect"); an accepted    *)
(* one has installed all of its entries.  Of two entries of a batch with   *)
(* one key the later is installed.                                         *)
BatchExact ==
  last.kind = "reply" /\ last.op = "add" =>
    LET g == last.info.given
        n == last.info.done
        key(i) == Canon(ParseKeyFor(sel.program, g[i].table, g[i].key).val)
        replaced(i) == \E j \in i + 1 .. n : key(j) = key(i)
    IN /\ \A i \in 1 .. n : LegalEntry(g[i])
       /\ last.res.ok <=> n = Len(g)
       /\ n < Len(g) => ~LegalEntry(g[n + 1])
       /\ ~Diverged => \A i \in 1 .. n :
            replaced(i) \/ \E e \in Installed : e.key = key(i) /\ e.action = g[i].action

(* What is accepted was legal, and every backend accepts a legal deletion  *)
(* of a key that is there, in whatever spelling, a legal default (but for  *)
(* x4c, whose tables have no setter: docs/deviations.md D12) and a clear,  *)
(* which says how many entries there were.                                 *)
AnswersSame ==
  last.kind = "reply" =>
    CASE last.op = "del" ->
           LET legal == LegalKey(last.info.name, last.info.text) IN
           /\ last.res.ok => legal
           /\ legal /\ last.info.had => last.res.ok
      [] last.op = "set_default" ->
           LET legal == /\ last.info.name = SchemaOf(sel.program).name
                        /\ LegalCall(last.info.call)
           IN /\ last.res.ok => legal
              /\ legal /\ sel.backend # "x4c" => last.res.ok
      [] last.op = "clear" ->
           /\ last.res.ok <=> last.info.name = SchemaOf(sel.program).name
           /\ last.res.ok /\ (sel.backend = "x4c" => last.info.exact) =>
                last.res.val = last.info.count
      [] OTHER -> TRUE

(* A dump lists each entry asked for once, with its parameters, and the    *)
(* default.  Its keys are "in the syntax an operator would type"           *)
(* (EntryDesc): typed back they name the same entry.  The ubpf backend     *)
(* prints numbers instead and leaves the default's parameters out.         *)
DumpFaithful ==
  last.kind = "reply" /\ last.op = "dump" /\ last.res.ok /\ ~Diverged =>
    LET d == last.res.val.entries
        back(i) == ParseKeyFor(sel.program, last.info.name, d[i].key)
        number(i) == [n |-> d[i].key.value.n,
                      len |-> IF d[i].key.len = <<>> THEN Width ELSE d[i].key.len[1]]
    IN /\ Len(d) = Cardinality(DOMAIN asked)
       /\ {Entry(number(i).n, number(i).len, d[i].action, d[i].params) : i \in DOMAIN d}
            = AskedEntries
       /\ sel.backend # "ubpf" =>
            \A i \in DOMAIN d : back(i).ok /\ Canon(back(i).val) = number(i)
       /\ last.res.val.default.action = askedDefault.action
       /\ sel.backend # "ubpf" => last.res.val.default.params = askedDefault.params

(* A configuration is accepted exactly when it obeys every rule, and then  *)
(* the two vport indexes are inverse to the list (VportTable: "ids are     *)
(* unique and legal, peer tuples are unique, and every VportIdx it hands   *)
(* out addresses a live entry").  A rejection names every vport that is    *)
(* illegal by itself ("Every violation found is reported, not just the     *)
(* first").                                                                *)
Obeys(raw) ==
  LET vs == raw.vports IN
  /\ raw.bind \in Addrs /\ raw.fabric \in {"ipv4", "ipv6"} /\ raw.threads \in 1 .. 16
  /\ raw.id # "" /\ raw.ctl_socket # "" /\ raw.pipeline \in Programs
  /\ raw.pin_cores # <<>> =>
       /\ Len(raw.pin_cores[1]) = raw.threads
       /\ \A i \in DOMAIN raw.pin_cores[1] : raw.pin_cores[1][i] >= 0
  /\ vs # <<>>
  /\ \A i \in DOMAIN vs : /\ vs[i].id \in 0 .. 2 ^ Width - 2
                          /\ vs[i].peer \in Addrs \ {raw.bind}
  /\ \A i, j \in DOMAIN vs : i # j => vs[i].id # vs[j].id /\ vs[i].peer # vs[j].peer
  /\ raw.punt \in {<<>>, <<2 ^ Width - 1>>}

ConfigVerdict ==
  /\ last.kind = "configured" =>
       /\ Obeys(last.raw)
       /\ \A n \in Num : LET i == IdxOfId(last.vports, n) IN
            IF i = 0 THEN \A v \in Range(last.raw.vports) : v.id # n
            ELSE last.raw.vports[i].id = n
       /\ \A p \in Addrs : LET i == IdxOfPeer(last.vports, p) IN
            IF i = 0 THEN \A v \in Range(last.raw.vports) : v.peer # p
            ELSE last.raw.vports[i].peer = p
  /\ last.kind = "rejected" =>
       /\ ~Obeys(last.raw)
       /\ {x.e : x \in last.errs} \subseteq ConfigErrors
       /\ \A i \in DOMAIN last.raw.vports :
            LET v == last.raw.vports[i] IN
            /\ v.id \notin 0 .. 2 ^ Width - 2 => Violation("vport_id", i) \in last.errs
            /\ v.peer \notin Addrs => Violation("peer", i) \in last.errs

(* Spec S7.3 as TableOps states it: each call is atomic and a sequence of  *)
(* calls is not.  A step that is neither a clear nor the end of the        *)
(* process changes the entry of one key at most, so a frame between two    *)
(* entries of a batch finds every other entry in place.                    *)
PerEntryAtomic ==
  [][ \/ phase' = "down" \/ phase = "down"
      \/ last'.kind = "reply" /\ last'.op = "clear"
      \/ LET changed == {e.key : e \in (Installed \ Installed') \cup (Installed' \ Installed)}
         IN Cardinality(changed) <= 1 ]_vars

---------------------------------------------------------------------------
(* What the repository says of its backends and the code does not do.      *)

(* l2fwd.ubpf.p4: "65535 punts to the control channel and 65534            *)
(* broadcasts.  Both are reserved across every backend, not just this one, *)
(* so the vport space means the same thing everywhere".                    *)
ReservedEverywhere ==
  last.kind = "frame" => ~Reserved(last.out.verdict)

(* No program writes these fields (pipeline.rs of up4-x4c: "these programs *)
(* deparse exactly the headers they parsed"), so a frame keeps them, and   *)
(* does not leave with the bytes of an earlier one.                        *)
OwnBytes ==
  last.kind = "frame" =>
    \A x \in {"len", "ethertype", "version", "hl", "proto", "ipdst"} :
      last.out.frame[x] = last.in[x]

(* Keys typed with host bits: Ipv4Prefix says "`10.0.0.5/24` and           *)
(* `10.0.0.0/24` are the same value and a table cannot hold two entries    *)
(* that mean the same route"; x4c's tables do not use it.                  *)
SpellingIrrelevant ==
  last.kind = "frame" /\ sel.backend = "x4c" /\ ~Reserved(Expected(last.in).verdict) =>
    last.out.verdict = Expected(last.in).verdict

(* up4-catalog: "the same `up4ctl` call must be accepted by every backend  *)
(* of a program".  A legal deletion is accepted by some, so by all.        *)
SameCallsAccepted ==
  last.kind = "reply" /\ last.op = "del" /\ LegalKey(last.info.name, last.info.text) =>
    last.res.ok

(* "The three are interchangeable: same `.p4`, same tables, same `up4ctl`  *)
(* calls" (up4d's --backend), and compute the same function "with no       *)
(* exceptions" (up4_catalog::build).  Each conjunct alone is violated too. *)
Interchangeable ==
  ReservedEverywhere /\ OwnBytes /\ SpellingIrrelevant /\ SameCallsAccepted

=============================================================================
