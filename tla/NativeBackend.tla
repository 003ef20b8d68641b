--------------------------- MODULE NativeBackend ---------------------------
(***************************************************************************)
(* The native renderings of l2fwd and l3fwd (up4-engine's programs/): the  *)
(* TableOps of each program and what its engine does to a frame.  A        *)
(* program's table is an ExactTable (mac_dst) or an LpmTable (ipv4_lpm) of *)
(* actions [name, port, dmac]; a TableOps call returns its result and the  *)
(* table it publishes.                                                     *)
(***************************************************************************)
EXTENDS MatchTables, Frames

Action(name, port, dmac) == [name |-> name, port |-> port, dmac |-> dmac]

(* Action::from_call of l2fwd and of l3fwd, after schema.check: param_u16  *)
(* and param_mac take the parameters in declaration order.                 *)
L2FromCall(name, vals) == Action(name, IF name = "forward" THEN vals[1].n ELSE 0, 0)
L3FromCall(name, vals) ==
  IF name = "forward" THEN Action(name, vals[1].n, vals[2].n) ELSE Action(name, 0, 0)
FromCall(program, name, vals) ==
  IF program = "l2fwd" THEN L2FromCall(name, vals) ELSE L3FromCall(name, vals)

(* L2Fwd::new floods on a miss, L3Fwd::new drops.                          *)
L2New == ExactNew(Action("broadcast", 0, 0))
L3New == LpmNew(Action("drop", 0, 0))
NativeNew(program) == IF program = "l2fwd" THEN L2New ELSE L3New

Result(res, table) == [res |-> res, table |-> table]

(* exact_mac and lpm_ipv4 refuse a key of another kind.                    *)
NativeKey(program, key) == CheckKey(SchemaOf(program), key)

L2Add(t, key, a) == ExactInsert(t, key.value.n, a)
L3Add(t, key, a) == LpmInsert(t, Prefix(key), a)

NativeAdd(program, t, table, key, name, vals) ==
  LET s == FindSchema(program, table)
      k == NativeKey(program, key)
      c == Check(SchemaOf(program), name, vals)
      a == FromCall(program, name, vals)
  IN IF ~s.ok THEN Result(s, t)
     ELSE IF ~k.ok THEN Result(k, t)
     ELSE IF ~c.ok THEN Result(c, t)
     ELSE Result(Ok(1), IF program = "l2fwd" THEN L2Add(t, key, a) ELSE L3Add(t, key, a))

(* table_remove of each program: removed says whether an entry existed.    *)
L2Remove(t, key) ==
  Result(IF key.value.n \in DOMAIN t.entries THEN Ok(1) ELSE Err("not_found"),
         ExactRemove(t, key.value.n))

(* A bug: the prefix is looked up as it was typed.                         *)
MutantL3Remove(t, key) ==
  Result(IF Holds(t.groups, key.len, key.value.n) THEN Ok(1) ELSE Err("not_found"),
         LpmRemove(t, [base |-> key.value.n, len |-> key.len]))

L3Remove(t, key) ==
  LET p == Prefix(key) IN
  Result(IF Holds(t.groups, p.len, p.base) THEN Ok(1) ELSE Err("not_found"),
         LpmRemove(t, p))

NativeRemove(program, t, table, key) ==
  LET s == FindSchema(program, table)
      k == NativeKey(program, key)
  IN IF ~s.ok THEN Result(s, t)
     ELSE IF ~k.ok THEN Result(k, t)
     ELSE IF program = "l2fwd" THEN L2Remove(t, key) ELSE L3Remove(t, key)

NativeSetDefault(program, t, table, name, vals) ==
  LET s == FindSchema(program, table)
      c == Check(SchemaOf(program), name, vals)
  IN IF ~s.ok THEN Result(s, t)
     ELSE IF ~c.ok THEN Result(c, t)
     ELSE Result(Ok(1), [t EXCEPT !.default_action = FromCall(program, name, vals)])

NativeClear(program, t, table) ==
  LET s == FindSchema(program, table) IN
  IF ~s.ok THEN Result(s, t)
  ELSE IF program = "l2fwd" THEN Result(Ok(Cardinality(DOMAIN t.entries)), ExactClear(t))
  ELSE Result(Ok(Cardinality(LpmEntries(t))), LpmClear(t))

(* The text forms a dump renders keys in: Display of MacAddr and           *)
(* Ipv4Prefix.                                                             *)
MacText(n) == [value |-> [form |-> "mac", n |-> n], len |-> <<>>]
PrefixText(n, len) == [value |-> [form |-> "ipv4", n |-> n], len |-> <<len>>]

(* Action::describe: parameters by name.                                   *)
Describe(program, key, a) ==
  [key |-> key, action |-> a.name,
   params |-> IF a.name # "forward" THEN <<>>
              ELSE IF program = "l2fwd" THEN <<a.port>> ELSE <<a.port, a.dmac>>]

(* l2fwd sorts its dump by key; l3fwd longest prefix first, then address.  *)
L2Dump(t) ==
  LET macs == InOrder(DOMAIN t.entries, <)
  IN [i \in DOMAIN macs |-> Describe("l2fwd", MacText(macs[i]), t.entries[macs[i]])]
PrefixBefore(e, g) == e.len > g.len \/ (e.len = g.len /\ e.base < g.base)
L3Dump(t) ==
  LET es == InOrder(LpmEntries(t), PrefixBefore)
  IN [i \in DOMAIN es |->
        Describe("l3fwd", PrefixText(es[i].base, es[i].len), es[i].action)]

---------------------------------------------------------------------------
(* Engine::process of l2fwd and of l3fwd.                                  *)

L2Verdict(a) ==
  CASE a.name = "forward" -> Forward(a.port)
    [] a.name = "broadcast" -> Broadcast
    [] OTHER -> Drop

L2Process(t, f) ==
  Out(IF EthernetParses(f) THEN L2Verdict(ExactApply(t, f.dst)) ELSE Drop, f)

L3Process(t, f) ==
  IF \/ ~EthernetParses(f)
     \/ f.ethertype # ETHERTYPE_IPV4
     \/ ~Ipv4Parses(f)
     \/ f.ttl = 0
    THEN Out(Drop, f)
    ELSE LET a == LpmApply(t, f.ipdst) IN
      CASE a.name = "forward" ->
             Out(Forward(a.port),
                 ZeroInnerChecksums(SetDst(SetTtl(f, f.ttl - 1), a.dmac)))
        [] a.name = "punt" -> Out(Punt, f)
        [] OTHER -> Out(Drop, f)

NativeProcess(program, t, f) ==
  IF program = "l2fwd" THEN L2Process(t, f) ELSE L3Process(t, f)

=============================================================================
