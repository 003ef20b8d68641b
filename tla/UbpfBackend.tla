---------------------------- MODULE UbpfBackend ----------------------------
(***************************************************************************)
(* The ubpf backend: up4-ubpf's pipeline.rs (typed entries as the byte     *)
(* images p4c's C structs dictate, and the TableOps over them), vm.rs (one *)
(* execution and its helper calls) and the C programs p4c generated, which *)
(* the committed bytecode was compiled from.                               *)
(*                                                                         *)
(* The backend's table is [entries, defaults]: the Table behind the entry  *)
(* map and the one behind the defaultAction map.  Images are scaled: a     *)
(* discriminant and a padding word are one octet, a value two.             *)
(***************************************************************************)
EXTENDS X4cBackend

UBPF_PUNT_PORT == 2 ^ Width - 1
UBPF_BROADCAST_PORT == 2 ^ Width - 2
NO_PORT == 2 ^ (2 * Width) - 1   \* u32::MAX: no port a u16 parameter can name
MTU == 2048

(* ActionAbi and TableAbi of each Desc.  fields: where each parameter      *)
(* starts in the value.                                                    *)
L2Abi ==
  [matching |-> "exact", key |-> 3, match_at |-> 1, match_len |-> 3, value |-> 3,
   disc |-> [forward |-> 0, broadcast |-> 1, drop |-> 2],
   fields |-> [forward |-> <<2>>, broadcast |-> <<>>, drop |-> <<>>],
   default |-> "broadcast"]

L3Abi ==
  [matching |-> "lpm", key |-> 3, match_at |-> 2, match_len |-> 2, value |-> 6,
   disc |-> [forward |-> 0, punt |-> 1, drop |-> 2],
   fields |-> [forward |-> <<2, 5>>, punt |-> <<>>, drop |-> <<>>],
   default |-> "drop"]

Abi(program) == IF program = "l2fwd" THEN L2Abi ELSE L3Abi

(* as_number and to_le_bytes, zero above the value's own octets.           *)
LeOctet(n, i) == IF i <= 2 THEN LeBytes(n)[i] ELSE 0

KeyImage(abi, key) ==
  [i \in 1 .. abi.key |->
     IF i >= abi.match_at /\ i < abi.match_at + abi.match_len
       THEN LeOctet(key.value.n, i - abi.match_at + 1) ELSE 0]

(* key_image returns prefix 0 for an exact key.                            *)
KeyPrefix(key) == IF key.match = "exact" THEN 0 ELSE key.len

ValueImage(abi, name, vals) ==
  LET at == abi.fields[name] IN
  [i \in 1 .. abi.value |->
     IF i = 1 THEN abi.disc[name]
     ELSE IF \E j \in DOMAIN at \cap DOMAIN vals : i \in at[j] .. at[j] + 1
       THEN LET j == CHOOSE k \in DOMAIN at : i \in at[k] .. at[k] + 1
            IN LeOctet(vals[j].n, i - at[j] + 1)
       ELSE 0]

(* with_mode: an entry map, and a default map that always answers.         *)
UbpfPipelineNew(program) ==
  LET abi == Abi(program) IN
  [entries |-> UbpfNew(abi.matching, abi.match_at, abi.match_len, <<>>),
   defaults |-> UbpfNew("exact", 1, 1, ValueImage(abi, abi.default, <<>>))]

---------------------------------------------------------------------------
(* TableOps.                                                               *)

UbpfAdd(program, t, table, key, name, vals) ==
  LET s == FindSchema(program, table)
      k == CheckKey(SchemaOf(program), key)
      c == Check(SchemaOf(program), name, vals)
      abi == Abi(program)
  IN IF ~s.ok THEN Result(s, t)
     ELSE IF ~k.ok THEN Result(k, t)
     ELSE IF ~c.ok THEN Result(c, t)
     ELSE Result(Ok(1), [t EXCEPT !.entries =
            UbpfInsert(@, KeyImage(abi, key), KeyPrefix(key), ValueImage(abi, name, vals))])

(* Whether an entry was removed is not reported.                           *)
UbpfTableRemove(program, t, table, key) ==
  LET s == FindSchema(program, table)
      k == CheckKey(SchemaOf(program), key)
  IN IF ~s.ok THEN Result(s, t)
     ELSE IF ~k.ok THEN Result(k, t)
     ELSE Result(Ok(1), [t EXCEPT !.entries =
            UbpfRemove(@, KeyImage(Abi(program), key), KeyPrefix(key))])

UbpfTableClear(program, t, table) ==
  LET s == FindSchema(program, table) IN
  IF ~s.ok THEN Result(s, t)
  ELSE Result(Ok(Cardinality(UbpfEntries(t.entries))), [t EXCEPT !.entries = UbpfClear(@)])

UbpfTableSetDefault(program, t, table, name, vals) ==
  LET s == FindSchema(program, table)
      c == Check(SchemaOf(program), name, vals)
  IN IF ~s.ok THEN Result(s, t)
     ELSE IF ~c.ok THEN Result(c, t)
     ELSE Result(Ok(1), [t EXCEPT !.defaults =
            UbpfSetDefault(@, ValueImage(Abi(program), name, vals))])

(* action_of and describe: a key is printed as the hexadecimal number of   *)
(* its image, whatever its kind; iter goes by bucket, then by image.       *)
ActionOf(abi, value) == CHOOSE a \in DOMAIN abi.disc : abi.disc[a] = value[1]

ImageNumber(image, at) == image[at] + image[at + 1] * Octet

UbpfDescribe(abi, e) ==
  LET a == ActionOf(abi, e.value) IN
  [key |-> [value |-> [form |-> "int", n |-> ImageNumber(e.key, 1)],
            len |-> IF abi.matching = "exact" THEN <<>> ELSE <<e.len>>],
   action |-> a,
   params |-> [i \in DOMAIN abi.fields[a] |-> ImageNumber(e.value, abi.fields[a][i])]]

ImageBefore(e, g) ==
  \/ e.len > g.len
  \/ /\ e.len = g.len
     /\ \E i \in DOMAIN e.key : /\ e.key[i] < g.key[i]
                                /\ \A j \in 1 .. i - 1 : e.key[j] = g.key[j]
UbpfDump(program, t) ==
  LET es == InOrder(UbpfEntries(t.entries), ImageBefore)
  IN [i \in DOMAIN es |-> UbpfDescribe(Abi(program), es[i])]

(* table_default: the action only, its parameters are left out.            *)
UbpfDefault(program, t) ==
  ActionOf(Abi(program), UbpfLookup(t.defaults, <<0, 0>>))

---------------------------------------------------------------------------
(* The helpers and the programs.  A program returns [pass, port, frame]:   *)
(* its return value, output_port as it left it, and the packet.            *)

(* map_lookup: <<>> is NULL.                                               *)
MapLookup(map, key) == UbpfLookup(map, key)

(* The value a table application finds: the entry's, or on a miss the one  *)
(* of the defaultAction map.                                               *)
MatchOrDefault(t, key) ==
  LET v == MapLookup(t.entries, key) IN
  IF v = <<>> THEN MapLookup(t.defaults, <<0>>) ELSE v

VmOut(pass, port, f) == [pass |-> pass, port |-> port, frame |-> f]

L2EntryC(t, f) ==
  IF f.len < ETH_HDR_LEN THEN VmOut(TRUE, NO_PORT, f)
  ELSE LET v == MatchOrDefault(t, <<f.dst % Octet, f.dst \div Octet, 0>>) IN
    CASE v[1] = 0 -> VmOut(TRUE, ImageNumber(v, 2), f)
      [] v[1] = 1 -> VmOut(TRUE, UBPF_BROADCAST_PORT, f)
      [] OTHER -> VmOut(FALSE, NO_PORT, f)

(* The parser of l3fwd.c: two extracts, and ethertype selects.             *)
L3ParserAccepts(f) ==
  /\ f.len >= ETH_HDR_LEN
  /\ f.ethertype = ETHERTYPE_IPV4
  /\ f.len >= ETH_HDR_LEN + IPV4_MIN_HDR_LEN

L3EntryC(t, f) ==
  IF ~L3ParserAccepts(f) THEN VmOut(TRUE, NO_PORT, f)
  ELSE IF f.ttl = 0 THEN VmOut(FALSE, NO_PORT, f)
  ELSE LET v == MatchOrDefault(t, <<0, f.ipdst % Octet, f.ipdst \div Octet>>) IN
    CASE v[1] = 0 ->
           VmOut(TRUE, ImageNumber(v, 2),
                 [f EXCEPT !.ttl = (@ + 255) % 256, !.dst = ImageNumber(v, 5), !.ipsum = 0])
      [] v[1] = 1 -> VmOut(TRUE, UBPF_PUNT_PORT, f)
      [] OTHER -> VmOut(FALSE, NO_PORT, f)

(* Vm::run: Err for a frame longer than the packet buffer; neither program *)
(* calls a refused helper.                                                 *)
VmRun(program, t, f) ==
  IF f.len > MTU THEN Err("frame_too_long")
  ELSE Ok(IF program = "l2fwd" THEN L2EntryC(t, f) ELSE L3EntryC(t, f))

(* UbpfEngine::process: only a forwarded frame is copied back.             *)
UbpfProcess(program, t, f) ==
  LET r == VmRun(program, t, f) IN
  IF ~r.ok \/ ~r.val.pass \/ r.val.port = NO_PORT THEN Out(Drop, f)
  ELSE CASE r.val.port = UBPF_PUNT_PORT -> Out(Punt, f)
         [] r.val.port = UBPF_BROADCAST_PORT -> Out(Broadcast, f)
         [] OTHER -> Out(Forward(r.val.port), r.val.frame)

=============================================================================
