---------------------------- MODULE X4cBackend ----------------------------
(***************************************************************************)
(* The x4c backend: up4-x4c's abi.rs (keys and parameters as bytes), the   *)
(* TableOps of pipeline.rs, the pipelines x4c generated from the P4        *)
(* programs, and the reading of their outputs as verdicts (run).           *)
(*                                                                         *)
(* The backend's table is [live, pipe]: the journal's live entries and the *)
(* entries a generated pipeline holds once the engine has synchronised.    *)
(* That replaying the journal, compacted or not, gives pipe is the subject *)
(* of X4cJournal.  p4rs, x4c's runtime, is external: it is modelled by how *)
(* the generated code uses it.                                             *)
(***************************************************************************)
EXTENDS NativeBackend

X4C_PUNT_PORT == 2 ^ Width - 1
X4C_BROADCAST_PORT == 2 ^ Width - 2

(* min_parse of each Desc: the headers the parser extracts.                *)
MinParse(program) ==
  IF program = "l2fwd" THEN ETH_HDR_LEN ELSE ETH_HDR_LEN + IPV4_MIN_HDR_LEN

(* A bug: the sum is not saturated.                                        *)
MutantRadix(vports) == Max(vports \cup {0}) + 3

(* X4cPipeline::new: two ports more than the topology has, saturating.     *)
Radix(vports) == Min({Max(vports \cup {0}) + 3, 2 ^ Width - 1})

---------------------------------------------------------------------------
(* abi.rs.                                                                 *)

(* wire_bytes: a value in network order; push_le reverses it.              *)
WireBytes(v) == BeBytes(v.n)
PushLe(acc, b) == acc \o Reverse(b)
PushWire(acc, b) == acc \o b

(* A bug: both kinds of key little-endian.                                 *)
MutantEncodeKey(key) ==
  IF key.match = "exact"
    THEN PushLe(<<>>, WireBytes(key.value))
    ELSE PushWire(PushLe(<<>>, WireBytes(key.value)), <<key.len>>)

EncodeKey(key) ==
  IF key.match = "exact"
    THEN PushLe(<<>>, WireBytes(key.value))
    ELSE PushWire(PushWire(<<>>, WireBytes(key.value)), <<key.len>>)

(* Each value in turn, least significant octet first.                      *)
EncodeParams(vals) ==
  [i \in 1 .. 2 * Len(vals) |->
     PushLe(<<>>, WireBytes(vals[(i + 1) \div 2]))[2 - (i % 2)]]

---------------------------------------------------------------------------
(* p4rs: how it reads keys and parameters, and its entry set.  An entry is *)
(* known by its key: the generated remove looks it up with a dummy action. *)
(* So an insertion for a key that is there would change nothing; a comment *)
(* at X4cEngine::apply says it would add a second entry.  Either way an    *)
(* add has to remove first, as apply does, and then both come to the same. *)

ExtractExactKey(data) == [match |-> "exact", n |-> FromLe(data), len |-> Width]
ExtractLpmKey(data) == [match |-> "lpm", n |-> FromBe(data), len |-> data[3]]
ExtractParameter(data, at) == SubSeq(data, at + 1, at + 2)
BitvecToBiguint(bits) == FromLe(bits)

EntryInsert(entries, e) ==
  IF \E x \in entries : x.key = e.key THEN entries ELSE entries \cup {e}
EntryRemove(entries, key) == {e \in entries : e.key # key}

(* match_selector: the entries that may come first, any of those with the  *)
(* longest prefix.                                                         *)
MatchSelector(entries, n) ==
  LET hits == {e \in entries : Mask(e.key.n, e.key.len) = Mask(n, e.key.len)}
  IN {e \in hits : \A x \in hits : x.key.len <= e.key.len}

---------------------------------------------------------------------------
(* The generated setters: add_ingress_*_entry and remove_ingress_*_entry.  *)

L2AddEntry(pipe, action_id, keyset_data, parameter_data) ==
  EntryInsert(pipe, [key |-> ExtractExactKey(keyset_data), action_id |-> action_id,
                     parameter_data |-> parameter_data])
L3AddEntry(pipe, action_id, keyset_data, parameter_data) ==
  EntryInsert(pipe, [key |-> ExtractLpmKey(keyset_data), action_id |-> action_id,
                     parameter_data |-> parameter_data])
L2RemoveEntry(pipe, keyset_data) == EntryRemove(pipe, ExtractExactKey(keyset_data))
L3RemoveEntry(pipe, keyset_data) == EntryRemove(pipe, ExtractLpmKey(keyset_data))

RemoveTableEntry(program, pipe, data) ==
  IF program = "l2fwd" THEN L2RemoveEntry(pipe, data) ELSE L3RemoveEntry(pipe, data)
AddTableEntry(program, pipe, action_id, data, params) ==
  IF program = "l2fwd" THEN L2AddEntry(pipe, action_id, data, params)
  ELSE L3AddEntry(pipe, action_id, data, params)

(* A bug: an Add leaves an earlier entry for its key in place.             *)
MutantApplyAdd(program, pipe, e) ==
  AddTableEntry(program, pipe, e.action, EncodeKey(e.key), EncodeParams(e.params))

(* apply: an Add removes first.                                            *)
ApplyAdd(program, pipe, e) ==
  AddTableEntry(program, RemoveTableEntry(program, pipe, EncodeKey(e.key)),
                e.action, EncodeKey(e.key), EncodeParams(e.params))

---------------------------------------------------------------------------
(* TableOps.  key_id renders a key as typed, host bits and all: two keys   *)
(* have one id only when they are equal.                                   *)

X4cNew == [live |-> <<>>, pipe |-> {}]

LiveAt(t, key) == {i \in DOMAIN t.live : t.live[i].key = key}

X4cAdd(program, t, table, key, name, vals) ==
  LET s == FindSchema(program, table)
      k == CheckKey(SchemaOf(program), key)
      c == Check(SchemaOf(program), name, vals)
      e == [key |-> key, action |-> name, params |-> vals]
      at == LiveAt(t, key)
  IN IF ~s.ok THEN Result(s, t)
     ELSE IF ~k.ok THEN Result(k, t)
     ELSE IF ~c.ok THEN Result(c, t)
     ELSE Result(Ok(1),
            [live |-> IF at = {} THEN Append(t.live, e) ELSE [t.live EXCEPT ![Min(at)] = e],
             pipe |-> ApplyAdd(program, t.pipe, e)])

(* An absent key is logged like any other and is no error.                 *)
X4cRemove(program, t, table, key) ==
  LET s == FindSchema(program, table)
      k == CheckKey(SchemaOf(program), key)
      at == LiveAt(t, key)
  IN IF ~s.ok THEN Result(s, t)
     ELSE IF ~k.ok THEN Result(k, t)
     ELSE Result(Ok(1),
            [live |-> IF at = {} THEN t.live ELSE RemoveAt(t.live, Min(at)),
             pipe |-> RemoveTableEntry(program, t.pipe, EncodeKey(key))])

(* table_clear logs one Remove per live entry.                             *)
X4cClear(program, t, table) ==
  LET s == FindSchema(program, table) IN
  IF ~s.ok THEN Result(s, t)
  ELSE Result(Ok(Len(t.live)),
         [live |-> <<>>,
          pipe |-> {e \in t.pipe : \A i \in DOMAIN t.live :
                      e \in RemoveTableEntry(program, t.pipe, EncodeKey(t.live[i].key))}])

X4cSetDefault(program, t, table) ==
  LET s == FindSchema(program, table) IN
  Result(IF s.ok THEN Err("unsupported") ELSE s, t)

(* default_action_of: what the P4 source compiles in.                      *)
DefaultActionOf(program) == IF program = "l2fwd" THEN "broadcast" ELSE "drop"

(* A bug: a prefix is printed without its length.                          *)
MutantKeyText(key) ==
  [value |-> [form |-> Form(key.value.kind), n |-> key.value.n], len |-> <<>>]

(* describe, in key order; the order of key texts is taken to be numeric.  *)
KeyText(key) ==
  IF key.match = "exact" THEN MacText(key.value.n) ELSE PrefixText(key.value.n, key.len)
LiveBefore(e, g) ==
  \/ e.key.value.n < g.key.value.n
  \/ e.key.value.n = g.key.value.n /\ e.key.len < g.key.len
X4cDump(t) ==
  LET es == InOrder({t.live[i] : i \in DOMAIN t.live}, LiveBefore)
  IN [i \in DOMAIN es |->
        [key |-> KeyText(es[i].key), action |-> es[i].action,
         params |-> [j \in DOMAIN es[i].params |-> es[i].params[j].n]]]

---------------------------------------------------------------------------
(* The generated pipelines.  A header field wider than an octet is kept    *)
(* reversed: `set` reverses what it reads, `to_bitvec` reverses back.      *)

L2EthernetSet(f) ==
  [dst |-> Reverse(BeBytes(f.dst)), ether_type |-> Reverse(BeBytes(f.ethertype))]
L2EthernetToBitvec(h, f) ==
  [f EXCEPT !.dst = FromBe(Reverse(h.dst)), !.ethertype = FromBe(Reverse(h.ether_type))]

L3EthernetSet(f) ==
  [dst |-> Reverse(BeBytes(f.dst)), ether_type |-> Reverse(BeBytes(f.ethertype))]
L3EthernetToBitvec(h, f) ==
  [f EXCEPT !.dst = FromBe(Reverse(h.dst)), !.ethertype = FromBe(Reverse(h.ether_type))]

Ipv4Set(f) ==
  [version |-> f.version, ihl |-> f.hl, ttl |-> f.ttl, protocol |-> f.proto,
   hdr_checksum |-> Reverse(BeBytes(f.ipsum)), dst |-> Reverse(BeBytes(f.ipdst))]
Ipv4ToBitvec(h, f) ==
  [f EXCEPT !.version = h.version, !.hl = h.ihl, !.ttl = h.ttl, !.proto = h.protocol,
            !.ipsum = FromBe(Reverse(h.hdr_checksum)), !.ipdst = FromBe(Reverse(h.dst))]

(* egress_metadata_t: an empty port and neither drop nor broadcast.        *)
EgressDefault == [port |-> <<>>, drop |-> FALSE, broadcast |-> FALSE]
EgressDrop == [EgressDefault EXCEPT !.drop = TRUE]
EgressBroadcast == [EgressDefault EXCEPT !.broadcast = TRUE]
EgressPort(bits) == [EgressDefault EXCEPT !.port = bits]

(* Each ingress_apply and its actions: the headers and the egress metadata *)
(* it leaves, given what match_selector returned (only its head is used).  *)
L2Ingress(hdr, matches) ==
  [hdr |-> hdr,
   egress |->
     CASE matches = <<>> -> EgressBroadcast
       [] matches # <<>> /\ matches[1].action_id = "forward" ->
            EgressPort(ExtractParameter(matches[1].parameter_data, 0))
       [] matches # <<>> /\ matches[1].action_id = "broadcast" -> EgressBroadcast
       [] OTHER -> EgressDrop]

L3ActionForward(hdr, data) ==
  [hdr |-> [ethernet |-> [hdr.ethernet EXCEPT !.dst = ExtractParameter(data, 2)],
            ipv4 |-> [hdr.ipv4 EXCEPT !.ttl = (@ - 1) % 256, !.hdr_checksum = LeBytes(0)]],
   egress |-> EgressPort(ExtractParameter(data, 0))]
L3ActionPunt(hdr) == [hdr |-> hdr, egress |-> EgressPort(LeBytes(X4C_PUNT_PORT))]
L3ActionDrop(hdr) == [hdr |-> hdr, egress |-> EgressDrop]

L3Ingress(hdr, matches) ==
  IF \/ hdr.ethernet.ether_type # LeBytes(ETHERTYPE_IPV4)
     \/ hdr.ipv4.ttl = 0
     \/ matches = <<>>
    THEN L3ActionDrop(hdr)
    ELSE CASE matches[1].action_id = "forward" ->
                L3ActionForward(hdr, matches[1].parameter_data)
           [] matches[1].action_id = "punt" -> L3ActionPunt(hdr)
           [] OTHER -> L3ActionDrop(hdr)

(* The tail of process_packet: the ports, then one output for each, all    *)
(* with the same bytes.  run always enters on port 0.                      *)
OutPorts(egress, radix) ==
  IF egress.broadcast THEN 1 .. radix - 1
  ELSE IF egress.port = <<>> \/ egress.drop THEN {}
  ELSE {FromLe(egress.port)}

L2ProcessPacket(f, matches, radix) ==
  LET r == L2Ingress(L2EthernetSet(f), matches) IN
  [ports |-> OutPorts(r.egress, radix), frame |-> L2EthernetToBitvec(r.hdr, f)]

L3ProcessPacket(f, matches, radix) ==
  LET r == L3Ingress([ethernet |-> L3EthernetSet(f), ipv4 |-> Ipv4Set(f)], matches) IN
  [ports |-> OutPorts(r.egress, radix),
   frame |-> Ipv4ToBitvec(r.hdr.ipv4, L3EthernetToBitvec(r.hdr.ethernet, f))]

(* What match_selector may return for the frame's key field, up to its     *)
(* head.                                                                   *)
Matches(program, pipe, f) ==
  LET bits == Reverse(BeBytes(IF program = "l2fwd" THEN f.dst ELSE f.ipdst))
      hits == MatchSelector(pipe, BitvecToBiguint(bits))
  IN IF hits = {} THEN {<<>>} ELSE {<<x>> : x \in hits}

---------------------------------------------------------------------------
(* X4cEngine::run: the verdict, the frame it leaves and whether            *)
(* scratch_out, the reused output buffer, was ever written to.             *)

X4cVerdict(ports) ==
  CASE ports = {} -> Drop
    [] ports = {X4C_PUNT_PORT} -> Punt
    [] ports = {X4C_BROADCAST_PORT} -> Broadcast
    [] Cardinality(ports) > 1 -> Broadcast
    [] OTHER -> Forward(CHOOSE p \in ports : TRUE)

(* The outputs whose bytes run copies to scratch_out.                      *)
CopiesOut(ports) ==
  /\ ports # {}
  /\ ports \notin {{X4C_PUNT_PORT}, {X4C_BROADCAST_PORT}}

(* copy_from_slice from scratch_out, over the shorter of the two: what an  *)
(* earlier frame left there overwrites all or part of this one, which is   *)
(* then Stale.                                                             *)
Stale(f) == [x \in FrameFields |-> IF x = "len" THEN f.len ELSE -1]
CopyBack(f, scratch) == IF scratch THEN Stale(f) ELSE f

X4cRun(program, radix, matches, scratch, f) ==
  IF f.len < MinParse(program)
    THEN [out |-> Out(Drop, f), scratch |-> scratch]
    ELSE LET p == IF program = "l2fwd" THEN L2ProcessPacket(f, matches, radix)
                  ELSE L3ProcessPacket(f, matches, radix)
             v == X4cVerdict(p.ports)
         IN [out |-> IF v.kind \in {"drop", "punt"} THEN Out(v, f)
                     ELSE Out(v, IF CopiesOut(p.ports) THEN p.frame ELSE CopyBack(f, scratch)),
             scratch |-> scratch \/ CopiesOut(p.ports)]

=============================================================================
