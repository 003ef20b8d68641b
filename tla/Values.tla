------------------------------ MODULE Values ------------------------------
(***************************************************************************)
(* The typed values of the control plane (up4-engine's value.rs and        *)
(* shim.rs) and the refinement of what an operator types into them         *)
(* (parse_key and typed_params of up4-ctl's server.rs).                    *)
(*                                                                         *)
(* A MAC address, an IPv4 address and a port number are two octets of      *)
(* OctetBits bits each: two octets are the fewest that tell byte orders    *)
(* apart.  A text is what it spells: [form, n], where form says which      *)
(* parser accepts it and n may be too large for the kind.  A result is     *)
(* Ok(value) or Err(kind of error).                                        *)
(***************************************************************************)
EXTENDS Integers, Sequences, FiniteSets

CONSTANT OctetBits   \* bits of an octet

ASSUME OctetAssumption == OctetBits \in Nat \ {0}

Octet == 2 ^ OctetBits
Width == 2 * OctetBits
Num == 0 .. 2 ^ Width - 1

BeBytes(n) == <<n \div Octet, n % Octet>>
LeBytes(n) == <<n % Octet, n \div Octet>>
FromBe(b) == b[1] * Octet + b[2]
FromLe(b) == b[2] * Octet + b[1]

Ok(v) == [ok |-> TRUE, val |-> v]
Err(e) == [ok |-> FALSE, err |-> e]

(* ValKind; u8 and u32 occur in no shipped schema.                         *)
ValKinds == {"u16", "mac", "ipv4"}

(* The text form each kind's parser reads: parse_int, MacAddr's FromStr    *)
(* and Ipv4Addr's.                                                         *)
Form(kind) ==
  CASE kind = "u16" -> "int" [] kind = "mac" -> "mac" [] kind = "ipv4" -> "ipv4"

TypedVals == [kind : ValKinds, n : Num]

(* TypedVal::parse, the single text gate.                                  *)
ParseVal(kind, text) ==
  IF text.form = Form(kind) /\ text.n \in Num
    THEN Ok([kind |-> kind, n |-> text.n])
    ELSE Err("malformed")

Require(v, kind) == v.kind = kind

(* TypedKey: an exact key has len = Width.                                 *)
TypedKeys == [match : {"exact", "lpm"}, value : TypedVals, len : 0 .. Width]

(* TypedKey::parse.  The text of a key is [value, len]: len is <<>> for a  *)
(* bare value, which an LPM table takes as a host route.                   *)
ParseKey(match, kind, text) ==
  LET v == ParseVal(kind, text.value)
      len == IF text.len = <<>> THEN Width ELSE text.len[1]
  IN IF ~v.ok \/ (match = "exact" /\ text.len # <<>>) \/ len > Width
       THEN Err("malformed")
       ELSE Ok([match |-> match, value |-> v.val, len |-> len])

(* TableSchema, with ParamSchema and ActionSchema inside it.               *)
L2Schema ==
  [name |-> "mac_dst", match |-> "exact", kind |-> "mac",
   actions |-> [forward   |-> <<[name |-> "port", kind |-> "u16"]>>,
                broadcast |-> <<>>,
                drop      |-> <<>>]]

L3Schema ==
  [name |-> "ipv4_lpm", match |-> "lpm", kind |-> "ipv4",
   actions |-> [forward |-> <<[name |-> "port", kind |-> "u16"],
                              [name |-> "dmac", kind |-> "mac"]>>,
                punt    |-> <<>>,
                drop    |-> <<>>]]

Programs == {"l2fwd", "l3fwd"}
SchemaOf(program) == IF program = "l2fwd" THEN L2Schema ELSE L3Schema

(* TableOps::schema.                                                       *)
FindSchema(program, table) ==
  IF SchemaOf(program).name = table
    THEN Ok(SchemaOf(program)) ELSE Err("unknown_table")

(* Why an operation is refused: TableError.                                *)
TableErrors ==
  {"unsupported", "unknown_table", "unknown_action", "key_kind_mismatch",
   "arity", "malformed", "mismatched", "not_found"}

(* TableSchema::check_key.                                                 *)
CheckKey(schema, key) ==
  IF key.match = schema.match /\ key.value.kind = schema.kind
    THEN Ok(key) ELSE Err("key_kind_mismatch")

(* TableSchema::check.                                                     *)
Check(schema, action, vals) ==
  IF action \notin DOMAIN schema.actions THEN Err("unknown_action")
  ELSE LET sig == schema.actions[action] IN
    IF Len(vals) # Len(sig) THEN Err("arity")
    ELSE IF \E i \in DOMAIN sig : ~Require(vals[i], sig[i].kind)
      THEN Err("mismatched")
      ELSE Ok(sig)

(* Params: positional texts, or texts by name (a set of [name, text] with  *)
(* distinct names; the other form's field is then empty).                  *)
DistinctNames(params) == \A g, h \in params.named : g.name = h.name => g = h

ParamCount(params) ==
  IF params.form = "positional" THEN Len(params.pos) ELSE Cardinality(params.named)

(* The text given for the i-th parameter of sig, as a set of at most one.  *)
GivenText(params, sig, i) ==
  IF params.form = "positional"
    THEN {params.pos[i]}
    ELSE {g.text : g \in {h \in params.named : h.name = sig[i].name}}

(* typed_params: both forms end in declaration order with declared kinds.  *)
TypedParams(schema, action, params) ==
  IF action \notin DOMAIN schema.actions THEN Err("unknown_action")
  ELSE LET sig == schema.actions[action] IN
    IF ParamCount(params) # Len(sig) THEN Err("arity")
    ELSE IF \A i \in DOMAIN sig :
              \E t \in GivenText(params, sig, i) : ParseVal(sig[i].kind, t).ok
      THEN Ok([i \in DOMAIN sig |->
                 ParseVal(sig[i].kind, CHOOSE t \in GivenText(params, sig, i) : TRUE).val])
      ELSE Err("malformed")

(* parse_key of the control server.                                        *)
ParseKeyFor(program, table, text) ==
  LET s == FindSchema(program, table) IN
  IF ~s.ok THEN s ELSE ParseKey(s.val.match, s.val.kind, text)

=============================================================================
