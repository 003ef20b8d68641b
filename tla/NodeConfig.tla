---------------------------- MODULE NodeConfig ----------------------------
(***************************************************************************)
(* The node's configuration: RawConfig::validate and VportTable::build of  *)
(* up4-config, and the choice of program and backend (Selection::parse of  *)
(* up4-engine's catalog).                                                  *)
(*                                                                         *)
(* A raw configuration is the record the TOML reader produces:             *)
(* [id, bind, fabric, pipeline, threads, pin_cores, ctl_socket, vports,    *)
(* punt], optional fields being <<>> or <<value>>, vports a sequence of    *)
(* [id, peer].  An address is a string, one of Addrs if it parses.         *)
(* Violations are collected as a set of [e, at], at being the vport's      *)
(* place for a violation of one vport and 0 otherwise.                     *)
(***************************************************************************)
EXTENDS Values, FiniteSetsExt

CONSTANT Addrs   \* the strings that parse as addr:port

PUNT_VPORT == 2 ^ Width - 1
MaxThreads == 16

(* Fabric::from_config_str, VportId::new after u16::try_from, and          *)
(* Threads::new after u8::try_from.                                        *)
FabricParses(s) == s \in {"ipv4", "ipv6"}
LegalVportId(n) == n \in Num /\ n # PUNT_VPORT
LegalThreads(n) == n \in 1 .. MaxThreads

ConfigErrors ==
  {"bind", "fabric", "threads", "unknown_pipeline", "empty_id", "empty_ctl_socket",
   "pin_cores_arity", "negative_core", "no_vports", "vport_id", "duplicate_vport_id",
   "peer", "duplicate_peer", "peer_is_self", "punt_vport"}

Violation(e, at) == [e |-> e, at |-> at]
Node(e) == Violation(e, 0)
If(cond, v) == IF cond THEN {v} ELSE {}

(* The node's own fields.                                                  *)
NodeViolations(raw, registry) ==
  LET pins == IF raw.pin_cores = <<>> THEN <<>> ELSE raw.pin_cores[1] IN
  UNION {If(raw.bind \notin Addrs, Node("bind")),
         If(~FabricParses(raw.fabric), Node("fabric")),
         If(~LegalThreads(raw.threads), Node("threads")),
         If(raw.id = "", Node("empty_id")),
         If(raw.ctl_socket = "", Node("empty_ctl_socket")),
         If(raw.pipeline \notin registry, Node("unknown_pipeline")),
         If(/\ raw.pin_cores # <<>>
            /\ LegalThreads(raw.threads)
            /\ Len(pins) # raw.threads, Node("pin_cores_arity")),
         If(\E i \in DOMAIN pins : pins[i] < 0, Node("negative_core")),
         If(raw.vports = <<>>, Node("no_vports")),
         If(raw.punt # <<>> /\ raw.punt # <<PUNT_VPORT>>, Node("punt_vport"))}

Refines(v) == LegalVportId(v.id) /\ v.peer \in Addrs

(* One vport: its id and its peer are refined independently, and a peer    *)
(* that is this node is looked for only when both refined.                 *)
VportViolations(raw, i) ==
  LET v == raw.vports[i] IN
  UNION {If(~LegalVportId(v.id), Violation("vport_id", i)),
         If(v.peer \notin Addrs, Violation("peer", i)),
         If(/\ Refines(v) /\ raw.bind \in Addrs
            /\ v.peer = raw.bind, Violation("peer_is_self", i))}

(* A bug: two vports may share a peer.                                     *)
MutantDuplicates(raw) ==
  LET vs == raw.vports IN
  IF \E i \in DOMAIN vs : ~Refines(vs[i]) THEN {}
  ELSE UNION {If(\E j \in 1 .. i - 1 : vs[j].id = vs[i].id,
                 Violation("duplicate_vport_id", i)) : i \in DOMAIN vs}

(* The checks of VportTable::build, made only when every vport refined.    *)
Duplicates(raw) ==
  LET vs == raw.vports
      repeats(i, field) == \E j \in 1 .. i - 1 : vs[j][field] = vs[i][field]
  IN IF \E i \in DOMAIN vs : ~Refines(vs[i]) THEN {}
     ELSE UNION {If(repeats(i, "id"), Violation("duplicate_vport_id", i))
                   \cup If(repeats(i, "peer"), Violation("duplicate_peer", i))
                     : i \in DOMAIN vs}

(* VportTable: the entries and the two indexes into them; 0 is no entry.   *)
(* Each index keeps the last entry inserted under a key.                   *)
VportTable(vs) ==
  LET last(P(_)) == Max({0} \cup {i \in DOMAIN vs : P(i)}) IN
  [entries |-> vs,
   by_id |-> [n \in 0 .. Max({vs[i].id : i \in DOMAIN vs}) |->
                last(LAMBDA i : vs[i].id = n)],
   by_peer |-> [p \in {vs[i].peer : i \in DOMAIN vs} |->
                  last(LAMBDA i : vs[i].peer = p)]]

IdxOfId(t, id) == IF id \in DOMAIN t.by_id THEN t.by_id[id] ELSE 0
IdxOfPeer(t, peer) == IF peer \in DOMAIN t.by_peer THEN t.by_peer[peer] ELSE 0

(* RawConfig::validate with Errors::into_result.                           *)
Validate(raw, registry) ==
  LET errs == NodeViolations(raw, registry)
                \cup (UNION {VportViolations(raw, i) : i \in DOMAIN raw.vports})
                \cup Duplicates(raw)
  IN IF errs # {} THEN Err(errs)
     ELSE Ok([pipeline |-> raw.pipeline, vports |-> VportTable(raw.vports)])

---------------------------------------------------------------------------
(* Program::parse, Backend::parse and Selection::parse.  The benchmark     *)
(* oracle "null", a build feature, is never in the registry that up4d      *)
(* validates against, so its branch is not reached.  The command line's    *)
(* backend is <<>> or <<name>>.                                            *)

Registry == Programs
Backends == {"native", "x4c", "ubpf"}

Selection(pipeline, backend) ==
  IF pipeline \notin Programs THEN Err("unknown_program")
  ELSE IF backend = <<>> THEN Ok([program |-> pipeline, backend |-> "native"])
  ELSE IF backend[1] \notin Backends THEN Err("unknown_backend")
  ELSE Ok([program |-> pipeline, backend |-> backend[1]])

=============================================================================
