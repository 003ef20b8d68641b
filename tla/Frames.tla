------------------------------ MODULE Frames ------------------------------
(***************************************************************************)
(* Inner frames as the programs see them: the header views of up4-engine's *)
(* headers.rs, the verdicts of frame.rs and the envelope the catalog puts  *)
(* around a compiled program.                                              *)
(*                                                                         *)
(* A frame is [len, dst, ethertype, version, hl, ttl, proto, ipdst, ipsum, *)
(* l4sum]: its length in bytes and the fields some program reads or        *)
(* writes, hl being the header length ihl * 4.  A field that lies beyond   *)
(* len is not there; no operator reads it before it has checked the length.*)
(***************************************************************************)
EXTENDS Values

ETH_HDR_LEN == 14
IPV4_MIN_HDR_LEN == 20
IP_PROTO_TCP == 6
IP_PROTO_UDP == 17
ETHERTYPE_IPV4 == 2 * Octet   \* 0x0800: its octets differ

FrameFields ==
  {"len", "dst", "ethertype", "version", "hl", "ttl", "proto", "ipdst", "ipsum", "l4sum"}

(* Every field is a number of its width.                                   *)
InnerFrames ==
  [len : Nat, dst : Num, ethertype : Num, version : 0 .. 15, hl : 0 .. 60, ttl : 0 .. 255,
   proto : 0 .. 255, ipdst : Num, ipsum : Num, l4sum : Num]

Forward(port) == [kind |-> "forward", port |-> port]
Broadcast == [kind |-> "broadcast"]
Punt == [kind |-> "punt"]
Drop == [kind |-> "drop"]
Verdicts == [kind : {"forward"}, port : Num] \cup {Broadcast, Punt, Drop}

(* Ethernet::parse succeeds.                                               *)
EthernetParses(f) == f.len >= ETH_HDR_LEN

(* Ipv4::parse at ETH_HDR_LEN succeeds.                                    *)
Ipv4Parses(f) ==
  /\ f.len >= ETH_HDR_LEN + IPV4_MIN_HDR_LEN
  /\ f.version = 4
  /\ f.hl >= IPV4_MIN_HDR_LEN
  /\ ETH_HDR_LEN + f.hl <= f.len

SetDst(f, mac) == [f EXCEPT !.dst = mac]
SetTtl(f, ttl) == [f EXCEPT !.ttl = ttl]

(* Where the transport checksum of the frame starts, or past its end.      *)
L4SumAt(f) ==
  ETH_HDR_LEN + f.hl +
    (CASE f.proto = IP_PROTO_TCP -> 16 [] f.proto = IP_PROTO_UDP -> 6 [] OTHER -> f.len)

(* zero_inner_checksums.                                                   *)
ZeroInnerChecksums(f) ==
  IF ~EthernetParses(f) \/ f.ethertype # ETHERTYPE_IPV4 \/ ~Ipv4Parses(f)
    THEN f
    ELSE [f EXCEPT !.ipsum = 0,
                   !.l4sum = IF L4SumAt(f) + 2 <= f.len THEN 0 ELSE @]

---------------------------------------------------------------------------
(* The envelope: Admission::admits, Scrub::apply, Program::envelope and    *)
(* EnvelopedEngine::process.                                               *)

Envelope(program) ==
  IF program = "l2fwd"
    THEN [admit |-> "everything", scrub |-> "nothing"]
    ELSE [admit |-> "coherent_ipv4", scrub |-> "inner_checksums"]

Admits(admission, f) ==
  \/ admission = "everything"
  \/ EthernetParses(f) /\ f.ethertype = ETHERTYPE_IPV4 => Ipv4Parses(f)

Scrub(scrub, f) == IF scrub = "nothing" THEN f ELSE ZeroInnerChecksums(f)

(* A processed frame: its verdict and the bytes left in the buffer.        *)
Out(verdict, f) == [verdict |-> verdict, frame |-> f]

(* The departing half of EnvelopedEngine::process.                         *)
Departing(program, out) ==
  IF out.verdict.kind \in {"forward", "broadcast"}
    THEN [out EXCEPT !.frame = Scrub(Envelope(program).scrub, @)]
    ELSE out

=============================================================================
