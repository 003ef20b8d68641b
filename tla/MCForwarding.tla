--------------------------- MODULE MCForwarding ---------------------------
(* Forwarding on octets of two bits: ports and addresses are 0 .. 15, 15   *)
(* being the punt port and 14 the compiled backends' broadcast port.       *)
EXTENDS Forwarding

Vport(id, peer) == [id |-> id, peer |-> peer]

Good(pipeline, vports) ==
  [id |-> "n1", bind |-> "a", fabric |-> "ipv4", pipeline |-> pipeline, threads |-> 2,
   pin_cores |-> <<>>, ctl_socket |-> "s", vports |-> vports, punt |-> <<>>]

Pair == <<Vport(1, "b"), Vport(2, "c")>>

(* The smallest radix, an ordinary one and the saturated one; then one     *)
(* configuration for each rule a field can break, and some for several.    *)
MCRawConfigs ==
  {Good("l2fwd", <<Vport(0, "b")>>),
   [Good("l2fwd", <<Vport(2, "b"), Vport(14, "c")>>) EXCEPT !.punt = <<15>>],
   [Good("l3fwd", Pair) EXCEPT !.pin_cores = <<<<0, 3>>>>]}
  \cup {[Good("l3fwd", Pair) EXCEPT !.bind = "x"],
        [Good("l3fwd", Pair) EXCEPT !.fabric = "x"],
        [Good("l3fwd", Pair) EXCEPT !.threads = 0],
        [Good("l3fwd", Pair) EXCEPT !.threads = 17],
        [Good("l3fwd", Pair) EXCEPT !.id = ""],
        [Good("l3fwd", Pair) EXCEPT !.ctl_socket = ""],
        [Good("l3fwd", Pair) EXCEPT !.pin_cores = <<<<0>>>>],
        [Good("l3fwd", Pair) EXCEPT !.pin_cores = <<<<0, -1>>>>],
        [Good("l3fwd", Pair) EXCEPT !.punt = <<14>>],
        Good("null", Pair),
        Good("l3fwd", <<>>),
        Good("l3fwd", <<Vport(15, "b")>>),
        Good("l3fwd", <<Vport(-1, "b"), Vport(16, "x")>>),
        Good("l3fwd", <<Vport(1, "b"), Vport(1, "c")>>),
        Good("l3fwd", <<Vport(1, "b"), Vport(2, "c"), Vport(3, "b")>>),
        Good("l3fwd", <<Vport(1, "b"), Vport(2, "a")>>),
        Good("l3fwd", <<Vport(1, "a"), Vport(1, "a"), Vport(15, "x")>>),
        [Good("null", <<Vport(1, "a"), Vport(1, "a")>>) EXCEPT !.threads = 0]}

MCCliBackends == {<<>>, <<"native">>, <<"x4c">>, <<"ubpf">>, <<"jit">>}

---------------------------------------------------------------------------
Text(form, n) == [form |-> form, n |-> n]
Dec(n) == Text("int", n)
Mac(n) == Text("mac", n)
Bare(form, n) == [value |-> Text(form, n), len |-> <<>>]
Net(n, len) == [value |-> Text("ipv4", n), len |-> <<len>>]
Positional(ts) == [form |-> "positional", pos |-> ts, named |-> {}]
Named(ts) == [form |-> "named", pos |-> <<>>, named |-> ts]
Spec3(key, action, params) ==
  [table |-> "ipv4_lpm", key |-> key, action |-> action, params |-> params]
Spec2(key, action, params) ==
  [table |-> "mac_dst", key |-> key, action |-> action, params |-> params]

(* Nested prefixes, a host route and the default route; two entries for    *)
(* one prefix, one of them typed with host bits; reserved ports.           *)
Half == Spec3(Net(8, 1), "forward", Positional(<<Dec(1), Mac(6)>>))
Quarter == Spec3(Net(12, 2), "forward", Positional(<<Dec(14), Mac(6)>>))
Quarter2 == Spec3(Net(12, 2), "forward", Positional(<<Dec(15), Mac(9)>>))
Alias == Spec3(Net(13, 2), "punt", Positional(<<>>))
Host == Spec3(Bare("ipv4", 13), "drop", Positional(<<>>))
Route == Spec3(Net(0, 0), "forward",
               Named({[name |-> "dmac", text |-> Mac(1)], [name |-> "port", text |-> Dec(2)]}))

Bad3 ==
  {Spec2(Net(8, 1), "drop", Positional(<<>>)),
   Spec3(Net(8, 5), "drop", Positional(<<>>)),
   Spec3(Bare("mac", 8), "drop", Positional(<<>>)),
   Spec3(Net(8, 1), "broadcast", Positional(<<>>)),
   Spec3(Net(8, 1), "forward", Positional(<<Dec(1)>>)),
   Spec3(Net(8, 1), "forward", Positional(<<Mac(6), Dec(1)>>)),
   Spec3(Net(8, 1), "forward", Positional(<<Dec(16), Mac(6)>>)),
   Spec3(Net(8, 1), "forward",
         Named({[name |-> "port", text |-> Dec(1)], [name |-> "mac", text |-> Mac(6)]}))}

Batches3 ==
  {<<>>} \cup {<<e>> : e \in {Half, Quarter, Quarter2, Alias, Host, Route} \cup Bad3}
    \cup {<<Half, Quarter>>, <<Quarter, Quarter2>>, <<Alias, Quarter>>, <<Host, Half>>,
          <<Route, Spec3(Net(8, 5), "drop", Positional(<<>>))>>}

To(n, port) == Spec2(Bare("mac", n), "forward", Positional(<<Dec(port)>>))
Flood == Spec2(Bare("mac", 9), "broadcast", Positional(<<>>))
Block == Spec2(Bare("mac", 6), "drop", Positional(<<>>))

Batches2 ==
  {<<>>, <<To(6, 1)>>, <<To(6, 14)>>, <<To(9, 15)>>, <<Flood>>, <<Block>>,
   <<Spec2([value |-> Mac(6), len |-> <<4>>], "drop", Positional(<<>>))>>,
   <<To(16, 1)>>, <<Block, To(6, 1)>>, <<To(9, 2), Spec2(Bare("mac", 6), "punt", Positional(<<>>))>>}

MCBatches(program) ==
  CASE program = "l2fwd" -> Batches2 [] program = "l3fwd" -> Batches3 [] OTHER -> {<<>>}

MCTableNames == {"mac_dst", "ipv4_lpm"}

MCKeyTexts(program) ==
  CASE program = "l2fwd" -> {Bare("mac", 6), Bare("mac", 9), Bare("int", 6)}
    [] program = "l3fwd" -> {Net(8, 1), Net(12, 2), Net(13, 2), Bare("ipv4", 13), Net(0, 0),
                             Net(8, 5)}
    [] OTHER -> {}

MCDefaultCalls(program) ==
  CASE program = "l2fwd" ->
         {[action |-> "drop", params |-> Positional(<<>>)],
          [action |-> "forward", params |-> Positional(<<Dec(4)>>)],
          [action |-> "forward", params |-> Positional(<<>>)]}
    [] program = "l3fwd" ->
         {[action |-> "punt", params |-> Positional(<<>>)],
          [action |-> "forward", params |-> Positional(<<Dec(4), Mac(11)>>)],
          [action |-> "flood", params |-> Positional(<<>>)]}
    [] OTHER -> {}

---------------------------------------------------------------------------
Tcp == [len |-> 60, dst |-> 6, ethertype |-> ETHERTYPE_IPV4, version |-> 4, hl |-> 20,
        ttl |-> 2, proto |-> IP_PROTO_TCP, ipdst |-> 8, ipsum |-> 5, l4sum |-> 7]

(* Each length is one a header ends at, or one short of it.                *)
MCArrivals(program) ==
  CASE program = "l2fwd" ->
         {[Tcp EXCEPT !.dst = n] : n \in {1, 6, 9}}
           \cup {[Tcp EXCEPT !.len = n] : n \in {13, 14, 2049}}
    [] program = "l3fwd" ->
         {[Tcp EXCEPT !.ipdst = n] : n \in {1, 8, 12, 13}}
           \cup {[Tcp EXCEPT !.ttl = n] : n \in {0, 1}}
           \cup {[Tcp EXCEPT !.len = n] : n \in {13, 33, 34, 2049}}
           \cup {[Tcp EXCEPT !.len = n, !.proto = IP_PROTO_UDP] : n \in {41, 42}}
           \cup {[Tcp EXCEPT !.version = 6], [Tcp EXCEPT !.hl = 16],
                 [Tcp EXCEPT !.hl = 24, !.len = 34],
                 [Tcp EXCEPT !.ethertype = 2], [Tcp EXCEPT !.ethertype = 2, !.len = 20]}
    [] OTHER -> {}

=============================================================================
