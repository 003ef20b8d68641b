------------------------- MODULE ForwardingProofs -------------------------
(***************************************************************************)
(* What the node does with its tables, for every octet width, every set    *)
(* of requests and frames and every number of entries: every backend       *)
(* treats a frame as the operator's dictionary says, answers with verdicts *)
(* and errors its callers know, and dumps that dictionary.                 *)
(*                                                                         *)
(* The first part follows a frame: what each representation finds for a    *)
(* key, what each program does with it, and that both are what Expected    *)
(* reads off the dictionary (SameInv).  The last part follows a dump: that *)
(* sorting lists each entry once, what each backend says of an entry, and  *)
(* that a key it prints can be typed back.                                 *)
(***************************************************************************)
EXTENDS TableProofs

---------------------------------------------------------------------------
(* Lookup.  What a set of entries answers for a number: the entry of the   *)
(* longest prefix that matches, or nothing.                                *)

Hit(e, n) == Mask(n, e.key.len) = e.key.n

Best(C, n, e) == /\ e \in C /\ Hit(e, n)
                 /\ \A x \in C : Hit(x, n) => x.key.len <= e.key.len

Miss(C, n) == \A x \in C : ~Hit(x, n)

LEMMA DictHit ==
  ASSUME DOMAIN asked \subseteq Keys, NEW n, NEW e, Best(Dict(asked), n, e)
  PROVE  Meaning(n).action = e.action /\ Meaning(n).params = e.params
<1> DEFINE hits == {k \in DOMAIN asked : Mask(n, k.len) = k.n}
           c == CHOOSE k \in hits : \A h \in hits : h.len <= k.len
<1>1. PICK k \in DOMAIN asked : e = DE(k, asked[k])
  BY Zenon DEF Best, Dict
<1>2. k \in Keys /\ e.key = k /\ e.action = asked[k].action /\ e.params = asked[k].params
  BY <1>1, DEKey
<1>3. k \in hits
  BY <1>2 DEF Best, Hit
<1>4. ASSUME NEW h \in hits PROVE h.len <= k.len
  <2>1. h \in Keys /\ h \in DOMAIN asked /\ Mask(n, h.len) = h.n
    OBVIOUS
  <2>2. PICK x : x = DE(h, asked[h])
    OBVIOUS
  <2>3. x \in Dict(asked) /\ x.key = h
    BY <2>1, <2>2, DEKey DEF Dict
  <2>4. Hit(x, n)
    BY <2>1, <2>3 DEF Hit
  <2> QED  BY <1>2, <2>3, <2>4 DEF Best
<1> HIDE DEF hits
<1>5. c \in hits /\ \A h \in hits : h.len <= c.len
  BY <1>3, <1>4, Zenon
<1> HIDE DEF c
<1>6. c \in Keys /\ Mask(n, c.len) = c.n /\ Mask(n, k.len) = k.n
  BY <1>3, <1>5 DEF hits
<1>7. c.len <= k.len /\ k.len <= c.len
  BY <1>3, <1>4, <1>5
<1>8. c.len = k.len
  BY <1>2, <1>6, <1>7 DEF Keys
<1>9. c = k
  BY <1>2, <1>6, <1>8 DEF Keys
<1>10. Meaning(n) = asked[c]
  BY <1>3, Zenon DEF Meaning, hits, c
<1> QED  BY <1>2, <1>9, <1>10

LEMMA DictMiss ==
  ASSUME DOMAIN asked \subseteq Keys, NEW n, Miss(Dict(asked), n)
  PROVE  Meaning(n) = askedDefault
<1> DEFINE hits == {k \in DOMAIN asked : Mask(n, k.len) = k.n}
<1>1. ASSUME NEW h \in hits PROVE FALSE
  <2>1. h \in Keys /\ h \in DOMAIN asked /\ Mask(n, h.len) = h.n
    OBVIOUS
  <2>2. PICK x : x = DE(h, asked[h])
    OBVIOUS
  <2>3. x \in Dict(asked) /\ x.key = h
    BY <2>1, <2>2, DEKey DEF Dict
  <2> QED  BY <2>1, <2>3 DEF Miss, Hit
<1>2. hits = {}
  BY <1>1
<1> HIDE DEF hits
<1> QED  BY <1>2, Zenon DEF Meaning, hits

(* An action and its parameters answer n over the entries C: those of the  *)
(* best entry, or on a miss those of the default.                          *)
Answer(C, n, action, params, d) ==
  \/ \E e : Best(C, n, e) /\ action = e.action /\ params = e.params
  \/ Miss(C, n) /\ action = d.action /\ params = d.params

(* The operator's dictionary answers with its meaning.                     *)
LEMMA AnswerMeans ==
  ASSUME DOMAIN asked \subseteq Keys, NEW n, NEW action, NEW params,
         Answer(Dict(asked), n, action, params, askedDefault)
  PROVE  action = Meaning(n).action /\ params = Meaning(n).params
<1>1. ASSUME NEW e, Best(Dict(asked), n, e), action = e.action, params = e.params
      PROVE  action = Meaning(n).action /\ params = Meaning(n).params
  BY <1>1, DictHit
<1>2. ASSUME Miss(Dict(asked), n), action = askedDefault.action, params = askedDefault.params
      PROVE  action = Meaning(n).action /\ params = Meaning(n).params
  BY <1>2, DictMiss
<1> QED  BY <1>1, <1>2, Zenon DEF Answer

(* What a native action says.                                              *)
ParamsOf(p, a) == Describe(p, "", a).params
Says(p, a, d) == d.action = a.name /\ d.params = ParamsOf(p, a)

NEs(p, n, len, a, e) ==
  e.key.n = n /\ e.key.len = len /\ e.action = a.name /\ e.params = ParamsOf(p, a)

LEMMA NEIs ==
  \A p, n, len, a, e : e = NE(p, n, len, a) => NEs(p, n, len, a, e)
<1> SUFFICES ASSUME NEW p, NEW n, NEW len, NEW a, NEW e, e = NE(p, n, len, a)
             PROVE  NEs(p, n, len, a, e)
  OBVIOUS
<1>1. PICK ps : ps = Describe(p, "", a).params
  OBVIOUS
<1>2. PICK nm : nm = a.name
  OBVIOUS
<1>3. e = Entry(n, len, nm, ps)
  BY <1>1, <1>2, Zenon DEF NE
<1>4. ParamsOf(p, a) = ps
  BY <1>1, Zenon DEF ParamsOf
<1>5. e.key.n = n /\ e.key.len = len /\ e.action = nm /\ e.params = ps
  BY <1>3, EntryIs
<1> QED  BY <1>2, <1>4, <1>5, Zenon DEF NEs

LEMMA L2Lookup ==
  ASSUME NEW t, NEW n \in Num, NEW d, Says("l2fwd", t.default_action, d),
         NEW a, a = ExactApply(t, n)
  PROVE  Answer(L2Content(t), n, a.name, ParamsOf("l2fwd", a), d)
<1> DEFINE C == L2Content(t)
<1>0. Mask(n, Width) = n /\ Width \in Nat /\ Width <= Width
  BY MaskFull, WidthNat
<1>1. ASSUME NEW x \in C
      PROVE  \E m \in DOMAIN t.entries : x.key.n = m /\ x.key.len = Width
  <2>1. PICK m \in DOMAIN t.entries : x = NE("l2fwd", m, Width, t.entries[m])
    BY Zenon DEF L2Content
  <2>2. x.key.n = m /\ x.key.len = Width
    BY <2>1, NEIs DEF NEs
  <2> QED  BY <2>2
<1>2. CASE n \in DOMAIN t.entries
  <2>1. a = t.entries[n]
    BY <1>2 DEF ExactApply
  <2>2. PICK e : e = NE("l2fwd", n, Width, a)
    OBVIOUS
  <2>3. e \in C
    BY <1>2, <2>1, <2>2 DEF L2Content
  <2>4. /\ e.key.n = n /\ e.key.len = Width
        /\ e.action = a.name /\ e.params = ParamsOf("l2fwd", a)
    BY <2>2, NEIs DEF NEs
  <2> HIDE DEF C
  <2>5. Hit(e, n)
    BY <1>0, <2>4 DEF Hit
  <2>6. \A x \in C : x.key.len = Width
    BY <1>1
  <2>7. \A x \in C : x.key.len <= e.key.len
    BY <1>0, <2>4, <2>6, Zenon
  <2>8. Best(C, n, e)
    BY <2>3, <2>5, <2>7, Zenon DEF Best
  <2> QED  BY <2>4, <2>8, Zenon DEF Answer, C
<1>3. CASE n \notin DOMAIN t.entries
  <2>1. a = t.default_action
    BY <1>3 DEF ExactApply
  <2> HIDE DEF C
  <2>2. Miss(C, n)
    BY <1>0, <1>1, <1>3 DEF Miss, Hit
  <2> QED  BY <2>1, <2>2, Zenon DEF Answer, Says, C
<1> QED  BY <1>2, <1>3

LEMMA HasLength ==
  ASSUME NEW gs, Good(gs), NEW l, NEW b, NEW v, Has(gs, l, b, v)
  PROVE  l \in Nat
BY GoodFacts DEF Has, Slot

LEMMA L3Lookup ==
  ASSUME NEW t, L3Shape(t), NEW n, NEW d, Says("l3fwd", t.default_action, d),
         NEW a, a = LpmApply(t, n)
  PROVE  Answer(L3Content(t), n, a.name, ParamsOf("l3fwd", a), d)
<1> DEFINE C == L3Content(t)
<1>0. Good(t.groups)
  BY DEF L3Shape
<1>1. ASSUME NEW x \in C
      PROVE  \E l, b, v : /\ Has(t.groups, l, b, v) /\ l \in Nat
                          /\ x.key.n = b /\ x.key.len = l
  <2>1. PICK l, b, v : Has(t.groups, l, b, v) /\ x = NE("l3fwd", b, l, v)
    BY L3ContentIs
  <2>2. x.key.n = b /\ x.key.len = l
    BY <2>1, NEIs DEF NEs
  <2>3. l \in Nat
    BY <1>0, <2>1, HasLength
  <2> QED  BY <2>1, <2>2, <2>3
<1>2. CASE /\ \A l, v : ~Has(t.groups, l, Mask(n, l), v)
           /\ a = t.default_action
  <2> HIDE DEF C
  <2>1. Miss(C, n)
    <3> SUFFICES ASSUME NEW x \in C, Hit(x, n) PROVE FALSE
      BY DEF Miss
    <3>1. PICK l, b, v : Has(t.groups, l, b, v) /\ x.key.n = b /\ x.key.len = l
      BY <1>1
    <3> QED  BY <1>2, <3>1 DEF Hit
  <2> QED  BY <1>2, <2>1, Zenon DEF Answer, Says, C
<1>3. CASE \E l \in Nat :
              /\ Has(t.groups, l, Mask(n, l), a)
              /\ \A m \in Nat : m > l => \A v : ~Has(t.groups, m, Mask(n, m), v)
  <2>1. PICK l \in Nat : /\ Has(t.groups, l, Mask(n, l), a)
                         /\ \A m \in Nat : m > l => \A v : ~Has(t.groups, m, Mask(n, m), v)
    BY <1>3
  <2>2. PICK e : e = NE("l3fwd", Mask(n, l), l, a)
    OBVIOUS
  <2>3. e \in C
    BY <2>1, <2>2, L3ContentIs
  <2>4. /\ e.key.n = Mask(n, l) /\ e.key.len = l
        /\ e.action = a.name /\ e.params = ParamsOf("l3fwd", a)
    BY <2>2, NEIs DEF NEs
  <2> HIDE DEF C
  <2>5. ASSUME NEW x \in C, Hit(x, n) PROVE x.key.len <= e.key.len
    <3>1. PICK m, b, v : Has(t.groups, m, b, v) /\ m \in Nat /\ x.key.n = b /\ x.key.len = m
      BY <1>1
    <3>2. Has(t.groups, m, Mask(n, m), v)
      BY <2>5, <3>1 DEF Hit
    <3>3. ~(m > l)
      BY <2>1, <3>1, <3>2
    <3> QED  BY <2>4, <3>1, <3>3
  <2>6. Hit(e, n)
    BY <2>4 DEF Hit
  <2>7. Best(C, n, e)
    BY <2>3, <2>5, <2>6, Zenon DEF Best
  <2> QED  BY <2>4, <2>7, Zenon DEF Answer, C
<1> QED  BY <1>0, <1>2, <1>3, LongestPrefixWins

(* The x4c pipeline: any of the longest matches.                           *)
LEMMA XLookup ==
  ASSUME NEW p \in Programs, NEW t, XShape(p, t), NEW n \in Num,
         \A e \in X4cContent(t) : Mask(e.key.n, e.key.len) = e.key.n
  PROVE  /\ \A m \in MatchSelector(t.pipe, n) : Best(X4cContent(t), n, XE(m))
         /\ MatchSelector(t.pipe, n) = {} => Miss(X4cContent(t), n)
<1> DEFINE C == X4cContent(t)
           hits == {e \in t.pipe : Mask(e.key.n, e.key.len) = Mask(n, e.key.len)}
<1>1. \A x : XE(x).key.n = x.key.n /\ XE(x).key.len = x.key.len
  BY EntryIs DEF XE
<1>2. \A x \in t.pipe : XE(x) \in C
  BY DEF X4cContent, XE
<1>3. \A e \in C : \E x \in t.pipe : e = XE(x)
  BY DEF X4cContent, XE
<1>4. \A x \in t.pipe : Mask(x.key.n, x.key.len) = x.key.n
  BY <1>1, <1>2
<1>5. \A x \in t.pipe : x.key.len \in 0 .. Width
  <2> SUFFICES ASSUME NEW x \in t.pipe PROVE x.key.len \in 0 .. Width
    OBVIOUS
  <2>1. PICK e \in LiveSet(t) : x = PEntry(e)
    BY DEF XShape
  <2>2. LiveTyped(p, e)
    BY DEF XShape, LiveGood, LiveSet
  <2>3. x.key.len = e.key.len
    BY <2>1 DEF PEntry, PKey
  <2> QED  BY <2>2, <2>3, CanonTyped DEF LiveTyped
<1>6. \A x \in t.pipe : x \in hits <=> Hit(XE(x), n)
  BY <1>1, <1>4 DEF Hit
<1>7. MatchSelector(t.pipe, n) = {e \in hits : \A x \in hits : x.key.len <= e.key.len}
  BY DEF MatchSelector
<1>8. hits \subseteq t.pipe
  OBVIOUS
<1> HIDE DEF hits, C
<1>9. ASSUME NEW m \in MatchSelector(t.pipe, n) PROVE Best(C, n, XE(m))
  <2>1. m \in hits /\ m \in t.pipe /\ \A x \in hits : x.key.len <= m.key.len
    BY <1>7, <1>8
  <2>2. ASSUME NEW e \in C, Hit(e, n) PROVE e.key.len <= XE(m).key.len
    <3>1. PICK x \in t.pipe : e = XE(x)
      BY <1>3
    <3>2. x \in hits
      BY <1>6, <2>2, <3>1
    <3> QED  BY <1>1, <2>1, <3>1, <3>2
  <2> QED  BY <1>2, <1>6, <2>1, <2>2 DEF Best
<1>10. ASSUME MatchSelector(t.pipe, n) = {} PROVE Miss(C, n)
  <2>1. CASE hits = {}
    BY <1>3, <1>6, <2>1 DEF Miss
  <2>2. CASE hits # {}
    <3> DEFINE T == {x.key.len : x \in hits}
    <3>1. T \subseteq Nat /\ T # {} /\ Width \in Nat /\ \A y \in T : y <= Width
      BY <1>5, <1>8, <2>2, WidthNat
    <3> HIDE DEF T
    <3>2. Max(T) \in T /\ \A y \in T : Max(T) >= y
      BY <3>1, MaxIsGreatest
    <3>3. PICK m \in hits : m.key.len = Max(T)
      BY <3>2 DEF T
    <3>4. \A x \in hits : x.key.len \in T /\ x.key.len \in Nat
      BY <3>1 DEF T
    <3>5. \A x \in hits : x.key.len <= m.key.len
      BY <3>2, <3>3, <3>4
    <3> QED  BY <1>7, <1>10, <3>3, <3>5
  <2> QED  BY <2>1, <2>2
<1> QED  BY <1>9, <1>10 DEF C

(* The key the ubpf programs build for a number, and what a bucket of one  *)
(* length is asked for.                                                    *)
UKey(p, n) == IF p = "l2fwd" THEN <<n % Octet, n \div Octet, 0>>
              ELSE <<0, n % Octet, n \div Octet>>
Probe(p, n, l) == IF p = "l2fwd" THEN <<n % Octet, n \div Octet, 0>> ELSE LeBytes(Mask(n, l))

LEMMA LeSame ==
  ASSUME NEW n \in Num, NEW m \in Num
  PROVE  /\ n = m <=> LeBytes(n) = LeBytes(m)
         /\ n = m <=> <<n % Octet, n \div Octet, 0>> = <<m % Octet, m \div Octet, 0>>
<1>1. n = (n \div Octet) * Octet + (n % Octet) /\ m = (m \div Octet) * Octet + (m % Octet)
  BY Octets
<1>2. PICK q, r, s, t : q = n \div Octet /\ r = n % Octet /\ s = m \div Octet /\ t = m % Octet
  OBVIOUS
<1>3. n = q * Octet + r /\ m = s * Octet + t
  BY <1>1, <1>2, Zenon
<1>4. r = t /\ q = s => n = m
  BY <1>3, Zenon
<1>5. <<r, q>> = <<t, s>> => r = t /\ q = s
  OBVIOUS
<1>6. <<r, q, 0>> = <<t, s, 0>> => r = t /\ q = s
  OBVIOUS
<1>7. LeBytes(n) = <<r, q>> /\ LeBytes(m) = <<t, s>>
  BY <1>2 DEF LeBytes
<1> QED  BY <1>2, <1>4, <1>5, <1>6, <1>7, Zenon

(* A slot hits a number exactly when its bytes are the probe of its length. *)
LEMMA USlotHit ==
  ASSUME NEW p \in Programs, NEW n \in Num, NEW l, NEW b, NEW v, USlot(p, l, b, v)
  PROVE  /\ Hit(UR(p, l, b, v), n) <=> b = Probe(p, n, l)
         /\ p = "l2fwd" => l = 0 /\ UR(p, l, b, v).key.len = Width
         /\ p = "l3fwd" => l \in 0 .. Width /\ UR(p, l, b, v).key.len = l
         /\ \E a, vals : /\ CallTyped(p, a, vals) /\ v = ValueImage(Abi(p), a, vals)
                         /\ UR(p, l, b, v).action = a /\ UR(p, l, b, v).params = Numbers(vals)
<1>1. PICK k, a, vals :
        /\ k \in Canonicals(p) /\ CallTyped(p, a, vals)
        /\ l = UAt(p, k).len /\ b = UAt(p, k).base /\ v = ValueImage(Abi(p), a, vals)
  BY Zenon DEF USlot
<1>2. PICK x : x = UR(p, l, b, v)
  OBVIOUS
<1>3. x = Entry(k.n, k.len, a, Numbers(vals))
  BY <1>1, <1>2, UEIs DEF UR
<1>4. PICK ps : ps = Numbers(vals)
  OBVIOUS
<1>5. x.key.n = k.n /\ x.key.len = k.len /\ x.action = a /\ x.params = ps
  BY <1>3, <1>4, EntryIs
<1>6. CASE p = "l2fwd"
  <2>1. k.n \in Num /\ k.len = Width
    BY <1>1, <1>6 DEF Canonicals
  <2>2. l = 0 /\ b = <<k.n % Octet, k.n \div Octet, 0>>
    BY <1>1, <1>6 DEF UAt
  <2>3. Hit(x, n) <=> n = k.n
    BY <1>5, <2>1, MaskFull DEF Hit
  <2>4. Hit(x, n) <=> b = Probe(p, n, l)
    BY <1>6, <2>1, <2>2, <2>3, LeSame DEF Probe
  <2> QED  BY <1>1, <1>2, <1>4, <1>5, <1>6, <2>1, <2>2, <2>4
<1>7. CASE p = "l3fwd"
  <2>1. k.n \in Num /\ k.len \in 0 .. Width
    BY <1>1, <1>7 DEF Canonicals
  <2>2. l = k.len /\ b = LeBytes(k.n)
    BY <1>1, <1>7 DEF UAt, LeBytes
  <2>3. PICK m : m = Mask(n, l)
    OBVIOUS
  <2>4. m \in Num
    BY <2>1, <2>2, <2>3, MaskFacts
  <2>5. Hit(x, n) <=> m = k.n
    BY <1>5, <2>2, <2>3 DEF Hit
  <2>6. m = k.n <=> LeBytes(m) = LeBytes(k.n)
    BY <2>1, <2>4, LeSame
  <2>7. Hit(x, n) <=> b = Probe(p, n, l)
    BY <1>7, <2>2, <2>3, <2>5, <2>6 DEF Probe
  <2> QED  BY <1>1, <1>2, <1>4, <1>5, <1>7, <2>1, <2>2, <2>7
<1> QED  BY <1>6, <1>7 DEF Programs

(* What UbpfLookup sees of the entry map.                                  *)
LEMMA UbpfHits ==
  ASSUME NEW p \in Programs, NEW t, UShape(p, t), NEW n \in Num
  PROVE  LET bs == t.entries.buckets
             hits == {i \in DOMAIN bs : Probe(p, n, bs[i].len) \in DOMAIN bs[i].entries}
         IN UbpfLookup(t.entries, UKey(p, n)) =
              IF hits = {} THEN <<>>
              ELSE bs[Min(hits)].entries[Probe(p, n, bs[Min(hits)].len)]
<1> DEFINE bs == t.entries.buckets
           hits == {i \in DOMAIN bs : Probe(p, n, bs[i].len) \in DOMAIN bs[i].entries}
           T == t.entries
           w == Window(T, UKey(p, n))
           probe(i) == IF T.matching = "exact" THEN w ELSE ZeroBelow(w, T.buckets[i].len)
           places == IF T.matching = "exact" THEN DOMAIN T.buckets \cap {1} ELSE DOMAIN T.buckets
           seen == {i \in places : probe(i) \in DOMAIN T.buckets[i].entries}
<1>1. /\ T.matching = Abi(p).matching /\ T.match_at = Abi(p).match_at
      /\ T.match_len = Abi(p).match_len /\ T.default = <<>> /\ Good(bs)
  BY DEF UShape, UEntries
<1>2. ASSUME NEW i \in DOMAIN bs
      PROVE  \E b, v : Has(bs, bs[i].len, b, v) /\ USlot(p, bs[i].len, b, v)
  <2>1. PICK b : b \in DOMAIN bs[i].entries
    BY <1>1, GoodFacts DEF Ordered
  <2>2. Has(bs, bs[i].len, b, bs[i].entries[b])
    BY <2>1, Zenon DEF Has, Slot
  <2> QED  BY <2>2 DEF UShape
<1>3. \A i \in DOMAIN bs : /\ p = "l2fwd" => bs[i].len = 0
                           /\ p = "l3fwd" => bs[i].len \in 0 .. Width
  BY <1>2, USlotHit
<1>4. UbpfLookup(T, UKey(p, n)) =
        IF seen = {} THEN <<>> ELSE T.buckets[Min(seen)].entries[probe(Min(seen))]
  BY <1>1, Zenon DEF UbpfLookup
<1>P. p = "l2fwd" \/ p = "l3fwd"
  BY DEF Programs
<1>5. ASSUME p = "l2fwd"
      PROVE  places = DOMAIN bs /\ \A i \in DOMAIN bs : probe(i) = Probe(p, n, bs[i].len)
  <2>1. T.matching = "exact" /\ w = UKey(p, n)
    BY <1>1, <1>5, AbiIs, Windows DEF Window, UKey
  <2>2. \A i \in DOMAIN bs : i = 1
    <3> SUFFICES ASSUME NEW i \in DOMAIN bs PROVE i = 1
      OBVIOUS
    <3>1. 1 \in DOMAIN bs
      BY <1>1, GoodFacts
    <3>2. bs[i].len = bs[1].len
      BY <1>3, <1>5, <3>1
    <3> QED  BY <1>1, <3>1, <3>2, LengthOnce
  <2>3. places = DOMAIN bs
    BY <2>1, <2>2
  <2>4. \A i \in DOMAIN bs : probe(i) = Probe(p, n, bs[i].len)
    BY <1>5, <2>1 DEF Probe, UKey
  <2> QED  BY <2>3, <2>4
<1>6. ASSUME p = "l3fwd"
      PROVE  places = DOMAIN bs /\ \A i \in DOMAIN bs : probe(i) = Probe(p, n, bs[i].len)
  <2>1. T.matching = "lpm" /\ w = LeBytes(n)
    BY <1>1, <1>6, AbiIs, Windows DEF Window, UKey, LeBytes
  <2>3. places = DOMAIN bs
    BY <2>1
  <2>4. \A i \in DOMAIN bs : probe(i) = Probe(p, n, bs[i].len)
    BY <1>3, <1>6, <2>1, ZeroBelowIs DEF Probe
  <2> QED  BY <2>3, <2>4
<1>7. places = DOMAIN bs /\ \A i \in DOMAIN bs : probe(i) = Probe(p, n, bs[i].len)
  BY <1>5, <1>6, <1>P
<1>8. seen = hits
  BY <1>7
<1>9. hits # {} => Min(hits) \in DOMAIN bs
  <2>1. hits \subseteq Nat
    BY <1>1, GoodFacts
  <2>2. hits \subseteq DOMAIN bs
    OBVIOUS
  <2> HIDE DEF hits
  <2>3. hits # {} => Min(hits) \in hits
    BY <2>1, MinIsLeast
  <2> QED  BY <2>2, <2>3
<1>10. hits # {} => probe(Min(hits)) = Probe(p, n, bs[Min(hits)].len)
  BY <1>7, <1>9
<1> HIDE DEF hits, seen, probe, places, w
<1>11. UbpfLookup(T, UKey(p, n)) =
         IF hits = {} THEN <<>> ELSE bs[Min(hits)].entries[Probe(p, n, bs[Min(hits)].len)]
  BY <1>4, <1>8, <1>10, Zenon
<1> QED  BY <1>11, Zenon DEF hits

(* The entry a slot stands for answers with the action its bytes encode.   *)
Valued(p, v, a, vals) == CallTyped(p, a, vals) /\ v = ValueImage(Abi(p), a, vals)

LEMMA UbpfFinds ==
  ASSUME NEW p \in Programs, NEW t, UShape(p, t), NEW n \in Num,
         NEW v, v = UbpfLookup(t.entries, UKey(p, n))
  PROVE  \/ v = <<>> /\ Miss(UbpfContent(p, t), n)
         \/ \E a, vals, e : /\ Valued(p, v, a, vals) /\ Best(UbpfContent(p, t), n, e)
                            /\ e.action = a /\ e.params = Numbers(vals)
<1> DEFINE bs == t.entries.buckets
           hits == {i \in DOMAIN bs : Probe(p, n, bs[i].len) \in DOMAIN bs[i].entries}
           C == UbpfContent(p, t)
<1>1. v = IF hits = {} THEN <<>> ELSE bs[Min(hits)].entries[Probe(p, n, bs[Min(hits)].len)]
  BY UbpfHits, Zenon
<1>2. Good(bs) /\ \A l, b, w : Has(bs, l, b, w) => USlot(p, l, b, w)
  BY DEF UShape
<1>3. \A i \in hits : i \in DOMAIN bs /\ Probe(p, n, bs[i].len) \in DOMAIN bs[i].entries
  OBVIOUS
<1>4. ASSUME NEW x \in C, Hit(x, n)
      PROVE  \E i \in hits : \E b, w : /\ Has(bs, bs[i].len, b, w) /\ USlot(p, bs[i].len, b, w)
                                       /\ x = UR(p, bs[i].len, b, w)
  <2>1. PICK l, b, w : Has(bs, l, b, w) /\ x = UR(p, l, b, w)
    BY UbpfContentIs
  <2>2. USlot(p, l, b, w)
    BY <1>2, <2>1
  <2>3. b = Probe(p, n, l)
    BY <1>4, <2>1, <2>2, USlotHit
  <2>4. PICK i \in DOMAIN bs : bs[i].len = l /\ b \in DOMAIN bs[i].entries
    BY <2>1, Zenon DEF Has, Slot
  <2>5. i \in hits
    BY <2>3, <2>4
  <2> QED  BY <2>1, <2>2, <2>4, <2>5
<1>5. C = UbpfContent(p, t)
  OBVIOUS
<1>6. hits \subseteq Nat
  BY <1>2, GoodFacts
<1> HIDE DEF hits, C
<1>7. CASE hits = {}
  BY <1>1, <1>4, <1>5, <1>7 DEF Miss
<1>8. CASE hits # {}
  <2>1. PICK k : k = Min(hits)
    OBVIOUS
  <2>2. k \in hits /\ \A i \in hits : k <= i
    BY <1>6, <1>8, <2>1, MinIsLeast
  <2>3. PICK l, b : l = bs[k].len /\ b = Probe(p, n, l)
    OBVIOUS
  <2>4. v = bs[k].entries[b]
    BY <1>1, <1>8, <2>1, <2>3, Zenon
  <2>5. k \in DOMAIN bs /\ b \in DOMAIN bs[k].entries
    BY <1>3, <2>2, <2>3
  <2>6. Has(bs, l, b, v)
    BY <2>3, <2>4, <2>5, Zenon DEF Has, Slot
  <2>7. USlot(p, l, b, v)
    BY <1>2, <2>6
  <2>8. PICK e : e = UR(p, l, b, v)
    OBVIOUS
  <2>9. e \in C
    BY <2>6, <2>8, UbpfContentIs DEF C
  <2>10. Hit(e, n)
    BY <2>3, <2>7, <2>8, USlotHit
  <2>11. ASSUME NEW x \in C, Hit(x, n) PROVE x.key.len <= e.key.len
    <3>1. PICK i \in hits : \E c, w : /\ USlot(p, bs[i].len, c, w)
                                      /\ x = UR(p, bs[i].len, c, w)
      BY <1>4, <2>11
    <3>2. PICK c, w : USlot(p, bs[i].len, c, w) /\ x = UR(p, bs[i].len, c, w)
      BY <3>1
    <3>3. i = k \/ k < i
      BY <1>6, <2>2
    <3>4. i \in DOMAIN bs
      BY <1>3
    <3>5. i = k => bs[i].len = l
      BY <2>3
    <3>6. k < i => l > bs[i].len
      BY <1>2, <2>3, <2>5, <3>4, GoodFacts DEF Ordered
    <3>7. CASE p = "l2fwd"
      <4>1. x.key.len = Width /\ e.key.len = Width
        BY <2>7, <2>8, <3>2, <3>7, USlotHit
      <4> QED  BY <4>1, WidthNat
    <3>8. CASE p = "l3fwd"
      <4>1. x.key.len = bs[i].len /\ e.key.len = l /\ l \in 0 .. Width /\ bs[i].len \in 0 .. Width
        BY <2>7, <2>8, <3>2, <3>8, USlotHit
      <4> QED  BY <3>3, <3>5, <3>6, <4>1, WidthNat
    <3> QED  BY <3>7, <3>8 DEF Programs
  <2>12. Best(C, n, e)
    BY <2>9, <2>10, <2>11, Zenon DEF Best
  <2>13. \E a, vals : /\ CallTyped(p, a, vals) /\ v = ValueImage(Abi(p), a, vals)
                      /\ e.action = a /\ e.params = Numbers(vals)
    BY <2>7, <2>8, USlotHit
  <2> QED  BY <1>5, <2>12, <2>13, Zenon DEF Valued
<1> QED  BY <1>7, <1>8

(* The defaultAction map.                                                  *)
UDefaults(p, a, vals) ==
  [matching |-> "exact", match_at |-> 1, match_len |-> 1, buckets |-> <<>>,
   default |-> ValueImage(Abi(p), a, vals)]

LEMMA ImageNotEmpty ==
  ASSUME NEW p \in Programs, NEW a, NEW vals
  PROVE  ValueImage(Abi(p), a, vals) # <<>>
<1>1. PICK im : im = ValueImage(Abi(p), a, vals)
  OBVIOUS
<1>2. DOMAIN im = 1 .. Abi(p).value
  BY <1>1, Zenon DEF ValueImage
<1>3. Abi(p).value \in {3, 6}
  BY AbiIs DEF Programs
<1>4. 1 \in DOMAIN im
  BY <1>2, <1>3
<1>5. im # <<>>
  BY <1>4
<1> QED  BY <1>1, <1>5

LEMMA DefaultsAnswer ==
  ASSUME NEW d, d.buckets = <<>>, NEW key
  PROVE  UbpfLookup(d, key) = d.default
<1> DEFINE w == Window(d, key)
           probe(i) == IF d.matching = "exact" THEN w ELSE ZeroBelow(w, d.buckets[i].len)
           places == IF d.matching = "exact" THEN DOMAIN d.buckets \cap {1} ELSE DOMAIN d.buckets
           hits == {i \in places : probe(i) \in DOMAIN d.buckets[i].entries}
<1>1. DOMAIN d.buckets = {}
  OBVIOUS
<1> HIDE DEF probe
<1>2. hits = {}
  BY <1>1
<1> HIDE DEF hits
<1> QED  BY <1>2, Zenon DEF UbpfLookup, hits, probe

LEMMA UbpfAnswer ==
  ASSUME NEW p \in Programs, NEW t, UShape(p, t), NEW n \in Num,
         NEW da, NEW dv, CallTyped(p, da, dv), t.defaults = UDefaults(p, da, dv),
         NEW d, d.action = da, d.params = Numbers(dv)
  PROVE  \E a, vals : /\ Valued(p, MatchOrDefault(t, UKey(p, n)), a, vals)
                      /\ Answer(UbpfContent(p, t), n, a, Numbers(vals), d)
<1>1. PICK v : v = UbpfLookup(t.entries, UKey(p, n))
  OBVIOUS
<1>2. MatchOrDefault(t, UKey(p, n)) = IF v = <<>> THEN UbpfLookup(t.defaults, <<0>>) ELSE v
  BY <1>1, Zenon DEF MatchOrDefault, MapLookup
<1>3. CASE v = <<>> /\ Miss(UbpfContent(p, t), n)
  <2>1. t.defaults.buckets = <<>> /\ t.defaults.default = ValueImage(Abi(p), da, dv)
    BY DEF UDefaults
  <2>2. MatchOrDefault(t, UKey(p, n)) = ValueImage(Abi(p), da, dv)
    BY <1>2, <1>3, <2>1, DefaultsAnswer
  <2>3. Valued(p, MatchOrDefault(t, UKey(p, n)), da, dv)
    BY <2>2, Zenon DEF Valued
  <2>4. Answer(UbpfContent(p, t), n, da, Numbers(dv), d)
    BY <1>3, Zenon DEF Answer
  <2> QED  BY <2>3, <2>4
<1>4. ASSUME NEW a, NEW vals, NEW e,
             Valued(p, v, a, vals), Best(UbpfContent(p, t), n, e),
             e.action = a, e.params = Numbers(vals)
      PROVE  /\ Valued(p, MatchOrDefault(t, UKey(p, n)), a, vals)
             /\ Answer(UbpfContent(p, t), n, a, Numbers(vals), d)
  <2>1. v # <<>>
    BY <1>4, ImageNotEmpty DEF Valued
  <2>2. MatchOrDefault(t, UKey(p, n)) = v
    BY <1>2, <2>1, Zenon
  <2>3. Answer(UbpfContent(p, t), n, a, Numbers(vals), d)
    BY <1>4, Zenon DEF Answer
  <2> QED  BY <1>4, <2>2, <2>3, Zenon
<1> QED  BY <1>1, <1>3, <1>4, UbpfFinds, Zenon

---------------------------------------------------------------------------
(* Frames.                                                                 *)

(* A router's work on a frame: one hop less, and the next hop's address.   *)
Sent(f, mac) == [f EXCEPT !.ttl = @ - 1, !.dst = mac]
Unsummed(f) == [f EXCEPT !.ipsum = 0]

(* The frame an action makes of f.                                         *)
Want(p, f, a, ps) ==
  IF f.len < 14 \/ (p = "l3fwd" /\ ~Routable(f)) THEN Out(Drop, f)
  ELSE CASE a = "drop" -> Out(Drop, f)
         [] a = "punt" -> Out(Punt, f)
         [] a = "broadcast" -> Out(Broadcast, f)
         [] a = "forward" /\ p = "l2fwd" -> Out(Forward(ps[1]), f)
         [] OTHER -> Out(Forward(ps[1]), ZeroInnerChecksums(Sent(f, ps[2])))

ReadAs(b, v) ==
  IF b = "native" THEN v
  ELSE CASE v = Forward(X4C_PUNT_PORT) -> Punt
         [] v = Forward(X4C_BROADCAST_PORT) -> Broadcast
         [] OTHER -> v

Agrees(b, f, want, out) ==
  LET v == out.verdict
      reserved == b # "native" /\ want.verdict = Forward(X4C_BROADCAST_PORT)
  IN IF b = "ubpf" /\ f.len > MTU THEN v = Drop
     ELSE /\ v = ReadAs(b, want.verdict)
          /\ v.kind \in {"forward", "broadcast"} /\ ~reserved => out.frame = want.frame
          /\ v.kind \in {"punt", "drop"} => out.frame = f

LEMMA ExpectedIs ==
  ASSUME NEW f, NEW n, n = IF sel.program = "l2fwd" THEN f.dst ELSE f.ipdst,
         NEW a, NEW ps, a = Meaning(n).action, ps = Meaning(n).params
  PROVE  Expected(f) = Want(sel.program, f, a, ps)
BY Zenon DEF Expected, Want, Sent

(* What holds of every frame, the reserved ports and the length limit      *)
(* included: the inductive form of SameFunction.                           *)
SameReading ==
  last.kind = "frame" /\ ~Diverged => Agrees(sel.backend, last.in, Expected(last.in), last.out)

(* Verdicts are told apart by their kinds.                                 *)
LEMMA VerdictIs ==
  /\ \A p : Forward(p).kind = "forward" /\ Forward(p).port = p
  /\ Broadcast.kind = "broadcast" /\ Punt.kind = "punt" /\ Drop.kind = "drop"
  /\ \A p : Forward(p) # Drop /\ Forward(p) # Punt /\ Forward(p) # Broadcast
  /\ Drop # Punt /\ Drop # Broadcast /\ Punt # Broadcast
  /\ \A p, q : Forward(p) = Forward(q) <=> p = q
  /\ \A v, f : Out(v, f).verdict = v /\ Out(v, f).frame = f
BY DEF Forward, Broadcast, Punt, Drop, Out

LEMMA ReadIs ==
  ASSUME NEW b
  PROVE  /\ ReadAs(b, Drop) = Drop /\ ReadAs(b, Punt) = Punt /\ ReadAs(b, Broadcast) = Broadcast
         /\ \A v : ReadAs("native", v) = v
BY VerdictIs, Zenon DEF ReadAs

(* The output of a frame dropped, punted or flooded as it came.            *)
LEMMA PlainAgrees ==
  ASSUME NEW b, NEW f, NEW v \in {Drop, Punt, Broadcast},
         b = "ubpf" /\ f.len > MTU => v = Drop
  PROVE  Agrees(b, f, Out(v, f), Out(v, f))
<1>1. PICK o : o = Out(v, f)
  OBVIOUS
<1>2. o.verdict = v /\ o.frame = f
  BY <1>1, VerdictIs
<1>3. ReadAs(b, v) = v
  BY ReadIs
<1> QED  BY <1>1, <1>2, <1>3, Zenon DEF Agrees

LEMMA ParamsOfIs ==
  \A c : c.name = "forward" =>
    /\ ParamsOf("l2fwd", c)[1] = c.port
    /\ ParamsOf("l3fwd", c)[1] = c.port /\ ParamsOf("l3fwd", c)[2] = c.dmac
<1> SUFFICES ASSUME NEW c, c.name = "forward"
             PROVE  /\ ParamsOf("l2fwd", c)[1] = c.port
                    /\ ParamsOf("l3fwd", c)[1] = c.port /\ ParamsOf("l3fwd", c)[2] = c.dmac
  OBVIOUS
<1>1. PICK key : key = ""
  OBVIOUS
<1>2. /\ Describe("l2fwd", key, c).params = <<c.port>>
      /\ Describe("l3fwd", key, c).params = <<c.port, c.dmac>>
  BY DEF Describe
<1>3. ParamsOf("l2fwd", c) = <<c.port>> /\ ParamsOf("l3fwd", c) = <<c.port, c.dmac>>
  BY <1>1, <1>2, Zenon DEF ParamsOf
<1> QED  BY <1>3

(* What Want is, case by case.                                             *)
LEMMA WantDrops ==
  ASSUME NEW p, NEW f, NEW a, NEW ps, f.len < 14 \/ (p = "l3fwd" /\ ~Routable(f))
  PROVE  Want(p, f, a, ps) = Out(Drop, f)
BY Zenon DEF Want

LEMMA WantIs ==
  ASSUME NEW p \in Programs, NEW f, NEW ps
  PROVE  /\ \A a : (f.len < 14 \/ (p = "l3fwd" /\ ~Routable(f))) => Want(p, f, a, ps) = Out(Drop, f)
         /\ ~(f.len < 14 \/ (p = "l3fwd" /\ ~Routable(f))) =>
              /\ Want(p, f, "drop", ps) = Out(Drop, f)
              /\ Want(p, f, "punt", ps) = Out(Punt, f)
              /\ Want(p, f, "broadcast", ps) = Out(Broadcast, f)
              /\ p = "l2fwd" => Want(p, f, "forward", ps) = Out(Forward(ps[1]), f)
              /\ p = "l3fwd" => Want(p, f, "forward", ps) =
                                  Out(Forward(ps[1]), ZeroInnerChecksums(Sent(f, ps[2])))
<1> DEFINE bad == f.len < 14 \/ (p = "l3fwd" /\ ~Routable(f))
<1>0. p = "l2fwd" => p # "l3fwd"
  OBVIOUS
<1>1. ASSUME bad, NEW a PROVE Want(p, f, a, ps) = Out(Drop, f)
  BY <1>1, Zenon DEF Want
<1>2. ASSUME ~bad
      PROVE  /\ Want(p, f, "drop", ps) = Out(Drop, f)
             /\ Want(p, f, "punt", ps) = Out(Punt, f)
             /\ Want(p, f, "broadcast", ps) = Out(Broadcast, f)
             /\ p = "l2fwd" => Want(p, f, "forward", ps) = Out(Forward(ps[1]), f)
             /\ p = "l3fwd" => Want(p, f, "forward", ps) =
                                 Out(Forward(ps[1]), ZeroInnerChecksums(Sent(f, ps[2])))
  <2>1. Want(p, f, "drop", ps) = Out(Drop, f)
    BY <1>2 DEF Want
  <2>2. Want(p, f, "punt", ps) = Out(Punt, f)
    BY <1>2 DEF Want
  <2>3. Want(p, f, "broadcast", ps) = Out(Broadcast, f)
    BY <1>2 DEF Want
  <2>4. p = "l2fwd" => Want(p, f, "forward", ps) = Out(Forward(ps[1]), f)
    BY <1>2 DEF Want
  <2>5. p = "l3fwd" => Want(p, f, "forward", ps) =
                         Out(Forward(ps[1]), ZeroInnerChecksums(Sent(f, ps[2])))
    BY <1>2 DEF Want
  <2> QED  BY <2>1, <2>2, <2>3, <2>4, <2>5
<1> QED  BY <1>1, <1>2, Zenon

ActionNames(p) == IF p = "l2fwd" THEN {"forward", "broadcast", "drop"} ELSE {"forward", "punt", "drop"}

LEMMA Parses ==
  ASSUME NEW f \in InnerFrames
  PROVE  /\ EthernetParses(f) <=> ~(f.len < 14)
         /\ Routable(f) <=> /\ EthernetParses(f) /\ f.ethertype = ETHERTYPE_IPV4
                            /\ Ipv4Parses(f) /\ f.ttl # 0
<1>1. f.len \in Nat /\ f.hl \in 0 .. 60 /\ f.ttl \in 0 .. 255
  BY DEF InnerFrames
<1> QED  BY <1>1 DEF EthernetParses, Routable, Ipv4Parses, ETH_HDR_LEN, IPV4_MIN_HDR_LEN

LEMMA NativeIsWant ==
  ASSUME NEW p \in Programs, NEW f \in InnerFrames, NEW t,
         NEW c, c = IF p = "l2fwd" THEN ExactApply(t, f.dst) ELSE LpmApply(t, f.ipdst),
         c.name \in ActionNames(p)
  PROVE  NativeProcess(p, t, f) = Want(p, f, c.name, ParamsOf(p, c))
<1>1. PICK ps : ps = ParamsOf(p, c)
  OBVIOUS
<1>2. CASE p = "l2fwd"
  <2>1. NativeProcess(p, t, f) = Out(IF f.len < 14 THEN Drop ELSE L2Verdict(c), f)
    BY <1>2, Parses, Zenon DEF NativeProcess, L2Process
  <2>2. CASE f.len < 14
    <3>1. Want(p, f, c.name, ps) = Out(Drop, f)
      BY <2>2, WantDrops
    <3> QED  BY <1>1, <2>1, <2>2, <3>1
  <2>3. CASE ~(f.len < 14)
    <3>1. NativeProcess(p, t, f) = Out(L2Verdict(c), f)
      BY <2>1, <2>3
    <3>2. c.name = "forward" \/ c.name = "broadcast" \/ c.name = "drop"
      BY <1>2 DEF ActionNames
    <3>3. CASE c.name = "forward"
      <4>1. L2Verdict(c) = Forward(c.port)
        BY <3>3 DEF L2Verdict
      <4>2. ps[1] = c.port
        BY <1>1, <1>2, <3>3, ParamsOfIs
      <4>3. Want(p, f, "forward", ps) = Out(Forward(ps[1]), f)
        BY <1>2, <2>3, WantIs
      <4> QED  BY <1>1, <3>1, <3>3, <4>1, <4>2, <4>3, Zenon
    <3>4. CASE c.name = "broadcast"
      <4>1. L2Verdict(c) = Broadcast
        BY <3>4 DEF L2Verdict
      <4>2. Want(p, f, "broadcast", ps) = Out(Broadcast, f)
        BY <1>2, <2>3, WantIs
      <4> QED  BY <1>1, <3>1, <3>4, <4>1, <4>2, Zenon
    <3>5. CASE c.name = "drop"
      <4>1. L2Verdict(c) = Drop
        BY <3>5 DEF L2Verdict
      <4>2. Want(p, f, "drop", ps) = Out(Drop, f)
        BY <1>2, <2>3, WantIs
      <4> QED  BY <1>1, <3>1, <3>5, <4>1, <4>2, Zenon
    <3> QED  BY <3>2, <3>3, <3>4, <3>5
  <2> QED  BY <2>2, <2>3
<1>3. CASE p = "l3fwd"
  <2>0. p # "l2fwd"
    BY <1>3
  <2>1. /\ ~Routable(f) => NativeProcess(p, t, f) = Out(Drop, f)
        /\ Routable(f) => NativeProcess(p, t, f) =
             CASE c.name = "forward" ->
                    Out(Forward(c.port), ZeroInnerChecksums(SetDst(SetTtl(f, f.ttl - 1), c.dmac)))
               [] c.name = "punt" -> Out(Punt, f)
               [] OTHER -> Out(Drop, f)
    BY <2>0, Parses, Zenon DEF NativeProcess, L3Process
  <2>2. CASE ~Routable(f)
    <3>1. NativeProcess(p, t, f) = Out(Drop, f)
      BY <2>1, <2>2, Zenon
    <3>2. PICK a : a = c.name
      OBVIOUS
    <3>3. Want(p, f, a, ps) = Out(Drop, f)
      BY <1>3, <2>2, WantIs
    <3> QED  BY <1>1, <3>1, <3>2, <3>3, Zenon
  <2>3. CASE Routable(f)
    <3>0. ~(f.len < 14 \/ (p = "l3fwd" /\ ~Routable(f)))
      BY <2>3, Parses
    <3>2. c.name = "forward" \/ c.name = "punt" \/ c.name = "drop"
      BY <1>3 DEF ActionNames
    <3>3. CASE c.name = "forward"
      <4>1. NativeProcess(p, t, f) =
              Out(Forward(c.port), ZeroInnerChecksums(SetDst(SetTtl(f, f.ttl - 1), c.dmac)))
        BY <2>1, <2>3, <3>3
      <4>2. ps[1] = c.port /\ ps[2] = c.dmac
        BY <1>1, <1>3, <3>3, ParamsOfIs
      <4>3. SetDst(SetTtl(f, f.ttl - 1), c.dmac) = Sent(f, c.dmac)
        BY DEF SetDst, SetTtl, Sent, InnerFrames
      <4>4. Want(p, f, "forward", ps) = Out(Forward(ps[1]), ZeroInnerChecksums(Sent(f, ps[2])))
        BY <1>3, <3>0, WantIs
      <4> QED  BY <1>1, <3>3, <4>1, <4>2, <4>3, <4>4, Zenon
    <3>4. CASE c.name = "punt"
      <4>1. NativeProcess(p, t, f) = Out(Punt, f)
        BY <2>1, <2>3, <3>4
      <4>2. Want(p, f, "punt", ps) = Out(Punt, f)
        BY <3>0, WantIs
      <4> QED  BY <1>1, <3>4, <4>1, <4>2, Zenon
    <3>5. CASE c.name = "drop"
      <4>1. NativeProcess(p, t, f) = Out(Drop, f)
        BY <2>1, <2>3, <3>5
      <4>2. Want(p, f, "drop", ps) = Out(Drop, f)
        BY <3>0, WantIs
      <4> QED  BY <1>1, <3>5, <4>1, <4>2, Zenon
    <3> QED  BY <3>2, <3>3, <3>4, <3>5
  <2> QED  BY <2>2, <2>3
<1> QED  BY <1>2, <1>3 DEF Programs

(* The kinds of outcome Want has.                                          *)
LEMMA WantKinds ==
  ASSUME NEW p \in Programs, NEW f, NEW a \in ActionNames(p), NEW ps
  PROVE  LET w == Want(p, f, a, ps) IN
         \/ \E v \in {Drop, Punt, Broadcast} : w = Out(v, f)
         \/ /\ a = "forward" /\ ~(f.len < 14)
            /\ p = "l2fwd" => w = Out(Forward(ps[1]), f)
            /\ p = "l3fwd" => Routable(f) /\ w = Out(Forward(ps[1]), ZeroInnerChecksums(Sent(f, ps[2])))
<1>1. PICK w : w = Want(p, f, a, ps)
  OBVIOUS
<1>2. CASE f.len < 14 \/ (p = "l3fwd" /\ ~Routable(f))
  <2>1. Want(p, f, a, ps) = Out(Drop, f)
    BY <1>2, WantDrops
  <2> QED  BY <1>1, <2>1
<1>3. CASE ~(f.len < 14 \/ (p = "l3fwd" /\ ~Routable(f)))
  <2>1. a \in {"forward", "broadcast", "drop", "punt"}
    BY DEF ActionNames
  <2>2. CASE a = "forward"
    BY <1>1, <1>3, <2>2, WantIs
  <2>3. CASE a # "forward"
    BY <1>1, <1>3, <2>1, <2>3, WantIs
  <2> QED  BY <2>2, <2>3
<1> QED  BY <1>2, <1>3

LEMMA NativeAgrees ==
  ASSUME NEW p \in Programs, NEW f \in InnerFrames, NEW t,
         NEW c, c = IF p = "l2fwd" THEN ExactApply(t, f.dst) ELSE LpmApply(t, f.ipdst),
         c.name \in ActionNames(p)
  PROVE  Agrees("native", f, Want(p, f, c.name, ParamsOf(p, c)), NativeProcess(p, t, f))
<1>1. PICK w : w = Want(p, f, c.name, ParamsOf(p, c))
  OBVIOUS
<1>2. NativeProcess(p, t, f) = w
  BY <1>1, NativeIsWant
<1>3. PICK ps : ps = ParamsOf(p, c)
  OBVIOUS
<1>4. \/ \E v \in {Drop, Punt, Broadcast} : w = Out(v, f)
      \/ \E q, g : w = Out(Forward(q), g)
  <2>1. p = "l2fwd" \/ p = "l3fwd"
    BY DEF Programs
  <2> QED  BY <1>1, <1>3, <2>1, WantKinds
<1>5. w.verdict.kind \in {"punt", "drop"} => w.frame = f
  BY <1>4, VerdictIs
<1>6. "native" # "ubpf" /\ ReadAs("native", w.verdict) = w.verdict
  BY ReadIs
<1>7. Agrees("native", f, w, w)
  BY <1>5, <1>6, Zenon DEF Agrees
<1> QED  BY <1>1, <1>2, <1>7

LEMMA DepartingIs ==
  ASSUME NEW p \in Programs, NEW v, NEW g
  PROVE  /\ v.kind \notin {"forward", "broadcast"} => Departing(p, Out(v, g)) = Out(v, g)
         /\ v.kind \in {"forward", "broadcast"} =>
              /\ p = "l2fwd" => Departing(p, Out(v, g)) = Out(v, g)
              /\ p = "l3fwd" => Departing(p, Out(v, g)) = Out(v, ZeroInnerChecksums(g))
<1>1. PICK z : z = ZeroInnerChecksums(g)
  OBVIOUS
<1>2. \A s, h : Scrub(s, h) = IF s = "nothing" THEN h ELSE ZeroInnerChecksums(h)
  BY DEF Scrub
<1>3. Envelope("l2fwd").scrub = "nothing" /\ Envelope("l3fwd").scrub # "nothing"
  BY DEF Envelope
<1>4. PICK o : o = Out(v, g)
  OBVIOUS
<1>5. o = [verdict |-> v, frame |-> g]
  BY <1>4 DEF Out
<1>6. /\ o.verdict.kind \notin {"forward", "broadcast"} => Departing(p, o) = o
      /\ o.verdict.kind \in {"forward", "broadcast"} =>
           Departing(p, o) = [o EXCEPT !.frame = Scrub(Envelope(p).scrub, @)]
  BY Zenon DEF Departing
<1>7. PICK u : u = Scrub(Envelope(p).scrub, g)
  OBVIOUS
<1>8. o.verdict = v /\ o.frame = g /\ [o EXCEPT !.frame = Scrub(Envelope(p).scrub, @)] = [verdict |-> v, frame |-> u]
  BY <1>5, <1>7
<1>9. p = "l2fwd" => u = g
  BY <1>2, <1>3, <1>7
<1>10. p = "l3fwd" => u = z
  BY <1>1, <1>2, <1>3, <1>7
<1> QED  BY <1>1, <1>4, <1>6, <1>8, <1>9, <1>10 DEF Out

(* The reserved ports and the absent one.                                  *)
LEMMA PortsAre ==
  /\ UBPF_PUNT_PORT = X4C_PUNT_PORT /\ UBPF_BROADCAST_PORT = X4C_BROADCAST_PORT
  /\ X4C_PUNT_PORT \in Num /\ X4C_BROADCAST_PORT \in Num /\ X4C_PUNT_PORT # X4C_BROADCAST_PORT
  /\ NO_PORT \notin Num
  /\ 2 ^ Width >= 4
<1>1. /\ 2 ^ Width \in Nat /\ 2 ^ Width >= 4
  <2>1. OctetBits \in Nat /\ OctetBits >= 1
    BY OctetAssumption
  <2>2. PICK m \in Nat : OctetBits = m + 1
    BY <2>1
  <2>3. PICK q : q = 2 ^ m
    OBVIOUS
  <2>4. q \in Nat /\ q > 0 /\ 2 ^ (m + 1) = 2 * q
    BY <2>3, PowNat, PowSucc
  <2>5. PICK o : o = Octet
    OBVIOUS
  <2>6. o = 2 * q
    BY <2>2, <2>4, <2>5, Zenon DEF Octet
  <2>7. 2 ^ Width = o * o
    BY <2>5, OctetIs
  <2>8. o * o \in Nat /\ o * o >= 4
    BY <2>4, <2>6
  <2> QED  BY <2>7, <2>8
<1>2. PICK w : w = 2 ^ Width
  OBVIOUS
<1>3. w \in Nat /\ w >= 4
  BY <1>1, <1>2
<1>4. 2 ^ (Width + Width) = w * w
  BY <1>2, PowAdd, WidthNat
<1>5. 2 * Width = Width + Width
  BY WidthNat
<1>6. 2 ^ (2 * Width) = w * w
  BY <1>4, <1>5, Zenon
<1>7. w * w >= w + 1
  BY <1>3
<1>8. /\ UBPF_PUNT_PORT = w - 1 /\ X4C_PUNT_PORT = w - 1
      /\ UBPF_BROADCAST_PORT = w - 2 /\ X4C_BROADCAST_PORT = w - 2
      /\ Num = 0 .. w - 1
  BY <1>2, Zenon DEF UBPF_PUNT_PORT, X4C_PUNT_PORT, UBPF_BROADCAST_PORT, X4C_BROADCAST_PORT, Num
<1>9. PICK ww : ww = w * w
  OBVIOUS
<1>10. ww \in Nat /\ ww >= w + 1 /\ NO_PORT = ww - 1
  BY <1>3, <1>6, <1>7, <1>9 DEF NO_PORT
<1> QED  BY <1>2, <1>3, <1>8, <1>10

(* What the compiled backends do with a frame to be forwarded.             *)
Carried(f, q, g, out) ==
  IF q = X4C_PUNT_PORT THEN out = Out(Punt, f)
  ELSE IF q = X4C_BROADCAST_PORT THEN out.verdict = Broadcast
  ELSE out = Out(Forward(q), g)

LEMMA CarriedAgrees ==
  ASSUME NEW b \in {"x4c", "ubpf"}, NEW f, NEW q, NEW g, NEW out, Carried(f, q, g, out),
         ~(b = "ubpf" /\ f.len > MTU)
  PROVE  Agrees(b, f, Out(Forward(q), g), out)
<1>1. PICK w : w = Out(Forward(q), g)
  OBVIOUS
<1>2. w.verdict = Forward(q) /\ w.frame = g /\ b # "native"
  BY <1>1, VerdictIs
<1>3. CASE q = X4C_PUNT_PORT
  <2>1. out.verdict = Punt /\ out.frame = f
    BY <1>3, VerdictIs DEF Carried
  <2>2. ReadAs(b, w.verdict) = Punt
    BY <1>2, <1>3, PortsAre, VerdictIs DEF ReadAs
  <2>3. Punt.kind \notin {"forward", "broadcast"}
    BY VerdictIs
  <2> QED  BY <1>1, <2>1, <2>2, <2>3, Zenon DEF Agrees
<1>4. CASE q = X4C_BROADCAST_PORT
  <2>1. out.verdict = Broadcast
    BY <1>4, PortsAre DEF Carried
  <2>2. ReadAs(b, w.verdict) = Broadcast
    BY <1>2, <1>4, PortsAre, VerdictIs DEF ReadAs
  <2>3. Broadcast.kind \notin {"punt", "drop"}
    BY VerdictIs
  <2>4. w.verdict = Forward(X4C_BROADCAST_PORT)
    BY <1>2, <1>4
  <2> QED  BY <1>1, <1>2, <2>1, <2>2, <2>3, <2>4, Zenon DEF Agrees
<1>5. CASE q # X4C_PUNT_PORT /\ q # X4C_BROADCAST_PORT
  <2>1. out.verdict = Forward(q) /\ out.frame = g
    BY <1>5, VerdictIs DEF Carried
  <2>2. ReadAs(b, w.verdict) = Forward(q)
    BY <1>2, <1>5, VerdictIs DEF ReadAs
  <2>3. Forward(q).kind \notin {"punt", "drop"}
    BY VerdictIs
  <2> QED  BY <1>1, <1>2, <2>1, <2>2, <2>3, Zenon DEF Agrees
<1> QED  BY <1>3, <1>4, <1>5

(* Scrubbing the checksums of a routed frame does not depend on what its   *)
(* header checksum was.                                                    *)
LEMMA ScrubUnsummed ==
  ASSUME NEW f \in InnerFrames, Routable(f), NEW mac
  PROVE  ZeroInnerChecksums(Unsummed(Sent(f, mac))) = ZeroInnerChecksums(Sent(f, mac))
<1>1. PICK g : g = Sent(f, mac)
  OBVIOUS
<1>2. PICK h : h = Unsummed(g)
  OBVIOUS
<1>3. EthernetParses(f) /\ f.ethertype = ETHERTYPE_IPV4 /\ Ipv4Parses(f)
  BY Parses
<1>4. /\ g = [f EXCEPT !.ttl = f.ttl - 1, !.dst = mac]
      /\ DOMAIN g = DOMAIN f /\ "ipsum" \in DOMAIN f /\ "l4sum" \in DOMAIN f
  BY <1>1 DEF Sent, InnerFrames
<1>5. /\ g.len = f.len /\ g.ethertype = f.ethertype /\ g.version = f.version
      /\ g.hl = f.hl /\ g.proto = f.proto /\ g.l4sum = f.l4sum
  BY <1>1 DEF Sent, InnerFrames
<1>6. h = [g EXCEPT !.ipsum = 0]
  BY <1>2 DEF Unsummed
<1>7. /\ h.len = g.len /\ h.ethertype = g.ethertype /\ h.version = g.version
      /\ h.hl = g.hl /\ h.proto = g.proto /\ h.l4sum = g.l4sum
  BY <1>6
<1>8. L4SumAt(h) = L4SumAt(g)
  BY <1>7, Zenon DEF L4SumAt
<1>9. /\ EthernetParses(g) /\ EthernetParses(h) /\ Ipv4Parses(g) /\ Ipv4Parses(h)
      /\ g.ethertype = ETHERTYPE_IPV4 /\ h.ethertype = ETHERTYPE_IPV4
  BY <1>3, <1>5, <1>7, Zenon DEF EthernetParses, Ipv4Parses
<1>10. PICK s : s = IF L4SumAt(g) + 2 <= g.len THEN 0 ELSE g.l4sum
  OBVIOUS
<1>11. ZeroInnerChecksums(g) = [g EXCEPT !.ipsum = 0, !.l4sum = s]
  BY <1>9, <1>10, Zenon DEF ZeroInnerChecksums
<1>12. ZeroInnerChecksums(h) = [h EXCEPT !.ipsum = 0, !.l4sum = s]
  BY <1>7, <1>8, <1>9, <1>10, Zenon DEF ZeroInnerChecksums
<1>13. [h EXCEPT !.ipsum = 0, !.l4sum = s] = [g EXCEPT !.ipsum = 0, !.l4sum = s]
  BY <1>6
<1> QED  BY <1>1, <1>2, <1>11, <1>12, <1>13

(* What a value image says.                                                *)
LEMMA ImageNumberIs ==
  ASSUME NEW n \in Num, NEW im, NEW i \in Nat, im[i] = n % Octet, im[i + 1] = n \div Octet
  PROVE  ImageNumber(im, i) = n
<1>1. PICK q, r : q = n \div Octet /\ r = n % Octet
  OBVIOUS
<1>2. n = q * Octet + r /\ q \in Nat /\ r \in Nat /\ Octet \in Nat
  BY <1>1, Octets, OctetIs
<1>3. r + q * Octet = n
  BY <1>2
<1>4. im[i] = r /\ im[i + 1] = q
  BY <1>1
<1> QED  BY <1>3, <1>4, Zenon DEF ImageNumber

LEMMA ValueSays ==
  ASSUME NEW p \in Programs, NEW v, NEW a, NEW vals, Valued(p, v, a, vals)
  PROVE  /\ a \in ActionNames(p)
         /\ a = "forward" => /\ v[1] = 0 /\ Numbers(vals)[1] \in Num
                             /\ ImageNumber(v, 2) = Numbers(vals)[1]
         /\ a = "forward" /\ p = "l3fwd" => ImageNumber(v, 5) = Numbers(vals)[2]
         /\ a \in {"broadcast", "punt"} => v[1] = 1
         /\ a = "drop" => v[1] = 2
<1>1. CallTyped(p, a, vals) /\ v = ValueImage(Abi(p), a, vals)
  BY DEF Valued
<1>2. a \in ActionNames(p) /\ a \in DOMAIN Abi(p).disc
  BY <1>1, AbiIs DEF ActionNames, CallTyped
<1>3. v[1] = Abi(p).disc[a]
  BY <1>1, <1>2, Discriminant
<1>4. /\ a = "forward" => v[1] = 0
      /\ a \in {"broadcast", "punt"} => v[1] = 1
      /\ a = "drop" => v[1] = 2
  BY <1>2, <1>3, AbiIs DEF Programs, ActionNames
<1>5. ASSUME a = "forward", p = "l2fwd"
      PROVE  Numbers(vals)[1] \in Num /\ ImageNumber(v, 2) = Numbers(vals)[1]
  <2>1. PICK n \in Num : vals = <<Value("u16", n)>>
    BY <1>1, <1>5 DEF CallTyped
  <2>2. DOMAIN vals = {1} /\ vals[1].n = n
    BY <2>1 DEF Value
  <2>3. Numbers(vals)[1] = n
    BY <2>2 DEF Numbers
  <2>4. v = <<0, n % Octet, n \div Octet>>
    BY <1>1, <1>5, <2>2, ForwardImages, AbiIs
  <2>5. PICK q, r : q = n \div Octet /\ r = n % Octet
    OBVIOUS
  <2>6. v = <<0, r, q>>
    BY <2>4, <2>5, Zenon
  <2>7. v[2] = r /\ v[2 + 1] = q
    BY <2>6
  <2>8. ImageNumber(v, 2) = n
    BY <2>5, <2>7, ImageNumberIs
  <2> QED  BY <2>3, <2>8
<1>6. ASSUME a = "forward", p = "l3fwd"
      PROVE  /\ Numbers(vals)[1] \in Num /\ ImageNumber(v, 2) = Numbers(vals)[1]
             /\ ImageNumber(v, 5) = Numbers(vals)[2]
  <2>1. PICK n, m \in Num : vals = <<Value("u16", n), Value("mac", m)>>
    BY <1>1, <1>6 DEF CallTyped
  <2>2. DOMAIN vals = {1, 2} /\ vals[1].n = n /\ vals[2].n = m
    BY <2>1 DEF Value
  <2>3. Numbers(vals)[1] = n /\ Numbers(vals)[2] = m
    BY <2>2 DEF Numbers
  <2>4. v = <<0, n % Octet, n \div Octet, 0, m % Octet, m \div Octet>>
    BY <1>1, <1>6, <2>2, ForwardImages, AbiIs
  <2>5. PICK q, r, s, u : q = n \div Octet /\ r = n % Octet /\ s = m \div Octet /\ u = m % Octet
    OBVIOUS
  <2>6. v = <<0, r, q, 0, u, s>>
    BY <2>4, <2>5, Zenon
  <2>7. v[2] = r /\ v[2 + 1] = q /\ v[5] = u /\ v[5 + 1] = s
    BY <2>6
  <2>8. ImageNumber(v, 2) = n /\ ImageNumber(v, 5) = m
    BY <2>5, <2>7, ImageNumberIs
  <2> QED  BY <2>3, <2>8
<1> QED  BY <1>2, <1>4, <1>5, <1>6 DEF Programs

(* UbpfEngine::process over what the program returned.                     *)
UOut(x, f) ==
  IF ~x.pass \/ x.port = NO_PORT THEN Out(Drop, f)
  ELSE CASE x.port = UBPF_PUNT_PORT -> Out(Punt, f)
         [] x.port = UBPF_BROADCAST_PORT -> Out(Broadcast, f)
         [] OTHER -> Out(Forward(x.port), x.frame)

URead(r, f) ==
  IF ~r.ok \/ ~r.val.pass \/ r.val.port = NO_PORT THEN Out(Drop, f)
  ELSE CASE r.val.port = UBPF_PUNT_PORT -> Out(Punt, f)
         [] r.val.port = UBPF_BROADCAST_PORT -> Out(Broadcast, f)
         [] OTHER -> Out(Forward(r.val.port), r.val.frame)

LEMMA UbpfProcessIs ==
  ASSUME NEW p \in Programs, NEW t, NEW f
  PROVE  /\ f.len > MTU => UbpfProcess(p, t, f) = Out(Drop, f)
         /\ ~(f.len > MTU) =>
              /\ p = "l2fwd" => UbpfProcess(p, t, f) = UOut(L2EntryC(t, f), f)
              /\ p = "l3fwd" => UbpfProcess(p, t, f) = UOut(L3EntryC(t, f), f)
<1>1. CASE f.len > MTU
  <2>1. ~VmRun(p, t, f).ok
    BY <1>1, ResultIs DEF VmRun
  <2> QED  BY <1>1, <2>1, Zenon DEF UbpfProcess
<1>2. CASE ~(f.len > MTU)
  <2>1. PICK x : x = IF p = "l2fwd" THEN L2EntryC(t, f) ELSE L3EntryC(t, f)
    OBVIOUS
  <2>2. VmRun(p, t, f) = Ok(x)
    BY <1>2, <2>1, Zenon DEF VmRun
  <2>3. VmRun(p, t, f).ok /\ VmRun(p, t, f).val = x
    BY <2>2, ResultIs
  <2>4. PICK r : r = VmRun(p, t, f)
    OBVIOUS
  <2>5. UbpfProcess(p, t, f) = URead(r, f)
    BY <2>4 DEF UbpfProcess, URead
  <2>6. r.ok /\ r.val = x
    BY <2>3, <2>4
  <2>7. UbpfProcess(p, t, f) = UOut(x, f)
    BY <2>5, <2>6 DEF UOut, URead
  <2> QED  BY <1>2, <2>1, <2>7
<1> QED  BY <1>1, <1>2

LEMMA UOutIs ==
  ASSUME NEW f, NEW g
  PROVE  /\ \A x : UOut(VmOut(FALSE, x, g), f) = Out(Drop, f)
         /\ \A x : UOut(VmOut(x, NO_PORT, g), f) = Out(Drop, f)
         /\ UOut(VmOut(TRUE, UBPF_PUNT_PORT, g), f) = Out(Punt, f)
         /\ UOut(VmOut(TRUE, UBPF_BROADCAST_PORT, g), f) = Out(Broadcast, f)
<1>1. \A x, y : VmOut(x, y, g).pass = x /\ VmOut(x, y, g).port = y /\ VmOut(x, y, g).frame = g
  BY DEF VmOut
<1>2. \A x : UOut(VmOut(FALSE, x, g), f) = Out(Drop, f)
  BY <1>1, Zenon DEF UOut
<1>3. \A x : UOut(VmOut(x, NO_PORT, g), f) = Out(Drop, f)
  BY <1>1, Zenon DEF UOut
<1>4. UBPF_PUNT_PORT # NO_PORT /\ UBPF_BROADCAST_PORT # NO_PORT /\ UBPF_PUNT_PORT # UBPF_BROADCAST_PORT
  BY PortsAre
<1>5. UOut(VmOut(TRUE, UBPF_PUNT_PORT, g), f) = Out(Punt, f)
  <2>1. PICK x : x = VmOut(TRUE, UBPF_PUNT_PORT, g)
    OBVIOUS
  <2>2. x.pass = TRUE /\ x.port = UBPF_PUNT_PORT
    BY <1>1, <2>1
  <2>3. UOut(x, f) = Out(Punt, f)
    BY <1>4, <2>2 DEF UOut
  <2> QED  BY <2>1, <2>3
<1>6. UOut(VmOut(TRUE, UBPF_BROADCAST_PORT, g), f) = Out(Broadcast, f)
  <2>1. PICK x : x = VmOut(TRUE, UBPF_BROADCAST_PORT, g)
    OBVIOUS
  <2>2. x.pass = TRUE /\ x.port = UBPF_BROADCAST_PORT
    BY <1>1, <2>1
  <2>3. UOut(x, f) = Out(Broadcast, f)
    BY <1>4, <2>2 DEF UOut
  <2> QED  BY <2>1, <2>3
<1> QED  BY <1>2, <1>3, <1>5, <1>6

LEMMA UOutForward ==
  ASSUME NEW f, NEW g, NEW q \in Num, q # X4C_PUNT_PORT, q # X4C_BROADCAST_PORT
  PROVE  UOut(VmOut(TRUE, q, g), f) = Out(Forward(q), g)
<1>1. PICK x : x = VmOut(TRUE, q, g)
  OBVIOUS
<1>2. x.pass = TRUE /\ x.port = q /\ x.frame = g
  BY <1>1 DEF VmOut
<1>3. q # NO_PORT /\ q # UBPF_PUNT_PORT /\ q # UBPF_BROADCAST_PORT
  BY PortsAre
<1>4. UOut(x, f) = Out(Forward(q), g)
  BY <1>2, <1>3 DEF UOut
<1> QED  BY <1>1, <1>4

LEMMA UbpfForward ==
  ASSUME NEW p \in Programs, NEW f, NEW g, NEW h, NEW q \in Num,
         p = "l2fwd" => h = g, p = "l3fwd" => h = ZeroInnerChecksums(g)
  PROVE  Carried(f, q, h, Departing(p, UOut(VmOut(TRUE, q, g), f)))
<1>1. PICK o : o = UOut(VmOut(TRUE, q, g), f)
  OBVIOUS
<1>2. CASE q = X4C_PUNT_PORT
  <2>1. o = Out(Punt, f)
    BY <1>1, <1>2, UOutIs, PortsAre
  <2>2. Departing(p, o) = Out(Punt, f)
    BY <2>1, DepartingIs, VerdictIs
  <2> QED  BY <1>1, <1>2, <2>2, Zenon DEF Carried
<1>3. CASE q = X4C_BROADCAST_PORT
  <2>1. o = Out(Broadcast, f)
    BY <1>1, <1>3, UOutIs, PortsAre
  <2>2. p = "l2fwd" \/ p = "l3fwd"
    BY DEF Programs
  <2>3. Broadcast.kind \in {"forward", "broadcast"}
    BY VerdictIs
  <2>4. \E z : Departing(p, o) = Out(Broadcast, z)
    BY <2>1, <2>2, <2>3, DepartingIs
  <2>5. Departing(p, o).verdict = Broadcast
    BY <2>4, VerdictIs
  <2>6. q # X4C_PUNT_PORT
    BY <1>3, PortsAre
  <2> QED  BY <1>1, <1>3, <2>5, <2>6, Zenon DEF Carried
<1>4. CASE q # X4C_PUNT_PORT /\ q # X4C_BROADCAST_PORT
  <2>1. o = Out(Forward(q), g)
    BY <1>1, <1>4, UOutForward
  <2>2. p = "l2fwd" \/ p = "l3fwd"
    BY DEF Programs
  <2>3. Forward(q).kind \in {"forward", "broadcast"}
    BY VerdictIs
  <2>4. Departing(p, o) = Out(Forward(q), h)
    BY <2>1, <2>2, <2>3, DepartingIs
  <2> QED  BY <1>1, <1>4, <2>4, Zenon DEF Carried
<1> QED  BY <1>2, <1>3, <1>4

LEMMA AdmitsIs ==
  ASSUME NEW f \in InnerFrames
  PROVE  /\ Admits(Envelope("l2fwd").admit, f)
         /\ Admits(Envelope("l3fwd").admit, f) <=>
              (EthernetParses(f) /\ f.ethertype = ETHERTYPE_IPV4 => Ipv4Parses(f))
BY DEF Admits, Envelope

UbpfOut(p, t, f) ==
  IF Admits(Envelope(p).admit, f) THEN Departing(p, UbpfProcess(p, t, f)) ELSE Out(Drop, f)

UL2(k, q, f) ==
  CASE k = 0 -> VmOut(TRUE, q, f)
    [] k = 1 -> VmOut(TRUE, UBPF_BROADCAST_PORT, f)
    [] OTHER -> VmOut(FALSE, NO_PORT, f)

L2Of(v, f) ==
  CASE v[1] = 0 -> VmOut(TRUE, ImageNumber(v, 2), f)
    [] v[1] = 1 -> VmOut(TRUE, UBPF_BROADCAST_PORT, f)
    [] OTHER -> VmOut(FALSE, NO_PORT, f)

LEMMA UbpfL2Agrees ==
  ASSUME NEW f \in InnerFrames, NEW t, NEW a, NEW vals,
         Valued("l2fwd", MatchOrDefault(t, UKey("l2fwd", f.dst)), a, vals)
  PROVE  Agrees("ubpf", f, Want("l2fwd", f, a, Numbers(vals)), UbpfOut("l2fwd", t, f))
<1>1. PICK v, ps : v = MatchOrDefault(t, UKey("l2fwd", f.dst)) /\ ps = Numbers(vals)
  OBVIOUS
<1>2. PICK w, o : w = Want("l2fwd", f, a, ps) /\ o = UbpfOut("l2fwd", t, f)
  OBVIOUS
<1>3. "l2fwd" \in Programs
  BY DEF Programs
<1>4. /\ a \in ActionNames("l2fwd")
      /\ a = "forward" => v[1] = 0 /\ ps[1] \in Num /\ ImageNumber(v, 2) = ps[1]
      /\ a = "broadcast" => v[1] = 1
      /\ a = "drop" => v[1] = 2
  BY <1>1, <1>3, ValueSays
<1>5. o = Departing("l2fwd", UbpfProcess("l2fwd", t, f))
  BY <1>2, AdmitsIs, Zenon DEF UbpfOut
<1>6. Departing("l2fwd", Out(Drop, f)) = Out(Drop, f)
  BY <1>3, DepartingIs, VerdictIs
<1>7. CASE f.len > MTU
  <2>1. o = Out(Drop, f)
    BY <1>3, <1>5, <1>6, <1>7, UbpfProcessIs
  <2>2. o.verdict = Drop
    BY <2>1, VerdictIs
  <2> QED  BY <1>1, <1>2, <1>7, <2>2, Zenon DEF Agrees
<1>8. CASE ~(f.len > MTU)
  <2>1. o = Departing("l2fwd", UOut(L2EntryC(t, f), f))
    BY <1>3, <1>5, <1>8, UbpfProcessIs
  <2>2. PICK x : x = L2EntryC(t, f)
    OBVIOUS
  <2>3. UKey("l2fwd", f.dst) = <<f.dst % Octet, f.dst \div Octet, 0>>
    BY DEF UKey
  <2>4. PICK k, q : k = v[1] /\ q = ImageNumber(v, 2)
    OBVIOUS
  <2>11. x = IF f.len < 14 THEN VmOut(TRUE, NO_PORT, f) ELSE UL2(k, q, f)
    <3>1. x = IF f.len < 14 THEN VmOut(TRUE, NO_PORT, f)
              ELSE L2Of(MatchOrDefault(t, <<f.dst % Octet, f.dst \div Octet, 0>>), f)
      BY <2>2 DEF L2EntryC, L2Of, ETH_HDR_LEN
    <3>2. L2Of(v, f) = UL2(k, q, f)
      BY <2>4 DEF L2Of, UL2
    <3> QED  BY <1>1, <2>3, <3>1, <3>2, Zenon
  <2>12. (a = "forward" => k = 0) /\ (a = "broadcast" => k = 1) /\ (a = "drop" => k = 2)
    BY <1>4, <2>4, Zenon
  <2>5. ASSUME o = Out(Drop, f), w = Out(Drop, f) PROVE Agrees("ubpf", f, w, o)
    BY <2>5, PlainAgrees
  <2>6. CASE f.len < 14
    <3>0. UOut(x, f) = Out(Drop, f)
      BY <2>6, <2>11, UOutIs, Zenon
    <3>1. o = Out(Drop, f)
      BY <1>6, <2>1, <2>2, <3>0, Zenon
    <3>2. w = Out(Drop, f)
      BY <1>2, <1>3, <2>6, WantDrops
    <3> QED  BY <1>1, <1>2, <2>5, <3>1, <3>2, Zenon
  <2>7. CASE ~(f.len < 14) /\ a = "drop"
    <3>1. x = VmOut(FALSE, NO_PORT, f)
      BY <2>7, <2>11, <2>12 DEF UL2
    <3>0. UOut(x, f) = Out(Drop, f)
      BY <3>1, UOutIs, Zenon
    <3>2. o = Out(Drop, f)
      BY <1>6, <2>1, <2>2, <3>0, Zenon
    <3>3. w = Out(Drop, f)
      BY <1>2, <1>3, <2>7, WantIs
    <3> QED  BY <1>1, <1>2, <2>5, <3>2, <3>3, Zenon
  <2>8. CASE ~(f.len < 14) /\ a = "broadcast"
    <3>1. x = VmOut(TRUE, UBPF_BROADCAST_PORT, f)
      BY <2>8, <2>11, <2>12 DEF UL2
    <3>2. UOut(x, f) = Out(Broadcast, f)
      BY <3>1, UOutIs
    <3>3. o = Out(Broadcast, f)
      BY <1>3, <2>1, <2>2, <3>2, DepartingIs, VerdictIs
    <3>4. w = Out(Broadcast, f)
      BY <1>2, <1>3, <2>8, WantIs
    <3>5. Agrees("ubpf", f, Out(Broadcast, f), Out(Broadcast, f))
      BY <1>8, PlainAgrees
    <3> QED  BY <1>1, <1>2, <3>3, <3>4, <3>5, Zenon
  <2>9. CASE ~(f.len < 14) /\ a = "forward"
    <3>1. q = ps[1] /\ q \in Num
      BY <1>4, <2>4, <2>9, Zenon
    <3>2. x = VmOut(TRUE, q, f)
      BY <2>9, <2>11, <2>12 DEF UL2
    <3>3. Carried(f, q, f, o)
      BY <1>3, <2>1, <2>2, <3>1, <3>2, UbpfForward
    <3>4. w = Out(Forward(q), f)
      BY <1>2, <1>3, <2>9, <3>1, WantIs
    <3>5. Agrees("ubpf", f, Out(Forward(q), f), o)
      BY <1>8, <3>3, CarriedAgrees
    <3> QED  BY <1>1, <1>2, <3>4, <3>5, Zenon
  <2> QED  BY <1>4, <2>6, <2>7, <2>8, <2>9 DEF ActionNames
<1> QED  BY <1>7, <1>8

Lowered(f, mac) == [f EXCEPT !.ttl = (@ + 255) % 256, !.dst = mac, !.ipsum = 0]

LEMMA LoweredIs ==
  ASSUME NEW f \in InnerFrames, f.ttl # 0, NEW mac
  PROVE  Lowered(f, mac) = Unsummed(Sent(f, mac))
<1>1. f.ttl \in 1 .. 255
  BY DEF InnerFrames
<1>2. PICK k : k = f.ttl
  OBVIOUS
<1>3. (k + 255) % 256 = k - 1
  BY <1>1, <1>2
<1>4. Lowered(f, mac) = [f EXCEPT !.ttl = k - 1, !.dst = mac, !.ipsum = 0]
  BY <1>2, <1>3 DEF Lowered
<1>5. Unsummed(Sent(f, mac)) = [f EXCEPT !.ttl = k - 1, !.dst = mac, !.ipsum = 0]
  BY <1>2 DEF Unsummed, Sent
<1> QED  BY <1>4, <1>5

L3Of(v, f) ==
  CASE v[1] = 0 -> VmOut(TRUE, ImageNumber(v, 2), Lowered(f, ImageNumber(v, 5)))
    [] v[1] = 1 -> VmOut(TRUE, UBPF_PUNT_PORT, f)
    [] OTHER -> VmOut(FALSE, NO_PORT, f)

UL3(k, q, g, f) ==
  CASE k = 0 -> VmOut(TRUE, q, g)
    [] k = 1 -> VmOut(TRUE, UBPF_PUNT_PORT, f)
    [] OTHER -> VmOut(FALSE, NO_PORT, f)

LEMMA UbpfL3Agrees ==
  ASSUME NEW f \in InnerFrames, NEW t, NEW a, NEW vals,
         Valued("l3fwd", MatchOrDefault(t, UKey("l3fwd", f.ipdst)), a, vals)
  PROVE  Agrees("ubpf", f, Want("l3fwd", f, a, Numbers(vals)), UbpfOut("l3fwd", t, f))
<1>1. PICK v, ps : v = MatchOrDefault(t, UKey("l3fwd", f.ipdst)) /\ ps = Numbers(vals)
  OBVIOUS
<1>2. PICK w, o : w = Want("l3fwd", f, a, ps) /\ o = UbpfOut("l3fwd", t, f)
  OBVIOUS
<1>3. "l3fwd" \in Programs /\ "l3fwd" # "l2fwd"
  BY DEF Programs
<1>4. /\ a \in ActionNames("l3fwd")
      /\ a = "forward" => /\ v[1] = 0 /\ ps[1] \in Num /\ ImageNumber(v, 2) = ps[1]
                          /\ ImageNumber(v, 5) = ps[2]
      /\ a = "punt" => v[1] = 1
      /\ a = "drop" => v[1] = 2
  BY <1>1, <1>3, ValueSays
<1>6. /\ ~Admits(Envelope("l3fwd").admit, f) => o = Out(Drop, f)
      /\ Admits(Envelope("l3fwd").admit, f) => o = Departing("l3fwd", UbpfProcess("l3fwd", t, f))
  BY <1>2, Zenon DEF UbpfOut
<1>7. Departing("l3fwd", Out(Drop, f)) = Out(Drop, f)
  BY <1>3, DepartingIs, VerdictIs
<1>8. CASE f.len > MTU
  <2>1. o = Out(Drop, f)
    BY <1>3, <1>6, <1>7, <1>8, UbpfProcessIs
  <2>2. o.verdict = Drop
    BY <2>1, VerdictIs
  <2> QED  BY <1>1, <1>2, <1>8, <2>2, Zenon DEF Agrees
<1>9. CASE ~(f.len > MTU)
  <2>1. Admits(Envelope("l3fwd").admit, f) => o = Departing("l3fwd", UOut(L3EntryC(t, f), f))
    BY <1>3, <1>6, <1>9, UbpfProcessIs
  <2>2. PICK x : x = L3EntryC(t, f)
    OBVIOUS
  <2>3. UKey("l3fwd", f.ipdst) = <<0, f.ipdst % Octet, f.ipdst \div Octet>>
    BY DEF UKey
  <2>4. PICK k, q, mac : k = v[1] /\ q = ImageNumber(v, 2) /\ mac = ImageNumber(v, 5)
    OBVIOUS
  <2>5. /\ ~L3ParserAccepts(f) => x = VmOut(TRUE, NO_PORT, f)
        /\ L3ParserAccepts(f) /\ f.ttl = 0 => x = VmOut(FALSE, NO_PORT, f)
        /\ L3ParserAccepts(f) /\ f.ttl # 0 => x = UL3(k, q, Lowered(f, mac), f)
    <3>1. x = IF ~L3ParserAccepts(f) THEN VmOut(TRUE, NO_PORT, f)
              ELSE IF f.ttl = 0 THEN VmOut(FALSE, NO_PORT, f)
              ELSE L3Of(MatchOrDefault(t, <<0, f.ipdst % Octet, f.ipdst \div Octet>>), f)
      BY <2>2 DEF L3EntryC, L3Of, Lowered
    <3>2. PICK g : g = Lowered(f, ImageNumber(v, 5))
      OBVIOUS
    <3>3. L3Of(v, f) = UL3(k, q, g, f)
      BY <2>4, <3>2 DEF L3Of, UL3
    <3> QED  BY <1>1, <2>3, <2>4, <3>1, <3>2, <3>3, Zenon
  <2>6. (a = "forward" => k = 0) /\ (a = "punt" => k = 1) /\ (a = "drop" => k = 2)
    BY <1>4, <2>4, Zenon
  <2>7. ASSUME o = Out(Drop, f), w = Out(Drop, f) PROVE Agrees("ubpf", f, w, o)
    BY <2>7, PlainAgrees
  <2>8. CASE ~Routable(f)
    <3>1. w = Out(Drop, f)
      BY <1>2, <1>3, <2>8, WantIs
    <3>2. CASE ~Admits(Envelope("l3fwd").admit, f)
      BY <1>1, <1>2, <1>6, <2>7, <3>1, <3>2, Zenon
    <3>3. CASE Admits(Envelope("l3fwd").admit, f)
      <4>1. ~L3ParserAccepts(f) \/ f.ttl = 0
        <5>1. L3ParserAccepts(f) => EthernetParses(f) /\ f.ethertype = ETHERTYPE_IPV4
          BY DEF L3ParserAccepts, EthernetParses
        <5> QED  BY <2>8, <3>3, <5>1, AdmitsIs, Parses
      <4>2. x = VmOut(TRUE, NO_PORT, f) \/ x = VmOut(FALSE, NO_PORT, f)
        BY <2>5, <4>1, Zenon
      <4>3. UOut(x, f) = Out(Drop, f)
        BY <4>2, UOutIs, Zenon
      <4>4. o = Out(Drop, f)
        BY <1>7, <2>1, <2>2, <3>3, <4>3, Zenon
      <4> QED  BY <1>1, <1>2, <2>7, <3>1, <4>4, Zenon
    <3> QED  BY <3>2, <3>3
  <2>9. CASE Routable(f)
    <3>1. /\ Admits(Envelope("l3fwd").admit, f) /\ ~(f.len < 14) /\ f.ttl # 0
          /\ EthernetParses(f) /\ f.ethertype = ETHERTYPE_IPV4 /\ Ipv4Parses(f)
      BY <2>9, AdmitsIs, Parses
    <3>2. L3ParserAccepts(f)
      BY <3>1 DEF L3ParserAccepts, EthernetParses, Ipv4Parses
    <3>3. x = UL3(k, q, Lowered(f, mac), f)
      BY <2>5, <3>1, <3>2, Zenon
    <3>4. o = Departing("l3fwd", UOut(x, f))
      BY <2>1, <2>2, <3>1, Zenon
    <3>5. ~(f.len < 14 \/ ("l3fwd" = "l3fwd" /\ ~Routable(f)))
      BY <2>9, <3>1
    <3>6. CASE a = "drop"
      <4>1. x = VmOut(FALSE, NO_PORT, f)
        BY <2>6, <3>3, <3>6 DEF UL3
      <4>2. UOut(x, f) = Out(Drop, f)
        BY <4>1, UOutIs, Zenon
      <4>3. o = Out(Drop, f)
        BY <1>7, <3>4, <4>2, Zenon
      <4>4. w = Out(Drop, f)
        BY <1>2, <1>3, <3>5, <3>6, WantIs
      <4> QED  BY <1>1, <1>2, <2>7, <4>3, <4>4, Zenon
    <3>7. CASE a = "punt"
      <4>1. x = VmOut(TRUE, UBPF_PUNT_PORT, f)
        BY <2>6, <3>3, <3>7 DEF UL3
      <4>2. UOut(x, f) = Out(Punt, f)
        BY <4>1, UOutIs
      <4>3. o = Out(Punt, f)
        BY <1>3, <3>4, <4>2, DepartingIs, VerdictIs
      <4>4. w = Out(Punt, f)
        BY <1>2, <1>3, <3>5, <3>7, WantIs
      <4>5. Agrees("ubpf", f, Out(Punt, f), Out(Punt, f))
        BY <1>9, PlainAgrees
      <4> QED  BY <1>1, <1>2, <4>3, <4>4, <4>5, Zenon
    <3>8. CASE a = "forward"
      <4>1. q = ps[1] /\ q \in Num /\ mac = ps[2]
        BY <1>4, <2>4, <3>8, Zenon
      <4>2. PICK g : g = Unsummed(Sent(f, mac))
        OBVIOUS
      <4>3. Lowered(f, mac) = g
        BY <3>1, <4>2, LoweredIs
      <4>4. x = VmOut(TRUE, q, g)
        BY <2>6, <3>3, <3>8, <4>3 DEF UL3
      <4>5. PICK h : h = ZeroInnerChecksums(Sent(f, mac))
        OBVIOUS
      <4>6. h = ZeroInnerChecksums(g)
        BY <2>9, <4>2, <4>5, ScrubUnsummed
      <4>7. Carried(f, q, h, o)
        BY <1>3, <3>4, <4>1, <4>4, <4>6, UbpfForward
      <4>8. w = Out(Forward(q), h)
        BY <1>2, <1>3, <3>5, <3>8, <4>1, <4>5, WantIs
      <4>9. Agrees("ubpf", f, Out(Forward(q), h), o)
        BY <1>9, <4>7, CarriedAgrees
      <4> QED  BY <1>1, <1>2, <4>8, <4>9, Zenon
    <3> QED  BY <1>4, <3>6, <3>7, <3>8 DEF ActionNames
  <2> QED  BY <2>8, <2>9
<1> QED  BY <1>8, <1>9

(* Octets survive the reversals between a frame and a generated header.    *)
LEMMA RoundTrip ==
  ASSUME NEW n \in Num
  PROVE  /\ Reverse(BeBytes(n)) = LeBytes(n)
         /\ FromBe(Reverse(LeBytes(n))) = n
         /\ FromLe(LeBytes(n)) = n
<1>1. PICK lo, hi : lo = n % Octet /\ hi = n \div Octet
  OBVIOUS
<1>2. n = hi * Octet + lo
  BY <1>1, Octets
<1>3. BeBytes(n) = <<hi, lo>> /\ LeBytes(n) = <<lo, hi>>
  BY <1>1, Zenon DEF BeBytes, LeBytes
<1>4. Reverse(<<hi, lo>>) = <<lo, hi>> /\ Reverse(<<lo, hi>>) = <<hi, lo>>
  BY ReverseTwo
<1>5. FromBe(<<hi, lo>>) = n /\ FromLe(<<lo, hi>>) = n
  BY <1>2 DEF FromBe, FromLe
<1> QED  BY <1>3, <1>4, <1>5, Zenon

LEMMA FrameFacts ==
  ASSUME NEW f \in InnerFrames
  PROVE  /\ f.len \in Nat /\ f.dst \in Num /\ f.ethertype \in Num /\ f.ttl \in 0 .. 255
         /\ f.ipdst \in Num /\ f.ipsum \in Num
BY DEF InnerFrames

(* X4cEngine::run reads the ports of a pipeline's outputs as a verdict.    *)
LEMMA PortVerdicts ==
  /\ X4cVerdict({}) = Drop
  /\ \A q : X4cVerdict({q}) = IF q = X4C_PUNT_PORT THEN Punt
                              ELSE IF q = X4C_BROADCAST_PORT THEN Broadcast ELSE Forward(q)
  /\ \A r \in Nat : r >= 3 => X4cVerdict(1 .. r - 1) = Broadcast /\ CopiesOut(1 .. r - 1)
<1>1. X4cVerdict({}) = Drop
  <2>1. PICK S : S = {}
    OBVIOUS
  <2>2. ~(Cardinality(S) > 1) /\ \A y : S # {y}
    BY <2>1, FS_EmptySet
  <2>3. X4cVerdict(S) = Drop
    BY <2>1, <2>2 DEF X4cVerdict
  <2> QED  BY <2>1, <2>3
<1>2. ASSUME NEW q
      PROVE  X4cVerdict({q}) = IF q = X4C_PUNT_PORT THEN Punt
                               ELSE IF q = X4C_BROADCAST_PORT THEN Broadcast ELSE Forward(q)
  <2>1. PICK S : S = {q}
    OBVIOUS
  <2>2. S # {} /\ (\A y : S = {y} <=> q = y) /\ (CHOOSE y \in S : TRUE) = q
    BY <2>1
  <2>3. ~(Cardinality(S) > 1)
    BY <2>1, FS_Singleton
  <2>4. X4C_PUNT_PORT # X4C_BROADCAST_PORT
    BY PortsAre
  <2> HIDE <2>1
  <2>5. X4cVerdict(S) = IF q = X4C_PUNT_PORT THEN Punt
                        ELSE IF q = X4C_BROADCAST_PORT THEN Broadcast ELSE Forward(q)
    BY <2>2, <2>3, <2>4 DEF X4cVerdict
  <2> QED  BY <2>1, <2>5
<1>3. ASSUME NEW r \in Nat, r >= 3
      PROVE  X4cVerdict(1 .. r - 1) = Broadcast /\ CopiesOut(1 .. r - 1)
  <2>1. PICK S : S = 1 .. r - 1
    OBVIOUS
  <2>2. 1 \in S /\ 2 \in S
    BY <1>3, <2>1
  <2>3. Cardinality(S) > 1
    <3>1. Cardinality(1 .. r - 1) = IF 1 > r - 1 THEN 0 ELSE r - 1 - 1 + 1
      BY FS_Interval
    <3> QED  BY <1>3, <2>1, <3>1
  <2>4. S # {} /\ \A y : S # {y}
    BY <2>2
  <2>5. X4cVerdict(S) = Broadcast
    BY <2>3, <2>4 DEF X4cVerdict
  <2>6. CopiesOut(S)
    BY <2>4 DEF CopiesOut
  <2> QED  BY <2>1, <2>5, <2>6
<1> QED  BY <1>1, <1>2, <1>3

(* The output of run for a frame that parses.                              *)
XOut(ports, g, scr, f) ==
  IF X4cVerdict(ports).kind \in {"drop", "punt"} THEN Out(X4cVerdict(ports), f)
  ELSE Out(X4cVerdict(ports), IF CopiesOut(ports) THEN g ELSE CopyBack(f, scr))

LEMMA XOutIs ==
  ASSUME NEW f, NEW g, NEW scr
  PROVE  /\ XOut({}, g, scr, f) = Out(Drop, f)
         /\ \A r \in Nat : r >= 3 => XOut(1 .. r - 1, g, scr, f) = Out(Broadcast, g)
<1>1. XOut({}, g, scr, f) = Out(Drop, f)
  BY PortVerdicts, VerdictIs DEF XOut
<1>2. ASSUME NEW r \in Nat, r >= 3 PROVE XOut(1 .. r - 1, g, scr, f) = Out(Broadcast, g)
  <2>1. PICK S : S = 1 .. r - 1
    OBVIOUS
  <2>2. X4cVerdict(S) = Broadcast /\ CopiesOut(S)
    BY <1>2, <2>1, PortVerdicts
  <2>3. Broadcast.kind \notin {"drop", "punt"}
    BY VerdictIs
  <2>4. XOut(S, g, scr, f) = Out(Broadcast, g)
    BY <2>2, <2>3, Zenon DEF XOut
  <2> QED  BY <2>1, <2>4
<1> QED  BY <1>1, <1>2

LEMMA XForward ==
  ASSUME NEW p \in Programs, NEW f, NEW g, NEW h, NEW q, NEW scr,
         p = "l2fwd" => h = g, p = "l3fwd" => h = ZeroInnerChecksums(g)
  PROVE  Carried(f, q, h, Departing(p, XOut({q}, g, scr, f)))
<1>0. PICK S : S = {q}
  OBVIOUS
<1>1. PICK o, v : o = XOut(S, g, scr, f) /\ v = X4cVerdict(S)
  OBVIOUS
<1>2. v = IF q = X4C_PUNT_PORT THEN Punt ELSE IF q = X4C_BROADCAST_PORT THEN Broadcast ELSE Forward(q)
  BY <1>0, <1>1, PortVerdicts
<1>3. p = "l2fwd" \/ p = "l3fwd"
  BY DEF Programs
<1>4. CASE q = X4C_PUNT_PORT
  <2>1. v = Punt
    BY <1>2, <1>4
  <2>2. Punt.kind \in {"drop", "punt"} /\ Punt.kind \notin {"forward", "broadcast"}
    BY VerdictIs
  <2>3. o = Out(Punt, f)
    BY <1>1, <2>1, <2>2, Zenon DEF XOut
  <2>4. Departing(p, o) = Out(Punt, f)
    BY <2>2, <2>3, DepartingIs
  <2> QED  BY <1>0, <1>1, <1>4, <2>4, Zenon DEF Carried
<1>5. CASE q = X4C_BROADCAST_PORT
  <2>0. q # X4C_PUNT_PORT
    BY <1>5, PortsAre
  <2>1. v = Broadcast
    BY <1>2, <1>5, <2>0
  <2>2. Broadcast.kind \notin {"drop", "punt"} /\ Broadcast.kind \in {"forward", "broadcast"}
    BY VerdictIs
  <2>3. \E z : o = Out(Broadcast, z)
    BY <1>1, <2>1, <2>2, Zenon DEF XOut
  <2>4. \E z : Departing(p, o) = Out(Broadcast, z)
    BY <1>3, <2>2, <2>3, DepartingIs
  <2>5. Departing(p, o).verdict = Broadcast
    BY <2>4, VerdictIs
  <2> QED  BY <1>0, <1>1, <1>5, <2>0, <2>5, Zenon DEF Carried
<1>6. CASE q # X4C_PUNT_PORT /\ q # X4C_BROADCAST_PORT
  <2>1. v = Forward(q)
    BY <1>2, <1>6
  <2>2. Forward(q).kind \notin {"drop", "punt"} /\ Forward(q).kind \in {"forward", "broadcast"}
    BY VerdictIs
  <2>3. CopiesOut(S)
    BY <1>0, <1>6 DEF CopiesOut
  <2>4. o = Out(Forward(q), g)
    BY <1>1, <2>1, <2>2, <2>3, Zenon DEF XOut
  <2>5. Departing(p, o) = Out(Forward(q), h)
    BY <1>3, <2>2, <2>4, DepartingIs
  <2> QED  BY <1>0, <1>1, <1>6, <2>5, Zenon DEF Carried
<1> QED  BY <1>4, <1>5, <1>6

(* What match_selector found is an action and its encoded parameters, or   *)
(* nothing, which stands for the default the pipeline was compiled with.   *)
XFound(p, ms, a, vals) ==
  /\ CallTyped(p, a, vals)
  /\ \/ ms = <<>> /\ a = DefaultActionOf(p)
     \/ \E m : ms = <<m>> /\ m.action_id = a /\ m.parameter_data = EncodeParams(vals)

XRunOut(p, r, ms, scr, f) ==
  IF Admits(Envelope(p).admit, f) THEN Departing(p, X4cRun(p, r, ms, scr, f).out)
  ELSE Out(Drop, f)

LEMMA XRunIs ==
  ASSUME NEW r, NEW ms, NEW scr, NEW f
  PROVE  /\ f.len < 14 => X4cRun("l2fwd", r, ms, scr, f).out = Out(Drop, f)
         /\ ~(f.len < 14) =>
              X4cRun("l2fwd", r, ms, scr, f).out =
                XOut(L2ProcessPacket(f, ms, r).ports, L2ProcessPacket(f, ms, r).frame, scr, f)
         /\ f.len < 34 => X4cRun("l3fwd", r, ms, scr, f).out = Out(Drop, f)
         /\ ~(f.len < 34) =>
              X4cRun("l3fwd", r, ms, scr, f).out =
                XOut(L3ProcessPacket(f, ms, r).ports, L3ProcessPacket(f, ms, r).frame, scr, f)
<1>1. MinParse("l2fwd") = 14 /\ MinParse("l3fwd") = 34
  BY DEF MinParse, ETH_HDR_LEN, IPV4_MIN_HDR_LEN
<1>2. ASSUME NEW p, f.len < MinParse(p) PROVE X4cRun(p, r, ms, scr, f).out = Out(Drop, f)
  BY <1>2 DEF X4cRun
<1>3. ASSUME NEW p, ~(f.len < MinParse(p)), NEW k,
             k = IF p = "l2fwd" THEN L2ProcessPacket(f, ms, r) ELSE L3ProcessPacket(f, ms, r)
      PROVE  X4cRun(p, r, ms, scr, f).out = XOut(k.ports, k.frame, scr, f)
  BY <1>3 DEF X4cRun, XOut
<1> QED  BY <1>1, <1>2, <1>3

LEMMA OutPortsIs ==
  ASSUME NEW r
  PROVE  /\ OutPorts(EgressBroadcast, r) = 1 .. r - 1
         /\ OutPorts(EgressDrop, r) = {}
         /\ \A n : OutPorts(EgressPort(LeBytes(n)), r) = {FromLe(LeBytes(n))}
<1>1. OutPorts(EgressBroadcast, r) = 1 .. r - 1
  BY DEF OutPorts, EgressBroadcast, EgressDefault
<1>2. OutPorts(EgressDrop, r) = {}
  BY DEF OutPorts, EgressDrop, EgressDefault
<1>3. ASSUME NEW n PROVE OutPorts(EgressPort(LeBytes(n)), r) = {FromLe(LeBytes(n))}
  <2>1. PICK b : b = LeBytes(n)
    OBVIOUS
  <2>2. b # <<>>
    BY <2>1 DEF LeBytes
  <2>3. OutPorts(EgressPort(b), r) = {FromLe(b)}
    BY <2>2 DEF OutPorts, EgressPort, EgressDefault
  <2> QED  BY <2>1, <2>3
<1> QED  BY <1>1, <1>2, <1>3

LEMMA L2FrameKept ==
  ASSUME NEW f \in InnerFrames
  PROVE  L2EthernetToBitvec(L2EthernetSet(f), f) = f
<1>1. PICK h : h = L2EthernetSet(f)
  OBVIOUS
<1>2. h.dst = Reverse(BeBytes(f.dst)) /\ h.ether_type = Reverse(BeBytes(f.ethertype))
  BY <1>1 DEF L2EthernetSet
<1>3. FromBe(Reverse(h.dst)) = f.dst /\ FromBe(Reverse(h.ether_type)) = f.ethertype
  BY <1>2, RoundTrip, FrameFacts
<1>4. L2EthernetToBitvec(h, f) = [f EXCEPT !.dst = f.dst, !.ethertype = f.ethertype]
  BY <1>3, Zenon DEF L2EthernetToBitvec
<1>5. [f EXCEPT !.dst = f.dst, !.ethertype = f.ethertype] = f
  BY DEF InnerFrames
<1> QED  BY <1>1, <1>4, <1>5

LEMMA XL2Ports ==
  ASSUME NEW f \in InnerFrames, NEW r, NEW ms, NEW a, NEW vals, XFound("l2fwd", ms, a, vals),
         NEW k, k = L2ProcessPacket(f, ms, r)
  PROVE  /\ k.frame = f
         /\ a \in ActionNames("l2fwd")
         /\ a = "broadcast" => k.ports = 1 .. r - 1
         /\ a = "drop" => k.ports = {}
         /\ a = "forward" => k.ports = {Numbers(vals)[1]}
<1>1. PICK g, x : g = L2EthernetSet(f) /\ x = L2Ingress(g, ms)
  OBVIOUS
<1>2. k = [ports |-> OutPorts(x.egress, r), frame |-> L2EthernetToBitvec(x.hdr, f)]
  BY <1>1, Zenon DEF L2ProcessPacket
<1>3. x.hdr = g
  BY <1>1 DEF L2Ingress
<1>4. k.ports = OutPorts(x.egress, r) /\ k.frame = f
  BY <1>1, <1>2, <1>3, L2FrameKept
<1>5. x.egress = CASE ms = <<>> -> EgressBroadcast
                   [] ms # <<>> /\ ms[1].action_id = "forward" ->
                        EgressPort(ExtractParameter(ms[1].parameter_data, 0))
                   [] ms # <<>> /\ ms[1].action_id = "broadcast" -> EgressBroadcast
                   [] OTHER -> EgressDrop
  BY <1>1 DEF L2Ingress
<1>6. CallTyped("l2fwd", a, vals)
  BY DEF XFound
<1>7. a \in {"forward", "broadcast", "drop"}
  BY <1>6 DEF CallTyped
<1>8. CASE ms = <<>> /\ a = DefaultActionOf("l2fwd")
  <2>1. a = "broadcast"
    BY <1>8 DEF DefaultActionOf
  <2>2. x.egress = EgressBroadcast
    BY <1>5, <1>8
  <2> QED  BY <1>4, <2>1, <2>2, OutPortsIs DEF ActionNames
<1>9. ASSUME NEW m, ms = <<m>>, m.action_id = a, m.parameter_data = EncodeParams(vals)
      PROVE  /\ a = "broadcast" => k.ports = 1 .. r - 1
             /\ a = "drop" => k.ports = {}
             /\ a = "forward" => k.ports = {Numbers(vals)[1]}
  <2>1. ms # <<>> /\ ms[1] = m
    BY <1>9
  <2>2. a = "broadcast" => x.egress = EgressBroadcast
    BY <1>5, <1>9, <2>1
  <2>3. a = "drop" => x.egress = EgressDrop
    BY <1>5, <1>9, <2>1
  <2>4. ASSUME a = "forward" PROVE k.ports = {Numbers(vals)[1]}
    <3>1. x.egress = EgressPort(ExtractParameter(EncodeParams(vals), 0))
      BY <1>5, <1>9, <2>1, <2>4
    <3>2. PICK n \in Num : vals = <<Value("u16", n)>>
      BY <1>6, <2>4 DEF CallTyped
    <3>3. ExtractParameter(EncodeParams(vals), 0) = LeBytes(n)
      BY <3>2, ParameterData
    <3>4. Numbers(vals)[1] = n
      BY <3>2 DEF Numbers, Value
    <3>5. OutPorts(x.egress, r) = {n}
      BY <3>1, <3>3, OutPortsIs, RoundTrip
    <3> QED  BY <1>4, <3>4, <3>5
  <2> QED  BY <1>4, <2>2, <2>3, <2>4, OutPortsIs
<1> QED  BY <1>4, <1>7, <1>8, <1>9 DEF XFound, ActionNames

LEMMA XL2Agrees ==
  ASSUME NEW f \in InnerFrames, NEW r \in Nat, r >= 3, NEW ms, NEW scr, NEW a, NEW vals,
         XFound("l2fwd", ms, a, vals)
  PROVE  Agrees("x4c", f, Want("l2fwd", f, a, Numbers(vals)), XRunOut("l2fwd", r, ms, scr, f))
<1>1. PICK ps, k : ps = Numbers(vals) /\ k = L2ProcessPacket(f, ms, r)
  OBVIOUS
<1>2. PICK w, o : w = Want("l2fwd", f, a, ps) /\ o = XRunOut("l2fwd", r, ms, scr, f)
  OBVIOUS
<1>3. "l2fwd" \in Programs
  BY DEF Programs
<1>4. /\ k.frame = f /\ a \in ActionNames("l2fwd")
      /\ a = "broadcast" => k.ports = 1 .. r - 1
      /\ a = "drop" => k.ports = {}
      /\ a = "forward" => k.ports = {ps[1]}
  BY <1>1, XL2Ports
<1>5. o = Departing("l2fwd", X4cRun("l2fwd", r, ms, scr, f).out)
  BY <1>2, AdmitsIs, Zenon DEF XRunOut
<1>6. /\ f.len < 14 => o = Departing("l2fwd", Out(Drop, f))
      /\ ~(f.len < 14) => o = Departing("l2fwd", XOut(k.ports, f, scr, f))
  <2>1. PICK y : y = X4cRun("l2fwd", r, ms, scr, f).out
    OBVIOUS
  <2>2. /\ f.len < 14 => y = Out(Drop, f)
        /\ ~(f.len < 14) => y = XOut(k.ports, k.frame, scr, f)
    BY <1>1, <2>1, XRunIs
  <2> QED  BY <1>4, <1>5, <2>1, <2>2, Zenon
<1>7. Departing("l2fwd", Out(Drop, f)) = Out(Drop, f)
  BY <1>3, DepartingIs, VerdictIs
<1>8. Departing("l2fwd", Out(Broadcast, f)) = Out(Broadcast, f)
  BY <1>3, DepartingIs, VerdictIs
<1>9. "x4c" # "ubpf" /\ "x4c" \in {"x4c", "ubpf"}
  OBVIOUS
<1>10. ASSUME NEW v \in {Drop, Punt, Broadcast}, o = Out(v, f), w = Out(v, f)
       PROVE  Agrees("x4c", f, w, o)
  BY <1>9, <1>10, PlainAgrees
<1>11. CASE f.len < 14
  <2>1. w = Out(Drop, f)
    BY <1>2, <1>3, <1>11, WantDrops
  <2> QED  BY <1>1, <1>2, <1>6, <1>7, <1>10, <1>11, <2>1
<1>12. CASE ~(f.len < 14) /\ a = "drop"
  <2>1. w = Out(Drop, f)
    BY <1>2, <1>3, <1>12, WantIs
  <2>2. o = Out(Drop, f)
    <3>1. XOut(k.ports, f, scr, f) = Out(Drop, f)
      <4>1. k.ports = {}
        BY <1>4, <1>12
      <4>2. XOut({}, f, scr, f) = Out(Drop, f)
        BY XOutIs
      <4> QED  BY <4>1, <4>2
    <3> QED  BY <1>6, <1>7, <1>12, <3>1, Zenon
  <2> QED  BY <1>1, <1>2, <1>10, <2>1, <2>2
<1>13. CASE ~(f.len < 14) /\ a = "broadcast"
  <2>1. w = Out(Broadcast, f)
    BY <1>2, <1>3, <1>13, WantIs
  <2>2. o = Out(Broadcast, f)
    <3>0. XOut(1 .. r - 1, f, scr, f) = Out(Broadcast, f)
      BY XOutIs
    <3>1. XOut(k.ports, f, scr, f) = Out(Broadcast, f)
      BY <1>4, <1>13, <3>0, Zenon
    <3> QED  BY <1>6, <1>8, <1>13, <3>1, Zenon
  <2> QED  BY <1>1, <1>2, <1>10, <2>1, <2>2
<1>14. CASE ~(f.len < 14) /\ a = "forward"
  <2>1. PICK q : q = ps[1]
    OBVIOUS
  <2>2. w = Out(Forward(q), f)
    BY <1>2, <1>3, <1>14, <2>1, WantIs
  <2>3. o = Departing("l2fwd", XOut({q}, f, scr, f))
    BY <1>4, <1>6, <1>14, <2>1, Zenon
  <2>4. Carried(f, q, f, o)
    BY <1>3, <2>3, XForward
  <2>5. Agrees("x4c", f, Out(Forward(q), f), o)
    BY <1>9, <2>4, CarriedAgrees
  <2> QED  BY <1>1, <1>2, <2>2, <2>5, Zenon
<1> QED  BY <1>4, <1>11, <1>12, <1>13, <1>14 DEF ActionNames

---------------------------------------------------------------------------
(* l3fwd: the two headers as the pipeline keeps them.                      *)
Headers(f) == [ethernet |-> L3EthernetSet(f), ipv4 |-> Ipv4Set(f)]
Written(hdr, f) == Ipv4ToBitvec(hdr.ipv4, L3EthernetToBitvec(hdr.ethernet, f))

LEMMA EthertypeIs ==
  ASSUME NEW n \in Num
  PROVE  LeBytes(n) = LeBytes(ETHERTYPE_IPV4) <=> n = ETHERTYPE_IPV4
<1>1. ETHERTYPE_IPV4 \in Nat /\ Octet \in Nat /\ Octet > 0
  BY OctetIs DEF ETHERTYPE_IPV4
<1>2. PICK e : e = ETHERTYPE_IPV4
  OBVIOUS
<1>3. PICK d \in Nat, m \in 0 .. Octet - 1 : d = e \div Octet /\ m = e % Octet /\ e = d * Octet + m
  BY <1>1, <1>2, DivMod
<1>4. PICK hi, lo : hi = n \div Octet /\ lo = n % Octet
  OBVIOUS
<1>5. n = hi * Octet + lo
  BY <1>4, Octets
<1>6. LeBytes(n) = <<lo, hi>> /\ LeBytes(e) = <<m, d>>
  BY <1>3, <1>4, Zenon DEF LeBytes
<1>7. <<lo, hi>> = <<m, d>> => lo = m /\ hi = d
  OBVIOUS
<1>8. <<lo, hi>> = <<m, d>> => n = e
  BY <1>3, <1>5, <1>7, Zenon
<1>9. n = e => LeBytes(n) = LeBytes(e)
  OBVIOUS
<1> QED  BY <1>2, <1>6, <1>8, <1>9, Zenon

EthernetKept(f, e, mac) == e.dst = LeBytes(mac) /\ e.ether_type = LeBytes(f.ethertype)
Ipv4Kept(f, i, ttl, sum) ==
  /\ i.version = f.version /\ i.ihl = f.hl /\ i.ttl = ttl /\ i.protocol = f.proto
  /\ i.hdr_checksum = LeBytes(sum) /\ i.dst = LeBytes(f.ipdst)

Rewritten(f, ttl, mac, sum) == [f EXCEPT !.ttl = ttl, !.dst = mac, !.ipsum = sum]

(* Writing back headers in which only dst, ttl and the checksum may differ *)
(* from what was read.                                                     *)
LEMMA WrittenIs ==
  ASSUME NEW f \in InnerFrames, NEW hdr, NEW mac \in Num, NEW sum \in Num, NEW ttl,
         EthernetKept(f, hdr.ethernet, mac), Ipv4Kept(f, hdr.ipv4, ttl, sum)
  PROVE  Written(hdr, f) = Rewritten(f, ttl, mac, sum)
<1>1. PICK e, i : e = hdr.ethernet /\ i = hdr.ipv4
  OBVIOUS
<1>2. FromBe(Reverse(e.dst)) = mac /\ FromBe(Reverse(e.ether_type)) = f.ethertype
  BY <1>1, RoundTrip, FrameFacts DEF EthernetKept
<1>3. PICK g : g = L3EthernetToBitvec(e, f)
  OBVIOUS
<1>4. g = [f EXCEPT !.dst = mac, !.ethertype = f.ethertype]
  BY <1>2, <1>3, Zenon DEF L3EthernetToBitvec
<1>5. /\ i.version = f.version /\ i.ihl = f.hl /\ i.ttl = ttl /\ i.protocol = f.proto
      /\ i.hdr_checksum = LeBytes(sum) /\ i.dst = LeBytes(f.ipdst)
  BY <1>1, Zenon DEF Ipv4Kept
<1>6. FromBe(Reverse(i.hdr_checksum)) = sum /\ FromBe(Reverse(i.dst)) = f.ipdst
  BY <1>5, RoundTrip, FrameFacts
<1>7. Ipv4ToBitvec(i, g) = [g EXCEPT !.version = f.version, !.hl = f.hl, !.ttl = ttl,
                                     !.proto = f.proto, !.ipsum = sum, !.ipdst = f.ipdst]
  BY <1>5, <1>6, Zenon DEF Ipv4ToBitvec
<1>8. [g EXCEPT !.version = f.version, !.hl = f.hl, !.ttl = ttl,
                !.proto = f.proto, !.ipsum = sum, !.ipdst = f.ipdst]
        = Rewritten(f, ttl, mac, sum)
  BY <1>4 DEF InnerFrames, Rewritten
<1> QED  BY <1>1, <1>3, <1>7, <1>8, Zenon DEF Written

LEMMA HeadersAre ==
  ASSUME NEW f \in InnerFrames
  PROVE  /\ Headers(f).ethernet = [dst |-> LeBytes(f.dst), ether_type |-> LeBytes(f.ethertype)]
         /\ Headers(f).ipv4 = [version |-> f.version, ihl |-> f.hl, ttl |-> f.ttl,
                               protocol |-> f.proto, hdr_checksum |-> LeBytes(f.ipsum),
                               dst |-> LeBytes(f.ipdst)]
<1>1. /\ Reverse(BeBytes(f.dst)) = LeBytes(f.dst) /\ Reverse(BeBytes(f.ethertype)) = LeBytes(f.ethertype)
      /\ Reverse(BeBytes(f.ipsum)) = LeBytes(f.ipsum) /\ Reverse(BeBytes(f.ipdst)) = LeBytes(f.ipdst)
  BY RoundTrip, FrameFacts
<1>2. L3EthernetSet(f) = [dst |-> LeBytes(f.dst), ether_type |-> LeBytes(f.ethertype)]
  BY <1>1, Zenon DEF L3EthernetSet
<1>3. Ipv4Set(f) = [version |-> f.version, ihl |-> f.hl, ttl |-> f.ttl, protocol |-> f.proto,
                    hdr_checksum |-> LeBytes(f.ipsum), dst |-> LeBytes(f.ipdst)]
  BY <1>1, Zenon DEF Ipv4Set
<1>4. Headers(f).ethernet = L3EthernetSet(f) /\ Headers(f).ipv4 = Ipv4Set(f)
  BY DEF Headers
<1> QED  BY <1>2, <1>3, <1>4, Zenon

(* The headers after the forward action.                                   *)
LEMMA ForwardHeaders ==
  ASSUME NEW f \in InnerFrames, f.ttl # 0, NEW mac \in Num, NEW data,
         ExtractParameter(data, 2) = LeBytes(mac)
  PROVE  Written(L3ActionForward(Headers(f), data).hdr, f) = Unsummed(Sent(f, mac))
<1>1. PICK g : g = Headers(f)
  OBVIOUS
<1>2. PICK hdr : hdr = L3ActionForward(g, data).hdr
  OBVIOUS
<1>3. /\ hdr.ethernet = [g.ethernet EXCEPT !.dst = LeBytes(mac)]
      /\ hdr.ipv4 = [g.ipv4 EXCEPT !.ttl = (@ - 1) % 256, !.hdr_checksum = LeBytes(0)]
  BY <1>2 DEF L3ActionForward
<1>4. PICK z, b, c, d : /\ z = LeBytes(0) /\ b = LeBytes(mac) /\ c = LeBytes(f.ethertype)
                        /\ d = LeBytes(f.ipdst)
  OBVIOUS
<1>5. f.ttl \in 1 .. 255
  BY FrameFacts
<1>6. (f.ttl - 1) % 256 = f.ttl - 1
  BY <1>5
<1>7. PICK ttl : ttl = f.ttl - 1
  OBVIOUS
<1>13. PICK u, y, v4, i4, e4, p4 :
         /\ u = LeBytes(f.dst) /\ y = LeBytes(f.ipsum)
         /\ v4 = f.version /\ i4 = f.hl /\ e4 = f.ttl /\ p4 = f.proto
  OBVIOUS
<1>14. g.ethernet = [dst |-> u, ether_type |-> c]
  BY <1>1, <1>4, <1>13, HeadersAre, Zenon
<1>15. g.ipv4 = [version |-> v4, ihl |-> i4, ttl |-> e4, protocol |-> p4,
                 hdr_checksum |-> y, dst |-> d]
  BY <1>1, <1>4, <1>13, HeadersAre, Zenon
<1>8. hdr.ethernet.dst = b /\ hdr.ethernet.ether_type = c
  BY <1>3, <1>4, <1>14
<1>16. (e4 - 1) % 256 = ttl
  BY <1>6, <1>7, <1>13
<1>9. /\ hdr.ipv4.version = v4 /\ hdr.ipv4.ihl = i4 /\ hdr.ipv4.ttl = ttl
      /\ hdr.ipv4.protocol = p4 /\ hdr.ipv4.hdr_checksum = z /\ hdr.ipv4.dst = d
  <2>1. PICK ip : ip = g.ipv4
    OBVIOUS
  <2>2. ip.ttl = e4
    BY <1>15, <2>1
  <2>3. hdr.ipv4 = [ip EXCEPT !.ttl = ttl, !.hdr_checksum = z]
    BY <1>3, <1>4, <1>16, <2>1, <2>2
  <2> QED  BY <1>15, <2>1, <2>3
<1>10. 0 \in Num
  BY PowWidth DEF Num
<1>17. Ipv4Kept(f, hdr.ipv4, ttl, 0)
  BY <1>4, <1>9, <1>13, Zenon DEF Ipv4Kept
<1>18. EthernetKept(f, hdr.ethernet, mac)
  BY <1>4, <1>8, Zenon DEF EthernetKept
<1>11. Written(hdr, f) = Rewritten(f, ttl, mac, 0)
  BY <1>10, <1>17, <1>18, WrittenIs
<1>12. Unsummed(Sent(f, mac)) = Rewritten(f, ttl, mac, 0)
  BY <1>7 DEF Unsummed, Sent, Rewritten
<1> QED  BY <1>1, <1>2, <1>11, <1>12

(* The l3fwd pipeline, by what it found.                                   *)
LEMMA XL3Ports ==
  ASSUME NEW f \in InnerFrames, NEW r, NEW ms, NEW a, NEW vals, XFound("l3fwd", ms, a, vals),
         NEW k, k = L3ProcessPacket(f, ms, r)
  PROVE  /\ a \in ActionNames("l3fwd")
         /\ f.ethertype # ETHERTYPE_IPV4 \/ f.ttl = 0 \/ a = "drop" => k.ports = {}
         /\ f.ethertype = ETHERTYPE_IPV4 /\ f.ttl # 0 =>
              /\ a = "punt" => k.ports = {X4C_PUNT_PORT}
              /\ a = "forward" => /\ k.ports = {Numbers(vals)[1]}
                                  /\ k.frame = Unsummed(Sent(f, Numbers(vals)[2]))
<1>1. PICK g, x : g = Headers(f) /\ x = L3Ingress(g, ms)
  OBVIOUS
<1>2. k = [ports |-> OutPorts(x.egress, r), frame |-> Written(x.hdr, f)]
  BY <1>1, Zenon DEF L3ProcessPacket, Headers, Written
<1>3. k.ports = OutPorts(x.egress, r) /\ k.frame = Written(x.hdr, f)
  BY <1>2
<1>4. /\ g.ethernet.ether_type = LeBytes(f.ethertype) /\ g.ipv4.ttl = f.ttl
  <2>1. PICK u, c, v4, i4, e4, p4, y, d :
          /\ u = LeBytes(f.dst) /\ c = LeBytes(f.ethertype) /\ y = LeBytes(f.ipsum)
          /\ d = LeBytes(f.ipdst)
          /\ v4 = f.version /\ i4 = f.hl /\ e4 = f.ttl /\ p4 = f.proto
    OBVIOUS
  <2>2. g.ethernet = [dst |-> u, ether_type |-> c]
    BY <1>1, <2>1, HeadersAre, Zenon
  <2>3. g.ipv4 = [version |-> v4, ihl |-> i4, ttl |-> e4, protocol |-> p4,
                  hdr_checksum |-> y, dst |-> d]
    BY <1>1, <2>1, HeadersAre, Zenon
  <2> QED  BY <2>1, <2>2, <2>3
<1>5. g.ethernet.ether_type # LeBytes(ETHERTYPE_IPV4) <=> f.ethertype # ETHERTYPE_IPV4
  BY <1>4, EthertypeIs, FrameFacts
<1>6. CallTyped("l3fwd", a, vals)
  BY DEF XFound
<1>7. a \in {"forward", "punt", "drop"}
  BY <1>6 DEF CallTyped
<1>8. /\ f.ethertype # ETHERTYPE_IPV4 \/ f.ttl = 0 \/ ms = <<>> => x = L3ActionDrop(g)
      /\ ~(f.ethertype # ETHERTYPE_IPV4 \/ f.ttl = 0 \/ ms = <<>>) =>
           x = CASE ms[1].action_id = "forward" -> L3ActionForward(g, ms[1].parameter_data)
                 [] ms[1].action_id = "punt" -> L3ActionPunt(g)
                 [] OTHER -> L3ActionDrop(g)
  BY <1>1, <1>4, <1>5 DEF L3Ingress
<1>9. x = L3ActionDrop(g) => k.ports = {}
  <2>1. L3ActionDrop(g).egress = EgressDrop
    BY DEF L3ActionDrop
  <2> QED  BY <1>3, <2>1, OutPortsIs
<1>10. CASE ms = <<>> /\ a = DefaultActionOf("l3fwd")
  <2>1. a = "drop"
    BY <1>10 DEF DefaultActionOf
  <2> QED  BY <1>8, <1>9, <1>10, <2>1 DEF ActionNames
<1>11. ASSUME NEW m, ms = <<m>>, m.action_id = a, m.parameter_data = EncodeParams(vals)
       PROVE  /\ f.ethertype # ETHERTYPE_IPV4 \/ f.ttl = 0 \/ a = "drop" => k.ports = {}
              /\ f.ethertype = ETHERTYPE_IPV4 /\ f.ttl # 0 =>
                   /\ a = "punt" => k.ports = {X4C_PUNT_PORT}
                   /\ a = "forward" => /\ k.ports = {Numbers(vals)[1]}
                                       /\ k.frame = Unsummed(Sent(f, Numbers(vals)[2]))
  <2>1. ms # <<>> /\ ms[1] = m
    BY <1>11
  <2>2. f.ethertype # ETHERTYPE_IPV4 \/ f.ttl = 0 => k.ports = {}
    BY <1>8, <1>9
  <2>3. ASSUME f.ethertype = ETHERTYPE_IPV4, f.ttl # 0
        PROVE  /\ a = "drop" => k.ports = {}
               /\ a = "punt" => k.ports = {X4C_PUNT_PORT}
               /\ a = "forward" => /\ k.ports = {Numbers(vals)[1]}
                                   /\ k.frame = Unsummed(Sent(f, Numbers(vals)[2]))
    <3>1. PICK data : data = EncodeParams(vals)
      OBVIOUS
    <3>2. x = CASE a = "forward" -> L3ActionForward(g, data)
                [] a = "punt" -> L3ActionPunt(g)
                [] OTHER -> L3ActionDrop(g)
      BY <1>8, <1>11, <2>1, <2>3, <3>1
    <3>3. CASE a = "drop"
      BY <1>9, <3>2, <3>3
    <3>4. CASE a = "punt"
      <4>1. x = L3ActionPunt(g)
        BY <3>2, <3>4
      <4>2. x.egress = EgressPort(LeBytes(X4C_PUNT_PORT))
        BY <4>1 DEF L3ActionPunt
      <4>3. FromLe(LeBytes(X4C_PUNT_PORT)) = X4C_PUNT_PORT
        BY RoundTrip, PortsAre
      <4>4. OutPorts(x.egress, r) = {X4C_PUNT_PORT}
        BY <4>2, <4>3, OutPortsIs
      <4> QED  BY <1>3, <3>4, <4>4
    <3>5. CASE a = "forward"
      <4>1. x = L3ActionForward(g, data)
        BY <3>2, <3>5
      <4>2. PICK n, m2 \in Num : vals = <<Value("u16", n), Value("mac", m2)>>
        BY <1>6, <3>5 DEF CallTyped
      <4>3. ExtractParameter(data, 0) = LeBytes(n) /\ ExtractParameter(data, 2) = LeBytes(m2)
        BY <3>1, <4>2, ParameterData
      <4>4. Numbers(vals)[1] = n /\ Numbers(vals)[2] = m2
        BY <4>2 DEF Numbers, Value
      <4>5. x.egress = EgressPort(LeBytes(n))
        BY <4>1, <4>3 DEF L3ActionForward
      <4>6. OutPorts(x.egress, r) = {n}
        BY <4>5, OutPortsIs, RoundTrip
      <4>7. Written(x.hdr, f) = Unsummed(Sent(f, m2))
        BY <1>1, <2>3, <4>1, <4>3, ForwardHeaders
      <4> QED  BY <1>3, <3>5, <4>4, <4>6, <4>7
    <3> QED  BY <1>7, <3>3, <3>4, <3>5
  <2> QED  BY <2>2, <2>3
<1> QED  BY <1>7, <1>10, <1>11 DEF XFound, ActionNames

LEMMA XL3Agrees ==
  ASSUME NEW f \in InnerFrames, NEW r, NEW ms, NEW scr, NEW a, NEW vals,
         XFound("l3fwd", ms, a, vals)
  PROVE  Agrees("x4c", f, Want("l3fwd", f, a, Numbers(vals)), XRunOut("l3fwd", r, ms, scr, f))
<1>1. PICK ps, k : ps = Numbers(vals) /\ k = L3ProcessPacket(f, ms, r)
  OBVIOUS
<1>2. PICK w, o : w = Want("l3fwd", f, a, ps) /\ o = XRunOut("l3fwd", r, ms, scr, f)
  OBVIOUS
<1>3. "l3fwd" \in Programs /\ "l3fwd" # "l2fwd"
  BY DEF Programs
<1>4. /\ a \in ActionNames("l3fwd")
      /\ f.ethertype # ETHERTYPE_IPV4 \/ f.ttl = 0 \/ a = "drop" => k.ports = {}
      /\ f.ethertype = ETHERTYPE_IPV4 /\ f.ttl # 0 =>
           /\ a = "punt" => k.ports = {X4C_PUNT_PORT}
           /\ a = "forward" => k.ports = {ps[1]} /\ k.frame = Unsummed(Sent(f, ps[2]))
  BY <1>1, XL3Ports
<1>5. PICK y : y = X4cRun("l3fwd", r, ms, scr, f).out
  OBVIOUS
<1>6. /\ ~Admits(Envelope("l3fwd").admit, f) => o = Out(Drop, f)
      /\ Admits(Envelope("l3fwd").admit, f) => o = Departing("l3fwd", y)
  BY <1>2, <1>5, Zenon DEF XRunOut
<1>7. Departing("l3fwd", Out(Drop, f)) = Out(Drop, f)
  BY <1>3, DepartingIs, VerdictIs
<1>8. /\ f.len < 34 => y = Out(Drop, f)
      /\ ~(f.len < 34) => y = XOut(k.ports, k.frame, scr, f)
  BY <1>1, <1>5, XRunIs
<1>9. "x4c" # "ubpf" /\ "x4c" \in {"x4c", "ubpf"}
  OBVIOUS
<1>10. ASSUME o = Out(Drop, f), w = Out(Drop, f)
       PROVE  Agrees("x4c", f, w, o)
  BY <1>9, <1>10, PlainAgrees
<1>11. k.ports = {} => XOut(k.ports, k.frame, scr, f) = Out(Drop, f)
  BY XOutIs
<1>12. CASE ~Routable(f)
  <2>1. w = Out(Drop, f)
    BY <1>2, <1>3, <1>12, WantIs
  <2>2. CASE ~Admits(Envelope("l3fwd").admit, f)
    BY <1>1, <1>2, <1>6, <1>10, <2>1, <2>2, Zenon
  <2>3. CASE Admits(Envelope("l3fwd").admit, f)
    <3>1. f.len < 34 \/ k.ports = {}
      <4>1. ~(f.len < 34) => EthernetParses(f)
        BY FrameFacts DEF EthernetParses, ETH_HDR_LEN
      <4>2. ~(f.len < 34) => f.ethertype # ETHERTYPE_IPV4 \/ f.ttl = 0
        BY <1>12, <2>3, <4>1, AdmitsIs, Parses
      <4> QED  BY <1>4, <4>2
    <3>2. y = Out(Drop, f)
      BY <1>8, <1>11, <3>1, Zenon
    <3>3. o = Out(Drop, f)
      BY <1>6, <1>7, <2>3, <3>2, Zenon
    <3> QED  BY <1>1, <1>2, <1>10, <2>1, <3>3, Zenon
  <2> QED  BY <2>2, <2>3
<1>13. CASE Routable(f)
  <2>1. /\ Admits(Envelope("l3fwd").admit, f) /\ ~(f.len < 14) /\ f.ttl # 0
        /\ f.ethertype = ETHERTYPE_IPV4
    BY <1>13, AdmitsIs, Parses
  <2>2. ~(f.len < 34)
    BY <1>13, FrameFacts DEF Routable
  <2>3. o = Departing("l3fwd", XOut(k.ports, k.frame, scr, f))
    BY <1>6, <1>8, <2>1, <2>2, Zenon
  <2>5. ~(f.len < 14 \/ ("l3fwd" = "l3fwd" /\ ~Routable(f)))
    BY <1>13, <2>1
  <2>6. CASE a = "drop"
    <3>1. o = Out(Drop, f)
      BY <1>4, <1>7, <1>11, <2>3, <2>6, Zenon
    <3>2. w = Out(Drop, f)
      BY <1>2, <1>3, <2>5, <2>6, WantIs
    <3> QED  BY <1>1, <1>2, <1>10, <3>1, <3>2, Zenon
  <2>7. CASE a = "punt"
    <3>1. o = Departing("l3fwd", XOut({X4C_PUNT_PORT}, k.frame, scr, f))
      BY <1>4, <2>1, <2>3, <2>7, Zenon
    <3>2. PICK h : h = ZeroInnerChecksums(k.frame)
      OBVIOUS
    <3>3. Carried(f, X4C_PUNT_PORT, h, o)
      BY <1>3, <3>1, <3>2, XForward
    <3>4. o = Out(Punt, f)
      BY <3>3, Zenon DEF Carried
    <3>5. w = Out(Punt, f)
      BY <1>2, <1>3, <2>5, <2>7, WantIs
    <3>6. Agrees("x4c", f, Out(Punt, f), Out(Punt, f))
      BY <1>9, PlainAgrees
    <3> QED  BY <1>1, <1>2, <3>4, <3>5, <3>6, Zenon
  <2>8. CASE a = "forward"
    <3>1. PICK q, mac : q = ps[1] /\ mac = ps[2]
      OBVIOUS
    <3>2. PICK g : g = Unsummed(Sent(f, mac))
      OBVIOUS
    <3>3. o = Departing("l3fwd", XOut({q}, g, scr, f))
      BY <1>4, <2>1, <2>3, <2>8, <3>1, <3>2, Zenon
    <3>4. PICK h : h = ZeroInnerChecksums(Sent(f, mac))
      OBVIOUS
    <3>5. h = ZeroInnerChecksums(g)
      BY <1>13, <3>2, <3>4, ScrubUnsummed
    <3>6. Carried(f, q, h, o)
      BY <1>3, <3>3, <3>5, XForward
    <3>7. w = Out(Forward(q), h)
      BY <1>2, <1>3, <2>5, <2>8, <3>1, <3>4, WantIs
    <3>8. Agrees("x4c", f, Out(Forward(q), h), o)
      BY <1>9, <3>6, CarriedAgrees
    <3> QED  BY <1>1, <1>2, <3>7, <3>8, Zenon
  <2> QED  BY <1>4, <2>6, <2>7, <2>8 DEF ActionNames
<1> QED  BY <1>12, <1>13

---------------------------------------------------------------------------
(* What a node does on a miss.  The default a backend keeps is the call    *)
(* the operator last made, and only set-default changes it.                *)

DefaultAs(s, t, a, vals) ==
  /\ s.backend = "native" => t.default_action = FromCall(s.program, a, vals)
  /\ s.backend = "x4c" => a = DefaultActionOf(s.program)
  /\ s.backend = "ubpf" => t.defaults = UDefaults(s.program, a, vals)

DefaultHeld(s, t, d) ==
  \E a, vals : CallTyped(s.program, a, vals) /\ d = Call(a, vals) /\ DefaultAs(s, t, a, vals)

(* u has the default of t.                                                 *)
SameDefault(s, t, u) ==
  /\ s.backend = "native" => u.default_action = t.default_action
  /\ s.backend = "ubpf" => u.defaults = t.defaults

LEMMA DefaultKept ==
  ASSUME NEW s, NEW t, NEW u, NEW d, DefaultHeld(s, t, d), SameDefault(s, t, u)
  PROVE  DefaultHeld(s, u, d)
<1>1. PICK a, vals : CallTyped(s.program, a, vals) /\ d = Call(a, vals) /\ DefaultAs(s, t, a, vals)
  BY DEF DefaultHeld
<1>2. DefaultAs(s, u, a, vals)
  BY <1>1, Zenon DEF DefaultAs, SameDefault
<1> QED  BY <1>1, <1>2, Zenon DEF DefaultHeld

LEMMA NativeKeepsDefault ==
  ASSUME NEW p, NEW t, "default_action" \in DOMAIN t
  PROVE  /\ \A name, key, a, vals :
              NativeAdd(p, t, name, key, a, vals).table.default_action = t.default_action
         /\ \A name, key : NativeRemove(p, t, name, key).table.default_action = t.default_action
         /\ \A name : NativeClear(p, t, name).table.default_action = t.default_action
<1>1. /\ \A k, a : ExactInsert(t, k, a).default_action = t.default_action
      /\ \A k : ExactRemove(t, k).default_action = t.default_action
      /\ ExactClear(t).default_action = t.default_action
  BY DEF ExactInsert, ExactRemove, ExactClear
<1>2. /\ \A q, a : LpmInsert(t, q, a).default_action = t.default_action
      /\ \A q : LpmRemove(t, q).default_action = t.default_action
      /\ LpmClear(t).default_action = t.default_action
  BY DEF LpmInsert, LpmRemove, LpmClear
<1>3. \A res, u : u.default_action = t.default_action =>
        Result(res, u).table.default_action = t.default_action
  BY ResultIs
<1>4. ASSUME NEW name, NEW key, NEW a, NEW vals
      PROVE  NativeAdd(p, t, name, key, a, vals).table.default_action = t.default_action
  <2>1. PICK u : u = IF p = "l2fwd" THEN L2Add(t, key, FromCall(p, a, vals))
                     ELSE L3Add(t, key, FromCall(p, a, vals))
    OBVIOUS
  <2>2. u.default_action = t.default_action
    BY <1>1, <1>2, <2>1, Zenon DEF L2Add, L3Add
  <2>3. \E res : NativeAdd(p, t, name, key, a, vals) \in {Result(res, t), Result(res, u)}
    BY <2>1, Zenon DEF NativeAdd
  <2> QED  BY <1>3, <2>2, <2>3, Zenon
<1>5. ASSUME NEW name, NEW key
      PROVE  NativeRemove(p, t, name, key).table.default_action = t.default_action
  <2>1. PICK u : u = IF p = "l2fwd" THEN ExactRemove(t, key.value.n) ELSE LpmRemove(t, Prefix(key))
    OBVIOUS
  <2>2. u.default_action = t.default_action
    BY <1>1, <1>2, <2>1, Zenon
  <2>3. \E res : NativeRemove(p, t, name, key) \in {Result(res, t), Result(res, u)}
    BY <2>1, Zenon DEF NativeRemove, L2Remove, L3Remove
  <2> QED  BY <1>3, <2>2, <2>3, Zenon
<1>6. ASSUME NEW name
      PROVE  NativeClear(p, t, name).table.default_action = t.default_action
  <2>1. PICK u : u = IF p = "l2fwd" THEN ExactClear(t) ELSE LpmClear(t)
    OBVIOUS
  <2>2. u.default_action = t.default_action
    BY <1>1, <1>2, <2>1, Zenon
  <2>3. \E res : NativeClear(p, t, name) \in {Result(res, t), Result(res, u)}
    BY <2>1, Zenon DEF NativeClear
  <2> QED  BY <1>3, <2>2, <2>3, Zenon
<1> QED  BY <1>4, <1>5, <1>6, Zenon

WithEntries(t, x) == [t EXCEPT !.entries = x]

LEMMA UbpfKeepsDefault ==
  ASSUME NEW p, NEW t, "defaults" \in DOMAIN t
  PROVE  /\ \A name, key, a, vals :
              UbpfAdd(p, t, name, key, a, vals).table.defaults = t.defaults
         /\ \A name, key : UbpfTableRemove(p, t, name, key).table.defaults = t.defaults
         /\ \A name : UbpfTableClear(p, t, name).table.defaults = t.defaults
<1>1. \A x : WithEntries(t, x).defaults = t.defaults
  BY DEF WithEntries
<1>2. \A res, u : u.defaults = t.defaults => Result(res, u).table.defaults = t.defaults
  BY ResultIs
<1>3. ASSUME NEW name, NEW key, NEW a, NEW vals
      PROVE  UbpfAdd(p, t, name, key, a, vals).table.defaults = t.defaults
  <2>1. PICK res, x : \/ UbpfAdd(p, t, name, key, a, vals) = Result(res, t)
                      \/ UbpfAdd(p, t, name, key, a, vals) = Result(res, WithEntries(t, x))
    BY Zenon DEF UbpfAdd, WithEntries
  <2> QED  BY <1>1, <1>2, <2>1, Zenon
<1>4. ASSUME NEW name, NEW key
      PROVE  UbpfTableRemove(p, t, name, key).table.defaults = t.defaults
  <2>1. PICK res, x : \/ UbpfTableRemove(p, t, name, key) = Result(res, t)
                      \/ UbpfTableRemove(p, t, name, key) = Result(res, WithEntries(t, x))
    BY Zenon DEF UbpfTableRemove, WithEntries
  <2> QED  BY <1>1, <1>2, <2>1, Zenon
<1>5. ASSUME NEW name
      PROVE  UbpfTableClear(p, t, name).table.defaults = t.defaults
  <2>1. PICK res, x : \/ UbpfTableClear(p, t, name) = Result(res, t)
                      \/ UbpfTableClear(p, t, name) = Result(res, WithEntries(t, x))
    BY Zenon DEF UbpfTableClear, WithEntries
  <2> QED  BY <1>1, <1>2, <2>1, Zenon
<1> QED  BY <1>3, <1>4, <1>5, Zenon

LEMMA OpsKeepDefault ==
  ASSUME NEW s \in Sels, NEW t, Shape(s, t)
  PROVE  /\ \A name, key, a, vals : SameDefault(s, t, AddTo(s, t, name, key, a, vals).table)
         /\ \A name, key : SameDefault(s, t, RemoveFrom(s, t, name, key).table)
         /\ \A name : SameDefault(s, t, ClearOf(s, t, name).table)
<1>1. CASE s.backend = "native"
  <2>1. "default_action" \in DOMAIN t
    <3>1. L2Shape(t) \/ L3Shape(t)
      BY <1>1, SelCases, ShapeIs, Zenon
    <3> QED  BY <3>1 DEF L2Shape, L3Shape
  <2>2. "native" # "ubpf"
    OBVIOUS
  <2>3. PICK p : p = s.program
    OBVIOUS
  <2>4. /\ \A name, key, a, vals :
              AddTo(s, t, name, key, a, vals) = NativeAdd(p, t, name, key, a, vals)
        /\ \A name, key : RemoveFrom(s, t, name, key) = NativeRemove(p, t, name, key)
        /\ \A name : ClearOf(s, t, name) = NativeClear(p, t, name)
    BY <1>1, <2>3 DEF AddTo, RemoveFrom, ClearOf
  <2>5. /\ \A name, key, a, vals :
             NativeAdd(p, t, name, key, a, vals).table.default_action = t.default_action
        /\ \A name, key : NativeRemove(p, t, name, key).table.default_action = t.default_action
        /\ \A name : NativeClear(p, t, name).table.default_action = t.default_action
    BY <2>1, NativeKeepsDefault
  <2>6. \A u : u.default_action = t.default_action => SameDefault(s, t, u)
    BY <1>1, <2>2 DEF SameDefault
  <2>7. ASSUME NEW name, NEW key, NEW a, NEW vals
        PROVE  SameDefault(s, t, AddTo(s, t, name, key, a, vals).table)
    <3>1. PICK r : r = AddTo(s, t, name, key, a, vals)
      OBVIOUS
    <3>2. r.table.default_action = t.default_action
      BY <2>4, <2>5, <3>1
    <3> QED  BY <2>6, <3>1, <3>2, Zenon
  <2>8. ASSUME NEW name, NEW key PROVE SameDefault(s, t, RemoveFrom(s, t, name, key).table)
    <3>1. PICK r : r = RemoveFrom(s, t, name, key)
      OBVIOUS
    <3>2. r.table.default_action = t.default_action
      BY <2>4, <2>5, <3>1
    <3> QED  BY <2>6, <3>1, <3>2, Zenon
  <2>9. ASSUME NEW name PROVE SameDefault(s, t, ClearOf(s, t, name).table)
    BY <2>4, <2>5, <2>6, Zenon
  <2> QED  BY <2>7, <2>8, <2>9, Zenon
<1>2. CASE s.backend = "x4c"
  BY <1>2 DEF SameDefault
<1>3. CASE s.backend = "ubpf"
  <2>1. "defaults" \in DOMAIN t
    <3>1. UShape(s.program, t)
      BY <1>3, ShapeIs
    <3> QED  BY <3>1 DEF UShape
  <2>2. "native" # "ubpf"
    OBVIOUS
  <2>3. PICK p : p = s.program
    OBVIOUS
  <2>4. /\ \A name, key, a, vals :
              AddTo(s, t, name, key, a, vals) = UbpfAdd(p, t, name, key, a, vals)
        /\ \A name, key : RemoveFrom(s, t, name, key) = UbpfTableRemove(p, t, name, key)
        /\ \A name : ClearOf(s, t, name) = UbpfTableClear(p, t, name)
    BY <1>3, <2>3 DEF AddTo, RemoveFrom, ClearOf
  <2>5. /\ \A name, key, a, vals : UbpfAdd(p, t, name, key, a, vals).table.defaults = t.defaults
        /\ \A name, key : UbpfTableRemove(p, t, name, key).table.defaults = t.defaults
        /\ \A name : UbpfTableClear(p, t, name).table.defaults = t.defaults
    BY <2>1, UbpfKeepsDefault
  <2>6. \A u : u.defaults = t.defaults => SameDefault(s, t, u)
    BY <1>3, <2>2 DEF SameDefault
  <2>7. ASSUME NEW name, NEW key, NEW a, NEW vals
        PROVE  SameDefault(s, t, AddTo(s, t, name, key, a, vals).table)
    <3>1. PICK r : r = AddTo(s, t, name, key, a, vals)
      OBVIOUS
    <3>2. r.table.defaults = t.defaults
      BY <2>4, <2>5, <3>1
    <3> QED  BY <2>6, <3>1, <3>2, Zenon
  <2>8. ASSUME NEW name, NEW key PROVE SameDefault(s, t, RemoveFrom(s, t, name, key).table)
    <3>1. PICK r : r = RemoveFrom(s, t, name, key)
      OBVIOUS
    <3>2. r.table.defaults = t.defaults
      BY <2>4, <2>5, <3>1
    <3> QED  BY <2>6, <3>1, <3>2, Zenon
  <2>9. ASSUME NEW name PROVE SameDefault(s, t, ClearOf(s, t, name).table)
    BY <2>4, <2>5, <2>6, Zenon
  <2> QED  BY <2>7, <2>8, <2>9, Zenon
<1> QED  BY <1>1, <1>2, <1>3, SelCases

LEMMA NoNumbers == Numbers(<<>>) = <<>>
BY DEF Numbers

LEMMA BuildDefault ==
  ASSUME NEW s \in Sels
  PROVE  DefaultHeld(s, Build(s), [action |-> DefaultActionOf(s.program), params |-> <<>>])
<1>1. PICK p \in Programs : p = s.program
  BY SelCases
<1>2. PICK a : a = DefaultActionOf(p)
  OBVIOUS
<1>3. (p = "l2fwd" /\ a = "broadcast") \/ (p = "l3fwd" /\ a = "drop")
  BY <1>2 DEF Programs, DefaultActionOf
<1>4. CallTyped(p, a, <<>>)
  BY <1>3 DEF CallTyped
<1>5. Call(a, <<>>) = [action |-> a, params |-> <<>>]
  BY NoNumbers, Zenon DEF Call
<1>6. s.backend = "native" => Build(s).default_action = FromCall(p, a, <<>>)
  BY <1>1, <1>3 DEF Build, NativeNew, L2New, L3New, ExactNew, LpmNew, FromCall, L2FromCall,
                    L3FromCall, Action
<1>7. s.backend = "ubpf" => Build(s).defaults = UDefaults(p, a, <<>>)
  <2>1. Abi(p).default = a
    BY <1>3 DEF Abi, L2Abi, L3Abi
  <2>2. PICK v : v = ValueImage(Abi(p), a, <<>>)
    OBVIOUS
  <2>3. UbpfPipelineNew(p).defaults = UbpfNew("exact", 1, 1, v)
    BY <2>1, <2>2 DEF UbpfPipelineNew
  <2>4. UbpfNew("exact", 1, 1, v) = UDefaults(p, a, <<>>)
    BY <2>2, Zenon DEF UbpfNew, UDefaults
  <2>5. s.backend = "ubpf" => Build(s) = UbpfPipelineNew(p)
    BY <1>1 DEF Build
  <2> QED  BY <2>3, <2>4, <2>5
<1>8. DefaultAs(s, Build(s), a, <<>>)
  BY <1>1, <1>2, <1>6, <1>7, Zenon DEF DefaultAs
<1> QED  BY <1>1, <1>2, <1>4, <1>5, <1>8, Zenon DEF DefaultHeld

WithDefault(t, v) == [t EXCEPT !.defaults = UbpfSetDefault(@, v)]

Settable(s, t, name, a, vals, d) ==
  /\ s \in Sels /\ Shape(s, t) /\ name = SchemaOf(s.program).name
  /\ CallTyped(s.program, a, vals) /\ DefaultHeld(s, t, d)

(* set-default, where a backend takes it.                                  *)
LEMMA SetDefaultHeld ==
  ASSUME NEW s, NEW t, NEW name, NEW a, NEW vals, NEW d, Settable(s, t, name, a, vals, d),
         NEW r, r = SetDefaultOf(s, t, name, a, vals)
  PROVE  /\ s.backend # "x4c" => DefaultHeld(s, r.table, Call(a, vals))
         /\ s.backend = "x4c" => r.table = t
<1>0. /\ s \in Sels /\ Shape(s, t) /\ name = SchemaOf(s.program).name
      /\ CallTyped(s.program, a, vals) /\ DefaultHeld(s, t, d)
  BY DEF Settable
<1>1. PICK p \in Programs : p = s.program
  BY <1>0, SelCases
<1>2. FindSchema(p, name).ok /\ Check(SchemaOf(p), a, vals).ok
  BY <1>0, <1>1, Found, ChecksPass
<1>3. r = SetDefaultOf(s, t, name, a, vals)
  OBVIOUS
<1>4. CASE s.backend = "native"
  <2>1. r = Result(Ok(1), [t EXCEPT !.default_action = FromCall(p, a, vals)])
    BY <1>1, <1>2, <1>3, <1>4, Zenon DEF SetDefaultOf, NativeSetDefault
  <2>2. r.table = [t EXCEPT !.default_action = FromCall(p, a, vals)]
    BY <2>1, ResultIs
  <2>3. "default_action" \in DOMAIN t
    <3>1. L2Shape(t) \/ L3Shape(t)
      BY <1>0, <1>4, SelCases, ShapeIs, Zenon
    <3> QED  BY <3>1 DEF L2Shape, L3Shape
  <2>4. r.table.default_action = FromCall(p, a, vals)
    BY <2>2, <2>3
  <2>5. DefaultAs(s, r.table, a, vals)
    BY <1>1, <1>4, <2>4 DEF DefaultAs
  <2> QED  BY <1>0, <1>4, <2>5 DEF DefaultHeld
<1>5. CASE s.backend = "x4c"
  <2>1. s.backend # "native"
    BY <1>5
  <2>2. r = X4cSetDefault(p, t, name)
    BY <1>1, <1>3, <1>5, <2>1, Zenon DEF SetDefaultOf
  <2>3. r.table = t
    BY <2>2, ResultIs DEF X4cSetDefault
  <2> QED  BY <1>3, <1>5, <2>3
<1>6. CASE s.backend = "ubpf"
  <2>1. s.backend # "native" /\ s.backend # "x4c"
    BY <1>6
  <2>2. PICK v : v = ValueImage(Abi(p), a, vals)
    OBVIOUS
  <2>3. r = UbpfTableSetDefault(p, t, name, a, vals)
    BY <1>1, <1>3, <2>1, Zenon DEF SetDefaultOf
  <2>4. r = Result(Ok(1), WithDefault(t, v))
    BY <1>2, <2>2, <2>3, Zenon DEF UbpfTableSetDefault, WithDefault
  <2>5. r.table = WithDefault(t, v)
    BY <2>4, ResultIs
  <2>6. "defaults" \in DOMAIN t
    <3>1. UShape(p, t)
      BY <1>0, <1>1, <1>6, ShapeIs
    <3> QED  BY <3>1 DEF UShape
  <2>7. r.table.defaults = [t.defaults EXCEPT !.default = v]
    BY <2>5, <2>6 DEF WithDefault, UbpfSetDefault
  <2>8. PICK da, dv : t.defaults = UDefaults(p, da, dv)
    BY <1>0, <1>1, <1>6 DEF DefaultHeld, DefaultAs
  <2>9. PICK w : w = ValueImage(Abi(p), da, dv)
    OBVIOUS
  <2>10. UDefaults(p, da, dv) = [matching |-> "exact", match_at |-> 1, match_len |-> 1,
                                 buckets |-> <<>>, default |-> w]
    BY <2>9, Zenon DEF UDefaults
  <2>11. r.table.defaults = [matching |-> "exact", match_at |-> 1, match_len |-> 1,
                             buckets |-> <<>>, default |-> v]
    BY <2>7, <2>8, <2>10
  <2>12. r.table.defaults = UDefaults(p, a, vals)
    BY <2>2, <2>11, Zenon DEF UDefaults
  <2>13. DefaultAs(s, r.table, a, vals)
    BY <1>1, <2>1, <2>12, Zenon DEF DefaultAs
  <2> QED  BY <1>0, <2>1, <2>13 DEF DefaultHeld
<1> QED  BY <1>0, <1>4, <1>5, <1>6, SelCases

(* The pipeline's port space: three ports at least, none of them the punt  *)
(* port.                                                                   *)
LEMMA RadixIs ==
  ASSUME NEW raw \in RawConfigs, Obeys(raw)
  PROVE  LET r == Radix({raw.vports[i].id : i \in DOMAIN raw.vports}) IN r \in Num /\ r >= 3
<1>1. PICK S : S = {raw.vports[i].id : i \in DOMAIN raw.vports}
  OBVIOUS
<1>2. PICK w \in Nat : w = 2 ^ Width /\ w >= 4
  BY PortsAre, PowWidth
<1>3. \A x \in S \cup {0} : x \in 0 .. w - 2
  <2>1. \A i \in DOMAIN raw.vports : raw.vports[i].id \in 0 .. 2 ^ Width - 2
    BY Zenon DEF Obeys
  <2>2. \A i \in DOMAIN raw.vports : raw.vports[i].id \in 0 .. w - 2
    BY <1>2, <2>1, Zenon
  <2>3. 0 \in 0 .. w - 2
    BY <1>2
  <2> QED  BY <1>1, <2>2, <2>3, Zenon
<1>4. PICK T : T = S \cup {0}
  OBVIOUS
<1>5. T \subseteq Nat /\ T # {} /\ w - 2 \in Nat /\ \A y \in T : y <= w - 2
  BY <1>2, <1>3, <1>4
<1>6. Max(T) \in T
  BY <1>5, MaxIsGreatest
<1>7. PICK m \in Nat : m = Max(T)
  BY <1>5, <1>6
<1>8. PICK a, b \in Int : a = m + 3 /\ b = w - 1
  BY <1>2, <1>7
<1>9. Radix(S) = IF a <= b THEN a ELSE b
  <2>1. Radix(S) = Min({a, b})
    BY <1>2, <1>4, <1>7, <1>8, Zenon DEF Radix
  <2> QED  BY <2>1, MinMaxTwo
<1>10. Radix(S) \in 0 .. w - 1 /\ Radix(S) >= 3
  BY <1>2, <1>7, <1>8, <1>9
<1> QED  BY <1>1, <1>2, <1>10, Zenon DEF Num

(* The calls asked for are of the program's actions, under masked keys.    *)
CallOk(p, c) == \E a, vals : CallTyped(p, a, vals) /\ c = Call(a, vals)
AskedTyped(p, f) == \A k \in DOMAIN f : Mask(k.n, k.len) = k.n /\ CallOk(p, f[k])

LEMMA AskedOps ==
  ASSUME NEW p \in Programs, NEW f, AskedTyped(p, f)
  PROVE  /\ AskedTyped(p, NoEntries)
         /\ \A k : AskedTyped(p, Without(f, k))
         /\ \A key, a, vals : KeyTyped(p, key) /\ CallTyped(p, a, vals) =>
              AskedTyped(p, Put(f, Canon(key), Call(a, vals)))
<1>1. AskedTyped(p, NoEntries)
  BY DictEmpty DEF AskedTyped
<1>2. ASSUME NEW k PROVE AskedTyped(p, Without(f, k))
  <2>1. DOMAIN Without(f, k) = DOMAIN f \ {k} /\ \A x \in DOMAIN f \ {k} : Without(f, k)[x] = f[x]
    BY DEF Without
  <2> QED  BY <2>1, Zenon DEF AskedTyped
<1>3. ASSUME NEW key, NEW a, NEW vals, KeyTyped(p, key), CallTyped(p, a, vals)
      PROVE  AskedTyped(p, Put(f, Canon(key), Call(a, vals)))
  <2>1. PICK k, c : k = Canon(key) /\ c = Call(a, vals)
    OBVIOUS
  <2>2. /\ DOMAIN Put(f, k, c) = DOMAIN f \cup {k} /\ Put(f, k, c)[k] = c
        /\ \A x \in DOMAIN f \ {k} : Put(f, k, c)[x] = f[x]
    BY DEF Put
  <2>3. Mask(k.n, k.len) = k.n
    <3>1. PICK n, len : n = key.value.n /\ len = key.len
      OBVIOUS
    <3>2. n \in Num /\ len \in 0 .. Width
      BY <1>3, <3>1, CanonTyped
    <3>3. k.n = Mask(n, len) /\ k.len = len
      BY <2>1, <3>1 DEF Canon
    <3>4. Mask(Mask(n, len), len) = Mask(n, len)
      BY <3>2, MaskFacts
    <3> QED  BY <3>3, <3>4, Zenon
  <2>4. CallOk(p, c)
    BY <1>3, <2>1, Zenon DEF CallOk
  <2>5. AskedTyped(p, Put(f, k, c))
    <3> SUFFICES ASSUME NEW x \in DOMAIN Put(f, k, c)
                 PROVE  Mask(x.n, x.len) = x.n /\ CallOk(p, Put(f, k, c)[x])
      BY DEF AskedTyped
    <3>1. CASE x = k
      BY <2>2, <2>3, <2>4, <3>1, Zenon
    <3>2. CASE x # k
      <4>1. x \in DOMAIN f /\ Put(f, k, c)[x] = f[x]
        BY <2>2, <3>2
      <4> QED  BY <4>1, Zenon DEF AskedTyped
    <3> QED  BY <3>1, <3>2
  <2> QED  BY <2>1, <2>5, Zenon
<1> QED  BY <1>1, <1>2, <1>3

SameInv ==
  /\ phase # "down" => /\ radix \in Num /\ radix >= 3
                       /\ AskedTyped(sel.program, asked)
                       /\ DefaultHeld(sel, table, askedDefault)
  /\ phase = "down" => radix = 0
  /\ scratch \in BOOLEAN

LEMMA SameInit == Init => SameInv
BY DEF Init, SameInv

LEMMA ExitSame ==
  ASSUME NEW event, Exit(event)
  PROVE  SameInv'
BY DEF Exit, SameInv

LEMMA StartSame ==
  ASSUME FaithInv, SameInv, NEW raw \in RawConfigs, NEW backend,
         NEW file \in Batches(raw.pipeline), Start(raw, backend, file)
  PROVE  SameInv'
<1> DEFINE config == Validate(raw, Registry)
           s == Selection(raw.pipeline, backend)
<1>1. CASE ~config.ok \/ ~s.ok
  BY <1>1, ExitSame DEF Start
<1>2. CASE config.ok /\ s.ok
  <2>1. /\ phase = "down" /\ phase' = "loading" /\ sel' = s.val /\ table' = Build(s.val)
        /\ radix' = Radix({raw.vports[i].id : i \in DOMAIN raw.vports})
        /\ askedDefault' = [action |-> DefaultActionOf(s.val.program), params |-> <<>>]
        /\ UNCHANGED <<scratch, asked>>
    BY <1>2, Zenon DEF Start
  <2>2. s.val \in Sels
    <3>1. /\ raw.pipeline \in Programs
          /\ \E x \in Backends : s = Ok([program |-> raw.pipeline, backend |-> x])
      BY <1>2, ResultIs DEF Selection, Backends
    <3> QED  BY <3>1, ResultIs DEF Sels
  <2>3. Obeys(raw)
    BY <1>2, ValidateIs, ObeysIs
  <2> HIDE DEF s, config
  <2>4. radix' \in Num /\ radix' >= 3
    BY <2>1, <2>3, RadixIs
  <2>5. AskedTyped(sel'.program, asked')
    <3>1. asked' = NoEntries
      BY <2>1 DEF FaithInv, NodeGood
    <3> QED  BY <3>1, DictEmpty DEF AskedTyped
  <2>6. DefaultHeld(sel', table', askedDefault')
    BY <2>1, <2>2, BuildDefault
  <2> QED  BY <2>1, <2>4, <2>5, <2>6 DEF SameInv
<1> QED  BY <1>1, <1>2

(* A step of a running node that keeps its selection.                      *)
LEMMA RunningSame ==
  ASSUME SameInv, phase # "down", phase' # "down", UNCHANGED <<sel, radix>>,
         scratch' \in BOOLEAN, AskedTyped(sel.program, asked'),
         DefaultHeld(sel, table', askedDefault')
  PROVE  SameInv'
BY DEF SameInv

LEMMA QuietSame ==
  ASSUME SameInv, phase # "down", phase' # "down", scratch' \in BOOLEAN,
         UNCHANGED <<sel, radix, table, asked, askedDefault>>
  PROVE  SameInv'
BY DEF SameInv

LEMMA ApplySame ==
  ASSUME FaithInv, SameInv, ApplyEntry
  PROVE  SameInv'
<1> DEFINE b == batch[1]
           spec == b.given[b.done + 1]
           r == AddResult(spec)
<1>1. /\ Pending /\ r.res.ok /\ table' = r.table
      /\ asked' = Put(asked, Canon(Refined(spec).val.key), Call(spec.action, Refined(spec).val.vals))
      /\ UNCHANGED <<phase, sel, radix, scratch, askedDefault>>
  BY Zenon DEF ApplyEntry, nodeVars
<1>2. /\ phase # "down" /\ sel \in Sels /\ sel.program \in Programs /\ Shape(sel, table)
      /\ spec.key.len \in Seq(Nat) /\ DistinctNames(spec.params)
  BY <1>1, PendingIs
<1>3. PICK p \in Programs : p = sel.program
  BY <1>2
<1>4. PICK e : e = spec
  OBVIOUS
<1> HIDE DEF spec, b
<1>5. PICK key, vals : key = Refined(e).val.key /\ vals = Refined(e).val.vals
  OBVIOUS
<1>6. EntryLegal(p, e)
  BY <1>1, <1>2, <1>3, <1>4, AddResultIs
<1>7. Refined(e).ok /\ KeyTyped(p, key) /\ CallTyped(p, e.action, vals)
  BY <1>2, <1>3, <1>4, <1>5, <1>6, RefinedIs
<1>8. AskedTyped(sel.program, asked')
  <2>1. AskedTyped(p, asked)
    BY <1>2, <1>3 DEF SameInv
  <2>2. AskedTyped(p, Put(asked, Canon(key), Call(e.action, vals)))
    BY <1>7, <2>1, AskedOps
  <2> QED  BY <1>1, <1>3, <1>4, <1>5, <2>2, Zenon
<1>9. DefaultHeld(sel, table', askedDefault')
  <2>1. r = AddTo(sel, table, e.table, key, e.action, vals)
    <3>1. AddResult(e) = TableAdd(e.table, Refined(e).val.key, e.action, Refined(e).val.vals)
      BY <1>7, Zenon DEF AddResult
    <3> QED  BY <1>4, <1>5, <3>1, OpsAre, Zenon
  <2> HIDE DEF r
  <2>2. SameDefault(sel, table, r.table)
    BY <1>2, <2>1, OpsKeepDefault, Zenon
  <2>3. DefaultHeld(sel, table, askedDefault)
    BY <1>2 DEF SameInv
  <2>4. DefaultHeld(sel, r.table, askedDefault)
    BY <2>2, <2>3, DefaultKept
  <2> QED  BY <1>1, <2>4
<1> HIDE DEF r
<1>10. scratch' \in BOOLEAN /\ UNCHANGED <<sel, radix>> /\ phase' # "down"
  BY <1>1, <1>2 DEF SameInv
<1> QED  BY <1>2, <1>8, <1>9, <1>10, RunningSame

LEMMA DelSame ==
  ASSUME FaithInv, SameInv, NEW name, NEW text \in KeyTexts(sel.program), TableDel(name, text)
  PROVE  SameInv'
<1> DEFINE k == ParseKeyFor(sel.program, name, text)
           r == IF ~k.ok THEN Result(k, table) ELSE TableRemove(name, k.val)
<1>1. /\ phase = "up" /\ UNCHANGED <<phase, sel, radix, scratch, askedDefault>>
      /\ table' = r.table
      /\ asked' = IF k.ok THEN Without(asked, Canon(k.val)) ELSE asked
  BY DEF TableDel, Idle, nodeVars, Reply
<1>2. sel \in Sels /\ sel.program \in Programs /\ Shape(sel, table)
  BY <1>1, SelCases DEF FaithInv, NodeGood
<1>3. AskedTyped(sel.program, asked) /\ DefaultHeld(sel, table, askedDefault)
  BY <1>1 DEF SameInv
<1>4. AskedTyped(sel.program, asked')
  BY <1>1, <1>2, <1>3, AskedOps, Zenon
<1>5. DefaultHeld(sel, table', askedDefault')
  <2>1. CASE ~k.ok
    <3>1. r.table = table
      BY <2>1, ResultIs
    <3> QED  BY <1>1, <1>3, <3>1
  <2>2. CASE k.ok
    <3>1. r = RemoveFrom(sel, table, name, k.val)
      BY <2>2, OpsAre
    <3> HIDE DEF k, r
    <3>2. SameDefault(sel, table, r.table)
      BY <1>2, <3>1, OpsKeepDefault, Zenon
    <3>3. DefaultHeld(sel, r.table, askedDefault)
      BY <1>3, <3>2, DefaultKept
    <3> QED  BY <1>1, <3>3
  <2> QED  BY <2>1, <2>2
<1> HIDE DEF k, r
<1>6. scratch' \in BOOLEAN /\ UNCHANGED <<sel, radix>> /\ phase # "down" /\ phase' # "down"
  BY <1>1 DEF SameInv
<1> QED  BY <1>4, <1>5, <1>6, RunningSame

LEMMA SetDefaultSame ==
  ASSUME FaithInv, SameInv, NEW name, NEW call \in DefaultCalls(sel.program),
         SetDefault(name, call)
  PROVE  SameInv'
<1> DEFINE s == FindSchema(sel.program, name)
           v == TypedParams(SchemaOf(sel.program), call.action, call.params)
           r == IF ~s.ok THEN Result(s, table)
                ELSE IF ~v.ok THEN Result(v, table)
                ELSE TableSetDefault(name, call.action, v.val)
<1>1. /\ phase = "up" /\ UNCHANGED <<phase, sel, radix, scratch, asked>>
      /\ table' = r.table
      /\ askedDefault' = IF r.res.ok THEN Call(call.action, v.val) ELSE askedDefault
  BY DEF SetDefault, Idle, nodeVars, Reply
<1>2. sel \in Sels /\ sel.program \in Programs /\ Shape(sel, table)
  BY <1>1, SelCases DEF FaithInv, NodeGood
<1>3. PICK p \in Programs : p = sel.program
  BY <1>2
<1>4. AskedTyped(sel.program, asked') /\ DefaultHeld(sel, table, askedDefault)
  BY <1>1 DEF SameInv
<1>5. DefaultHeld(sel, table', askedDefault')
  <2>1. CASE ~s.ok
    <3>1. r = Result(s, table)
      BY <2>1
    <3> HIDE DEF r, s, v
    <3>2. ~r.res.ok /\ r.table = table
      BY <2>1, <3>1, ResultIs
    <3> QED  BY <1>1, <1>4, <3>2
  <2>2. CASE s.ok /\ ~v.ok
    <3>1. r = Result(v, table)
      BY <2>2
    <3> HIDE DEF r, s, v
    <3>2. ~r.res.ok /\ r.table = table
      BY <2>2, <3>1, ResultIs
    <3> QED  BY <1>1, <1>4, <3>2
  <2>3. CASE s.ok /\ v.ok
    <3>1. PICK a, vals : a = call.action /\ vals = v.val
      OBVIOUS
    <3>2. r = SetDefaultOf(sel, table, name, a, vals)
      BY <2>3, <3>1, OpsAre
    <3>3. DistinctNames(call.params)
      BY <1>2, TextAssumption
    <3>4. CallTyped(sel.program, a, vals)
      BY <1>3, <2>3, <3>1, <3>3, ParamsParse
    <3>5. name = SchemaOf(sel.program).name
      BY <2>3, Found
    <3>6. r.res.ok <=> sel.backend # "x4c"
      BY <1>2, <3>2, <3>4, <3>5, SetDefaultIs
    <3>7. /\ sel.backend # "x4c" => DefaultHeld(sel, r.table, Call(a, vals))
          /\ sel.backend = "x4c" => r.table = table
      <4>1. Settable(sel, table, name, a, vals, askedDefault)
        BY <1>2, <1>4, <3>4, <3>5 DEF Settable
      <4> HIDE DEF r, s, v
      <4> QED  BY <3>2, <4>1, SetDefaultHeld
    <3> HIDE DEF r, s, v
    <3>8. CASE sel.backend # "x4c"
      BY <1>1, <3>1, <3>6, <3>7, <3>8, Zenon
    <3>9. CASE sel.backend = "x4c"
      BY <1>1, <1>4, <3>6, <3>7, <3>9, Zenon
    <3> QED  BY <3>8, <3>9
  <2> QED  BY <2>1, <2>2, <2>3
<1> HIDE DEF r, s, v
<1>6. scratch' \in BOOLEAN /\ UNCHANGED <<sel, radix>> /\ phase # "down" /\ phase' # "down"
  BY <1>1 DEF SameInv
<1> QED  BY <1>4, <1>5, <1>6, RunningSame

LEMMA ClearSame ==
  ASSUME FaithInv, SameInv, NEW name, Clear(name)
  PROVE  SameInv'
<1> DEFINE r == TableClear(name)
<1>1. /\ phase = "up" /\ UNCHANGED <<phase, sel, radix, scratch, askedDefault>>
      /\ table' = r.table
      /\ asked' = IF r.res.ok THEN NoEntries ELSE asked
  BY DEF Clear, Idle, nodeVars, Reply
<1>2. sel \in Sels /\ sel.program \in Programs /\ Shape(sel, table)
  BY <1>1, SelCases DEF FaithInv, NodeGood
<1>3. AskedTyped(sel.program, asked) /\ DefaultHeld(sel, table, askedDefault)
  BY <1>1 DEF SameInv
<1>4. AskedTyped(sel.program, asked')
  BY <1>1, <1>2, <1>3, AskedOps, Zenon
<1>5. r = ClearOf(sel, table, name)
  BY OpsAre
<1> HIDE DEF r
<1>6. SameDefault(sel, table, r.table)
  BY <1>2, <1>5, OpsKeepDefault, Zenon
<1>7. DefaultHeld(sel, r.table, askedDefault)
  BY <1>3, <1>6, DefaultKept
<1>8. /\ scratch' \in BOOLEAN /\ UNCHANGED <<sel, radix>> /\ phase # "down" /\ phase' # "down"
      /\ DefaultHeld(sel, table', askedDefault')
  BY <1>1, <1>7 DEF SameInv
<1> QED  BY <1>4, <1>8, RunningSame

LEMMA ScratchKept ==
  ASSUME NEW p, NEW r, NEW ms, NEW scr \in BOOLEAN, NEW f
  PROVE  X4cRun(p, r, ms, scr, f).scratch \in BOOLEAN
<1>1. \E out, b : /\ X4cRun(p, r, ms, scr, f) = [out |-> out, scratch |-> b]
                  /\ b \in BOOLEAN
  BY Zenon DEF X4cRun
<1> QED  BY <1>1

LEMMA SameInvStep == FaithInv /\ SameInv /\ [Next]_vars => SameInv'
<1> SUFFICES ASSUME FaithInv, SameInv, [Next]_vars PROVE SameInv'
  OBVIOUS
<1>0. scratch \in BOOLEAN
  BY DEF SameInv
<1>1. CASE \E raw \in RawConfigs, b \in CliBackends :
             \E file \in Batches(raw.pipeline) : Start(raw, b, file)
  BY <1>1, StartSame
<1>2. CASE Stop
  BY <1>2, ExitSame DEF Stop
<1>3. CASE Request
  <2>1. ASSUME NEW entries, BeginAdd(entries) PROVE SameInv'
    <3>1. /\ phase = "up"
          /\ UNCHANGED <<phase, sel, radix, scratch, table, asked, askedDefault>>
      BY <2>1 DEF BeginAdd, Idle, nodeVars, askedVars
    <3> QED  BY <1>0, <3>1, QuietSame
  <2>2. CASE \E name \in TableNames, text \in KeyTexts(sel.program) : TableDel(name, text)
    BY <2>2, DelSame
  <2>3. CASE \E name \in TableNames, call \in DefaultCalls(sel.program) : SetDefault(name, call)
    BY <2>3, SetDefaultSame
  <2>4. ASSUME NEW name, Clear(name) PROVE SameInv'
    BY <2>4, ClearSame
  <2>5. ASSUME NEW name, Dump(name) PROVE SameInv'
    <3>1. /\ phase = "up"
          /\ UNCHANGED <<phase, sel, radix, scratch, table, asked, askedDefault>>
      BY <2>5 DEF Dump, Idle, nodeVars, askedVars
    <3> QED  BY <1>0, <3>1, QuietSame
  <2> QED  BY <1>3, <2>1, <2>2, <2>3, <2>4, <2>5 DEF Request
<1>4. CASE ApplyEntry
  BY <1>4, ApplySame
<1>5. CASE RefuseEntry
  <2>1. CASE \E event : Exit(event)
    BY <2>1, ExitSame
  <2>2. CASE UNCHANGED <<phase, sel, radix, scratch, table, asked, askedDefault>>
    <3>1. phase # "down"
      BY <1>5 DEF RefuseEntry, Pending, FaithInv, NodeGood
    <3> QED  BY <1>0, <2>2, <3>1, QuietSame
  <2> QED  BY <1>5, <2>1, <2>2 DEF RefuseEntry, nodeVars, askedVars
<1>6. CASE FinishBatch
  <2>1. /\ batch # <<>> /\ phase' = "up"
        /\ UNCHANGED <<sel, radix, scratch, table, asked, askedDefault>>
    BY <1>6 DEF FinishBatch, askedVars
  <2>2. phase # "down"
    BY <2>1 DEF FaithInv, NodeGood
  <2> QED  BY <1>0, <2>1, <2>2, QuietSame
<1>7. ASSUME NEW f, Receive(f) PROVE SameInv'
  <2>1. phase = "up" /\ UNCHANGED <<phase, sel, radix, table, asked, askedDefault>>
    BY <1>7 DEF Receive, nodeVars, askedVars
  <2>2. \E ms : scratch' \in {scratch, X4cRun(sel.program, radix, ms, scratch, f).scratch}
    BY <1>7, Zenon DEF Receive
  <2>3. scratch' \in BOOLEAN
    BY <1>0, <2>2, ScratchKept
  <2> QED  BY <2>1, <2>3, QuietSame
<1>8. CASE UNCHANGED vars
  <2>1. UNCHANGED <<phase, sel, radix, scratch, table, asked, askedDefault>>
    BY <1>8 DEF vars
  <2> QED  BY <2>1 DEF SameInv
<1> QED  BY <1>1, <1>2, <1>3, <1>4, <1>5, <1>6, <1>7, <1>8 DEF Next

---------------------------------------------------------------------------
(* What the engine makes of a frame.                                       *)
EngineOut(b, p, r, t, ms, scr, f) ==
  LET x == X4cRun(p, r, ms, scr, f)
      admitted == Admits(Envelope(p).admit, f)
  IN CASE b = "native" -> NativeProcess(p, t, f)
       [] b # "native" /\ ~admitted -> Out(Drop, f)
       [] b = "x4c" /\ admitted -> Departing(p, x.out)
       [] OTHER -> Departing(p, UbpfProcess(p, t, f))

PickOut(b, adm, n, d, x, u) ==
  CASE b = "native" -> n
    [] b # "native" /\ ~adm -> d
    [] b = "x4c" /\ adm -> x
    [] OTHER -> u

LEMMA EngineOutIs ==
  ASSUME NEW p, NEW r, NEW t, NEW ms, NEW scr, NEW f
  PROVE  /\ EngineOut("native", p, r, t, ms, scr, f) = NativeProcess(p, t, f)
         /\ EngineOut("x4c", p, r, t, ms, scr, f) = XRunOut(p, r, ms, scr, f)
         /\ EngineOut("ubpf", p, r, t, ms, scr, f) = UbpfOut(p, t, f)
<1>1. PICK n, d, x, u : /\ n = NativeProcess(p, t, f) /\ d = Out(Drop, f)
                        /\ x = Departing(p, X4cRun(p, r, ms, scr, f).out)
                        /\ u = Departing(p, UbpfProcess(p, t, f))
  OBVIOUS
<1>2. \A b : EngineOut(b, p, r, t, ms, scr, f) =
               PickOut(b, Admits(Envelope(p).admit, f), n, d, x, u)
  BY <1>1 DEF EngineOut, PickOut
<1>3. /\ XRunOut(p, r, ms, scr, f) = IF Admits(Envelope(p).admit, f) THEN x ELSE d
      /\ UbpfOut(p, t, f) = IF Admits(Envelope(p).admit, f) THEN u ELSE d
  BY <1>1, Zenon DEF XRunOut, UbpfOut
<1>4. \A adm \in BOOLEAN : /\ PickOut("native", adm, n, d, x, u) = n
                           /\ PickOut("x4c", adm, n, d, x, u) = IF adm THEN x ELSE d
                           /\ PickOut("ubpf", adm, n, d, x, u) = IF adm THEN u ELSE d
  BY DEF PickOut
<1>5. Admits(Envelope(p).admit, f) \in BOOLEAN
  BY DEF Admits
<1> QED  BY <1>1, <1>2, <1>3, <1>4, <1>5

KeyField(p, f) == IF p = "l2fwd" THEN f.dst ELSE f.ipdst

(* What an answer from the operator's dictionary is.                       *)
LEMMA AnswerTyped ==
  ASSUME NEW p, DOMAIN asked \subseteq Keys, AskedTyped(p, asked), NEW d, CallOk(p, d),
         NEW n, NEW action, NEW params, Answer(Dict(asked), n, action, params, d)
  PROVE  \E a, vals : CallTyped(p, a, vals) /\ action = a /\ params = Numbers(vals)
<1>1. \A c : CallOk(p, c) =>
        \E a, vals : CallTyped(p, a, vals) /\ c.action = a /\ c.params = Numbers(vals)
  BY DEF CallOk, Call
<1>2. \E c : CallOk(p, c) /\ action = c.action /\ params = c.params
  <2>1. CASE Miss(Dict(asked), n) /\ action = d.action /\ params = d.params
    BY <2>1
  <2>2. ASSUME NEW e, Best(Dict(asked), n, e), action = e.action, params = e.params
        PROVE  \E c : CallOk(p, c) /\ action = c.action /\ params = c.params
    <3>1. PICK k \in DOMAIN asked : e = DE(k, asked[k])
      BY <2>2 DEF Best, Dict
    <3>2. k \in Keys
      BY <3>1
    <3>3. PICK c : c = asked[k]
      OBVIOUS
    <3>4. DE(k, c).action = c.action /\ DE(k, c).params = c.params
      BY <3>2, DEKey
    <3>5. CallOk(p, c)
      BY <3>1, <3>3 DEF AskedTyped
    <3> QED  BY <2>2, <3>1, <3>3, <3>4, <3>5, Zenon
  <2> QED  BY <2>1, <2>2 DEF Answer
<1> QED  BY <1>1, <1>2, Zenon

LEMMA DefaultOk ==
  ASSUME NEW s, NEW t, NEW d, DefaultHeld(s, t, d)
  PROVE  /\ CallOk(s.program, d)
         /\ s.backend = "native" => Says(s.program, t.default_action, d)
<1>1. PICK a, vals : CallTyped(s.program, a, vals) /\ d = Call(a, vals) /\ DefaultAs(s, t, a, vals)
  BY DEF DefaultHeld
<1>2. d.action = a /\ d.params = Numbers(vals)
  BY <1>1 DEF Call
<1>3. PICK p : p = s.program
  OBVIOUS
<1>4. CallKept(p, a, vals)
  BY <1>1, <1>3, NativeCall
<1>5. ASSUME s.backend = "native" PROVE Says(p, t.default_action, d)
  <2>1. t.default_action = FromCall(p, a, vals)
    BY <1>1, <1>3, <1>5 DEF DefaultAs
  <2> QED  BY <1>2, <1>4, <2>1, Zenon DEF Says, ParamsOf, CallKept
<1> QED  BY <1>1, <1>3, <1>5, Zenon DEF CallOk

(* The frame f is treated as the call (a, vals) asks, and while keys mean  *)
(* the same to every backend that is the call the operator's requests mean *)
(* for it.                                                                 *)
Treated(f, out, a, vals) ==
  /\ CallTyped(sel.program, a, vals)
  /\ Agrees(sel.backend, f, Want(sel.program, f, a, Numbers(vals)), out)
  /\ ~Diverged => /\ Meaning(KeyField(sel.program, f)).action = a
                  /\ Meaning(KeyField(sel.program, f)).params = Numbers(vals)

LEMMA NativeTreats ==
  ASSUME FaithInv, SameInv, phase # "down", sel.backend = "native",
         NEW f \in InnerFrames
  PROVE  \E a, vals : Treated(f, NativeProcess(sel.program, table, f), a, vals)
<1>1. sel \in Sels /\ Shape(sel, table) /\ DOMAIN asked \subseteq Keys
  BY DEF FaithInv, NodeGood
<1>2. PICK p \in Programs : p = sel.program
  BY <1>1, SelCases
<1>3. PICK t, d : t = table /\ d = askedDefault
  OBVIOUS
<1>4. CallOk(p, d) /\ Says(p, t.default_action, d) /\ AskedTyped(p, asked)
  BY <1>2, <1>3, DefaultOk DEF SameInv
<1>5. PICK n : n = KeyField(p, f)
  OBVIOUS
<1>6. n \in Num
  BY <1>5, FrameFacts DEF KeyField
<1>7. PICK c : c = IF p = "l2fwd" THEN ExactApply(t, f.dst) ELSE LpmApply(t, f.ipdst)
  OBVIOUS
<1>8. Content(sel, t) = Dict(asked)
  BY <1>3 DEF FaithInv, AskedHeld, Diverged
<1>9. Answer(Dict(asked), n, c.name, ParamsOf(p, c), d)
  <2>1. CASE p = "l2fwd"
    <3>1. Content(sel, t) = L2Content(t)
      BY <1>2, <2>1, ShapeIs
    <3>2. c = ExactApply(t, n)
      BY <1>5, <1>7, <2>1 DEF KeyField
    <3>3. Says("l2fwd", t.default_action, d)
      BY <1>4, <2>1
    <3>4. Answer(L2Content(t), n, c.name, ParamsOf("l2fwd", c), d)
      BY <1>6, <3>2, <3>3, L2Lookup
    <3> QED  BY <1>8, <2>1, <3>1, <3>4, Zenon
  <2>2. CASE p = "l3fwd"
    <3>1. Content(sel, t) = L3Content(t) /\ L3Shape(t)
      BY <1>1, <1>2, <1>3, <2>2, ShapeIs
    <3>2. c = LpmApply(t, n)
      BY <1>5, <1>7, <2>2 DEF KeyField
    <3>3. Says("l3fwd", t.default_action, d)
      BY <1>4, <2>2
    <3>4. Answer(L3Content(t), n, c.name, ParamsOf("l3fwd", c), d)
      BY <3>1, <3>2, <3>3, L3Lookup
    <3> QED  BY <1>8, <2>2, <3>1, <3>4, Zenon
  <2> QED  BY <2>1, <2>2 DEF Programs
<1>10. PICK a, vals : CallTyped(p, a, vals) /\ c.name = a /\ ParamsOf(p, c) = Numbers(vals)
  BY <1>1, <1>4, <1>9, AnswerTyped
<1>11. a \in ActionNames(p)
  BY <1>10 DEF CallTyped, ActionNames
<1>12. Agrees("native", f, Want(p, f, c.name, ParamsOf(p, c)), NativeProcess(p, t, f))
  BY <1>7, <1>10, <1>11, NativeAgrees
<1>13. Meaning(n).action = a /\ Meaning(n).params = Numbers(vals)
  BY <1>1, <1>3, <1>9, <1>10, AnswerMeans
<1>14. Agrees(sel.backend, f, Want(p, f, a, Numbers(vals)), NativeProcess(p, t, f))
  BY <1>10, <1>12, Zenon
<1> QED  BY <1>2, <1>3, <1>5, <1>10, <1>13, <1>14, Zenon DEF Treated

LEMMA UbpfTreats ==
  ASSUME FaithInv, SameInv, phase # "down", sel.backend = "ubpf", NEW f \in InnerFrames
  PROVE  \E a, vals : Treated(f, UbpfOut(sel.program, table, f), a, vals)
<1>1. sel \in Sels /\ Shape(sel, table) /\ DOMAIN asked \subseteq Keys
  BY DEF FaithInv, NodeGood
<1>2. PICK p \in Programs : p = sel.program
  BY <1>1, SelCases
<1>3. PICK t, d : t = table /\ d = askedDefault
  OBVIOUS
<1>4. PICK da, dv : CallTyped(p, da, dv) /\ d = Call(da, dv) /\ t.defaults = UDefaults(p, da, dv)
  BY <1>2, <1>3 DEF SameInv, DefaultHeld, DefaultAs
<1>5. d.action = da /\ d.params = Numbers(dv)
  BY <1>4 DEF Call
<1>6. PICK n : n = KeyField(p, f)
  OBVIOUS
<1>7. n \in Num
  BY <1>6, FrameFacts DEF KeyField
<1>8. Content(sel, t) = Dict(asked)
  BY <1>3 DEF FaithInv, AskedHeld, Diverged
<1>9. UShape(p, t) /\ Content(sel, t) = UbpfContent(p, t)
  BY <1>1, <1>2, <1>3, ShapeIs
<1>10. PICK a, vals : /\ Valued(p, MatchOrDefault(t, UKey(p, n)), a, vals)
                      /\ Answer(UbpfContent(p, t), n, a, Numbers(vals), d)
  BY <1>4, <1>5, <1>7, <1>9, UbpfAnswer
<1>11. Answer(Dict(asked), n, a, Numbers(vals), d)
  BY <1>8, <1>9, <1>10, Zenon
<1>12. Meaning(n).action = a /\ Meaning(n).params = Numbers(vals)
  BY <1>1, <1>3, <1>11, AnswerMeans
<1>13. CallTyped(p, a, vals)
  BY <1>10, Zenon DEF Valued
<1>14. Agrees("ubpf", f, Want(p, f, a, Numbers(vals)), UbpfOut(p, t, f))
  <2>1. CASE p = "l2fwd"
    <3>1. n = f.dst
      BY <1>6, <2>1 DEF KeyField
    <3>2. Valued("l2fwd", MatchOrDefault(t, UKey("l2fwd", f.dst)), a, vals)
      BY <1>10, <2>1, <3>1, Zenon
    <3>3. Agrees("ubpf", f, Want("l2fwd", f, a, Numbers(vals)), UbpfOut("l2fwd", t, f))
      BY <3>2, UbpfL2Agrees
    <3> QED  BY <2>1, <3>3, Zenon
  <2>2. CASE p = "l3fwd"
    <3>1. n = f.ipdst
      BY <1>6, <2>2 DEF KeyField
    <3>2. Valued("l3fwd", MatchOrDefault(t, UKey("l3fwd", f.ipdst)), a, vals)
      BY <1>10, <2>2, <3>1, Zenon
    <3>3. Agrees("ubpf", f, Want("l3fwd", f, a, Numbers(vals)), UbpfOut("l3fwd", t, f))
      BY <3>2, UbpfL3Agrees
    <3> QED  BY <2>2, <3>3, Zenon
  <2> QED  BY <2>1, <2>2 DEF Programs
<1> QED  BY <1>2, <1>3, <1>6, <1>12, <1>13, <1>14, Zenon DEF Treated

(* What match_selector hands the pipeline.                                 *)
LEMMA MatchesAre ==
  ASSUME NEW p \in Programs, NEW pipe, NEW f \in InnerFrames, NEW ms \in Matches(p, pipe, f)
  PROVE  \/ ms = <<>> /\ MatchSelector(pipe, KeyField(p, f)) = {}
         \/ \E m \in MatchSelector(pipe, KeyField(p, f)) : ms = <<m>> /\ m \in pipe
<1>1. PICK n : n = KeyField(p, f)
  OBVIOUS
<1>2. n \in Num
  BY <1>1, FrameFacts DEF KeyField
<1>3. BitvecToBiguint(Reverse(BeBytes(n))) = n
  <2>1. Reverse(BeBytes(n)) = LeBytes(n) /\ FromLe(LeBytes(n)) = n
    BY <1>2, RoundTrip
  <2> QED  BY <2>1, Zenon DEF BitvecToBiguint
<1>4. PICK hits : hits = MatchSelector(pipe, n)
  OBVIOUS
<1>5. Matches(p, pipe, f) = IF hits = {} THEN {<<>>} ELSE {<<x>> : x \in hits}
  <2>1. Matches(p, pipe, f) =
          LET h == MatchSelector(pipe, BitvecToBiguint(Reverse(BeBytes(n))))
          IN IF h = {} THEN {<<>>} ELSE {<<x>> : x \in h}
    BY <1>1, Zenon DEF Matches, KeyField
  <2> QED  BY <1>3, <1>4, <2>1, Zenon
<1>6. hits \subseteq pipe
  BY <1>4 DEF MatchSelector
<1> QED  BY <1>1, <1>4, <1>5, <1>6

LEMMA XTreats ==
  ASSUME FaithInv, SameInv, phase # "down", sel.backend = "x4c", NEW f \in InnerFrames,
         NEW ms \in Matches(sel.program, table.pipe, f)
  PROVE  \E a, vals : Treated(f, XRunOut(sel.program, radix, ms, scratch, f), a, vals)
<1>1. sel \in Sels /\ Shape(sel, table) /\ DOMAIN asked \subseteq Keys
  BY DEF FaithInv, NodeGood
<1>2. PICK p \in Programs : p = sel.program
  BY <1>1, SelCases
<1>3. PICK t, d : t = table /\ d = askedDefault
  OBVIOUS
<1>4. PICK n : n = KeyField(p, f)
  OBVIOUS
<1>5. n \in Num
  BY <1>4, FrameFacts DEF KeyField
<1>6. XShape(p, t) /\ Content(sel, t) = X4cContent(t)
  BY <1>1, <1>2, <1>3, ShapeIs
<1>7. ~Diverged => X4cContent(t) = Dict(asked)
  BY <1>3, <1>6 DEF FaithInv, AskedHeld
<1>8. PICK da, dv : CallTyped(p, da, dv) /\ d = Call(da, dv) /\ da = DefaultActionOf(p)
  BY <1>2, <1>3 DEF SameInv, DefaultHeld, DefaultAs
<1>9. d.action = da /\ d.params = Numbers(dv)
  BY <1>8 DEF Call
<1>10. ASSUME ~Diverged
       PROVE  /\ \A m \in MatchSelector(t.pipe, n) : Best(X4cContent(t), n, XE(m))
              /\ MatchSelector(t.pipe, n) = {} => Miss(X4cContent(t), n)
  <2>1. \A e \in Dict(asked) : Mask(e.key.n, e.key.len) = e.key.n
    <3> SUFFICES ASSUME NEW e \in Dict(asked) PROVE Mask(e.key.n, e.key.len) = e.key.n
      OBVIOUS
    <3>1. PICK k \in DOMAIN asked : e = DE(k, asked[k])
      BY DEF Dict
    <3>2. e.key = k
      <4>1. k \in Keys
        BY <1>1, <3>1
      <4>2. PICK c : c = asked[k]
        OBVIOUS
      <4>3. DE(k, c).key = k
        BY <4>1, DEKey
      <4> QED  BY <3>1, <4>2, <4>3, Zenon
    <3>3. Mask(k.n, k.len) = k.n
      BY <3>1 DEF SameInv, AskedTyped
    <3> QED  BY <3>2, <3>3, Zenon
  <2>2. \A e \in X4cContent(t) : Mask(e.key.n, e.key.len) = e.key.n
    BY <1>7, <1>10, <2>1, Zenon
  <2> QED  BY <1>5, <1>6, <2>2, XLookup
<1>11. \E a, vals : /\ XFound(p, ms, a, vals)
                    /\ ~Diverged => Answer(X4cContent(t), n, a, Numbers(vals), d)
  <2>1. CASE ms = <<>> /\ MatchSelector(t.pipe, n) = {}
    <3>1. XFound(p, ms, da, dv)
      BY <1>8, <2>1, Zenon DEF XFound
    <3>2. ~Diverged => Answer(X4cContent(t), n, da, Numbers(dv), d)
      BY <1>9, <1>10, <2>1, Zenon DEF Answer
    <3> QED  BY <3>1, <3>2, Zenon
  <2>2. ASSUME NEW m \in MatchSelector(t.pipe, n), ms = <<m>>, m \in t.pipe
        PROVE  \E a, vals : /\ XFound(p, ms, a, vals)
                            /\ ~Diverged => Answer(X4cContent(t), n, a, Numbers(vals), d)
    <3>1. PICK e \in LiveSet(t) : m = PEntry(e)
      BY <1>6, <2>2 DEF XShape
    <3>2. LiveTyped(p, e)
      BY <1>6, <3>1 DEF XShape, LiveGood, LiveSet
    <3>3. PICK a, vals : a = e.action /\ vals = e.params
      OBVIOUS
    <3>4. CallTyped(p, a, vals)
      BY <3>2, <3>3, Zenon DEF LiveTyped
    <3>5. m.action_id = a /\ m.parameter_data = EncodeParams(vals)
      BY <3>1, <3>3 DEF PEntry
    <3>6. XFound(p, ms, a, vals)
      BY <2>2, <3>4, <3>5, Zenon DEF XFound
    <3>7. XE(m).action = a /\ XE(m).params = Numbers(vals)
      <4>1. XE(m) = LE(e)
        BY <3>1, <3>2, XEIs
      <4>2. LE(e).action = e.action /\ LE(e).params = Numbers(e.params)
        <5>1. PICK x, l, b, c : x = e.key.value.n /\ l = e.key.len /\ b = e.action
                                /\ c = Numbers(e.params)
          OBVIOUS
        <5>2. LE(e) = Entry(x, l, b, c)
          BY <5>1, Zenon DEF LE
        <5>3. Entry(x, l, b, c).action = b /\ Entry(x, l, b, c).params = c
          BY EntryIs
        <5> QED  BY <5>1, <5>2, <5>3, Zenon
      <4> QED  BY <3>3, <4>1, <4>2, Zenon
    <3>8. ~Diverged => Answer(X4cContent(t), n, a, Numbers(vals), d)
      BY <1>10, <2>2, <3>7, Zenon DEF Answer
    <3> QED  BY <3>6, <3>8, Zenon
  <2>3. \/ ms = <<>> /\ MatchSelector(t.pipe, n) = {}
        \/ \E m \in MatchSelector(t.pipe, n) : ms = <<m>> /\ m \in t.pipe
    <3>1. PICK pipe : pipe = t.pipe
      OBVIOUS
    <3>2. ms \in Matches(p, pipe, f)
      BY <1>2, <1>3, <3>1
    <3> QED  BY <1>4, <3>1, <3>2, MatchesAre
  <2> QED  BY <2>1, <2>2, <2>3
<1>12. PICK a, vals : /\ XFound(p, ms, a, vals)
                      /\ ~Diverged => Answer(X4cContent(t), n, a, Numbers(vals), d)
  BY <1>11
<1>13. ~Diverged => Meaning(n).action = a /\ Meaning(n).params = Numbers(vals)
  <2> SUFFICES ASSUME ~Diverged PROVE Meaning(n).action = a /\ Meaning(n).params = Numbers(vals)
    OBVIOUS
  <2>1. Answer(Dict(asked), n, a, Numbers(vals), d)
    BY <1>7, <1>12, Zenon
  <2> QED  BY <1>1, <1>3, <2>1, AnswerMeans
<1>14. CallTyped(p, a, vals)
  BY <1>12, Zenon DEF XFound
<1>15. radix \in Nat /\ radix >= 3
  BY NumIs DEF SameInv
<1>16. PICK r, scr : r = radix /\ scr = scratch
  OBVIOUS
<1>17. Agrees("x4c", f, Want(p, f, a, Numbers(vals)), XRunOut(p, r, ms, scr, f))
  <2>1. CASE p = "l2fwd"
    <3>1. XFound("l2fwd", ms, a, vals) /\ r \in Nat /\ r >= 3
      BY <1>12, <1>15, <1>16, <2>1
    <3>2. Agrees("x4c", f, Want("l2fwd", f, a, Numbers(vals)), XRunOut("l2fwd", r, ms, scr, f))
      BY <3>1, XL2Agrees
    <3> QED  BY <2>1, <3>2, Zenon
  <2>2. CASE p = "l3fwd"
    <3>1. XFound("l3fwd", ms, a, vals)
      BY <1>12, <2>2
    <3>2. Agrees("x4c", f, Want("l3fwd", f, a, Numbers(vals)), XRunOut("l3fwd", r, ms, scr, f))
      BY <3>1, XL3Agrees
    <3> QED  BY <2>2, <3>2, Zenon
  <2> QED  BY <2>1, <2>2 DEF Programs
<1> QED  BY <1>2, <1>4, <1>13, <1>14, <1>16, <1>17, Zenon DEF Treated

LEMMA FrameTreated ==
  ASSUME FaithInv, SameInv, NEW f \in Arrivals(sel.program), Receive(f)
  PROVE  /\ UNCHANGED <<sel, asked, askedDefault, aliased>>
         /\ f \in InnerFrames
         /\ last' = [kind |-> "frame", in |-> f, out |-> last'.out]
         /\ \E a, vals : Treated(f, last'.out, a, vals)
<1>1. phase = "up" /\ UNCHANGED <<sel, asked, askedDefault, aliased>>
  BY DEF Receive, nodeVars, askedVars
<1>2. sel \in Sels /\ sel.program \in Programs
  BY <1>1, SelCases DEF FaithInv, NodeGood
<1>3. f \in InnerFrames
  BY <1>2, FrameAssumption
<1>4. PICK ms \in (IF sel.backend = "x4c" THEN Matches(sel.program, table.pipe, f) ELSE {<<>>}) :
        last' = [kind |-> "frame", in |-> f,
                 out |-> EngineOut(sel.backend, sel.program, radix, table, ms, scratch, f)]
  BY Zenon DEF Receive, EngineOut
<1>5. PICK out : out = EngineOut(sel.backend, sel.program, radix, table, ms, scratch, f)
  OBVIOUS
<1>6. last' = [kind |-> "frame", in |-> f, out |-> out] /\ last'.out = out
  BY <1>4, <1>5
<1>7. \E a, vals : Treated(f, out, a, vals)
  <2>1. phase # "down"
    BY <1>1
  <2>2. CASE sel.backend = "native"
    <3>1. out = NativeProcess(sel.program, table, f)
      BY <1>5, <2>2, EngineOutIs
    <3> QED  BY <1>3, <2>1, <2>2, <3>1, NativeTreats, Zenon
  <2>3. CASE sel.backend = "x4c"
    <3>1. out = XRunOut(sel.program, radix, ms, scratch, f)
      BY <1>5, <2>3, EngineOutIs
    <3>2. ms \in Matches(sel.program, table.pipe, f)
      BY <1>4, <2>3
    <3> QED  BY <1>3, <2>1, <2>3, <3>1, <3>2, XTreats, Zenon
  <2>4. CASE sel.backend = "ubpf"
    <3>1. out = UbpfOut(sel.program, table, f)
      BY <1>5, <2>4, EngineOutIs
    <3> QED  BY <1>3, <2>1, <2>4, <3>1, UbpfTreats, Zenon
  <2> QED  BY <1>2, <2>2, <2>3, <2>4, SelCases
<1> QED  BY <1>1, <1>3, <1>6, <1>7, Zenon

(* Expected, with the dictionary it reads as parameters, so that a step    *)
(* that leaves the dictionary alone is seen to leave it alone.             *)
MeantBy(m, d, n) ==
  LET hits == {k \in DOMAIN m : Mask(n, k.len) = k.n} IN
  IF hits = {} THEN d ELSE m[CHOOSE k \in hits : \A h \in hits : h.len <= k.len]

Wanted(s, m, d, f) ==
  LET c == MeantBy(m, d, KeyField(s.program, f))
  IN Want(s.program, f, c.action, c.params)

LEMMA WantedIs ==
  ASSUME NEW f
  PROVE  Expected(f) = Wanted(sel, asked, askedDefault, f)
<1>1. PICK n, a, ps : /\ n = KeyField(sel.program, f)
                      /\ a = Meaning(n).action /\ ps = Meaning(n).params
  OBVIOUS
<1>2. n = IF sel.program = "l2fwd" THEN f.dst ELSE f.ipdst
  BY <1>1 DEF KeyField
<1>3. Expected(f) = Want(sel.program, f, a, ps)
  BY <1>1, <1>2, ExpectedIs
<1>4. Meaning(n) = MeantBy(asked, askedDefault, n)
  BY DEF Meaning, MeantBy
<1> QED  BY <1>1, <1>3, <1>4 DEF Wanted

LEMMA LastExpected == Expected(last.in) = Wanted(sel, asked, askedDefault, last.in)
BY WantedIs

(* The frame's part of the invariant, for a selection and a dictionary     *)
(* that stay.                                                              *)
LEMMA ReceiveSame ==
  ASSUME FaithInv, SameInv, NEW f \in Arrivals(sel.program), Receive(f)
  PROVE  SameReading'
<1>1. /\ UNCHANGED <<sel, asked, askedDefault, aliased>>
      /\ last' = [kind |-> "frame", in |-> f, out |-> last'.out]
      /\ \E a, vals : Treated(f, last'.out, a, vals)
  BY FrameTreated
<1>2. PICK a, vals : Treated(f, last'.out, a, vals)
  BY <1>1
<1>3. PICK n, ps : n = KeyField(sel.program, f) /\ ps = Numbers(vals)
  OBVIOUS
<1>4. /\ Agrees(sel.backend, f, Want(sel.program, f, a, ps), last'.out)
      /\ ~Diverged => Meaning(n).action = a /\ Meaning(n).params = ps
  BY <1>2, <1>3, Zenon DEF Treated
<1>5. n = IF sel.program = "l2fwd" THEN f.dst ELSE f.ipdst
  BY <1>3 DEF KeyField
<1>6. ~Diverged => Expected(f) = Want(sel.program, f, a, ps)
  BY <1>4, <1>5, ExpectedIs
<1>7. last'.in = f
  BY <1>1
<1>8. Expected(last.in)' = Expected(f) /\ Diverged' = Diverged
  <2>1. (Expected(last.in) = Wanted(sel, asked, askedDefault, last.in))'
    BY LastExpected, PTL
  <2>2. Expected(last.in)' = Wanted(sel, asked, askedDefault, f)
    BY <1>1, <1>7, <2>1, Zenon
  <2>3. Diverged' = Diverged
    BY <1>1 DEF Diverged
  <2> QED  BY <2>2, <2>3, WantedIs
<1>9. ~Diverged' => Agrees(sel.backend, last.in, Expected(last.in), last.out)'
  <2> SUFFICES ASSUME ~Diverged'
               PROVE  Agrees(sel.backend, last.in, Expected(last.in), last.out)'
    OBVIOUS
  <2>1. Agrees(sel.backend, f, Expected(f), last'.out)
    BY <1>4, <1>6, <1>8, Zenon
  <2> QED  BY <1>1, <1>7, <1>8, <2>1, Zenon
<1> QED  BY <1>9, Zenon DEF SameReading

(* Only Receive leaves a frame as the last event.                          *)
LEMMA FrameOnly ==
  ASSUME [Next]_vars, last'.kind = "frame"
  PROVE  UNCHANGED vars \/ \E f \in Arrivals(sel.program) : Receive(f)
<1>1. ASSUME NEW raw, NEW b, NEW file, Start(raw, b, file) PROVE last'.kind # "frame"
  BY <1>1 DEF Start, Exit
<1>2. ASSUME Stop PROVE last'.kind # "frame"
  BY <1>2 DEF Stop, Exit
<1>3. ASSUME Request PROVE last'.kind # "frame"
  <2>1. ASSUME NEW entries, BeginAdd(entries) PROVE last'.kind # "frame"
    BY <2>1 DEF BeginAdd
  <2>2. ASSUME NEW name, NEW text, TableDel(name, text) PROVE last'.kind # "frame"
    BY <2>2 DEF TableDel, Reply
  <2>3. ASSUME NEW name, NEW call, SetDefault(name, call) PROVE last'.kind # "frame"
    BY <2>3 DEF SetDefault, Reply
  <2>4. ASSUME NEW name, Clear(name) PROVE last'.kind # "frame"
    BY <2>4 DEF Clear, Reply
  <2>5. ASSUME NEW name, Dump(name) PROVE last'.kind # "frame"
    BY <2>5 DEF Dump, Reply
  <2> QED  BY <1>3, <2>1, <2>2, <2>3, <2>4, <2>5 DEF Request
<1>4. ASSUME ApplyEntry PROVE last'.kind # "frame"
  <2>1. last' = [kind |-> "none"]
    BY <1>4, Zenon DEF ApplyEntry
  <2> QED  BY <2>1
<1>5. ASSUME RefuseEntry PROVE last'.kind # "frame"
  BY <1>5 DEF RefuseEntry, Exit, BatchReply
<1>6. ASSUME FinishBatch PROVE last'.kind # "frame"
  BY <1>6 DEF FinishBatch, BatchReply
<1> QED  BY <1>1, <1>2, <1>3, <1>4, <1>5, <1>6 DEF Next

LEMMA SameStep ==
  ASSUME FaithInv, SameInv, SameReading, [Next]_vars
  PROVE  SameReading'
<1>1. (last.kind # "frame" => SameReading)'
  BY Zenon DEF SameReading
<1>2. CASE last'.kind # "frame"
  BY <1>1, <1>2
<1>3. CASE \E f \in Arrivals(sel.program) : Receive(f)
  BY <1>3, ReceiveSame
<1>4. CASE UNCHANGED vars
  <2>1. UNCHANGED <<sel, asked, askedDefault, aliased, last>>
    BY <1>4 DEF vars
  <2>2. (Expected(last.in) = Wanted(sel, asked, askedDefault, last.in))'
    BY LastExpected, PTL
  <2>3. Expected(last.in)' = Expected(last.in)
    BY <2>1, <2>2, LastExpected, Zenon
  <2>4. Diverged' = Diverged
    BY <2>1 DEF Diverged
  <2> QED  BY <2>1, <2>3, <2>4, Zenon DEF SameReading
<1> QED  BY <1>2, <1>3, <1>4, FrameOnly

(* A frame that is dropped or punted is expected to be left as it came.    *)
LEMMA ExpectedFrame ==
  ASSUME NEW f
  PROVE  \/ Expected(f) = Out(Drop, f)
         \/ Expected(f) = Out(Punt, f)
         \/ Expected(f) = Out(Broadcast, f)
         \/ \E q, g : Expected(f) = Out(Forward(q), g)
<1>1. PICK n : n = IF sel.program = "l2fwd" THEN f.dst ELSE f.ipdst
  OBVIOUS
<1>2. PICK a, ps : a = Meaning(n).action /\ ps = Meaning(n).params
  OBVIOUS
<1>3. Expected(f) = Want(sel.program, f, a, ps)
  BY <1>1, <1>2, ExpectedIs
<1>4. \/ Want(sel.program, f, a, ps) = Out(Drop, f)
      \/ Want(sel.program, f, a, ps) = Out(Punt, f)
      \/ Want(sel.program, f, a, ps) = Out(Broadcast, f)
      \/ Want(sel.program, f, a, ps) = Out(Forward(ps[1]), f)
      \/ Want(sel.program, f, a, ps) = Out(Forward(ps[1]), ZeroInnerChecksums(Sent(f, ps[2])))
  BY SMT DEF Want
<1> QED  BY <1>3, <1>4, Zenon

(* Where no reserved port and no length limit is involved, reading the     *)
(* verdict changes nothing and the frame is the expected one throughout.   *)
LEMMA AgreesPlainly ==
  ASSUME NEW b, NEW f, NEW w, NEW out, Agrees(b, f, w, out),
         ~(b = "ubpf" /\ f.len > MTU), ~Reserved(w.verdict),
         \/ w = Out(Drop, f) \/ w = Out(Punt, f) \/ w = Out(Broadcast, f)
         \/ \E q, g : w = Out(Forward(q), g)
  PROVE  out.verdict = w.verdict /\ out.frame = w.frame
<1>1. /\ w.verdict # Forward(X4C_PUNT_PORT) /\ w.verdict # Forward(X4C_BROADCAST_PORT)
  BY DEF Reserved
<1>2. ReadAs(b, w.verdict) = w.verdict
  BY <1>1, Zenon DEF ReadAs
<1>3. /\ out.verdict = w.verdict
      /\ w.verdict.kind \in {"forward", "broadcast"} => out.frame = w.frame
      /\ w.verdict.kind \in {"punt", "drop"} => out.frame = f
  BY <1>1, <1>2, Zenon DEF Agrees
<1>4. \/ w.verdict.kind \in {"forward", "broadcast"}
      \/ w.verdict.kind \in {"punt", "drop"} /\ w.frame = f
  BY VerdictIs
<1> QED  BY <1>3, <1>4

(* up4_catalog::build promises that the native, x4c and ubpf renderings of *)
(* a program "end up computing the same function": whatever requests came  *)
(* before and between whichever entries of a batch a frame arrives, its    *)
(* verdict and its bytes are the ones the operator's dictionary gives it,  *)
(* for every frame that is Promised.                                       *)
THEOREM SameFunctionHolds == Spec => []SameFunction
<1>1. Init => SameReading
  BY DEF Init, SameReading
<1>2. FaithInv /\ SameInv /\ SameReading /\ [Next]_vars => SameReading'
  BY SameStep
<1>3. SameReading => SameFunction
  <2> SUFFICES ASSUME SameReading, Promised
               PROVE  /\ last.out.verdict = Expected(last.in).verdict
                      /\ last.out.frame = Expected(last.in).frame
    BY DEF SameFunction
  <2>1. /\ Agrees(sel.backend, last.in, Expected(last.in), last.out)
        /\ ~(sel.backend = "ubpf" /\ last.in.len > MTU)
        /\ ~Reserved(Expected(last.in).verdict)
    BY Zenon DEF SameReading, Promised
  <2> QED  BY <2>1, AgreesPlainly, ExpectedFrame
<1> QED  BY <1>1, <1>2, <1>3, FaithInit, FaithStep, SameInit, SameInvStep, PTL DEF Spec

---------------------------------------------------------------------------
(* The type invariant: what an event carries.                              *)
EventTyped(l) ==
  /\ l.kind = "frame" => l.out.verdict \in Verdicts
  /\ l.kind = "reply" /\ ~l.res.ok => l.res.err \in TableErrors

(* The verdict an engine settles on is one of the harness's.               *)
LEMMA TreatedVerdict ==
  ASSUME sel \in Sels, NEW f, NEW out, NEW a, NEW vals, Treated(f, out, a, vals)
  PROVE  out.verdict \in Verdicts
<1>0. PICK b : b = sel.backend
  OBVIOUS
<1>1. PICK p \in Programs : p = sel.program
  BY SelCases
<1>2. PICK ps : ps = Numbers(vals)
  OBVIOUS
<1>3. PICK w : w = Want(p, f, a, ps)
  OBVIOUS
<1>4. CallTyped(p, a, vals) /\ Agrees(b, f, w, out)
  BY <1>0, <1>1, <1>2, <1>3, Zenon DEF Treated
<1>5. a \in ActionNames(p)
  BY <1>4 DEF CallTyped, ActionNames
<1>6. a = "forward" => ps[1] \in Num
  <2> SUFFICES ASSUME a = "forward" PROVE ps[1] \in Num
    OBVIOUS
  <2>1. PICK n \in Num : vals[1] = Value("u16", n) /\ 1 \in DOMAIN vals
    BY <1>4 DEF CallTyped
  <2> QED  BY <1>2, <2>1 DEF Numbers, Value
<1>7. Drop \in Verdicts /\ Punt \in Verdicts /\ Broadcast \in Verdicts
  BY DEF Verdicts
<1>8. \A n \in Num : Forward(n) \in Verdicts
  BY DEF Verdicts, Forward
<1>9. \/ \E v \in {Drop, Punt, Broadcast} : w = Out(v, f)
      \/ a = "forward" /\ \E g : w = Out(Forward(ps[1]), g)
  BY <1>3, <1>5, WantKinds DEF Programs
<1>10. w.verdict \in Verdicts
  <2>1. \A v, g : Out(v, g).verdict = v
    BY DEF Out
  <2>2. CASE \E v \in {Drop, Punt, Broadcast} : w = Out(v, f)
    BY <1>7, <2>1, <2>2
  <2>3. CASE a = "forward" /\ \E g : w = Out(Forward(ps[1]), g)
    <3>1. PICK q \in Num : q = ps[1]
      BY <1>6, <2>3
    <3> QED  BY <1>8, <2>1, <2>3, <3>1
  <2> QED  BY <1>9, <2>2, <2>3
<1>11. ReadAs(b, w.verdict) \in {w.verdict, Punt, Broadcast}
  BY DEF ReadAs
<1>12. out.verdict = Drop \/ out.verdict = ReadAs(b, w.verdict)
  BY <1>4, Zenon DEF Agrees
<1> QED  BY <1>7, <1>10, <1>11, <1>12, Zenon

LEMMA EventStep ==
  ASSUME FaithInv, SameInv, EventTyped(last), [Next]_vars
  PROVE  EventTyped(last')
<1>1. CASE last'.kind = "frame"
  <2>1. CASE UNCHANGED vars
    BY <2>1 DEF vars
  <2>2. ASSUME NEW f \in Arrivals(sel.program), Receive(f) PROVE EventTyped(last')
    <3>1. PICK a, vals : Treated(f, last'.out, a, vals)
      BY <2>2, FrameTreated, Zenon
    <3>2. sel \in Sels
      BY <2>2 DEF Receive, FaithInv, NodeGood
    <3>3. last'.out.verdict \in Verdicts
      BY <3>1, <3>2, TreatedVerdict
    <3> QED  BY <1>1, <3>3 DEF EventTyped
  <2> QED  BY <1>1, <2>1, <2>2, FrameOnly
<1>2. CASE last'.kind # "frame"
  <2> DEFINE Fine == last'.kind = "reply" /\ ~last'.res.ok => last'.res.err \in TableErrors
  <2>1. ASSUME NEW raw, NEW b, NEW file, Start(raw, b, file) PROVE Fine
    BY <2>1 DEF Start, Exit
  <2>2. ASSUME Stop PROVE Fine
    BY <2>2 DEF Stop, Exit
  <2>3. ASSUME Request PROVE Fine
    <3>1. ASSUME NEW entries, BeginAdd(entries) PROVE Fine
      BY <3>1 DEF BeginAdd
    <3>2. ASSUME NEW name, NEW text \in KeyTexts(sel.program), TableDel(name, text) PROVE Fine
      BY <3>2, DelFaith
    <3>3. ASSUME NEW name, NEW call \in DefaultCalls(sel.program), SetDefault(name, call)
          PROVE  Fine
      BY <3>3, SetDefaultFaith
    <3>4. ASSUME NEW name, Clear(name) PROVE Fine
      BY <3>4, ClearFaith
    <3>5. ASSUME NEW name, Dump(name) PROVE Fine
      <4>1. PICK s, e : /\ s = FindSchema(sel.program, name)
                        /\ last'.res = IF s.ok THEN Ok(e) ELSE s
        BY <3>5 DEF Dump, Reply
      <4>2. ~s.ok => s.err = "unknown_table"
        BY <4>1, Found
      <4> QED  BY <4>1, <4>2, ResultIs DEF TableErrors
    <3> QED  BY <2>3, <3>1, <3>2, <3>3, <3>4, <3>5 DEF Request
  <2>4. ASSUME ApplyEntry PROVE Fine
    <3>1. last' = [kind |-> "none"]
      BY <2>4, Zenon DEF ApplyEntry
    <3> QED  BY <3>1
  <2>5. ASSUME RefuseEntry PROVE Fine
    <3> DEFINE b == batch[1]
               spec == b.given[b.done + 1]
    <3>1. CASE phase = "loading"
      BY <2>5, <3>1 DEF RefuseEntry, Exit
    <3>2. CASE phase # "loading"
      <4>1. Pending /\ last'.res = AddResult(spec).res
        BY <2>5, <3>2 DEF RefuseEntry, BatchReply
      <4>2. /\ sel \in Sels /\ sel.program \in Programs /\ Shape(sel, table)
            /\ spec.key.len \in Seq(Nat) /\ DistinctNames(spec.params)
        BY <4>1, PendingIs
      <4>3. PICK e : e = spec
        OBVIOUS
      <4>4. ~AddResult(e).res.ok => AddResult(e).res.err \in TableErrors
        BY <4>2, <4>3, AddResultIs
      <4> QED  BY <4>1, <4>3, <4>4
    <3> QED  BY <3>1, <3>2
  <2>6. ASSUME FinishBatch PROVE Fine
    <3>1. \E n : last'.res = Ok(n)
      BY <2>6 DEF FinishBatch, BatchReply
    <3> QED  BY <3>1, ResultIs
  <2>7. ASSUME NEW f, Receive(f) PROVE FALSE
    BY <1>2, <2>7 DEF Receive
  <2>8. ASSUME UNCHANGED vars PROVE Fine
    BY <2>8 DEF vars, EventTyped
  <2> HIDE DEF Fine
  <2>9. Fine
    BY <2>1, <2>2, <2>3, <2>4, <2>5, <2>6, <2>7, <2>8 DEF Next
  <2> QED  BY <1>2, <2>9 DEF Fine, EventTyped
<1> QED  BY <1>1, <1>2

LEMMA TypesFollow ==
  ASSUME FaithInv, SameInv, BatchInv, EventTyped(last)
  PROVE  TypeOK
<1>1. NoSel \notin Sels
  BY DEF NoSel, Sels, Programs
<1>2. 0 \in Num
  BY PowWidth DEF Num
<1>3. /\ phase \in {"down", "loading", "up"}
      /\ sel \in Sels \cup {NoSel}
      /\ (phase = "down") = (sel = NoSel)
      /\ phase = "loading" => batch # <<>>
      /\ aliased \in BOOLEAN
      /\ DOMAIN asked \subseteq Keys
  BY <1>1 DEF FaithInv, NodeGood
<1>4. radix \in Num /\ (phase # "down" => radix >= 3) /\ scratch \in BOOLEAN
  BY <1>2 DEF SameInv
<1>5. batch # <<>> => batch[1].done \in 0 .. Len(batch[1].given)
  BY DEF BatchInv
<1> QED  BY <1>3, <1>4, <1>5 DEF TypeOK, Sels, Keys, EventTyped

(* A node of any configuration, program and backend is up only with a      *)
(* selection, its x4c radix can encode every verdict, and an engine or a   *)
(* request ends in an outcome the harness (Verdict) and the control plane  *)
(* (TableError) know.                                                      *)
THEOREM TypeOKHolds == Spec => []TypeOK
<1>1. Init => BatchInv /\ EventTyped(last)
  BY DEF Init, BatchInv, EventTyped
<1>2. FaithInv /\ SameInv /\ EventTyped(last) /\ [Next]_vars => EventTyped(last)'
  BY EventStep
<1>3. FaithInv /\ SameInv /\ BatchInv /\ EventTyped(last) => TypeOK
  BY TypesFollow
<1> QED  BY <1>1, <1>2, <1>3, FaithInit, FaithStep, SameInit, SameInvStep, BatchInvStep, PTL DEF Spec

---------------------------------------------------------------------------
(* Sorting: a finite set with a strict total order R, a set of pairs, has  *)
(* a sequence that lists it in that order.                                 *)

(* Of the subsets of a finite set that have a property one is minimal.     *)
LEMMA LeastSubset ==
  ASSUME NEW S, IsFiniteSet(S), NEW T, T \subseteq SUBSET S, T # {}
  PROVE  \E x \in T : \A y \in T : y \subseteq x => y = x
<1>1. IsWellFoundedOn(StrictSubsetOrdering(S), FiniteSubsetsOf(S))
  BY FS_StrictSubsetOrderingWellFounded
<1>2. FiniteSubsetsOf(S) = SUBSET S
  BY FS_FiniteSubsetsOfFinite
<1>3. PICK x \in T : \A y \in T : ~ (<<y, x>> \in StrictSubsetOrdering(S))
  BY <1>1, <1>2, WFMin
<1> QED  BY <1>3 DEF StrictSubsetOrdering

TotalOn(S, R) ==
  /\ \A x, y \in S : x # y => <<x, y>> \in R \/ <<y, x>> \in R
  /\ \A x, y, z \in S : <<x, y>> \in R /\ <<y, z>> \in R => <<x, z>> \in R

Greatest(S, R, m) == m \in S /\ \A x \in S \ {m} : <<x, m>> \in R

LEMMA HasGreatest ==
  ASSUME NEW S, IsFiniteSet(S), S # {}, NEW R, TotalOn(S, R)
  PROVE  \E m : Greatest(S, R, m)
<1> SUFFICES ASSUME ~ \E m : Greatest(S, R, m) PROVE FALSE
  OBVIOUS
<1> DEFINE T == {s \in SUBSET S : s # {} /\ ~ \E m : Greatest(s, R, m)}
<1>1. PICK s \in T : \A y \in T : y \subseteq s => y = s
  <2>1. S \in T /\ T \subseteq SUBSET S
    OBVIOUS
  <2> HIDE DEF T
  <2> QED  BY <2>1, LeastSubset
<1>2. PICK x \in s : TRUE
  BY <1>1
<1>3. CASE s \ {x} = {}
  <2>1. Greatest(s, R, x)
    BY <1>2, <1>3 DEF Greatest
  <2> QED  BY <1>1, <2>1
<1>4. CASE s \ {x} # {}
  <2>1. s \ {x} \notin T
    BY <1>1, <1>2
  <2>2. PICK m : Greatest(s \ {x}, R, m)
    BY <1>1, <1>4, <2>1
  <2>3. m \in s /\ m # x /\ x \in S /\ m \in S
    BY <1>1, <1>2, <2>2 DEF Greatest
  <2>4. CASE <<x, m>> \in R
    <3>1. Greatest(s, R, m)
      BY <2>2, <2>3, <2>4 DEF Greatest
    <3> QED  BY <1>1, <3>1
  <2>5. CASE <<m, x>> \in R
    <3>1. ASSUME NEW y \in s \ {x} PROVE <<y, x>> \in R
      <4>1. y = m \/ <<y, m>> \in R
        BY <2>2 DEF Greatest
      <4>2. y \in S
        BY <1>1
      <4> QED  BY <2>3, <2>5, <4>1, <4>2 DEF TotalOn
    <3>2. Greatest(s, R, x)
      BY <1>2, <3>1 DEF Greatest
    <3> QED  BY <1>1, <3>2
  <2> QED  BY <2>3, <2>4, <2>5 DEF TotalOn
<1> QED  BY <1>3, <1>4

Lists(S, R, f) ==
  f \in SetToSeqs(S) /\ \A i, j \in DOMAIN f : i < j => <<f[i], f[j]>> \in R

LEMMA ListedOneMore ==
  ASSUME NEW S, IsFiniteSet(S), NEW R, NEW m, Greatest(S, R, m), NEW g, Lists(S \ {m}, R, g)
  PROVE  \E f : Lists(S, R, f)
<1>1. PICK n \in Nat : n = Cardinality(S \ {m}) /\ Cardinality(S) = n + 1
  <2>1. IsFiniteSet(S \ {m}) /\ Cardinality(S \ {m}) = Cardinality(S) - 1 /\ m \in S
    BY FS_RemoveElement DEF Greatest
  <2>2. Cardinality(S \ {m}) \in Nat /\ Cardinality(S) \in Nat
    BY <2>1, FS_CardinalityType
  <2> QED  BY <2>1, <2>2
<1>2. /\ g \in [1 .. n -> S \ {m}]
      /\ \A i, j \in 1 .. n : i # j => g[i] # g[j]
      /\ \A i, j \in 1 .. n : i < j => <<g[i], g[j]>> \in R
  BY <1>1 DEF Lists, SetToSeqs
<1>3. m \in S /\ \A x \in S \ {m} : <<x, m>> \in R
  BY DEF Greatest
<1> DEFINE f == [i \in 1 .. n + 1 |-> IF i <= n THEN g[i] ELSE m]
<1>4. f \in [1 .. n + 1 -> S] /\ DOMAIN f = 1 .. n + 1
  BY <1>2, <1>3
<1>5. ASSUME NEW i \in 1 .. n + 1, NEW j \in 1 .. n + 1, i < j
      PROVE  f[i] # f[j] /\ <<f[i], f[j]>> \in R
  <2>1. i \in 1 .. n /\ f[i] = g[i] /\ g[i] \in S \ {m}
    BY <1>2, <1>5
  <2>2. CASE j <= n
    <3>1. j \in 1 .. n /\ f[j] = g[j]
      BY <2>2
    <3> QED  BY <1>2, <1>5, <2>1, <3>1
  <2>3. CASE ~(j <= n)
    <3>1. f[j] = m
      BY <2>3
    <3> QED  BY <1>3, <2>1, <3>1
  <2> QED  BY <2>2, <2>3
<1> HIDE DEF f
<1>6. \A i, j \in 1 .. n + 1 : i # j => f[i] # f[j]
  <2> SUFFICES ASSUME NEW i \in 1 .. n + 1, NEW j \in 1 .. n + 1, i # j PROVE f[i] # f[j]
    OBVIOUS
  <2>1. i < j \/ j < i
    OBVIOUS
  <2> QED  BY <1>5, <2>1
<1>7. f \in SetToSeqs(S)
  BY <1>1, <1>4, <1>6 DEF SetToSeqs
<1>8. \A i, j \in DOMAIN f : i < j => <<f[i], f[j]>> \in R
  BY <1>4, <1>5
<1> QED  BY <1>7, <1>8 DEF Lists

LEMMA HasListing ==
  ASSUME NEW S, IsFiniteSet(S), NEW R, TotalOn(S, R)
  PROVE  \E f : Lists(S, R, f)
<1> SUFFICES ASSUME ~ \E f : Lists(S, R, f) PROVE FALSE
  OBVIOUS
<1> DEFINE T == {s \in SUBSET S : ~ \E f : Lists(s, R, f)}
<1>1. PICK s \in T : \A y \in T : y \subseteq s => y = s
  <2>1. S \in T /\ T \subseteq SUBSET S
    OBVIOUS
  <2> HIDE DEF T
  <2> QED  BY <2>1, LeastSubset
<1>2. IsFiniteSet(s) /\ s \subseteq S /\ TotalOn(s, R)
  <2>1. s \subseteq S
    BY <1>1
  <2> QED  BY <2>1, FS_Subset DEF TotalOn
<1>3. CASE s = {}
  <2>1. Cardinality({}) = 0
    BY FS_EmptySet
  <2>2. <<>> \in [1 .. 0 -> {}] /\ DOMAIN <<>> = {}
    OBVIOUS
  <2>3. <<>> \in SetToSeqs({})
    BY <2>1, <2>2 DEF SetToSeqs
  <2>4. Lists({}, R, <<>>)
    BY <2>2, <2>3 DEF Lists
  <2> QED  BY <1>1, <1>3, <2>4
<1>4. CASE s # {}
  <2>1. PICK m : Greatest(s, R, m)
    BY <1>2, <1>4, HasGreatest
  <2>2. s \ {m} \notin T
    BY <1>1, <2>1 DEF Greatest
  <2>3. PICK g : Lists(s \ {m}, R, g)
    BY <1>2, <2>2
  <2>4. \E f : Lists(s, R, f)
    BY <1>2, <2>1, <2>3, ListedOneMore
  <2> QED  BY <1>1, <2>4
<1> QED  BY <1>3, <1>4

(* What SetToSeqs gives: each element of a finite set, once.               *)
LEMMA ListedAll ==
  ASSUME NEW S, IsFiniteSet(S), NEW f \in SetToSeqs(S)
  PROVE  /\ DOMAIN f = 1 .. Cardinality(S) /\ Cardinality(S) \in Nat
         /\ Len(f) = Cardinality(S)
         /\ \A i \in DOMAIN f : f[i] \in S
         /\ \A x \in S : \E i \in DOMAIN f : f[i] = x
<1>1. PICK n \in Nat : n = Cardinality(S)
  BY FS_CardinalityType
<1>2. f \in [1 .. n -> S] /\ \A i, j \in 1 .. n : i # j => f[i] # f[j]
  BY <1>1 DEF SetToSeqs
<1>3. f \in Injection(1 .. n, S)
  BY <1>2, Fun_IsInj
<1>4. Cardinality(1 .. n) = n
  BY FS_Interval
<1>5. f \in Surjection(1 .. n, S)
  BY <1>1, <1>3, <1>4, FS_Injection
<1>6. \A x \in S : \E i \in 1 .. n : f[i] = x
  BY <1>5 DEF Surjection
<1>7. Len(f) = n
  BY <1>2
<1> QED  BY <1>1, <1>2, <1>6, <1>7

(* The orders of the four dumps, each total on what it sorts.              *)

LEMMA NumbersInOrder ==
  ASSUME NEW S, IsFiniteSet(S), S \subseteq Nat
  PROVE  InOrder(S, <) \in SetToSeqs(S)
<1> DEFINE R == {w \in S \X S : w[1] < w[2]}
<1>1. TotalOn(S, R)
  BY DEF TotalOn
<1>2. PICK f : Lists(S, R, f)
  BY <1>1, HasListing
<1>3. f \in SetToSeqs(S) /\ \A i, j \in DOMAIN f : i < j => f[i] < f[j]
  BY <1>2 DEF Lists
<1> QED  BY <1>3 DEF InOrder

LEMMA PrefixesInOrder ==
  ASSUME NEW S, IsFiniteSet(S), \A e \in S : e.len \in Nat /\ e.base \in Nat,
         \A e, g \in S : e.len = g.len /\ e.base = g.base => e = g
  PROVE  InOrder(S, PrefixBefore) \in SetToSeqs(S)
<1> DEFINE R == {w \in S \X S : PrefixBefore(w[1], w[2])}
<1>0. \A x, y \in S : <<x, y>> \in R <=> PrefixBefore(x, y)
  OBVIOUS
<1>1. TotalOn(S, R)
  <2>1. ASSUME NEW x \in S, NEW y \in S, x # y PROVE <<x, y>> \in R \/ <<y, x>> \in R
    BY <1>0, <2>1 DEF PrefixBefore
  <2>2. ASSUME NEW x \in S, NEW y \in S, NEW z \in S, <<x, y>> \in R, <<y, z>> \in R
        PROVE  <<x, z>> \in R
    <3>1. PrefixBefore(x, y) /\ PrefixBefore(y, z)
      BY <1>0, <2>2
    <3>2. PrefixBefore(x, z)
      BY <3>1 DEF PrefixBefore
    <3> QED  BY <1>0, <3>2
  <2> HIDE DEF R
  <2> QED  BY <2>1, <2>2 DEF TotalOn
<1> HIDE DEF R
<1>2. PICK f : Lists(S, R, f)
  BY <1>1, HasListing
<1>3. f \in SetToSeqs(S) /\ \A i, j \in DOMAIN f : i < j => <<f[i], f[j]>> \in R
  BY <1>2 DEF Lists
<1>4. \A w \in R : PrefixBefore(w[1], w[2])
  BY DEF R
<1>5. \A i, j \in DOMAIN f : i < j => PrefixBefore(f[i], f[j])
  BY <1>3, <1>4
<1> QED  BY <1>3, <1>5, Zenon DEF InOrder

LEMMA LiveInOrder ==
  ASSUME NEW S, IsFiniteSet(S), \A e \in S : e.key.len \in Nat /\ e.key.value.n \in Nat,
         \A e, g \in S : e.key.len = g.key.len /\ e.key.value.n = g.key.value.n => e = g
  PROVE  InOrder(S, LiveBefore) \in SetToSeqs(S)
<1> DEFINE R == {w \in S \X S : LiveBefore(w[1], w[2])}
<1>0. \A x, y \in S : <<x, y>> \in R <=> LiveBefore(x, y)
  OBVIOUS
<1>1. TotalOn(S, R)
  <2>1. ASSUME NEW x \in S, NEW y \in S, x # y PROVE <<x, y>> \in R \/ <<y, x>> \in R
    BY <1>0, <2>1 DEF LiveBefore
  <2>2. ASSUME NEW x \in S, NEW y \in S, NEW z \in S, <<x, y>> \in R, <<y, z>> \in R
        PROVE  <<x, z>> \in R
    <3>1. LiveBefore(x, y) /\ LiveBefore(y, z)
      BY <1>0, <2>2
    <3>2. LiveBefore(x, z)
      BY <3>1 DEF LiveBefore
    <3> QED  BY <1>0, <3>2
  <2> HIDE DEF R
  <2> QED  BY <2>1, <2>2 DEF TotalOn
<1> HIDE DEF R
<1>2. PICK f : Lists(S, R, f)
  BY <1>1, HasListing
<1>3. f \in SetToSeqs(S) /\ \A i, j \in DOMAIN f : i < j => <<f[i], f[j]>> \in R
  BY <1>2 DEF Lists
<1>4. \A w \in R : LiveBefore(w[1], w[2])
  BY DEF R
<1>5. \A i, j \in DOMAIN f : i < j => LiveBefore(f[i], f[j])
  BY <1>3, <1>4
<1> QED  BY <1>3, <1>5, Zenon DEF InOrder

(* Images of one program: two octets, and a third that is zero if there.   *)
OctetImage(k) ==
  \/ \E a, b \in Nat : k = <<a, b, 0>>
  \/ \E a, b \in Nat : k = <<a, b>>

LEMMA ImageOrder ==
  ASSUME NEW e, NEW g, OctetImage(e.key), OctetImage(g.key), DOMAIN e.key = DOMAIN g.key,
         e.len \in Nat, g.len \in Nat
  PROVE  /\ ImageBefore(e, g) <=>
              \/ e.len > g.len
              \/ /\ e.len = g.len
                 /\ e.key[1] < g.key[1] \/ (e.key[1] = g.key[1] /\ e.key[2] < g.key[2])
         /\ e.key[1] = g.key[1] /\ e.key[2] = g.key[2] => e.key = g.key
         /\ e.key[1] \in Nat /\ e.key[2] \in Nat /\ g.key[1] \in Nat /\ g.key[2] \in Nat
<1>1. PICK k, h : k = e.key /\ h = g.key
  OBVIOUS
<1> DEFINE Less == \E i \in DOMAIN k : k[i] < h[i] /\ \A j \in 1 .. i - 1 : k[j] = h[j]
<1>2. PICK a \in Nat, b \in Nat : k = <<a, b, 0>> \/ k = <<a, b>>
  BY <1>1 DEF OctetImage
<1>3. PICK c \in Nat, d \in Nat : h = <<c, d, 0>> \/ h = <<c, d>>
  BY <1>1 DEF OctetImage
<1>4. /\ k[1] = a /\ k[2] = b /\ h[1] = c /\ h[2] = d
      /\ \/ DOMAIN k = {1, 2, 3} /\ k[3] = 0 /\ h[3] = 0
         \/ DOMAIN k = {1, 2}
  BY <1>1, <1>2, <1>3
<1>5. Less <=> a < c \/ (a = c /\ b < d)
  <2>1. ASSUME a < c PROVE Less
    <3>1. k[1] < h[1] /\ 1 \in DOMAIN k /\ \A j \in 1 .. 1 - 1 : k[j] = h[j]
      BY <1>4, <2>1
    <3> QED  BY <3>1
  <2>2. ASSUME a = c, b < d PROVE Less
    <3>1. k[2] < h[2] /\ 2 \in DOMAIN k /\ \A j \in 1 .. 2 - 1 : k[j] = h[j]
      BY <1>4, <2>2
    <3> QED  BY <3>1
  <2>3. ASSUME NEW i \in DOMAIN k, k[i] < h[i], \A j \in 1 .. i - 1 : k[j] = h[j]
        PROVE  a < c \/ (a = c /\ b < d)
    <3>1. CASE i = 1
      BY <1>4, <2>3, <3>1
    <3>2. CASE i = 2
      BY <1>4, <2>3, <3>2
    <3>3. CASE i = 3
      <4>1. k[3] = 0 /\ h[3] = 0
        BY <1>4, <2>3, <3>3
      <4> QED  BY <2>3, <3>3, <4>1
    <3> QED  BY <1>4, <3>1, <3>2, <3>3
  <2> QED  BY <2>1, <2>2, <2>3
<1>6. a = c /\ b = d => k = h
  BY <1>1, <1>2, <1>3
<1>7. ImageBefore(e, g) <=> e.len > g.len \/ (e.len = g.len /\ Less)
  BY <1>1, Zenon DEF ImageBefore
<1> HIDE DEF Less
<1> QED  BY <1>1, <1>4, <1>5, <1>6, <1>7

LEMMA ImagesInOrder ==
  ASSUME NEW S, IsFiniteSet(S),
         \A e \in S : e.len \in Nat /\ OctetImage(e.key),
         \A e, g \in S : DOMAIN e.key = DOMAIN g.key,
         \A e, g \in S : e.len = g.len /\ e.key = g.key => e = g
  PROVE  InOrder(S, ImageBefore) \in SetToSeqs(S)
<1> DEFINE R == {w \in S \X S : ImageBefore(w[1], w[2])}
<1>0. \A x, y \in S : <<x, y>> \in R <=> ImageBefore(x, y)
  OBVIOUS
<1>1. TotalOn(S, R)
  <2>0. ASSUME NEW x \in S, NEW y \in S
        PROVE  /\ <<x, y>> \in R <=>
                    \/ x.len > y.len
                    \/ /\ x.len = y.len
                       /\ x.key[1] < y.key[1] \/ (x.key[1] = y.key[1] /\ x.key[2] < y.key[2])
               /\ x.key[1] = y.key[1] /\ x.key[2] = y.key[2] => x.key = y.key
               /\ x.key[1] \in Nat /\ x.key[2] \in Nat /\ y.key[1] \in Nat /\ y.key[2] \in Nat
               /\ x.len \in Nat /\ y.len \in Nat
    <3>1. /\ OctetImage(x.key) /\ OctetImage(y.key) /\ DOMAIN x.key = DOMAIN y.key
          /\ x.len \in Nat /\ y.len \in Nat
      OBVIOUS
    <3>2. <<x, y>> \in R <=> ImageBefore(x, y)
      BY <1>0
    <3> HIDE DEF R
    <3> QED  BY <3>1, <3>2, ImageOrder
  <2> HIDE DEF R
  <2>1. ASSUME NEW x \in S, NEW y \in S, x # y PROVE <<x, y>> \in R \/ <<y, x>> \in R
    BY <2>0, <2>1
  <2>2. ASSUME NEW x \in S, NEW y \in S, NEW z \in S, <<x, y>> \in R, <<y, z>> \in R
        PROVE  <<x, z>> \in R
    BY <2>0, <2>2
  <2> QED  BY <2>1, <2>2 DEF TotalOn
<1> HIDE DEF R
<1>2. PICK f : Lists(S, R, f)
  BY <1>1, HasListing
<1>3. f \in SetToSeqs(S) /\ \A i, j \in DOMAIN f : i < j => <<f[i], f[j]>> \in R
  BY <1>2 DEF Lists
<1>4. \A w \in R : ImageBefore(w[1], w[2])
  BY DEF R
<1>5. \A i, j \in DOMAIN f : i < j => ImageBefore(f[i], f[j])
  BY <1>3, <1>4
<1> QED  BY <1>3, <1>5, Zenon DEF InOrder

---------------------------------------------------------------------------
(* What a dump says of an entry, and that it says it of each entry once.   *)
Told(d) ==
  Entry(d.key.value.n, IF d.key.len = <<>> THEN Width ELSE d.key.len[1], d.action, d.params)

(* g describes the elements of S, which stand for the entries C.           *)
Describes(g, S, C) ==
  /\ IsFiniteSet(C)
  /\ DOMAIN g = S
  /\ \A x \in S : Told(g[x]) \in C
  /\ \A c \in C : \E x \in S : Told(g[x]) = c
  /\ \A x, y \in S : Told(g[x]) = Told(g[y]) => x = y

LEMMA DescribedCount ==
  ASSUME NEW g, NEW S, NEW C, Describes(g, S, C)
  PROVE  IsFiniteSet(S) /\ Cardinality(S) = Cardinality(C)
<1> DEFINE h == [x \in S |-> Told(g[x])]
<1>1. h \in [S -> C] /\ IsFiniteSet(C)
  BY Zenon DEF Describes
<1>2. \A x, y \in S : h[x] = h[y] => x = y
  BY Zenon DEF Describes
<1>3. \A c \in C : \E x \in S : h[x] = c
  BY Zenon DEF Describes
<1> HIDE DEF h
<1>4. h \in Injection(S, C)
  BY <1>1, <1>2, Fun_IsInj
<1>5. IsFiniteSet(S)
  BY <1>1, <1>4, FS_Injection
<1> QED  BY <1>1, <1>2, <1>3, <1>5, Bijected

Dumped(d, C) == Len(d) = Cardinality(C) /\ {Told(d[i]) : i \in DOMAIN d} = C

LEMMA DescribedList ==
  ASSUME NEW g, NEW S, NEW C, Describes(g, S, C), NEW es \in SetToSeqs(S),
         NEW d, d = [i \in DOMAIN es |-> g[es[i]]]
  PROVE  /\ Dumped(d, C)
         /\ \A i \in DOMAIN d : \E x \in S : d[i] = g[x]
<1>1. IsFiniteSet(S) /\ Cardinality(S) = Cardinality(C)
  BY DescribedCount
<1>2. PICK n \in Nat : n = Cardinality(S)
  BY <1>1, FS_CardinalityType
<1>3. /\ DOMAIN es = 1 .. n
      /\ \A i \in DOMAIN es : es[i] \in S
      /\ \A x \in S : \E i \in DOMAIN es : es[i] = x
  BY <1>1, <1>2, ListedAll
<1>4. Len(d) = n /\ DOMAIN d = DOMAIN es /\ \A i \in DOMAIN es : d[i] = g[es[i]]
  BY <1>3
<1>5. {Told(d[i]) : i \in DOMAIN d} = C
  <2>1. ASSUME NEW i \in DOMAIN d PROVE Told(d[i]) \in C
    BY <1>3, <1>4, Zenon DEF Describes
  <2>2. ASSUME NEW c \in C PROVE \E i \in DOMAIN d : Told(d[i]) = c
    <3>1. PICK x \in S : Told(g[x]) = c
      BY DEF Describes
    <3>2. PICK i \in DOMAIN es : es[i] = x
      BY <1>3
    <3>3. d[i] = g[x] /\ i \in DOMAIN d
      BY <1>4, <3>2
    <3> QED  BY <3>1, <3>3
  <2> QED  BY <2>1, <2>2
<1> QED  BY <1>1, <1>2, <1>3, <1>4, <1>5, Zenon DEF Dumped

(* The dump of a native l2fwd node.                                        *)
MacDesc(t, n) == Describe("l2fwd", MacText(n), t.entries[n])

LEMMA L2DumpIs ==
  ASSUME NEW t, IsFiniteSet(L2Content(t)), \A e \in L2Content(t) : e.key \in Keys
  PROVE  /\ Dumped(L2Dump(t), L2Content(t))
         /\ \A i \in DOMAIN L2Dump(t) : \E n : L2Dump(t)[i].key = MacText(n)
<1> DEFINE S == DOMAIN t.entries
           g == [n \in S |-> MacDesc(t, n)]
<1>1. ASSUME NEW n PROVE MacDesc(t, n).key = MacText(n)
                         /\ Told(MacDesc(t, n)) = NE("l2fwd", n, Width, t.entries[n])
  <2>1. PICK a : a = t.entries[n]
    OBVIOUS
  <2>2. /\ MacText(n).value.n = n /\ MacText(n).len = <<>>
        /\ MacDesc(t, n).key = MacText(n) /\ MacDesc(t, n).action = a.name
    BY <2>1 DEF MacDesc, MacText, Describe
  <2>3. MacDesc(t, n).params = Describe("l2fwd", "", a).params
    BY <2>1 DEF MacDesc, Describe
  <2> QED  BY <2>1, <2>2, <2>3, Zenon DEF Told, NE
<1>2. \A n : NE("l2fwd", n, Width, t.entries[n]).key.n = n
  BY DEF NE, Entry
<1>3. Describes(g, S, L2Content(t))
  <2>1. DOMAIN g = S /\ \A n \in S : g[n] = MacDesc(t, n)
    OBVIOUS
  <2> HIDE DEF g
  <2>2. \A n \in S : Told(g[n]) = NE("l2fwd", n, Width, t.entries[n])
    BY <1>1, <2>1
  <2>3. \A n \in S : Told(g[n]) \in L2Content(t)
    BY <2>2 DEF L2Content
  <2>4. \A c \in L2Content(t) : \E n \in S : Told(g[n]) = c
    BY <2>2 DEF L2Content
  <2>5. \A m, n \in S : Told(g[m]) = Told(g[n]) => m = n
    BY <1>2, <2>2
  <2> QED  BY <2>1, <2>3, <2>4, <2>5, Zenon DEF Describes
<1>4. IsFiniteSet(S)
  BY <1>3, DescribedCount
<1>5. S \subseteq Nat
  <2> SUFFICES ASSUME NEW n \in S PROVE n \in Nat
    OBVIOUS
  <2>1. NE("l2fwd", n, Width, t.entries[n]) \in L2Content(t)
    BY DEF L2Content
  <2>2. n \in Num
    BY <1>2, <2>1 DEF Keys
  <2> QED  BY <2>2 DEF Num
<1>6. PICK es \in SetToSeqs(S) : es = InOrder(S, <)
  BY <1>4, <1>5, NumbersInOrder
<1>7. IsFiniteSet(S) /\ \A i \in DOMAIN es : es[i] \in S
  BY <1>4, ListedAll
<1>8. L2Dump(t) = [i \in DOMAIN es |-> g[es[i]]]
  <2>1. L2Dump(t) = [i \in DOMAIN es |-> MacDesc(t, es[i])]
    BY <1>6, Zenon DEF L2Dump, MacDesc
  <2> QED  BY <1>7, <2>1
<1>9. PICK d : d = L2Dump(t)
  OBVIOUS
<1>10. \A x \in S : \E n : g[x].key = MacText(n)
  BY <1>1
<1> HIDE DEF g, S
<1>11. Dumped(d, L2Content(t)) /\ \A i \in DOMAIN d : \E x \in S : d[i] = g[x]
  BY <1>3, <1>8, <1>9, DescribedList
<1>12. \A i \in DOMAIN d : \E n : d[i].key = MacText(n)
  BY <1>10, <1>11
<1> QED  BY <1>9, <1>11, <1>12

(* The dump of a native l3fwd node.                                        *)
PrefixDesc(e) == Describe("l3fwd", PrefixText(e.base, e.len), e.action)

LEMMA L3DumpIs ==
  ASSUME NEW t, L3Shape(t), IsFiniteSet(L3Content(t)), \A e \in L3Content(t) : e.key \in Keys
  PROVE  /\ Dumped(L3Dump(t), L3Content(t))
         /\ \A i \in DOMAIN L3Dump(t) : \E n, len : L3Dump(t)[i].key = PrefixText(n, len)
<1> DEFINE S == LpmEntries(t)
           g == [e \in S |-> PrefixDesc(e)]
<1>1. ASSUME NEW e PROVE /\ PrefixDesc(e).key = PrefixText(e.base, e.len)
                         /\ Told(PrefixDesc(e)) = NE("l3fwd", e.base, e.len, e.action)
  <2>1. PICK a, b, l : a = e.action /\ b = e.base /\ l = e.len
    OBVIOUS
  <2>2. /\ PrefixText(b, l).value.n = b /\ PrefixText(b, l).len = <<l>> /\ <<l>> # <<>> /\ <<l>>[1] = l
        /\ PrefixDesc(e).key = PrefixText(b, l) /\ PrefixDesc(e).action = a.name
    BY <2>1 DEF PrefixDesc, PrefixText, Describe
  <2>3. PrefixDesc(e).params = Describe("l3fwd", "", a).params
    BY <2>1 DEF PrefixDesc, Describe
  <2>4. Told(PrefixDesc(e)) = Entry(b, l, a.name, Describe("l3fwd", "", a).params)
    BY <2>2, <2>3, Zenon DEF Told
  <2> QED  BY <2>1, <2>2, <2>4, Zenon DEF NE
<1>2. \A e : /\ NE("l3fwd", e.base, e.len, e.action).key.n = e.base
             /\ NE("l3fwd", e.base, e.len, e.action).key.len = e.len
  BY DEF NE, Entry
<1>3. Describes(g, S, L3Content(t))
  <2>1. DOMAIN g = S /\ \A e \in S : g[e] = PrefixDesc(e)
    OBVIOUS
  <2> HIDE DEF g
  <2>2. \A e \in S : Told(g[e]) = NE("l3fwd", e.base, e.len, e.action)
    BY <1>1, <2>1
  <2>3. \A e \in S : Told(g[e]) \in L3Content(t)
    BY <2>2 DEF L3Content
  <2>4. \A c \in L3Content(t) : \E e \in S : Told(g[e]) = c
    BY <2>2 DEF L3Content
  <2>5. ASSUME NEW x \in S, NEW y \in S, Told(g[x]) = Told(g[y]) PROVE x = y
    <3>1. x.base = y.base /\ x.len = y.len
      BY <1>2, <2>2, <2>5
    <3> QED  BY <3>1, LpmOnce
  <2> QED  BY <2>1, <2>3, <2>4, <2>5, Zenon DEF Describes
<1>4. IsFiniteSet(S)
  BY <1>3, DescribedCount
<1>5. \A e \in S : e.len \in Nat /\ e.base \in Nat
  <2> SUFFICES ASSUME NEW e \in S PROVE e.len \in Nat /\ e.base \in Nat
    OBVIOUS
  <2>1. NE("l3fwd", e.base, e.len, e.action) \in L3Content(t)
    BY DEF L3Content
  <2>2. e.base \in Num /\ e.len \in 0 .. Width
    BY <1>2, <2>1 DEF Keys
  <2> QED  BY <2>2, WidthNat DEF Num
<1>6. \A e, f \in S : e.len = f.len /\ e.base = f.base => e = f
  BY LpmOnce
<1>7. PICK es \in SetToSeqs(S) : es = InOrder(S, PrefixBefore)
  BY <1>4, <1>5, <1>6, PrefixesInOrder
<1>8. \A i \in DOMAIN es : es[i] \in S
  BY <1>4, ListedAll
<1>9. L3Dump(t) = [i \in DOMAIN es |-> g[es[i]]]
  <2>1. L3Dump(t) = [i \in DOMAIN es |-> PrefixDesc(es[i])]
    BY <1>7, Zenon DEF L3Dump, PrefixDesc
  <2> QED  BY <1>8, <2>1
<1>10. PICK d : d = L3Dump(t)
  OBVIOUS
<1>11. \A x \in S : \E n, len : g[x].key = PrefixText(n, len)
  BY <1>1
<1> HIDE DEF g, S
<1>12. Dumped(d, L3Content(t)) /\ \A i \in DOMAIN d : \E x \in S : d[i] = g[x]
  BY <1>3, <1>9, <1>10, DescribedList
<1>13. \A i \in DOMAIN d : \E n, len : d[i].key = PrefixText(n, len)
  BY <1>11, <1>12
<1> QED  BY <1>10, <1>12, <1>13

(* The dump of an x4c node.                                                *)
LiveDesc(e) ==
  [key |-> KeyText(e.key), action |-> e.action,
   params |-> [j \in DOMAIN e.params |-> e.params[j].n]]

LEMMA LiveDescIs ==
  ASSUME NEW p \in Programs, NEW e, KeyTyped(p, e.key)
  PROVE  /\ Told(LiveDesc(e)) = LE(e)
         /\ p = "l2fwd" => LiveDesc(e).key = MacText(e.key.value.n)
         /\ p = "l3fwd" => LiveDesc(e).key = PrefixText(e.key.value.n, e.key.len)
<1>1. PICK k, n, l, t : k = e.key /\ n = k.value.n /\ l = k.len /\ t = KeyText(k)
  OBVIOUS
<1>2. /\ p = "l2fwd" => k.match = "exact" /\ l = Width
      /\ p = "l3fwd" => k.match = "lpm"
      /\ p = "l2fwd" \/ p = "l3fwd"
  <2>1. CASE p = "l2fwd"
    <3>1. PICK v : k = [match |-> "exact", value |-> v, len |-> Width]
      BY <1>1, <2>1, Zenon DEF KeyTyped
    <3> QED  BY <1>1, <2>1, <3>1
  <2>2. CASE p = "l3fwd"
    <3>1. PICK v, m : k = [match |-> "lpm", value |-> v, len |-> m]
      BY <1>1, <2>2, Zenon DEF KeyTyped
    <3> QED  BY <2>2, <3>1
  <2> QED  BY <2>1, <2>2 DEF Programs
<1>3. /\ p = "l2fwd" => t = MacText(n)
      /\ p = "l3fwd" => t = PrefixText(n, l)
  BY <1>1, <1>2 DEF KeyText
<1>4. t.value.n = n /\ (IF t.len = <<>> THEN Width ELSE t.len[1]) = l
  BY <1>2, <1>3 DEF MacText, PrefixText
<1>5. /\ LiveDesc(e).key = t /\ LiveDesc(e).action = e.action
      /\ LiveDesc(e).params = Numbers(e.params)
  BY <1>1 DEF LiveDesc, Numbers
<1>6. Told(LiveDesc(e)) = Entry(n, l, e.action, Numbers(e.params))
  BY <1>4, <1>5, Zenon DEF Told
<1>7. LE(e) = Entry(n, l, e.action, Numbers(e.params))
  BY <1>1 DEF LE
<1> QED  BY <1>1, <1>3, <1>5, <1>6, <1>7, Zenon

LEMMA X4cDumpIs ==
  ASSUME NEW p \in Programs, NEW t, XShape(p, t), IsFiniteSet(X4cContent(t)),
         \A e \in X4cContent(t) : e.key \in Keys
  PROVE  /\ Dumped(X4cDump(t), X4cContent(t))
         /\ p = "l2fwd" => \A i \in DOMAIN X4cDump(t) : \E n : X4cDump(t)[i].key = MacText(n)
         /\ p = "l3fwd" => \A i \in DOMAIN X4cDump(t) : \E n, len : X4cDump(t)[i].key = PrefixText(n, len)
<1> DEFINE S == LiveSet(t)
           g == [e \in S |-> LiveDesc(e)]
           C == X4cContent(t)
<1>1. C = {LE(e) : e \in S}
  BY X4cContentIs
<1>2. /\ \A e \in S : KeyTyped(p, e.key)
      /\ \A e, f \in S : e.key = f.key => e = f
  BY DEF XShape, LiveGood, LiveTyped, LiveSet
<1>3. \A e : LE(e).key = Typed(e.key) /\ LE(e).key.n = e.key.value.n /\ LE(e).key.len = e.key.len
  BY DEF LE, Entry, Typed
<1>4. ASSUME NEW x \in S, NEW y \in S, LE(x).key = LE(y).key PROVE x = y
  <2>1. x.key = y.key
    BY <1>2, <1>3, <1>4, TypedOnce
  <2> QED  BY <1>2, <2>1
<1>5. Describes(g, S, C)
  <2>1. DOMAIN g = S /\ \A e \in S : g[e] = LiveDesc(e)
    OBVIOUS
  <2> HIDE DEF g
  <2>2. \A e \in S : Told(g[e]) = LE(e)
    BY <1>2, <2>1, LiveDescIs
  <2> HIDE DEF C, S
  <2>3. \A e \in S : Told(g[e]) \in C
    BY <1>1, <2>2
  <2>4. \A c \in C : \E e \in S : Told(g[e]) = c
    BY <1>1, <2>2
  <2>5. \A x, y \in S : Told(g[x]) = Told(g[y]) => x = y
    BY <1>4, <2>2
  <2>6. IsFiniteSet(C)
    BY DEF C
  <2> QED  BY <2>1, <2>3, <2>4, <2>5, <2>6, Zenon DEF Describes
<1>6. IsFiniteSet(S)
  BY <1>5, DescribedCount
<1>7. \A e \in S : e.key.len \in Nat /\ e.key.value.n \in Nat
  <2> SUFFICES ASSUME NEW e \in S PROVE e.key.len \in Nat /\ e.key.value.n \in Nat
    OBVIOUS
  <2>1. LE(e) \in C
    BY <1>1
  <2>2. e.key.value.n \in Num /\ e.key.len \in 0 .. Width
    BY <1>3, <2>1 DEF Keys
  <2> QED  BY <2>2, WidthNat DEF Num
<1>8. ASSUME NEW e \in S, NEW f \in S, e.key.len = f.key.len, e.key.value.n = f.key.value.n
      PROVE  e = f
  <2>1. LE(e).key = LE(f).key
    BY <1>3, <1>8 DEF Typed
  <2> QED  BY <1>4, <2>1
<1>9. PICK es \in SetToSeqs(S) : es = InOrder(S, LiveBefore)
  BY <1>6, <1>7, <1>8, LiveInOrder
<1>10. \A i \in DOMAIN es : es[i] \in S
  BY <1>6, ListedAll
<1>11. X4cDump(t) = [i \in DOMAIN es |-> g[es[i]]]
  <2>1. X4cDump(t) = [i \in DOMAIN es |-> LiveDesc(es[i])]
    BY <1>9, Zenon DEF X4cDump, LiveDesc, LiveSet
  <2> QED  BY <1>10, <2>1
<1>12. PICK d : d = X4cDump(t)
  OBVIOUS
<1>13. /\ p = "l2fwd" => \A x \in S : \E n : g[x].key = MacText(n)
       /\ p = "l3fwd" => \A x \in S : \E n, len : g[x].key = PrefixText(n, len)
  BY <1>2, LiveDescIs
<1> HIDE DEF g, S, C
<1>14. Dumped(d, C) /\ \A i \in DOMAIN d : \E x \in S : d[i] = g[x]
  BY <1>5, <1>11, <1>12, DescribedList
<1>15. /\ p = "l2fwd" => \A i \in DOMAIN d : \E n : d[i].key = MacText(n)
       /\ p = "l3fwd" => \A i \in DOMAIN d : \E n, len : d[i].key = PrefixText(n, len)
  BY <1>13, <1>14
<1> QED  BY <1>12, <1>14, <1>15 DEF C

(* The dump of a ubpf node.                                                *)
LEMMA UbpfDumpIs ==
  ASSUME NEW p \in Programs, NEW t, UShape(p, t), IsFiniteSet(UbpfContent(p, t))
  PROVE  Dumped(UbpfDump(p, t), UbpfContent(p, t))
<1> DEFINE S == UbpfEntries(t.entries)
           g == [e \in S |-> UbpfDescribe(Abi(p), e)]
           C == UbpfContent(p, t)
<1>1. \A e : Told(UbpfDescribe(Abi(p), e)) = UE(p, e)
  BY Zenon DEF Told, UE
<1>2. Describes(g, S, C)
  <2>1. DOMAIN g = S /\ \A e \in S : g[e] = UbpfDescribe(Abi(p), e)
    OBVIOUS
  <2> HIDE DEF g
  <2>2. \A e \in S : Told(g[e]) = UE(p, e)
    BY <1>1, <2>1
  <2>3. C = {UE(p, e) : e \in S}
    BY DEF UbpfContent
  <2> HIDE DEF C, S
  <2>4. (\A e \in S : Told(g[e]) \in C) /\ \A c \in C : \E e \in S : Told(g[e]) = c
    BY <2>2, <2>3
  <2>5. \A x, y \in S : Told(g[x]) = Told(g[y]) => x = y
    BY <2>2, ImageOnce DEF S
  <2>6. IsFiniteSet(C)
    BY DEF C
  <2> QED  BY <2>1, <2>4, <2>5, <2>6, Zenon DEF Describes
<1>3. IsFiniteSet(S)
  BY <1>2, DescribedCount
<1>4. Good(t.entries.buckets) /\ \A l, b, v : Has(t.entries.buckets, l, b, v) => USlot(p, l, b, v)
  BY Zenon DEF UShape
<1>5. ASSUME NEW e \in S
      PROVE  /\ e.len \in Nat /\ OctetImage(e.key)
             /\ DOMAIN e.key = IF p = "l2fwd" THEN 1 .. 3 ELSE 1 .. 2
             /\ \E v : Has(t.entries.buckets, e.len, e.key, v) /\ e = [len |-> e.len, key |-> e.key, value |-> v]
  <2>1. PICK l, b, v : Has(t.entries.buckets, l, b, v) /\ e = [len |-> l, key |-> b, value |-> v]
    BY UbpfEntriesAre
  <2>2. PICK k \in Canonicals(p) : l = UAt(p, k).len /\ b = UAt(p, k).base
    BY <1>4, <2>1 DEF USlot
  <2>3. k.n \in Num /\ k.len \in Nat
    BY WidthNat DEF Canonicals
  <2>4. PICK hi \in Nat, lo \in Nat : hi = k.n \div Octet /\ lo = k.n % Octet
    BY <2>3, Octets
  <2>5. CASE p = "l2fwd"
    <3>1. l = 0 /\ b = <<lo, hi, 0>>
      BY <2>2, <2>4, <2>5 DEF UAt
    <3> QED  BY <2>1, <2>4, <2>5, <3>1 DEF OctetImage
  <2>6. CASE p # "l2fwd"
    <3>1. l = k.len /\ b = <<lo, hi>>
      BY <2>2, <2>4, <2>6 DEF UAt
    <3> QED  BY <2>1, <2>3, <2>4, <2>6, <3>1 DEF OctetImage
  <2> QED  BY <2>5, <2>6
<1> HIDE DEF S
<1>6. \A e, f \in S : DOMAIN e.key = DOMAIN f.key
  BY <1>5
<1>7. ASSUME NEW e \in S, NEW f \in S, e.len = f.len, e.key = f.key PROVE e = f
  <2>1. PICK v : Has(t.entries.buckets, e.len, e.key, v) /\ e = [len |-> e.len, key |-> e.key, value |-> v]
    BY <1>5
  <2>2. PICK w : Has(t.entries.buckets, f.len, f.key, w) /\ f = [len |-> f.len, key |-> f.key, value |-> w]
    BY <1>5
  <2>3. v = w
    BY <1>4, <1>7, <2>1, <2>2, HasOnce
  <2> QED  BY <1>7, <2>1, <2>2, <2>3
<1>8. PICK es \in SetToSeqs(S) : es = InOrder(S, ImageBefore)
  BY <1>3, <1>5, <1>6, <1>7, ImagesInOrder
<1>9. \A i \in DOMAIN es : es[i] \in S
  BY <1>3, ListedAll
<1>10. UbpfDump(p, t) = [i \in DOMAIN es |-> g[es[i]]]
  <2>1. UbpfDump(p, t) = [i \in DOMAIN es |-> UbpfDescribe(Abi(p), es[i])]
    BY <1>8, Zenon DEF UbpfDump, S
  <2> QED  BY <1>9, <2>1
<1>11. PICK d : d = UbpfDump(p, t)
  OBVIOUS
<1> HIDE DEF g, C
<1>12. Dumped(d, C)
  BY <1>2, <1>10, <1>11, DescribedList
<1> QED  BY <1>11, <1>12 DEF C

(* A key in a dump, typed back, is the entry's.                            *)
AsTyped(p, text) ==
  /\ p = "l2fwd" => \E n : text = MacText(n)
  /\ p = "l3fwd" => \E n, len : text = PrefixText(n, len)

LEMMA TypedBack ==
  ASSUME NEW p \in Programs, NEW d, AsTyped(p, d.key), NEW k \in Keys, k = Told(d).key,
         Mask(k.n, k.len) = k.n
  PROVE  LET b == ParseKeyFor(p, SchemaOf(p).name, d.key) IN b.ok /\ Canon(b.val) = k
<1>1. PICK text, name, n, l : /\ text = d.key /\ name = SchemaOf(p).name /\ n = text.value.n
                              /\ l = IF text.len = <<>> THEN Width ELSE text.len[1]
  OBVIOUS
<1>2. k.n = n /\ k.len = l /\ k = [n |-> n, len |-> l] /\ n \in Num /\ l \in 0 .. Width
  BY <1>1, EntryIs DEF Told, Keys
<1>3. PICK b : b = ParseKeyFor(p, name, text)
  OBVIOUS
<1>4. text.len \in Seq(Nat) /\ KeyLegal(p, name, text)
  <2>1. CASE p = "l2fwd"
    <3>1. PICK n2 : text = MacText(n2)
      BY <1>1, <2>1 DEF AsTyped
    <3>3. text.len = <<>> /\ text.value.form = "mac"
      BY <3>1 DEF MacText
    <3>2. SchemaOf(p).kind = "mac" /\ Form("mac") = "mac"
      BY <2>1, SchemaIs DEF Form
    <3> QED  BY <1>1, <1>2, <3>2, <3>3 DEF KeyLegal
  <2>2. CASE p = "l3fwd"
    <3>0. PICK n2, m : text = PrefixText(n2, m)
      BY <1>1, <2>2 DEF AsTyped
    <3>1. text.len = <<m>> /\ text.value.form = "ipv4"
      BY <3>0 DEF PrefixText
    <3>2. SchemaOf(p).kind = "ipv4" /\ Form("ipv4") = "ipv4"
      BY <2>2, SchemaIs DEF Form
    <3>3. l = m /\ m \in Nat /\ m <= Width
      BY <1>1, <1>2, <3>1, WidthNat
    <3> QED  BY <1>1, <1>2, <2>2, <3>1, <3>2, <3>3 DEF KeyLegal
  <2> QED  BY <2>1, <2>2 DEF Programs
<1>5. b.ok /\ b.val.value.n = n /\ b.val.len = l
  BY <1>1, <1>3, <1>4, KeyParses
<1>6. Canon(b.val) = k
  BY <1>2, <1>5 DEF Canon
<1> QED  BY <1>1, <1>3, <1>5, <1>6

(* TableDump and TableDefault of a selection and a table.                  *)
DumpOf(s, t) ==
  CASE s.backend = "native" /\ s.program = "l2fwd" -> L2Dump(t)
    [] s.backend = "native" /\ s.program = "l3fwd" -> L3Dump(t)
    [] s.backend = "x4c" -> X4cDump(t)
    [] OTHER -> UbpfDump(s.program, t)
NativeDefault(p, a) == [action |-> Describe(p, "*", a).action, params |-> Describe(p, "*", a).params]
DefaultOf(s, t) ==
  CASE s.backend = "native" -> NativeDefault(s.program, t.default_action)
    [] s.backend = "x4c" -> [action |-> DefaultActionOf(s.program), params |-> <<>>]
    [] OTHER -> [action |-> UbpfDefault(s.program, t), params |-> <<>>]

LEMMA DumpsAre ==
  /\ TableDump = DumpOf(sel, table)
  /\ TableDefault = DefaultOf(sel, table)
<1>1. TableDump = DumpOf(sel, table)
  BY Zenon DEF TableDump, DumpOf
<1>2. TableDefault = DefaultOf(sel, table)
  BY DEF TableDefault, DefaultOf, NativeDefault
<1> QED  BY <1>1, <1>2

LEMMA DumpOfIs ==
  ASSUME NEW s, NEW t
  PROVE  /\ s.backend = "native" /\ s.program = "l2fwd" => DumpOf(s, t) = L2Dump(t)
         /\ s.backend = "native" /\ s.program = "l3fwd" => DumpOf(s, t) = L3Dump(t)
         /\ s.backend = "x4c" => DumpOf(s, t) = X4cDump(t)
         /\ s.backend = "ubpf" => DumpOf(s, t) = UbpfDump(s.program, t)
<1>1. PICK b, p, l2, l3, x, u : /\ b = s.backend /\ p = s.program /\ l2 = L2Dump(t) /\ l3 = L3Dump(t)
                                /\ x = X4cDump(t) /\ u = UbpfDump(s.program, t)
  OBVIOUS
<1>2. DumpOf(s, t) = CASE b = "native" /\ p = "l2fwd" -> l2
                       [] b = "native" /\ p = "l3fwd" -> l3
                       [] b = "x4c" -> x
                       [] OTHER -> u
  BY <1>1 DEF DumpOf
<1> QED  BY <1>1, <1>2

(* The hypotheses under which a dump is right.                             *)
Dumpable(s, t, m) ==
  /\ s \in Sels /\ Shape(s, t) /\ Content(s, t) = Dict(m)
  /\ DOMAIN m \subseteq Keys /\ AskedTyped(s.program, m)

LEMMA DictKeys ==
  ASSUME NEW p, NEW m, DOMAIN m \subseteq Keys, AskedTyped(p, m), NEW e \in Dict(m)
  PROVE  e.key \in Keys /\ Mask(e.key.n, e.key.len) = e.key.n
<1>1. PICK k \in DOMAIN m : e = DE(k, m[k])
  BY DEF Dict
<1>2. k \in Keys /\ e.key = k
  BY <1>1, DEKey
<1>3. Mask(k.n, k.len) = k.n
  BY <1>1 DEF AskedTyped
<1> QED  BY <1>2, <1>3

LEMMA EntriesDumped ==
  ASSUME NEW s, NEW t, NEW m, Dumpable(s, t, m), NEW d, d = DumpOf(s, t)
  PROVE  /\ Dumped(d, Dict(m))
         /\ s.backend # "ubpf" => \A i \in DOMAIN d : AsTyped(s.program, d[i].key)
<1>1. s \in Sels /\ Shape(s, t) /\ Content(s, t) = Dict(m) /\ DOMAIN m \subseteq Keys
  BY DEF Dumpable
<1>2. IsFiniteSet(Dict(m)) /\ \A e \in Dict(m) : e.key \in Keys
  BY <1>1, DictCount, DictKeys DEF Dumpable
<1>3. PICK p \in Programs : p = s.program
  BY <1>1, SelCases
<1>4. CASE s.backend = "native" /\ s.program = "l2fwd"
  <2>1. d = L2Dump(t) /\ L2Content(t) = Dict(m)
    BY <1>1, <1>4, DumpOfIs, ShapeIs
  <2>2. Dumped(d, Dict(m)) /\ \A i \in DOMAIN d : \E n : d[i].key = MacText(n)
    BY <1>2, <2>1, L2DumpIs
  <2> QED  BY <1>4, <2>2 DEF AsTyped
<1>5. CASE s.backend = "native" /\ s.program = "l3fwd"
  <2>1. d = L3Dump(t) /\ L3Content(t) = Dict(m) /\ L3Shape(t)
    BY <1>1, <1>5, DumpOfIs, ShapeIs
  <2>2. Dumped(d, Dict(m)) /\ \A i \in DOMAIN d : \E n, len : d[i].key = PrefixText(n, len)
    BY <1>2, <2>1, L3DumpIs
  <2> QED  BY <1>5, <2>2 DEF AsTyped
<1>6. CASE s.backend = "x4c"
  <2>1. d = X4cDump(t) /\ X4cContent(t) = Dict(m) /\ XShape(p, t)
    BY <1>1, <1>3, <1>6, DumpOfIs, ShapeIs
  <2>2. /\ Dumped(d, Dict(m))
        /\ p = "l2fwd" => \A i \in DOMAIN d : \E n : d[i].key = MacText(n)
        /\ p = "l3fwd" => \A i \in DOMAIN d : \E n, len : d[i].key = PrefixText(n, len)
    BY <1>2, <2>1, X4cDumpIs
  <2> QED  BY <1>3, <2>2 DEF AsTyped
<1>7. CASE s.backend = "ubpf"
  <2>1. d = UbpfDump(p, t) /\ UbpfContent(p, t) = Dict(m) /\ UShape(p, t)
    BY <1>1, <1>3, <1>7, DumpOfIs, ShapeIs
  <2>2. Dumped(d, Dict(m))
    BY <1>2, <2>1, UbpfDumpIs
  <2> QED  BY <1>7, <2>2
<1> QED  BY <1>1, <1>4, <1>5, <1>6, <1>7, SelCases

(* What DumpFaithful says of a reply, with what it reads as parameters.    *)
KeyRight(p, name, x) ==
  LET b == ParseKeyFor(p, name, x.key) IN b.ok /\ Canon(b.val) = Told(x).key
EntriesRight(s, name, d, m) ==
  /\ Len(d) = Cardinality(DOMAIN m) /\ {Told(d[i]) : i \in DOMAIN d} = Dict(m)
  /\ s.backend # "ubpf" => \A i \in DOMAIN d : KeyRight(s.program, name, d[i])
DefaultRight(s, v, c) ==
  /\ v.action = c.action
  /\ s.backend # "ubpf" => v.params = c.params

LEMMA EntriesAreRight ==
  ASSUME NEW s, NEW t, NEW m, Dumpable(s, t, m), NEW name, name = SchemaOf(s.program).name
  PROVE  EntriesRight(s, name, DumpOf(s, t), m)
<1>1. PICK d : d = DumpOf(s, t)
  OBVIOUS
<1>2. /\ Dumped(d, Dict(m))
      /\ s.backend # "ubpf" => \A i \in DOMAIN d : AsTyped(s.program, d[i].key)
  BY <1>1, EntriesDumped
<1>3. Len(d) = Cardinality(DOMAIN m)
  BY <1>2, DictCount DEF Dumped, Dumpable
<1>4. ASSUME s.backend # "ubpf", NEW i \in DOMAIN d PROVE KeyRight(s.program, name, d[i])
  <2>1. PICK x, p : x = d[i] /\ p = s.program
    OBVIOUS
  <2>2. p \in Programs
    BY <2>1, SelCases DEF Dumpable
  <2>3. Told(x) \in Dict(m)
    BY <1>2, <2>1 DEF Dumped
  <2>4. PICK k : k = Told(x).key
    OBVIOUS
  <2>5. k \in Keys /\ Mask(k.n, k.len) = k.n
    BY <2>1, <2>3, <2>4, DictKeys DEF Dumpable
  <2>6. AsTyped(p, x.key)
    BY <1>2, <1>4, <2>1
  <2>7. KeyRight(p, SchemaOf(p).name, x)
    BY <2>2, <2>4, <2>5, <2>6, TypedBack, Zenon DEF KeyRight
  <2> QED  BY <2>1, <2>7
<1> QED  BY <1>1, <1>2, <1>3, <1>4 DEF EntriesRight, Dumped

LEMMA DefaultIsRight ==
  ASSUME NEW s \in Sels, NEW t, NEW c, DefaultHeld(s, t, c)
  PROVE  DefaultRight(s, DefaultOf(s, t), c)
<1>1. PICK a, vals : CallTyped(s.program, a, vals) /\ c = Call(a, vals) /\ DefaultAs(s, t, a, vals)
  BY DEF DefaultHeld
<1>2. c.action = a /\ c.params = Numbers(vals)
  BY <1>1 DEF Call
<1>0. s.program \in Programs
  BY SelCases
<1>3. PICK p, b, v : p \in Programs /\ p = s.program /\ b = s.backend /\ v = DefaultOf(s, t)
  BY <1>0
<1>4. CASE b = "native"
  <2>1. Says(p, t.default_action, c)
    BY <1>3, <1>4, DefaultOk
  <2>2. v = NativeDefault(p, t.default_action)
    BY <1>3, <1>4 DEF DefaultOf
  <2>3. v.action = c.action /\ v.params = c.params
    BY <2>1, <2>2 DEF Says, ParamsOf, NativeDefault, Describe
  <2> QED  BY <1>3, <2>3 DEF DefaultRight
<1>5. CASE b = "x4c"
  <2>1. v.action = DefaultActionOf(p) /\ v.params = <<>>
    BY <1>3, <1>5 DEF DefaultOf
  <2>2. a = DefaultActionOf(p)
    BY <1>1, <1>3, <1>5 DEF DefaultAs
  <2>3. vals = <<>>
    BY <1>1, <1>3, <2>2 DEF CallTyped, DefaultActionOf, Programs
  <2> QED  BY <1>2, <1>3, <2>1, <2>2, <2>3, NoNumbers DEF DefaultRight
<1>6. CASE b = "ubpf"
  <2>1. v.action = UbpfDefault(p, t)
    BY <1>3, <1>6 DEF DefaultOf
  <2>2. t.defaults = UDefaults(p, a, vals)
    BY <1>1, <1>3, <1>6 DEF DefaultAs
  <2>3. UbpfDefault(p, t) = ActionOf(Abi(p), ValueImage(Abi(p), a, vals))
    <3>1. PICK im, u : im = ValueImage(Abi(p), a, vals) /\ u = UDefaults(p, a, vals)
      OBVIOUS
    <3>2. u.buckets = <<>> /\ u.default = im
      BY <3>1 DEF UDefaults
    <3>3. UbpfLookup(u, <<0, 0>>) = im
      BY <3>2, DefaultsAnswer
    <3> QED  BY <2>2, <3>1, <3>3, Zenon DEF UbpfDefault
  <2>4. a \in DOMAIN Abi(p).disc
    BY <1>1, <1>3 DEF CallTyped, Abi, L2Abi, L3Abi, Programs
  <2>5. ActionOf(Abi(p), ValueImage(Abi(p), a, vals)) = a
    BY <1>3, <2>4, Discriminant, Zenon
  <2> QED  BY <1>2, <1>3, <1>6, <2>1, <2>3, <2>5 DEF DefaultRight
<1> QED  BY <1>3, <1>4, <1>5, <1>6, SelCases

Dumping(l) == l.kind = "reply" /\ l.op = "dump" /\ l.res.ok
DumpRight(s, l, m, c) ==
  /\ EntriesRight(s, l.info.name, l.res.val.entries, m)
  /\ DefaultRight(s, l.res.val.default, c)

LEMMA DumpRightIs ==
  DumpFaithful <=> (Dumping(last) /\ ~Diverged => DumpRight(sel, last, asked, askedDefault))
<1>1. PICK d, v, name, p : /\ d = last.res.val.entries /\ v = last.res.val.default
                           /\ name = last.info.name /\ p = sel.program
  OBVIOUS
<1> DEFINE num(i) == [n |-> d[i].key.value.n,
                      len |-> IF d[i].key.len = <<>> THEN Width ELSE d[i].key.len[1]]
           back(i) == ParseKeyFor(p, name, d[i].key)
           Right == /\ Len(d) = Cardinality(DOMAIN asked)
                    /\ {Entry(num(i).n, num(i).len, d[i].action, d[i].params) : i \in DOMAIN d}
                         = AskedEntries
                    /\ sel.backend # "ubpf" =>
                         \A i \in DOMAIN d : back(i).ok /\ Canon(back(i).val) = num(i)
                    /\ v.action = askedDefault.action
                    /\ sel.backend # "ubpf" => v.params = askedDefault.params
<1>2. DumpFaithful <=> (Dumping(last) /\ ~Diverged => Right)
  BY <1>1 DEF DumpFaithful, Dumping
<1>3. \A i : Entry(num(i).n, num(i).len, d[i].action, d[i].params) = Told(d[i]) /\ num(i) = Told(d[i]).key
  BY DEF Told, Entry
<1>4. \A i : (back(i).ok /\ Canon(back(i).val) = num(i)) <=> KeyRight(p, name, d[i])
  BY <1>3, Zenon DEF KeyRight
<1>5. {Entry(num(i).n, num(i).len, d[i].action, d[i].params) : i \in DOMAIN d} = {Told(d[i]) : i \in DOMAIN d}
  BY <1>3
<1> HIDE DEF num, back
<1>6. Right <=> /\ Len(d) = Cardinality(DOMAIN asked) /\ {Told(d[i]) : i \in DOMAIN d} = Dict(asked)
                /\ sel.backend # "ubpf" => \A i \in DOMAIN d : KeyRight(p, name, d[i])
                /\ DefaultRight(sel, v, askedDefault)
  BY <1>4, <1>5, AskedIs DEF DefaultRight
<1> HIDE DEF Right
<1>7. Right <=> DumpRight(sel, last, asked, askedDefault)
  BY <1>1, <1>6 DEF DumpRight, EntriesRight
<1> QED  BY <1>2, <1>7

(* Only Dump answers a dump.                                               *)
LEMMA DumpOnly ==
  ASSUME [Next]_vars, Dumping(last')
  PROVE  UNCHANGED vars \/ \E name : Dump(name)
<1>0. last'.kind = "reply" /\ last'.op = "dump"
  BY DEF Dumping
<1>1. ASSUME NEW raw, NEW b, NEW file, Start(raw, b, file) PROVE FALSE
  BY <1>0, <1>1 DEF Start, Exit
<1>2. ASSUME Stop PROVE FALSE
  BY <1>0, <1>2 DEF Stop, Exit
<1>3. ASSUME Request PROVE \E name : Dump(name)
  <2>1. ASSUME NEW entries, BeginAdd(entries) PROVE FALSE
    BY <1>0, <2>1 DEF BeginAdd
  <2>2. ASSUME NEW name, NEW text, TableDel(name, text) PROVE FALSE
    BY <1>0, <2>2 DEF TableDel, Reply
  <2>3. ASSUME NEW name, NEW call, SetDefault(name, call) PROVE FALSE
    BY <1>0, <2>3 DEF SetDefault, Reply
  <2>4. ASSUME NEW name, Clear(name) PROVE FALSE
    BY <1>0, <2>4 DEF Clear, Reply
  <2> QED  BY <1>3, <2>1, <2>2, <2>3, <2>4 DEF Request
<1>4. ASSUME ApplyEntry PROVE FALSE
  <2>1. last' = [kind |-> "none"]
    BY <1>4, Zenon DEF ApplyEntry
  <2> QED  BY <1>0, <2>1
<1>5. ASSUME RefuseEntry PROVE FALSE
  BY <1>0, <1>5 DEF RefuseEntry, Exit, BatchReply
<1>6. ASSUME FinishBatch PROVE FALSE
  BY <1>0, <1>6 DEF FinishBatch, BatchReply
<1>7. ASSUME NEW f, Receive(f) PROVE FALSE
  <2>1. last'.kind = "frame"
    BY <1>7 DEF Receive
  <2> QED  BY <1>0, <2>1
<1> QED  BY <1>1, <1>2, <1>3, <1>4, <1>5, <1>6, <1>7 DEF Next

LEMMA DumpAnswers ==
  ASSUME FaithInv, SameInv, NEW name, Dump(name), Dumping(last'), ~Diverged
  PROVE  DumpRight(sel, last', asked, askedDefault)
<1>1. PICK s, t, m, c : s = sel /\ t = table /\ m = asked /\ c = askedDefault
  OBVIOUS
<1>2. phase # "down"
  BY DEF Dump, Idle
<1>3. Dumpable(s, t, m) /\ DefaultHeld(s, t, c) /\ s \in Sels
  BY <1>1, <1>2 DEF FaithInv, NodeGood, AskedHeld, SameInv, Dumpable
<1>4. PICK res : /\ last' = [kind |-> "reply", op |-> "dump", res |-> res, info |-> [name |-> name]]
                 /\ res = IF FindSchema(s.program, name).ok
                            THEN Ok([entries |-> DumpOf(s, t), default |-> DefaultOf(s, t)])
                            ELSE FindSchema(s.program, name)
  BY <1>1, DumpsAre, Zenon DEF Dump, Reply
<1>5. last'.res = res /\ last'.info.name = name /\ res.ok
  BY <1>4 DEF Dumping
<1>6. FindSchema(s.program, name).ok
  BY <1>4, <1>5
<1>7. res.val = [entries |-> DumpOf(s, t), default |-> DefaultOf(s, t)]
  BY <1>4, <1>6 DEF Ok
<1>8. res.val.entries = DumpOf(s, t) /\ res.val.default = DefaultOf(s, t)
  BY <1>7
<1>9. name = SchemaOf(s.program).name
  BY <1>6, Found
<1>10. EntriesRight(s, name, DumpOf(s, t), m) /\ DefaultRight(s, DefaultOf(s, t), c)
  BY <1>3, <1>9, EntriesAreRight, DefaultIsRight
<1> QED  BY <1>1, <1>5, <1>8, <1>10, Zenon DEF DumpRight

LEMMA DumpStep ==
  ASSUME FaithInv, SameInv, DumpFaithful, [Next]_vars
  PROVE  DumpFaithful'
<1>1. DumpFaithful' <=>
        ((Dumping(last) /\ ~Diverged => DumpRight(sel, last, asked, askedDefault))')
  BY DumpRightIs, PTL
<1>2. CASE ~Dumping(last')
  BY <1>1, <1>2
<1>3. ASSUME NEW name, Dump(name), Dumping(last') PROVE DumpFaithful'
  <2>1. UNCHANGED <<sel, asked, askedDefault, aliased>>
    BY <1>3 DEF Dump, nodeVars, askedVars
  <2>2. Diverged' = Diverged
    BY <2>1 DEF Diverged
  <2>3. ~Diverged => DumpRight(sel, last', asked, askedDefault)
    BY <1>3, DumpAnswers
  <2> QED  BY <1>1, <2>1, <2>2, <2>3, Zenon
<1>4. CASE UNCHANGED vars
  <2>1. UNCHANGED <<sel, asked, askedDefault, aliased, last>>
    BY <1>4 DEF vars
  <2>2. Diverged' = Diverged
    BY <2>1 DEF Diverged
  <2> QED  BY <1>1, <2>1, <2>2, DumpRightIs, Zenon
<1> QED  BY <1>2, <1>3, <1>4, DumpOnly

(* A dump taken at any time lists each entry the operator's requests add   *)
(* up to, once, and the default, whatever the backend keeps them in; the   *)
(* keys the native and x4c backends print can be typed back (table_dump    *)
(* and EntryDesc: "in the syntax an operator would type").                 *)
THEOREM DumpFaithfulHolds == Spec => []DumpFaithful
<1>1. Init => DumpFaithful
  BY DEF Init, DumpFaithful
<1>2. FaithInv /\ SameInv /\ DumpFaithful /\ [Next]_vars => DumpFaithful'
  BY DumpStep
<1> QED  BY <1>1, <1>2, FaithInit, FaithStep, SameInit, SameInvStep, PTL DEF Spec

=============================================================================
