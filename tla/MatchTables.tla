---------------------------- MODULE MatchTables ----------------------------
(***************************************************************************)
(* The match-action tables: ExactTable, Ipv4Prefix and LpmTable of         *)
(* up4-engine's table.rs, and the byte-image Table the ubpf backend keeps  *)
(* for its bytecode.  Both longest-prefix tables keep their entries in     *)
(* groups, one per prefix length, longest first.                           *)
(***************************************************************************)
EXTENDS Values, SequencesExt

(* HashMap::insert and HashMap::remove.                                    *)
Put(f, k, v) == [x \in DOMAIN f \cup {k} |-> IF x = k THEN v ELSE f[x]]
Without(f, k) == [x \in DOMAIN f \ {k} |-> f[x]]

NoEntries == [x \in {} |-> 0]

(* slice::sort_by on distinct elements: each of S once, in order.          *)
InOrder(S, before(_, _)) ==
  CHOOSE s \in SetToSeqs(S) : \A i, j \in DOMAIN s : i < j => before(s[i], s[j])

---------------------------------------------------------------------------
(* ExactTable.                                                             *)

ExactNew(default) == [entries |-> NoEntries, default_action |-> default]
ExactApply(t, k) == IF k \in DOMAIN t.entries THEN t.entries[k] ELSE t.default_action
ExactInsert(t, k, a) == [t EXCEPT !.entries = Put(@, k, a)]
ExactRemove(t, k) == [t EXCEPT !.entries = Without(@, k)]
ExactClear(t) == [t EXCEPT !.entries = NoEntries]

---------------------------------------------------------------------------
(* Groups, shared by LpmTable and the ubpf Table: a sequence of            *)
(* [len, entries].  Position is binary_search_by: the place of the group   *)
(* of length len, or the place to insert one.                              *)

Position(gs, len) ==
  CHOOSE p \in 1 .. Len(gs) + 1 :
    /\ \A i \in 1 .. p - 1 : gs[i].len > len
    /\ \A i \in p .. Len(gs) : gs[i].len <= len

HasGroup(gs, len) == \E i \in DOMAIN gs : gs[i].len = len

(* Insert or replace.                                                      *)
GroupInsert(gs, len, base, a) ==
  LET pos == Position(gs, len) IN
  IF HasGroup(gs, len)
    THEN [gs EXCEPT ![pos] = [len |-> len, entries |-> Put(gs[pos].entries, base, a)]]
    ELSE InsertAt(gs, pos, [len |-> len, entries |-> Put(NoEntries, base, a)])

(* A bug: a group that becomes empty stays.                                *)
MutantGroupRemove(gs, len, base) ==
  LET pos == Position(gs, len) IN
  IF ~HasGroup(gs, len) THEN gs
  ELSE [gs EXCEPT ![pos] = [len |-> len, entries |-> Without(gs[pos].entries, base)]]

(* A bug: the group goes with any of its entries.                          *)
MutantGroupRemoveAll(gs, len, base) ==
  IF HasGroup(gs, len) THEN RemoveAt(gs, Position(gs, len)) ELSE gs

(* Remove; a group that becomes empty goes with its last entry.            *)
GroupRemove(gs, len, base) ==
  LET pos == Position(gs, len)
      rest == Without(gs[pos].entries, base)
  IN IF ~HasGroup(gs, len) THEN gs
     ELSE IF DOMAIN rest = {} THEN RemoveAt(gs, pos)
     ELSE [gs EXCEPT ![pos] = [len |-> len, entries |-> rest]]

Holds(gs, len, base) ==
  \E i \in DOMAIN gs : gs[i].len = len /\ base \in DOMAIN gs[i].entries

(* LpmTable's documented invariant: "strictly decreasing `len`, no empty   *)
(* group".                                                                 *)
Ordered(gs) ==
  /\ \A i, j \in DOMAIN gs : i < j => gs[i].len > gs[j].len
  /\ \A i \in DOMAIN gs : DOMAIN gs[i].entries # {}

---------------------------------------------------------------------------
(* Ipv4Prefix and LpmTable.                                                *)

(* mask_of: the leading len bits of n.                                     *)
Mask(n, len) == n - (n % 2 ^ (Width - len))

(* Ipv4Prefix::new clears the host bits.                                   *)
Prefix(key) == [base |-> Mask(key.value.n, key.len), len |-> key.len]

LpmNew(default) == [groups |-> <<>>, default_action |-> default]

(* LpmTable::apply: find_map over the groups.                              *)
LpmApply(t, addr) ==
  LET hits == {i \in DOMAIN t.groups :
                 Mask(addr, t.groups[i].len) \in DOMAIN t.groups[i].entries}
  IN IF hits = {} THEN t.default_action
     ELSE LET g == t.groups[Min(hits)] IN g.entries[Mask(addr, g.len)]

LpmInsert(t, prefix, a) ==
  [t EXCEPT !.groups = GroupInsert(@, prefix.len, prefix.base, a)]
LpmRemove(t, prefix) ==
  [t EXCEPT !.groups = GroupRemove(@, prefix.len, prefix.base)]
LpmClear(t) == [t EXCEPT !.groups = <<>>]

(* LpmTable::iter.                                                         *)
LpmEntries(t) ==
  UNION {{[base |-> b, len |-> t.groups[i].len, action |-> t.groups[i].entries[b]]
            : b \in DOMAIN t.groups[i].entries} : i \in DOMAIN t.groups}

---------------------------------------------------------------------------
(* The ubpf Table: [matching, match_at, match_len, buckets, default], keys *)
(* and values sequences of octets, default <<>> for None.                  *)

UbpfNew(matching, match_at, match_len, default) ==
  [matching |-> matching, match_at |-> match_at, match_len |-> match_len,
   buckets |-> <<>>, default |-> default]

Window(t, key) == SubSeq(key, t.match_at, t.match_at + t.match_len - 1)

(* zero_below: the image is least significant octet first, the prefix      *)
(* counts from the most significant bit.                                   *)
ZeroBelow(image, prefix) ==
  LET total == Len(image) * OctetBits
      cleared == total - (IF prefix < total THEN prefix ELSE total)
      inOctet(j) == Max({0, Min({OctetBits, cleared - (j - 1) * OctetBits})})
  IN [j \in DOMAIN image |-> image[j] - (image[j] % 2 ^ inOctet(j))]

(* Table::canonical.                                                       *)
Canonical(t, key, prefix) ==
  IF t.matching = "exact"
    THEN [len |-> 0, base |-> Window(t, key)]
    ELSE [len |-> prefix, base |-> ZeroBelow(Window(t, key), prefix)]

UbpfInsert(t, key, prefix, value) ==
  LET c == Canonical(t, key, prefix) IN
  [t EXCEPT !.buckets = GroupInsert(@, c.len, c.base, value)]

UbpfRemove(t, key, prefix) ==
  LET c == Canonical(t, key, prefix) IN
  [t EXCEPT !.buckets = GroupRemove(@, c.len, c.base)]

UbpfSetDefault(t, value) == [t EXCEPT !.default = value]
UbpfClear(t) == [t EXCEPT !.buckets = <<>>]

(* Table::lookup and longest_prefix; <<>> is None.                         *)
UbpfLookup(t, key) ==
  LET w == Window(t, key)
      probe(i) == IF t.matching = "exact" THEN w ELSE ZeroBelow(w, t.buckets[i].len)
      places == IF t.matching = "exact" THEN DOMAIN t.buckets \cap {1} ELSE DOMAIN t.buckets
      hits == {i \in places : probe(i) \in DOMAIN t.buckets[i].entries}
  IN IF hits = {} THEN t.default
     ELSE t.buckets[Min(hits)].entries[probe(Min(hits))]

UbpfEntries(t) ==
  UNION {{[len |-> t.buckets[i].len, key |-> k, value |-> t.buckets[i].entries[k]]
            : k \in DOMAIN t.buckets[i].entries} : i \in DOMAIN t.buckets}

=============================================================================
