---------------------------- MODULE TableProofs ----------------------------
(***************************************************************************)
(* The node's tables for every octet width, every set of requests and      *)
(* every number of entries.  Whatever configurations, batches, deletions,  *)
(* defaults, clears, restarts and frames come in whatever order:           *)
(*                                                                         *)
(*   - binary search finds a place, an insertion and a removal keep the    *)
(*     groups of a longest-prefix table strictly ordered and change one    *)
(*     entry, and the first group that matches is the longest;             *)
(*   - so the groups a native l3fwd node and a ubpf node search stay       *)
(*     ordered, and a native lookup returns the longest prefix (GroupsInv);*)
(*   - the configuration is judged by its rules;                           *)
(*   - every backend's representation holds exactly the entries the        *)
(*     requests add up to, one entry changing at a time, and answers as    *)
(*     the dictionary of those entries says (FaithInv, BatchInv).          *)
(*                                                                         *)
(* The largest part relates each representation to a set of [key, action,  *)
(* params]: Shape says what a backend's table looks like, Content what it  *)
(* holds, and the lemmas AddIs, RemoveIs, ClearIs and SetDefaultIs what    *)
(* each TableOps call does to both.                                        *)
(***************************************************************************)
EXTENDS Forwarding, SequenceTheorems, WellFoundedInduction, FiniteSetTheorems, FunctionTheorems,
        TLAPS

(* A group whose entries are a member of E.                                *)
Group(E) == [len : Nat, entries : E]

(* A non-empty set of naturals has a least element.                        *)
LEMMA LeastNat ==
  ASSUME NEW T, T \subseteq Nat, T # {}
  PROVE  \E x \in T : \A y \in T : x <= y
<1>1. PICK x \in T : \A y \in T : ~(<<y, x>> \in OpToRel(<, Nat))
  BY NatLessThanWellFounded, WFMin
<1>2. ASSUME NEW y \in T PROVE ~(y < x)
  <2>1. y \in Nat /\ x \in Nat
    OBVIOUS
  <2>2. y < x => <<y, x>> \in OpToRel(<, Nat)
    BY <2>1, Zenon DEF OpToRel
  <2> QED  BY <2>2, <1>1
<1>3. \A y \in T : x <= y
  <2>1. x \in Nat /\ \A y \in T : y \in Nat
    OBVIOUS
  <2> QED  BY <2>1, <1>2
<1> QED  BY <1>3

(* Min of FiniteSetsExt on naturals.                                       *)
LEMMA MinIsLeast ==
  ASSUME NEW T, T \subseteq Nat, T # {}
  PROVE  Min(T) \in T /\ \A y \in T : Min(T) <= y
BY LeastNat DEF Min

(* What InsertAt puts where.                                               *)
LEMMA InsertAtIndex ==
  ASSUME NEW S, NEW s \in Seq(S), NEW p \in 1 .. Len(s) + 1, NEW e \in S
  PROVE  /\ InsertAt(s, p, e) \in Seq(S)
         /\ Len(InsertAt(s, p, e)) = Len(s) + 1
         /\ \A i \in 1 .. Len(s) + 1 : InsertAt(s, p, e)[i] =
              IF i < p THEN s[i] ELSE IF i = p THEN e ELSE s[i - 1]
<1> DEFINE a == SubSeq(s, 1, p - 1)
           b == SubSeq(s, p, Len(s))
<1>1. /\ Len(s) \in Nat /\ p \in Nat
      /\ a \in Seq(S) /\ Len(a) = p - 1 /\ \A i \in 1 .. p - 1 : a[i] = s[i]
  BY SubSeqProperties, LenProperties
<1>2. /\ b \in Seq(S) /\ Len(b) = Len(s) - p + 1
      /\ \A i \in 1 .. Len(s) - p + 1 : b[i] = s[p + i - 1]
  BY SubSeqProperties, LenProperties
<1>3. <<e>> \in Seq(S) /\ Len(<<e>>) = 1 /\ <<e>>[1] = e
  OBVIOUS
<1> HIDE DEF a, b
<1>4. /\ a \o <<e>> \in Seq(S) /\ Len(a \o <<e>>) = p
      /\ \A i \in 1 .. p : (a \o <<e>>)[i] = IF i < p THEN s[i] ELSE e
  BY <1>1, <1>3, ConcatProperties
<1>5. /\ (a \o <<e>>) \o b \in Seq(S) /\ Len((a \o <<e>>) \o b) = Len(s) + 1
      /\ \A i \in 1 .. Len(s) + 1 : ((a \o <<e>>) \o b)[i] =
           IF i <= p THEN (a \o <<e>>)[i] ELSE b[i - p]
  BY <1>1, <1>2, <1>4, ConcatProperties
<1>6. InsertAt(s, p, e) = (a \o <<e>>) \o b
  BY DEF InsertAt, a, b
<1>7. ASSUME NEW i \in 1 .. Len(s) + 1
      PROVE  ((a \o <<e>>) \o b)[i] = IF i < p THEN s[i] ELSE IF i = p THEN e ELSE s[i - 1]
  <2>1. CASE i <= p
    BY <2>1, <1>1, <1>4, <1>5
  <2>2. CASE i > p
    <3>1. i - p \in 1 .. Len(s) - p + 1 /\ p + (i - p) - 1 = i - 1
      BY <2>2, <1>1
    <3>2. b[i - p] = s[i - 1]
      BY <3>1, <1>2
    <3>3. ~(i <= p) /\ ~(i < p) /\ i # p
      BY <2>2, <1>1
    <3>4. ((a \o <<e>>) \o b)[i] = b[i - p]
      BY <3>3, <1>5
    <3> QED  BY <3>2, <3>3, <3>4
  <2>3. i <= p \/ i > p
    BY <1>1
  <2> QED  BY <2>1, <2>2, <2>3, Zenon
<1> QED  BY <1>5, <1>6, <1>7

(* What RemoveAt leaves where.                                             *)
LEMMA RemoveAtIndex ==
  ASSUME NEW S, NEW s \in Seq(S), NEW p \in 1 .. Len(s)
  PROVE  /\ RemoveAt(s, p) \in Seq(S)
         /\ Len(RemoveAt(s, p)) = Len(s) - 1
         /\ \A i \in 1 .. Len(s) - 1 :
              RemoveAt(s, p)[i] = IF i < p THEN s[i] ELSE s[i + 1]
<1> DEFINE a == SubSeq(s, 1, p - 1)
           b == SubSeq(s, p + 1, Len(s))
<1>1. /\ Len(s) \in Nat /\ p \in Nat
      /\ a \in Seq(S) /\ Len(a) = p - 1 /\ \A i \in 1 .. p - 1 : a[i] = s[i]
  BY SubSeqProperties, LenProperties
<1>2. /\ b \in Seq(S) /\ Len(b) = Len(s) - p
      /\ \A i \in 1 .. Len(s) - p : b[i] = s[p + i]
  <2>1. \A i \in p + 1 .. Len(s) : s[i] \in S
    BY LenProperties
  <2>2. p + 1 \in Int /\ Len(s) \in Int
    BY LenProperties
  <2>3. /\ b \in Seq(S) /\ Len(b) = IF p + 1 <= Len(s) THEN Len(s) - (p + 1) + 1 ELSE 0
        /\ \A i \in 1 .. Len(s) - (p + 1) + 1 : b[i] = s[(p + 1) + i - 1]
    BY <2>1, <2>2, SubSeqProperties
  <2> HIDE DEF b
  <2>4. Len(s) - (p + 1) + 1 = Len(s) - p
    BY <2>2
  <2>5. Len(b) = Len(s) - p
    BY <2>2, <2>3
  <2>6. ASSUME NEW i \in 1 .. Len(s) - p PROVE b[i] = s[p + i]
    <3>1. (p + 1) + i - 1 = p + i
      BY <2>2
    <3>2. i \in 1 .. Len(s) - (p + 1) + 1
      BY <2>2
    <3>3. b[i] = s[(p + 1) + i - 1]
      BY <2>3, <3>2, Zenon
    <3> QED  BY <3>1, <3>3
  <2> QED  BY <2>3, <2>5, <2>6
<1> HIDE DEF a, b
<1>3. /\ a \o b \in Seq(S) /\ Len(a \o b) = Len(s) - 1
      /\ \A i \in 1 .. Len(s) - 1 : (a \o b)[i] = IF i <= p - 1 THEN a[i] ELSE b[i - (p - 1)]
  <2>1. /\ a \o b \in Seq(S) /\ Len(a \o b) = Len(a) + Len(b)
        /\ \A i \in 1 .. Len(a) + Len(b) :
             (a \o b)[i] = IF i <= Len(a) THEN a[i] ELSE b[i - Len(a)]
    BY <1>1, <1>2, ConcatProperties
  <2>2. Len(a) = p - 1 /\ Len(a) + Len(b) = Len(s) - 1
    BY <1>1, <1>2
  <2> QED  BY <2>1, <2>2
<1>4. RemoveAt(s, p) = a \o b
  BY DEF RemoveAt, a, b
<1>5. ASSUME NEW i \in 1 .. Len(s) - 1
      PROVE  (a \o b)[i] = IF i < p THEN s[i] ELSE s[i + 1]
  <2>1. CASE i < p
    BY <2>1, <1>1, <1>3
  <2>2. CASE i >= p
    <3>1. i - (p - 1) \in 1 .. Len(s) - p /\ p + (i - (p - 1)) = i + 1
      BY <2>2, <1>1
    <3>2. b[i - (p - 1)] = s[i + 1]
      BY <3>1, <1>2
    <3>3. ~(i <= p - 1) /\ ~(i < p)
      BY <2>2, <1>1
    <3>4. (a \o b)[i] = b[i - (p - 1)]
      BY <3>3, <1>3
    <3> QED  BY <3>2, <3>3, <3>4
  <2>3. i < p \/ i >= p
    BY <1>1
  <2> QED  BY <2>1, <2>2, <2>3, Zenon
<1> QED  BY <1>3, <1>4, <1>5

---------------------------------------------------------------------------
(* The parts of a sequence of groups.                                      *)
LEMMA GroupFacts ==
  ASSUME NEW E, NEW gs \in Seq(Group(E))
  PROVE  /\ Len(gs) \in Nat
         /\ DOMAIN gs = 1 .. Len(gs)
         /\ \A i \in 1 .. Len(gs) :
              gs[i] \in Group(E) /\ gs[i].len \in Nat /\ gs[i].entries \in E
<1>1. /\ Len(gs) \in Nat
      /\ DOMAIN gs = 1 .. Len(gs)
      /\ \A i \in 1 .. Len(gs) : gs[i] \in Group(E)
  BY LenProperties
<1> QED  BY <1>1 DEF Group

(* Position, on ordered groups, is what binary_search_by documents: what   *)
(* is before it is longer, what is at or after it is not, and a group of   *)
(* the wanted length is at it.                                             *)
LEMMA PositionIs ==
  ASSUME NEW E, NEW gs \in Seq(Group(E)), Ordered(gs), NEW len \in Nat
  PROVE  /\ Position(gs, len) \in 1 .. Len(gs) + 1
         /\ \A i \in 1 .. Position(gs, len) - 1 : gs[i].len > len
         /\ \A i \in Position(gs, len) .. Len(gs) : gs[i].len <= len
         /\ HasGroup(gs, len) =>
              Position(gs, len) \in DOMAIN gs /\ gs[Position(gs, len)].len = len
<1> DEFINE T == {p \in 1 .. Len(gs) + 1 : \A i \in p .. Len(gs) : gs[i].len <= len}
<1>1. /\ Len(gs) \in Nat
      /\ DOMAIN gs = 1 .. Len(gs)
      /\ \A i \in 1 .. Len(gs) : gs[i].len \in Nat
  BY GroupFacts
<1>2. Len(gs) + 1 \in T
  BY <1>1
<1>3. T \subseteq Nat /\ T # {}
  BY <1>1, <1>2
<1>4. PICK p \in T : \A q \in T : p <= q
  BY <1>3, LeastNat
<1>5. p \in 1 .. Len(gs) + 1 /\ \A i \in p .. Len(gs) : gs[i].len <= len
  BY <1>4
<1>6. ASSUME NEW i \in 1 .. p - 1, ~(gs[i].len > len) PROVE FALSE
  <2>1. i \in 1 .. Len(gs) /\ i < p
    BY <1>1, <1>5
  <2>2. gs[i].len <= len
    BY <1>1, <1>6, <2>1
  <2>3. ASSUME NEW j \in i .. Len(gs) PROVE gs[j].len <= len
    <3>1. j \in 1 .. Len(gs) /\ (j = i \/ i < j)
      BY <2>1, <1>1
    <3>2. i < j => gs[i].len > gs[j].len
      BY <3>1, <2>1, <1>1 DEF Ordered
    <3> QED  BY <3>1, <3>2, <2>1, <2>2, <1>1
  <2>4. i \in T
    BY <2>1, <2>3, <1>1
  <2> QED  BY <2>1, <2>4, <1>4, <1>5, <1>1
<1>7. \E q \in 1 .. Len(gs) + 1 :
         /\ \A i \in 1 .. q - 1 : gs[i].len > len
         /\ \A i \in q .. Len(gs) : gs[i].len <= len
  BY <1>5, <1>6
<1> HIDE DEF T
<1>8. /\ Position(gs, len) \in 1 .. Len(gs) + 1
      /\ \A i \in 1 .. Position(gs, len) - 1 : gs[i].len > len
      /\ \A i \in Position(gs, len) .. Len(gs) : gs[i].len <= len
  BY <1>7 DEF Position
<1> DEFINE pos == Position(gs, len)
<1> HIDE DEF pos
<1>9. /\ pos \in 1 .. Len(gs) + 1
      /\ \A i \in 1 .. pos - 1 : gs[i].len > len
      /\ \A i \in pos .. Len(gs) : gs[i].len <= len
  BY <1>8 DEF pos
<1>10. ASSUME HasGroup(gs, len) PROVE pos \in DOMAIN gs /\ gs[pos].len = len
  <2>1. PICK k \in 1 .. Len(gs) : gs[k].len = len
    BY <1>10, <1>1 DEF HasGroup
  <2>2. ~(k \in 1 .. pos - 1)
    BY <2>1, <1>9
  <2>3. pos <= k /\ pos \in 1 .. Len(gs)
    BY <2>2, <1>9, <1>1
  <2>4. gs[pos].len <= len
    BY <2>3, <1>9, <1>1
  <2>5. pos < k => gs[pos].len > gs[k].len
    BY <2>3, <1>1 DEF Ordered
  <2>6. gs[pos].len \in Nat /\ gs[k].len \in Nat
    BY <2>3, <1>1
  <2> QED  BY <2>1, <2>3, <2>4, <2>5, <2>6, <1>1
<1> QED  BY <1>9, <1>10 DEF pos

(* A group of the wanted length is at Position only.                       *)
LEMMA OnePlace ==
  ASSUME NEW E, NEW gs \in Seq(Group(E)), Ordered(gs), NEW len \in Nat,
         NEW i \in DOMAIN gs, gs[i].len = len
  PROVE  i = Position(gs, len)
<1>1. HasGroup(gs, len)
  BY DEF HasGroup
<1>2. Position(gs, len) \in DOMAIN gs /\ gs[Position(gs, len)].len = len
  BY <1>1, PositionIs
<1> DEFINE pos == Position(gs, len)
<1> HIDE DEF pos
<1>3. pos \in DOMAIN gs /\ gs[pos].len = len
  BY <1>2 DEF pos
<1>4. DOMAIN gs \subseteq Nat
  BY LenProperties
<1>5. ~(i < pos) /\ ~(pos < i)
  BY <1>3 DEF Ordered
<1> QED  BY <1>3, <1>4, <1>5 DEF pos

---------------------------------------------------------------------------
(* The three things insert and remove do to the sequence of groups.        *)
ReplacedAt(new, gs, p, g) ==
  /\ Len(new) = Len(gs)
  /\ p \in 1 .. Len(gs)
  /\ \A i \in 1 .. Len(gs) : new[i] = IF i = p THEN g ELSE gs[i]

InsertedAt(new, gs, p, g) ==
  /\ Len(new) = Len(gs) + 1
  /\ p \in 1 .. Len(gs) + 1
  /\ \A i \in 1 .. Len(gs) + 1 :
       new[i] = IF i < p THEN gs[i] ELSE IF i = p THEN g ELSE gs[i - 1]

RemovedAt(new, gs, p) ==
  /\ Len(new) = Len(gs) - 1
  /\ p \in 1 .. Len(gs)
  /\ \A i \in 1 .. Len(gs) - 1 : new[i] = IF i < p THEN gs[i] ELSE gs[i + 1]

(* The group of length len with one more entry, and with one less.         *)
Grown(gs, len, base, a) ==
  [len |-> len, entries |-> Put(gs[Position(gs, len)].entries, base, a)]
Fresh(len, base, a) == [len |-> len, entries |-> Put(NoEntries, base, a)]
Shrunk(gs, len, base) ==
  [len |-> len, entries |-> Without(gs[Position(gs, len)].entries, base)]

(* Groups of some kind of entries, in order.                               *)
Good(gs) == Ordered(gs) /\ \E E : gs \in Seq(Group(E))

LEMMA ReplaceGroup ==
  ASSUME NEW E, NEW gs \in Seq(Group(E)), Ordered(gs), NEW p \in DOMAIN gs, NEW g,
         NEW F, g \in Group(F), g.len = gs[p].len, DOMAIN g.entries # {}
  PROVE  /\ ReplacedAt([gs EXCEPT ![p] = g], gs, p, g)
         /\ Good([gs EXCEPT ![p] = g])
<1> DEFINE new == [gs EXCEPT ![p] = g]
           G == E \cup F
<1>1. /\ Len(gs) \in Nat /\ DOMAIN gs = 1 .. Len(gs)
      /\ \A i \in 1 .. Len(gs) : gs[i].len \in Nat
  BY GroupFacts
<1>2. gs \in Seq(Group(G)) /\ g \in Group(G)
  <2>1. Group(E) \subseteq Group(G) /\ Group(F) \subseteq Group(G)
    BY DEF Group
  <2> HIDE DEF G
  <2> QED  BY <2>1, SeqMonotonic
<1> HIDE DEF G
<1>3. /\ new \in Seq(Group(G)) /\ Len(new) = Len(gs)
      /\ \A i \in 1 .. Len(gs) : new[i] = IF i = p THEN g ELSE gs[i]
  BY <1>1, <1>2, ExceptSeq
<1> HIDE DEF new
<1>4. DOMAIN new = 1 .. Len(gs)
  BY <1>3, LenProperties
<1>5. \A i \in 1 .. Len(gs) : new[i].len = gs[i].len /\ DOMAIN new[i].entries # {}
  BY <1>1, <1>3 DEF Ordered
<1>6. Ordered(new)
  BY <1>1, <1>4, <1>5 DEF Ordered
<1>7. Good(new)
  BY <1>3, <1>6, Zenon DEF Good
<1>8. ReplacedAt(new, gs, p, g)
  BY <1>1, <1>3 DEF ReplacedAt
<1> QED  BY <1>7, <1>8 DEF new

LEMMA InsertGroup ==
  ASSUME NEW E, NEW gs \in Seq(Group(E)), Ordered(gs), NEW p \in 1 .. Len(gs) + 1,
         NEW F, NEW g \in Group(F), DOMAIN g.entries # {},
         \A i \in 1 .. p - 1 : gs[i].len > g.len,
         \A i \in p .. Len(gs) : gs[i].len < g.len
  PROVE  /\ InsertedAt(InsertAt(gs, p, g), gs, p, g)
         /\ Good(InsertAt(gs, p, g))
<1> DEFINE new == InsertAt(gs, p, g)
           G == E \cup F
<1>1. /\ Len(gs) \in Nat /\ DOMAIN gs = 1 .. Len(gs)
      /\ \A i \in 1 .. Len(gs) : gs[i].len \in Nat
      /\ g.len \in Nat
  BY GroupFacts DEF Group
<1>2. gs \in Seq(Group(G)) /\ g \in Group(G)
  <2>1. Group(E) \subseteq Group(G) /\ Group(F) \subseteq Group(G)
    BY DEF Group
  <2> HIDE DEF G
  <2> QED  BY <2>1, SeqMonotonic
<1> HIDE DEF G
<1>3. /\ new \in Seq(Group(G)) /\ Len(new) = Len(gs) + 1
      /\ \A i \in 1 .. Len(gs) + 1 :
           new[i] = IF i < p THEN gs[i] ELSE IF i = p THEN g ELSE gs[i - 1]
  BY <1>2, InsertAtIndex
<1> HIDE DEF new
<1>4. DOMAIN new = 1 .. Len(gs) + 1
  BY <1>3, LenProperties
<1>5. ASSUME NEW i \in 1 .. Len(gs) + 1
      PROVE  /\ i < p => i \in 1 .. Len(gs) /\ new[i] = gs[i] /\ gs[i].len > g.len
             /\ i = p => new[i] = g
             /\ i > p => i - 1 \in 1 .. Len(gs) /\ new[i] = gs[i - 1] /\ gs[i - 1].len < g.len
  <2>1. i < p => i \in 1 .. Len(gs) /\ i \in 1 .. p - 1
    BY <1>1
  <2>2. i > p => i - 1 \in 1 .. Len(gs) /\ i - 1 \in p .. Len(gs) /\ ~(i < p) /\ i # p
    BY <1>1
  <2>3. i = p => ~(i < p)
    BY <1>1
  <2>4. new[i] = IF i < p THEN gs[i] ELSE IF i = p THEN g ELSE gs[i - 1]
    BY <1>3
  <2> QED  BY <2>1, <2>2, <2>3, <2>4
<1>6. ASSUME NEW i \in 1 .. Len(gs) + 1 PROVE DOMAIN new[i].entries # {}
  <2>1. i < p \/ i = p \/ i > p
    BY <1>1
  <2>2. \A k \in 1 .. Len(gs) : DOMAIN gs[k].entries # {}
    BY <1>1 DEF Ordered
  <2> QED  BY <1>5, <2>1, <2>2, Zenon
<1>7. ASSUME NEW i \in 1 .. Len(gs) + 1, NEW j \in 1 .. Len(gs) + 1, i < j
      PROVE  new[i].len > new[j].len
  <2>1. CASE j < p
    <3>1. i < p
      BY <2>1, <1>7, <1>1
    <3>2. i \in DOMAIN gs /\ new[i] = gs[i] /\ j \in DOMAIN gs /\ new[j] = gs[j]
      BY <3>1, <2>1, <1>5, <1>1
    <3> QED  BY <3>2, <1>7 DEF Ordered
  <2>2. CASE i > p
    <3>1. i - 1 < j - 1 /\ j > p
      BY <2>2, <1>7, <1>1
    <3>2. /\ i - 1 \in DOMAIN gs /\ new[i] = gs[i - 1]
          /\ j - 1 \in DOMAIN gs /\ new[j] = gs[j - 1]
      BY <3>1, <2>2, <1>5, <1>1
    <3> QED  BY <3>1, <3>2 DEF Ordered
  <2>3. CASE i <= p /\ j >= p
    <3>1. /\ i < p => new[i].len > g.len /\ new[i].len \in Nat
          /\ i = p => new[i].len = g.len
          /\ j = p => new[j].len = g.len
          /\ j > p => new[j].len < g.len /\ new[j].len \in Nat
      BY <1>5, <1>1
    <3>2. (i < p \/ i = p) /\ (j = p \/ j > p) /\ ~(i = p /\ j = p)
      BY <2>3, <1>7, <1>1
    <3> QED  BY <3>1, <3>2, <1>1
  <2> QED  BY <2>1, <2>2, <2>3, <1>1
<1>8. Ordered(new)
  BY <1>4, <1>6, <1>7 DEF Ordered
<1>9. Good(new)
  BY <1>3, <1>8, Zenon DEF Good
<1>10. InsertedAt(new, gs, p, g)
  BY <1>3 DEF InsertedAt
<1> QED  BY <1>9, <1>10 DEF new

LEMMA RemoveGroup ==
  ASSUME NEW E, NEW gs \in Seq(Group(E)), Ordered(gs), NEW p \in DOMAIN gs
  PROVE  /\ RemovedAt(RemoveAt(gs, p), gs, p)
         /\ Good(RemoveAt(gs, p))
<1> DEFINE new == RemoveAt(gs, p)
<1>1. Len(gs) \in Nat /\ DOMAIN gs = 1 .. Len(gs)
  BY GroupFacts
<1>2. /\ new \in Seq(Group(E)) /\ Len(new) = Len(gs) - 1
      /\ \A i \in 1 .. Len(gs) - 1 : new[i] = IF i < p THEN gs[i] ELSE gs[i + 1]
  BY <1>1, RemoveAtIndex
<1> HIDE DEF new
<1>3. DOMAIN new = 1 .. Len(gs) - 1
  BY <1>2, LenProperties
<1>4. ASSUME NEW i \in 1 .. Len(gs) - 1
      PROVE  /\ i < p => i \in DOMAIN gs /\ new[i] = gs[i]
             /\ ~(i < p) => i + 1 \in DOMAIN gs /\ new[i] = gs[i + 1]
  <2>1. i \in DOMAIN gs /\ i + 1 \in DOMAIN gs
    BY <1>1
  <2> QED  BY <2>1, <1>2
<1>5. ASSUME NEW i \in 1 .. Len(gs) - 1 PROVE DOMAIN new[i].entries # {}
  BY <1>4 DEF Ordered
<1>6. ASSUME NEW i \in 1 .. Len(gs) - 1, NEW j \in 1 .. Len(gs) - 1, i < j
      PROVE  new[i].len > new[j].len
  <2>1. PICK m \in DOMAIN gs : new[i] = gs[m] /\ m = IF i < p THEN i ELSE i + 1
    BY <1>4
  <2>2. PICK n \in DOMAIN gs : new[j] = gs[n] /\ n = IF j < p THEN j ELSE j + 1
    BY <1>4
  <2>3. m < n
    BY <2>1, <2>2, <1>6, <1>1
  <2> QED  BY <2>1, <2>2, <2>3 DEF Ordered
<1>7. Ordered(new)
  BY <1>3, <1>5, <1>6 DEF Ordered
<1>8. Good(new)
  BY <1>2, <1>7, Zenon DEF Good
<1>9. RemovedAt(new, gs, p)
  BY <1>1, <1>2 DEF RemovedAt
<1> QED  BY <1>8, <1>9 DEF new

---------------------------------------------------------------------------
LEMMA InsertShape ==
  ASSUME NEW gs, Good(gs), NEW len \in Nat, NEW base, NEW a
  PROVE  /\ Good(GroupInsert(gs, len, base, a))
         /\ HasGroup(gs, len) =>
              ReplacedAt(GroupInsert(gs, len, base, a), gs, Position(gs, len),
                         Grown(gs, len, base, a))
         /\ ~HasGroup(gs, len) =>
              InsertedAt(GroupInsert(gs, len, base, a), gs, Position(gs, len),
                         Fresh(len, base, a))
<1>1. PICK E : gs \in Seq(Group(E))
  BY DEF Good
<1>2. Ordered(gs)
  BY DEF Good
<1>3. /\ Position(gs, len) \in 1 .. Len(gs) + 1
      /\ \A i \in 1 .. Position(gs, len) - 1 : gs[i].len > len
      /\ \A i \in Position(gs, len) .. Len(gs) : gs[i].len <= len
      /\ HasGroup(gs, len) =>
           Position(gs, len) \in DOMAIN gs /\ gs[Position(gs, len)].len = len
  BY <1>1, <1>2, PositionIs
<1> DEFINE pos == Position(gs, len)
           f == gs[pos].entries
<1>4. CASE HasGroup(gs, len)
  <2> DEFINE g == Grown(gs, len, base, a)
  <2>1. GroupInsert(gs, len, base, a) = [gs EXCEPT ![pos] = g]
    BY <1>4 DEF GroupInsert, Grown
  <2>2. g = [len |-> len, entries |-> Put(f, base, a)]
    BY DEF Grown
  <2>3. base \in DOMAIN Put(f, base, a)
    BY DEF Put
  <2> HIDE DEF g, f
  <2>4. g \in Group({Put(f, base, a)}) /\ g.len = len /\ DOMAIN g.entries # {}
    BY <2>2, <2>3 DEF Group
  <2>5. ReplacedAt([gs EXCEPT ![pos] = g], gs, pos, g) /\ Good([gs EXCEPT ![pos] = g])
    BY <2>4, <1>1, <1>2, <1>3, <1>4, ReplaceGroup
  <2> QED  BY <2>1, <2>5, <1>4 DEF g
<1>5. CASE ~HasGroup(gs, len)
  <2> DEFINE g == Fresh(len, base, a)
  <2>1. GroupInsert(gs, len, base, a) = InsertAt(gs, pos, g)
    BY <1>5 DEF GroupInsert, Fresh
  <2>2. g = [len |-> len, entries |-> Put(NoEntries, base, a)]
    BY DEF Fresh
  <2>3. base \in DOMAIN Put(NoEntries, base, a)
    BY DEF Put
  <2> HIDE DEF g
  <2>4. g \in Group({Put(NoEntries, base, a)}) /\ g.len = len /\ DOMAIN g.entries # {}
    BY <2>2, <2>3 DEF Group
  <2>5. ASSUME NEW i \in pos .. Len(gs) PROVE gs[i].len < g.len
    <3>1. Len(gs) \in Nat /\ DOMAIN gs = 1 .. Len(gs) /\ \A k \in 1 .. Len(gs) : gs[k].len \in Nat
      BY <1>1, GroupFacts
    <3>2. i \in 1 .. Len(gs)
      BY <3>1, <1>3
    <3>3. gs[i].len <= len /\ gs[i].len # len /\ gs[i].len \in Nat
      BY <3>1, <3>2, <1>3, <1>5 DEF HasGroup
    <3> QED  BY <3>3, <2>4
  <2>6. InsertedAt(InsertAt(gs, pos, g), gs, pos, g) /\ Good(InsertAt(gs, pos, g))
    <3> HIDE DEF pos
    <3>1. pos \in 1 .. Len(gs) + 1 /\ \A i \in 1 .. pos - 1 : gs[i].len > g.len
      BY <1>3, <2>4 DEF pos
    <3> QED  BY <3>1, <2>4, <2>5, <1>1, <1>2, InsertGroup
  <2> QED  BY <2>1, <2>6, <1>5 DEF g
<1> QED  BY <1>4, <1>5

LEMMA RemoveShape ==
  ASSUME NEW gs, Good(gs), NEW len \in Nat, NEW base
  PROVE  /\ Good(GroupRemove(gs, len, base))
         /\ ~HasGroup(gs, len) => GroupRemove(gs, len, base) = gs
         /\ HasGroup(gs, len) =>
              IF DOMAIN Shrunk(gs, len, base).entries = {}
                THEN RemovedAt(GroupRemove(gs, len, base), gs, Position(gs, len))
                ELSE ReplacedAt(GroupRemove(gs, len, base), gs, Position(gs, len),
                                Shrunk(gs, len, base))
<1>1. PICK E : gs \in Seq(Group(E))
  BY DEF Good
<1>2. Ordered(gs)
  BY DEF Good
<1>3. HasGroup(gs, len) =>
        Position(gs, len) \in DOMAIN gs /\ gs[Position(gs, len)].len = len
  BY <1>1, <1>2, PositionIs
<1> DEFINE pos == Position(gs, len)
           rest == Without(gs[pos].entries, base)
           g == Shrunk(gs, len, base)
<1>4. g = [len |-> len, entries |-> rest]
  BY DEF Shrunk
<1>5. /\ ~HasGroup(gs, len) => GroupRemove(gs, len, base) = gs
      /\ HasGroup(gs, len) /\ DOMAIN rest = {} => GroupRemove(gs, len, base) = RemoveAt(gs, pos)
      /\ HasGroup(gs, len) /\ DOMAIN rest # {} =>
           GroupRemove(gs, len, base) = [gs EXCEPT ![pos] = [len |-> len, entries |-> rest]]
  BY DEF GroupRemove
<1> HIDE DEF rest, g
<1>6. CASE ~HasGroup(gs, len)
  BY <1>5, <1>6
<1>7. CASE HasGroup(gs, len) /\ DOMAIN rest = {}
  <2>1. RemovedAt(RemoveAt(gs, pos), gs, pos) /\ Good(RemoveAt(gs, pos))
    BY <1>1, <1>2, <1>3, <1>7, RemoveGroup
  <2>2. DOMAIN g.entries = {}
    BY <1>4, <1>7
  <2> QED  BY <2>1, <2>2, <1>5, <1>7 DEF g
<1>8. CASE HasGroup(gs, len) /\ DOMAIN rest # {}
  <2>1. g \in Group({rest}) /\ g.len = len /\ DOMAIN g.entries # {}
    BY <1>4, <1>8 DEF Group
  <2>2. ReplacedAt([gs EXCEPT ![pos] = g], gs, pos, g) /\ Good([gs EXCEPT ![pos] = g])
    BY <2>1, <1>1, <1>2, <1>3, <1>8, ReplaceGroup
  <2> QED  BY <2>1, <2>2, <1>4, <1>5, <1>8 DEF g
<1> QED  BY <1>6, <1>7, <1>8

---------------------------------------------------------------------------
(* The groups read as a map from (length, base) to actions.                *)
Slot(g, l, b, v) == g.len = l /\ b \in DOMAIN g.entries /\ g.entries[b] = v
Has(gs, l, b, v) == \E i \in DOMAIN gs : Slot(gs[i], l, b, v)

LEMMA GoodFacts ==
  ASSUME NEW gs, Good(gs)
  PROVE  /\ Ordered(gs) /\ Len(gs) \in Nat /\ DOMAIN gs = 1 .. Len(gs)
         /\ \A i \in 1 .. Len(gs) : gs[i].len \in Nat
BY GroupFacts DEF Good

(* Two groups never have one length.                                       *)
LEMMA LengthOnce ==
  ASSUME NEW gs, Good(gs), NEW i \in DOMAIN gs, NEW j \in DOMAIN gs, gs[i].len = gs[j].len
  PROVE  i = j
<1>1. /\ Ordered(gs) /\ i \in Nat /\ j \in Nat
      /\ gs[i].len \in Nat /\ gs[j].len \in Nat
  BY GoodFacts
<1>2. ~(i < j) /\ ~(j < i)
  BY <1>1 DEF Ordered
<1> QED  BY <1>1, <1>2

LEMMA ReplaceContents ==
  ASSUME NEW gs, Good(gs), NEW new, Good(new), NEW p, NEW g, ReplacedAt(new, gs, p, g),
         g.len = gs[p].len, NEW l, NEW b, NEW v
  PROVE  Has(new, l, b, v) <=> IF l = gs[p].len THEN Slot(g, l, b, v) ELSE Has(gs, l, b, v)
<1>1. /\ p \in DOMAIN gs /\ DOMAIN new = DOMAIN gs
      /\ \A i \in DOMAIN gs : new[i] = IF i = p THEN g ELSE gs[i]
  BY GoodFacts DEF ReplacedAt
<1>2. ASSUME Has(new, l, b, v)
      PROVE  IF l = gs[p].len THEN Slot(g, l, b, v) ELSE Has(gs, l, b, v)
  <2>1. PICK i \in DOMAIN gs : Slot(new[i], l, b, v)
    BY <1>1, <1>2 DEF Has
  <2>2. CASE i = p
    BY <2>1, <2>2, <1>1 DEF Slot
  <2>3. CASE i # p
    <3>1. new[i] = gs[i]
      BY <2>3, <1>1
    <3>2. gs[i].len = l /\ Has(gs, l, b, v)
      BY <3>1, <2>1 DEF Slot, Has
    <3>3. l # gs[p].len
      BY <3>2, <2>3, <1>1, LengthOnce
    <3> QED  BY <3>2, <3>3
  <2> QED  BY <2>2, <2>3
<1>3. ASSUME l = gs[p].len, Slot(g, l, b, v) PROVE Has(new, l, b, v)
  BY <1>1, <1>3 DEF Has
<1>4. ASSUME l # gs[p].len, Has(gs, l, b, v) PROVE Has(new, l, b, v)
  <2>1. PICK i \in DOMAIN gs : Slot(gs[i], l, b, v)
    BY <1>4 DEF Has
  <2>2. i # p
    BY <2>1, <1>4 DEF Slot
  <2> QED  BY <2>1, <2>2, <1>1 DEF Has
<1> QED  BY <1>2, <1>3, <1>4

LEMMA InsertContents ==
  ASSUME NEW gs, Good(gs), NEW new, Good(new), NEW p, NEW g, InsertedAt(new, gs, p, g),
         NEW l, NEW b, NEW v
  PROVE  Has(new, l, b, v) <=> Slot(g, l, b, v) \/ Has(gs, l, b, v)
<1>1. /\ Len(gs) \in Nat /\ DOMAIN gs = 1 .. Len(gs) /\ DOMAIN new = 1 .. Len(gs) + 1
      /\ p \in 1 .. Len(gs) + 1
      /\ \A i \in 1 .. Len(gs) + 1 :
           new[i] = IF i < p THEN gs[i] ELSE IF i = p THEN g ELSE gs[i - 1]
  BY GoodFacts DEF InsertedAt
<1>2. ASSUME NEW i \in DOMAIN new PROVE new[i] = g \/ \E k \in DOMAIN gs : new[i] = gs[k]
  <2>1. /\ i < p => i \in DOMAIN gs
        /\ ~(i < p) /\ i # p => i - 1 \in DOMAIN gs
    BY <1>1
  <2> QED  BY <2>1, <1>1
<1>3. p \in DOMAIN new /\ new[p] = g
  BY <1>1
<1>4. ASSUME NEW k \in DOMAIN gs PROVE \E i \in DOMAIN new : new[i] = gs[k]
  <2>1. CASE k < p
    BY <2>1, <1>1
  <2>2. CASE ~(k < p)
    <3>1. k + 1 \in 1 .. Len(gs) + 1 /\ ~(k + 1 < p) /\ k + 1 # p /\ (k + 1) - 1 = k
      BY <2>2, <1>1
    <3>2. new[k + 1] = gs[k]
      BY <3>1, <1>1
    <3> QED  BY <3>1, <3>2, <1>1
  <2> QED  BY <2>1, <2>2
<1> QED  BY <1>2, <1>3, <1>4, Zenon DEF Has

LEMMA RemoveContents ==
  ASSUME NEW gs, Good(gs), NEW new, Good(new), NEW p, RemovedAt(new, gs, p),
         NEW l, NEW b, NEW v
  PROVE  Has(new, l, b, v) <=> l # gs[p].len /\ Has(gs, l, b, v)
<1>1. /\ Len(gs) \in Nat /\ DOMAIN gs = 1 .. Len(gs) /\ DOMAIN new = 1 .. Len(gs) - 1
      /\ p \in 1 .. Len(gs)
      /\ \A i \in 1 .. Len(gs) - 1 : new[i] = IF i < p THEN gs[i] ELSE gs[i + 1]
  BY GoodFacts DEF RemovedAt
<1>2. ASSUME NEW i \in DOMAIN new PROVE \E k \in DOMAIN gs : k # p /\ new[i] = gs[k]
  <2>1. /\ i < p => i \in DOMAIN gs /\ i # p
        /\ ~(i < p) => i + 1 \in DOMAIN gs /\ i + 1 # p
    BY <1>1
  <2> QED  BY <2>1, <1>1
<1>3. ASSUME NEW k \in DOMAIN gs, k # p PROVE \E i \in DOMAIN new : new[i] = gs[k]
  <2>1. CASE k < p
    BY <2>1, <1>1
  <2>2. CASE ~(k < p)
    <3>1. k - 1 \in 1 .. Len(gs) - 1 /\ ~(k - 1 < p) /\ (k - 1) + 1 = k
      BY <2>2, <1>1, <1>3
    <3>2. new[k - 1] = gs[k]
      BY <3>1, <1>1
    <3> QED  BY <3>1, <3>2, <1>1
  <2> QED  BY <2>1, <2>2
<1>4. ASSUME Has(new, l, b, v) PROVE l # gs[p].len /\ Has(gs, l, b, v)
  <2>1. PICK k \in DOMAIN gs : k # p /\ Slot(gs[k], l, b, v)
    BY <1>2, <1>4 DEF Has
  <2>2. gs[k].len # gs[p].len
    BY <2>1, <1>1, LengthOnce
  <2> QED  BY <2>1, <2>2 DEF Slot, Has
<1>5. ASSUME l # gs[p].len, Has(gs, l, b, v) PROVE Has(new, l, b, v)
  <2>1. PICK k \in DOMAIN gs : Slot(gs[k], l, b, v)
    BY <1>5 DEF Has
  <2>2. k # p
    BY <2>1, <1>5 DEF Slot
  <2>3. PICK i \in DOMAIN new : new[i] = gs[k]
    BY <2>2, <1>3
  <2> QED  BY <2>1, <2>3 DEF Has
<1> QED  BY <1>4, <1>5

---------------------------------------------------------------------------
(* A group of length len, if there is one, holds all its entries.          *)
LEMMA OneGroup ==
  ASSUME NEW gs, Good(gs), NEW len \in Nat, NEW b, NEW v
  PROVE  /\ HasGroup(gs, len) =>
              /\ gs[Position(gs, len)].len = len
              /\ Has(gs, len, b, v) <=> Slot(gs[Position(gs, len)], len, b, v)
         /\ ~HasGroup(gs, len) => ~Has(gs, len, b, v)
<1>1. PICK E : gs \in Seq(Group(E))
  BY DEF Good
<1>2. Ordered(gs)
  BY DEF Good
<1>3. HasGroup(gs, len) =>
        Position(gs, len) \in DOMAIN gs /\ gs[Position(gs, len)].len = len
  BY <1>1, <1>2, PositionIs
<1>4. \A i \in DOMAIN gs : gs[i].len = len => i = Position(gs, len)
  BY <1>1, <1>2, OnePlace
<1> HIDE DEF Good
<1> QED  BY <1>3, <1>4, Zenon DEF Has, Slot, HasGroup

(* LpmTable::insert and Table::insert: the groups stay strictly ordered    *)
(* with no empty one, the entry given is there, and every other entry is   *)
(* as it was, whatever was in the table.                                   *)
THEOREM InsertIsOneEntry ==
  ASSUME NEW gs, Good(gs), NEW len \in Nat, NEW base, NEW a, NEW l, NEW b, NEW v
  PROVE  /\ Good(GroupInsert(gs, len, base, a))
         /\ Has(GroupInsert(gs, len, base, a), l, b, v) <=>
              IF l = len /\ b = base THEN v = a ELSE Has(gs, l, b, v)
<1> DEFINE new == GroupInsert(gs, len, base, a)
           pos == Position(gs, len)
<1>1. /\ Good(new)
      /\ HasGroup(gs, len) => ReplacedAt(new, gs, pos, Grown(gs, len, base, a))
      /\ ~HasGroup(gs, len) => InsertedAt(new, gs, pos, Fresh(len, base, a))
  BY InsertShape
<1>2. /\ HasGroup(gs, len) =>
           /\ gs[pos].len = len
           /\ Has(gs, len, b, v) <=> Slot(gs[pos], len, b, v)
      /\ ~HasGroup(gs, len) => ~Has(gs, len, b, v)
  BY OneGroup
<1>3. /\ Grown(gs, len, base, a).len = len
      /\ Slot(Grown(gs, len, base, a), len, b, v) <=>
           IF b = base THEN v = a
           ELSE b \in DOMAIN gs[pos].entries /\ gs[pos].entries[b] = v
  BY DEF Grown, Slot, Put
<1>4. Slot(Fresh(len, base, a), l, b, v) <=> l = len /\ b = base /\ v = a
  BY DEF Fresh, Slot, Put, NoEntries
<1> HIDE DEF new, pos
<1>5. CASE HasGroup(gs, len)
  <2>1. Has(new, l, b, v) <=>
          IF l = gs[pos].len THEN Slot(Grown(gs, len, base, a), l, b, v) ELSE Has(gs, l, b, v)
    BY <1>1, <1>2, <1>3, <1>5, ReplaceContents
  <2>2. CASE l = len
    <3>1. Slot(gs[pos], len, b, v) <=> b \in DOMAIN gs[pos].entries /\ gs[pos].entries[b] = v
      BY <1>2, <1>5 DEF Slot
    <3> QED  BY <2>1, <2>2, <3>1, <1>1, <1>2, <1>3, <1>5, Zenon DEF new
  <2>3. CASE l # len
    BY <2>1, <2>3, <1>1, <1>2, <1>5, Zenon DEF new
  <2> QED  BY <2>2, <2>3
<1>6. CASE ~HasGroup(gs, len)
  <2>1. Has(new, l, b, v) <=> Slot(Fresh(len, base, a), l, b, v) \/ Has(gs, l, b, v)
    BY <1>1, <1>6, InsertContents
  <2> QED  BY <2>1, <1>1, <1>2, <1>4, <1>6, Zenon DEF new
<1> QED  BY <1>5, <1>6

(* LpmTable::remove and Table::remove: the groups stay strictly ordered    *)
(* with no empty one, the entry named is gone, and every other entry is    *)
(* as it was.                                                              *)
THEOREM RemoveIsOneEntry ==
  ASSUME NEW gs, Good(gs), NEW len \in Nat, NEW base, NEW l, NEW b, NEW v
  PROVE  /\ Good(GroupRemove(gs, len, base))
         /\ Has(GroupRemove(gs, len, base), l, b, v) <=>
              Has(gs, l, b, v) /\ ~(l = len /\ b = base)
<1> DEFINE new == GroupRemove(gs, len, base)
           pos == Position(gs, len)
           g == Shrunk(gs, len, base)
<1>1. /\ Good(new)
      /\ ~HasGroup(gs, len) => new = gs
      /\ HasGroup(gs, len) =>
           IF DOMAIN g.entries = {} THEN RemovedAt(new, gs, pos) ELSE ReplacedAt(new, gs, pos, g)
  BY RemoveShape
<1>2. /\ HasGroup(gs, len) =>
           /\ gs[pos].len = len
           /\ Has(gs, len, b, v) <=> Slot(gs[pos], len, b, v)
      /\ ~HasGroup(gs, len) => ~Has(gs, len, b, v)
  BY OneGroup
<1>3. /\ g.len = len
      /\ DOMAIN g.entries = DOMAIN gs[pos].entries \ {base}
      /\ \A x \in DOMAIN gs[pos].entries \ {base} : g.entries[x] = gs[pos].entries[x]
  BY DEF Shrunk, Without
<1> HIDE DEF new, pos, g
<1>4. CASE ~HasGroup(gs, len)
  BY <1>1, <1>2, <1>4 DEF new
<1>5. CASE HasGroup(gs, len)
  <2>1. Has(gs, len, b, v) <=> b \in DOMAIN gs[pos].entries /\ gs[pos].entries[b] = v
    BY <1>2, <1>5, Zenon DEF Slot
  <2>2. CASE DOMAIN g.entries = {}
    <3>1. Has(new, l, b, v) <=> l # gs[pos].len /\ Has(gs, l, b, v)
      BY <2>2, <1>1, <1>5, RemoveContents
    <3>2. b \in DOMAIN gs[pos].entries => b = base
      BY <2>2, <1>3
    <3> QED  BY <3>1, <3>2, <2>1, <1>1, <1>2, <1>5, Zenon DEF new
  <2>3. CASE DOMAIN g.entries # {}
    <3>1. Has(new, l, b, v) <=>
            IF l = gs[pos].len THEN Slot(g, l, b, v) ELSE Has(gs, l, b, v)
      BY <2>3, <1>1, <1>2, <1>3, <1>5, ReplaceContents
    <3>2. Slot(g, len, b, v) <=> Has(gs, len, b, v) /\ b # base
      BY <2>1, <1>3, Zenon DEF Slot
    <3> QED  BY <3>1, <3>2, <1>1, <1>2, <1>5, Zenon DEF new
  <2> QED  BY <2>2, <2>3
<1> QED  BY <1>4, <1>5

(* LpmTable::apply on ordered groups: the answer is an entry that matches  *)
(* the address and no longer prefix has one; with no entry that matches,   *)
(* it is the default action.                                               *)
THEOREM LongestPrefixWins ==
  ASSUME NEW t, Good(t.groups), NEW addr
  PROVE  \/ /\ \A l, v : ~Has(t.groups, l, Mask(addr, l), v)
            /\ LpmApply(t, addr) = t.default_action
         \/ \E l \in Nat :
              /\ Has(t.groups, l, Mask(addr, l), LpmApply(t, addr))
              /\ \A m \in Nat : m > l => \A v : ~Has(t.groups, m, Mask(addr, m), v)
<1> DEFINE gs == t.groups
           hits == {i \in DOMAIN gs : Mask(addr, gs[i].len) \in DOMAIN gs[i].entries}
<1>1. /\ Ordered(gs) /\ Len(gs) \in Nat /\ DOMAIN gs = 1 .. Len(gs)
      /\ \A i \in 1 .. Len(gs) : gs[i].len \in Nat
  BY GoodFacts
<1>2. /\ hits = {} => LpmApply(t, addr) = t.default_action
      /\ hits # {} =>
           LpmApply(t, addr) = gs[Min(hits)].entries[Mask(addr, gs[Min(hits)].len)]
  BY DEF LpmApply
<1>3. ASSUME NEW l, NEW v, Has(gs, l, Mask(addr, l), v)
      PROVE  \E i \in hits : gs[i].len = l
  BY <1>3 DEF Has, Slot
<1>4. \A i \in hits : i \in DOMAIN gs /\ Mask(addr, gs[i].len) \in DOMAIN gs[i].entries
  OBVIOUS
<1> HIDE DEF gs, hits
<1>5. CASE hits = {}
  BY <1>2, <1>3, <1>5, Zenon DEF gs
<1>6. CASE hits # {}
  <2> DEFINE k == Min(hits)
  <2>1. hits \subseteq Nat
    BY <1>1, <1>4
  <2>2. k \in hits /\ \A i \in hits : k <= i
    BY <2>1, <1>6, MinIsLeast
  <2>3. LpmApply(t, addr) = gs[k].entries[Mask(addr, gs[k].len)]
    BY <1>2, <1>6
  <2> HIDE DEF k
  <2>4. gs[k].len \in Nat /\ Has(gs, gs[k].len, Mask(addr, gs[k].len), LpmApply(t, addr))
    BY <2>2, <2>3, <1>1, <1>4 DEF Has, Slot
  <2>5. ASSUME NEW m \in Nat, m > gs[k].len, NEW v, Has(gs, m, Mask(addr, m), v)
        PROVE  FALSE
    <3>1. PICK i \in hits : gs[i].len = m
      BY <1>3, <2>5
    <3>2. k <= i /\ k \in 1 .. Len(gs) /\ i \in 1 .. Len(gs)
      BY <2>2, <1>1, <1>4
    <3>3. i = k \/ k < i
      BY <3>2
    <3>4. k < i => gs[k].len > gs[i].len
      BY <3>2, <1>1 DEF Ordered
    <3> QED  BY <3>1, <3>3, <3>4, <2>4, <2>5
  <2> QED  BY <2>4, <2>5, Zenon DEF gs
<1> QED  BY <1>5, <1>6

---------------------------------------------------------------------------
(* The same in a running node.                                             *)

LpmGood(t) == "groups" \in DOMAIN t /\ Good(t.groups)

UbpfGood(t) ==
  /\ "entries" \in DOMAIN t
  /\ "buckets" \in DOMAIN t.entries
  /\ Good(t.entries.buckets)

LEMMA EmptyGood == Good(<<>>)
<1>1. <<>> \in Seq(Group({}))
  OBVIOUS
<1>2. Ordered(<<>>)
  BY DEF Ordered
<1> QED  BY <1>1, <1>2, Zenon DEF Good

LEMMA WidthNat == Width \in Nat
BY OctetAssumption DEF Width

(* A key that parses has a length, a natural number.                       *)
LEMMA ParsedLength ==
  ASSUME NEW program, NEW name, NEW text, text.len \in Seq(Nat),
         ParseKeyFor(program, name, text).ok
  PROVE  ParseKeyFor(program, name, text).val.len \in Nat
<1> DEFINE s == FindSchema(program, name)
           k == ParseKey(s.val.match, s.val.kind, text)
           len == IF text.len = <<>> THEN Width ELSE text.len[1]
<1>1. ParseKeyFor(program, name, text) = IF ~s.ok THEN s ELSE k
  BY DEF ParseKeyFor
<1>2. ParseKeyFor(program, name, text) = k
  BY <1>1
<1>3. k = Err("malformed") \/ \E m, v : k = Ok([match |-> m, value |-> v, len |-> len])
  BY DEF ParseKey
<1>4. len \in Nat
  <2>1. text.len # <<>> => text.len[1] \in Nat
    OBVIOUS
  <2> QED  BY <2>1, WidthNat
<1> HIDE DEF s, k, len
<1>5. k # Err("malformed")
  BY <1>2 DEF Err
<1>6. PICK m, v : k = Ok([match |-> m, value |-> v, len |-> len])
  BY <1>3, <1>5
<1>7. k.val.len = len
  BY <1>6 DEF Ok
<1> QED  BY <1>2, <1>4, <1>7

---------------------------------------------------------------------------
(* What LpmInsert and LpmRemove, UbpfInsert and UbpfRemove keep.           *)

LEMMA LpmOpsGood ==
  ASSUME NEW t, LpmGood(t), NEW prefix, prefix.len \in Nat, NEW a
  PROVE  LpmGood(LpmInsert(t, prefix, a)) /\ LpmGood(LpmRemove(t, prefix)) /\ LpmGood(LpmClear(t))
<1>1. "groups" \in DOMAIN t /\ Good(t.groups)
  BY DEF LpmGood
<1>2. Good(GroupInsert(t.groups, prefix.len, prefix.base, a))
  BY <1>1, InsertShape
<1>3. Good(GroupRemove(t.groups, prefix.len, prefix.base))
  BY <1>1, RemoveShape
<1>4. ASSUME NEW x, Good(x) PROVE LpmGood([t EXCEPT !.groups = x])
  <2>1. "groups" \in DOMAIN [t EXCEPT !.groups = x] /\ [t EXCEPT !.groups = x].groups = x
    BY <1>1
  <2> QED  BY <1>4, <2>1 DEF LpmGood
<1> QED  BY <1>2, <1>3, <1>4, EmptyGood DEF LpmInsert, LpmRemove, LpmClear

(* The one case of a native operation that changes the groups is an        *)
(* insertion or a removal under the key's length.                          *)
LEMMA NativeOpsGood ==
  ASSUME NEW t, LpmGood(t), NEW name, NEW key, NEW action, NEW vals
  PROVE  /\ key.len \in Nat =>
              /\ LpmGood(NativeAdd("l3fwd", t, name, key, action, vals).table)
              /\ LpmGood(NativeRemove("l3fwd", t, name, key).table)
         /\ LpmGood(NativeSetDefault("l3fwd", t, name, action, vals).table)
         /\ LpmGood(NativeClear("l3fwd", t, name).table)
<1>1. "l3fwd" # "l2fwd"
  OBVIOUS
<1>2. \A res, x : Result(res, x).table = x
  BY DEF Result
<1>3. ASSUME key.len \in Nat
      PROVE  /\ LpmGood(L3Add(t, key, FromCall("l3fwd", action, vals)))
             /\ LpmGood(L3Remove(t, key).table)
  <2>1. Prefix(key).len \in Nat
    BY <1>3 DEF Prefix
  <2> QED  BY <2>1, <1>2, LpmOpsGood DEF L3Add, L3Remove
<1>4. /\ NativeAdd("l3fwd", t, name, key, action, vals).table
           \in {t, L3Add(t, key, FromCall("l3fwd", action, vals))}
      /\ NativeRemove("l3fwd", t, name, key).table \in {t, L3Remove(t, key).table}
      /\ NativeSetDefault("l3fwd", t, name, action, vals).table
           \in {t, [t EXCEPT !.default_action = FromCall("l3fwd", action, vals)]}
      /\ NativeClear("l3fwd", t, name).table \in {t, LpmClear(t)}
  BY <1>1, <1>2, Zenon DEF NativeAdd, NativeRemove, NativeSetDefault, NativeClear
<1>5. LpmGood([t EXCEPT !.default_action = FromCall("l3fwd", action, vals)])
  BY DEF LpmGood
<1>6. LpmGood(LpmClear(t))
  BY EmptyGood DEF LpmGood, LpmClear
<1> QED  BY <1>3, <1>4, <1>5, <1>6, Zenon

LEMMA CanonicalLength ==
  ASSUME NEW t, NEW key, NEW image, key.len \in Nat
  PROVE  Canonical(t, image, KeyPrefix(key)).len \in Nat
BY DEF Canonical, KeyPrefix

LEMMA UbpfOpsGood ==
  ASSUME NEW t, UbpfGood(t), NEW program, NEW name, NEW key, NEW action, NEW vals
  PROVE  /\ key.len \in Nat =>
              /\ UbpfGood(UbpfAdd(program, t, name, key, action, vals).table)
              /\ UbpfGood(UbpfTableRemove(program, t, name, key).table)
         /\ UbpfGood(UbpfTableSetDefault(program, t, name, action, vals).table)
         /\ UbpfGood(UbpfTableClear(program, t, name).table)
<1> DEFINE image == KeyImage(Abi(program), key)
           prefix == KeyPrefix(key)
           value == ValueImage(Abi(program), action, vals)
           c == Canonical(t.entries, image, prefix)
           added == UbpfInsert(t.entries, image, prefix, value)
           removed == UbpfRemove(t.entries, image, prefix)
           cleared == UbpfClear(t.entries)
           default == UbpfSetDefault(t.defaults, value)
<1>1. \A res, x : Result(res, x).table = x
  BY DEF Result
<1>2. /\ UbpfAdd(program, t, name, key, action, vals).table
           \in {t, [t EXCEPT !.entries = added]}
      /\ UbpfTableRemove(program, t, name, key).table \in {t, [t EXCEPT !.entries = removed]}
      /\ UbpfTableSetDefault(program, t, name, action, vals).table
           \in {t, [t EXCEPT !.defaults = default]}
      /\ UbpfTableClear(program, t, name).table \in {t, [t EXCEPT !.entries = cleared]}
  BY <1>1, Zenon DEF UbpfAdd, UbpfTableRemove, UbpfTableSetDefault, UbpfTableClear
<1>3. /\ "entries" \in DOMAIN t /\ "buckets" \in DOMAIN t.entries
      /\ Good(t.entries.buckets)
  BY DEF UbpfGood
<1>4. key.len \in Nat => c.len \in Nat
  BY CanonicalLength
<1>5. /\ added = [t.entries EXCEPT !.buckets = GroupInsert(t.entries.buckets, c.len, c.base, value)]
      /\ removed = [t.entries EXCEPT !.buckets = GroupRemove(t.entries.buckets, c.len, c.base)]
      /\ cleared = [t.entries EXCEPT !.buckets = <<>>]
  BY DEF UbpfInsert, UbpfRemove, UbpfClear
<1> HIDE DEF image, prefix, value, c, added, removed, cleared, default
<1>6. ASSUME NEW x, Good(x)
      PROVE  UbpfGood([t EXCEPT !.entries = [t.entries EXCEPT !.buckets = x]])
  <2> DEFINE e == [t.entries EXCEPT !.buckets = x]
  <2>1. "buckets" \in DOMAIN e /\ e.buckets = x
    BY <1>3
  <2> HIDE DEF e
  <2>2. "entries" \in DOMAIN [t EXCEPT !.entries = e] /\ [t EXCEPT !.entries = e].entries = e
    BY <1>3
  <2>3. UbpfGood([t EXCEPT !.entries = e])
    BY <1>6, <2>1, <2>2 DEF UbpfGood
  <2> QED  BY <2>3 DEF e
<1>7. key.len \in Nat => Good(GroupInsert(t.entries.buckets, c.len, c.base, value))
  BY <1>3, <1>4, InsertShape
<1>8. key.len \in Nat => Good(GroupRemove(t.entries.buckets, c.len, c.base))
  BY <1>3, <1>4, RemoveShape
<1>9. UbpfGood([t EXCEPT !.defaults = default])
  <2>1. /\ "entries" \in DOMAIN [t EXCEPT !.defaults = default]
        /\ [t EXCEPT !.defaults = default].entries = t.entries
    BY <1>3
  <2> QED  BY <2>1, <1>3 DEF UbpfGood
<1>10. key.len \in Nat => UbpfGood([t EXCEPT !.entries = added])
  BY <1>5, <1>6, <1>7
<1>11. key.len \in Nat => UbpfGood([t EXCEPT !.entries = removed])
  BY <1>5, <1>6, <1>8
<1>12. UbpfGood([t EXCEPT !.entries = cleared])
  BY <1>5, <1>6, EmptyGood
<1> QED  BY <1>2, <1>9, <1>10, <1>11, <1>12

---------------------------------------------------------------------------
(* The inductive invariant: the tables are good, and a batch under way is  *)
(* one of the program's.                                                   *)

TablesGood ==
  /\ sel = [program |-> "l3fwd", backend |-> "native"] => LpmGood(table)
  /\ sel.backend = "ubpf" => UbpfGood(table)

BatchKnown ==
  batch # <<>> =>
    /\ batch = <<batch[1]>>
    /\ batch[1] = [given |-> batch[1].given, done |-> batch[1].done]
    /\ sel.program \in Programs
    /\ batch[1].given \in Batches(sel.program)
    /\ batch[1].done \in Nat

GroupsInv == TablesGood /\ BatchKnown /\ (phase # "down" => sel.program \in Programs)

(* The operations of the selected backend.                                 *)
LEMMA AddGood ==
  ASSUME TablesGood, NEW name, NEW key, key.len \in Nat, NEW action, NEW vals
  PROVE  LET x == TableAdd(name, key, action, vals).table IN
         /\ sel = [program |-> "l3fwd", backend |-> "native"] => LpmGood(x)
         /\ sel.backend = "ubpf" => UbpfGood(x)
<1>1. CASE sel = [program |-> "l3fwd", backend |-> "native"]
  <2>1. sel.backend = "native" /\ sel.program = "l3fwd"
    BY <1>1
  <2>2. LpmGood(NativeAdd("l3fwd", table, name, key, action, vals).table)
    BY <1>1, NativeOpsGood DEF TablesGood
  <2> QED  BY <2>1, <2>2 DEF TableAdd
<1>2. CASE sel.backend = "ubpf"
  <2>1. UbpfGood(UbpfAdd(sel.program, table, name, key, action, vals).table)
    BY <1>2, UbpfOpsGood DEF TablesGood
  <2> QED  BY <1>2, <2>1 DEF TableAdd
<1> QED  BY <1>1, <1>2

LEMMA RemoveGood ==
  ASSUME TablesGood, NEW name, NEW key, key.len \in Nat
  PROVE  LET x == TableRemove(name, key).table IN
         /\ sel = [program |-> "l3fwd", backend |-> "native"] => LpmGood(x)
         /\ sel.backend = "ubpf" => UbpfGood(x)
<1>1. CASE sel = [program |-> "l3fwd", backend |-> "native"]
  <2>1. sel.backend = "native" /\ sel.program = "l3fwd"
    BY <1>1
  <2>2. LpmGood(NativeRemove("l3fwd", table, name, key).table)
    BY <1>1, NativeOpsGood DEF TablesGood
  <2> QED  BY <2>1, <2>2 DEF TableRemove
<1>2. CASE sel.backend = "ubpf"
  <2>1. UbpfGood(UbpfTableRemove(sel.program, table, name, key).table)
    BY <1>2, UbpfOpsGood DEF TablesGood
  <2> QED  BY <1>2, <2>1 DEF TableRemove
<1> QED  BY <1>1, <1>2

LEMMA DefaultAndClearGood ==
  ASSUME TablesGood, NEW name, NEW action, NEW vals
  PROVE  \A x \in {TableSetDefault(name, action, vals).table, TableClear(name).table} :
           /\ sel = [program |-> "l3fwd", backend |-> "native"] => LpmGood(x)
           /\ sel.backend = "ubpf" => UbpfGood(x)
<1>1. CASE sel = [program |-> "l3fwd", backend |-> "native"]
  <2>1. sel.backend = "native" /\ sel.program = "l3fwd"
    BY <1>1
  <2>2. /\ LpmGood(NativeSetDefault("l3fwd", table, name, action, vals).table)
        /\ LpmGood(NativeClear("l3fwd", table, name).table)
    BY <1>1, NativeOpsGood DEF TablesGood
  <2>3. sel.backend # "ubpf"
    BY <2>1
  <2> QED  BY <2>1, <2>2, <2>3 DEF TableSetDefault, TableClear
<1>2. CASE sel.backend = "ubpf"
  <2>1. /\ UbpfGood(UbpfTableSetDefault(sel.program, table, name, action, vals).table)
        /\ UbpfGood(UbpfTableClear(sel.program, table, name).table)
    BY <1>2, UbpfOpsGood DEF TablesGood
  <2>2. sel # [program |-> "l3fwd", backend |-> "native"]
    BY <1>2
  <2> QED  BY <1>2, <2>1, <2>2 DEF TableSetDefault, TableClear
<1> QED  BY <1>1, <1>2

---------------------------------------------------------------------------
LEMMA GroupsInit == Init => GroupsInv
BY DEF Init, GroupsInv, TablesGood, BatchKnown, NoSel

LEMMA ExitKeeps ==
  ASSUME NEW event, Exit(event)
  PROVE  GroupsInv'
BY DEF Exit, GroupsInv, TablesGood, BatchKnown, NoSel

LEMMA StartKeeps ==
  ASSUME NEW raw \in RawConfigs, NEW backend, NEW file \in Batches(raw.pipeline),
         Start(raw, backend, file)
  PROVE  GroupsInv'
<1> DEFINE config == Validate(raw, Registry)
           s == Selection(raw.pipeline, backend)
<1>1. CASE ~config.ok \/ ~s.ok
  BY <1>1, ExitKeeps DEF Start
<1>2. CASE config.ok /\ s.ok
  <2>1. /\ phase' = "loading" /\ sel' = s.val /\ table' = Build(s.val)
        /\ batch' = <<[given |-> file, done |-> 0]>>
    BY <1>2, Zenon DEF Start
  <2>2. raw.pipeline \in Programs /\ s.val.program = raw.pipeline
    BY <1>2 DEF Selection, Ok, Err
  <2> HIDE DEF s, config
  <2>3. BatchKnown' /\ sel'.program \in Programs
    BY <2>1, <2>2 DEF BatchKnown
  <2>4. ASSUME s.val = [program |-> "l3fwd", backend |-> "native"] PROVE LpmGood(Build(s.val))
    <3>1. Build(s.val) = LpmNew(Action("drop", 0, 0))
      BY <2>4 DEF Build, NativeNew, L3New
    <3> QED  BY <3>1, EmptyGood DEF LpmNew, LpmGood
  <2>5. ASSUME s.val.backend = "ubpf" PROVE UbpfGood(Build(s.val))
    <3>1. Build(s.val) = UbpfPipelineNew(s.val.program)
      BY <2>5 DEF Build
    <3> QED  BY <3>1, EmptyGood DEF UbpfPipelineNew, UbpfNew, UbpfGood
  <2> QED  BY <2>1, <2>3, <2>4, <2>5 DEF GroupsInv, TablesGood
<1> QED  BY <1>1, <1>2

(* A step that leaves the selection and the program's batches alone and    *)
(* gives the table a good value.                                           *)
LEMMA TableStepKeeps ==
  ASSUME GroupsInv, UNCHANGED <<phase, sel>>, batch' = batch \/ batch' = <<>>,
         sel = [program |-> "l3fwd", backend |-> "native"] => LpmGood(table'),
         sel.backend = "ubpf" => UbpfGood(table')
  PROVE  GroupsInv'
BY DEF GroupsInv, TablesGood, BatchKnown

LEMMA BeginKeeps ==
  ASSUME GroupsInv, NEW entries \in Batches(sel.program), BeginAdd(entries)
  PROVE  GroupsInv'
<1>1. phase = "up" /\ UNCHANGED <<phase, sel, table>> /\ batch' = <<[given |-> entries, done |-> 0]>>
  BY DEF BeginAdd, Idle, nodeVars
<1>2. sel.program \in Programs
  BY <1>1 DEF GroupsInv
<1>3. BatchKnown'
  BY <1>1, <1>2 DEF BatchKnown
<1> QED  BY <1>1, <1>2, <1>3 DEF GroupsInv, TablesGood

LEMMA ApplyKeeps ==
  ASSUME GroupsInv, ApplyEntry
  PROVE  GroupsInv'
<1> DEFINE b == batch[1]
           spec == b.given[b.done + 1]
           r == Refined(spec)
           k == ParseKeyFor(sel.program, spec.table, spec.key)
<1>1. /\ batch # <<>> /\ b.done < Len(b.given)
      /\ table' = AddResult(spec).table
      /\ batch' = <<[b EXCEPT !.done = @ + 1]>>
      /\ UNCHANGED <<phase, sel>>
  BY DEF ApplyEntry, Pending, nodeVars
<1>2. /\ sel.program \in Programs /\ b.given \in Batches(sel.program) /\ b.done \in Nat
      /\ b = [given |-> b.given, done |-> b.done]
  BY <1>1 DEF GroupsInv, BatchKnown
<1>3. spec.key.len \in Seq(Nat)
  <2>1. b.given \in Seq(Range(b.given)) /\ \A e \in Range(b.given) : e.key.len \in Seq(Nat)
    BY <1>2, TextAssumption
  <2>2. spec \in Range(b.given)
    BY <1>1, <1>2, <2>1
  <2> QED  BY <2>1, <2>2
<1>4. /\ ~r.ok => AddResult(spec).table = table
      /\ r.ok => AddResult(spec).table =
                  TableAdd(spec.table, r.val.key, spec.action, r.val.vals).table
  BY DEF AddResult, Result
<1>5. r.ok => k.ok /\ r.val.key = k.val
  BY DEF Refined, Ok
<1> HIDE DEF r, k, spec
<1>6. k.ok => k.val.len \in Nat
  BY <1>3, ParsedLength DEF k
<1>7. /\ sel = [program |-> "l3fwd", backend |-> "native"] => LpmGood(table')
      /\ sel.backend = "ubpf" => UbpfGood(table')
  <2>1. TablesGood
    BY DEF GroupsInv
  <2>2. CASE ~r.ok
    BY <2>1, <2>2, <1>1, <1>4 DEF TablesGood
  <2>3. CASE r.ok
    BY <2>1, <2>3, <1>1, <1>4, <1>5, <1>6, AddGood
  <2> QED  BY <2>2, <2>3
<1>8. BatchKnown'
  <2>1. /\ [b EXCEPT !.done = @ + 1] = [given |-> b.given, done |-> b.done + 1]
        /\ b.done + 1 \in Nat
    BY <1>2
  <2> QED  BY <2>1, <1>1, <1>2 DEF BatchKnown
<1> QED  BY <1>1, <1>2, <1>7, <1>8 DEF GroupsInv, TablesGood

LEMMA RefuseKeeps ==
  ASSUME GroupsInv, RefuseEntry
  PROVE  GroupsInv'
<1>1. CASE \E event : Exit(event)
  BY <1>1, ExitKeeps
<1>2. CASE batch' = <<>> /\ UNCHANGED <<phase, sel, table>>
  BY <1>2 DEF GroupsInv, TablesGood, BatchKnown
<1> QED  BY <1>1, <1>2 DEF RefuseEntry, nodeVars

LEMMA FinishKeeps ==
  ASSUME GroupsInv, FinishBatch
  PROVE  GroupsInv'
BY DEF FinishBatch, GroupsInv, TablesGood, BatchKnown

LEMMA DelKeeps ==
  ASSUME GroupsInv, NEW name, NEW text \in KeyTexts(sel.program), TableDel(name, text)
  PROVE  GroupsInv'
<1> DEFINE k == ParseKeyFor(sel.program, name, text)
<1>1. /\ phase = "up" /\ UNCHANGED <<phase, sel, batch>>
      /\ ~k.ok => table' = table
      /\ k.ok => table' = TableRemove(name, k.val).table
  BY DEF TableDel, Idle, nodeVars, Result
<1>2. text.len \in Seq(Nat)
  BY <1>1, TextAssumption DEF GroupsInv
<1>3. k.ok => k.val.len \in Nat
  BY <1>2, ParsedLength
<1> HIDE DEF k
<1>4. TablesGood
  BY DEF GroupsInv
<1>5. /\ sel = [program |-> "l3fwd", backend |-> "native"] => LpmGood(table')
      /\ sel.backend = "ubpf" => UbpfGood(table')
  <2>1. CASE ~k.ok
    BY <2>1, <1>1, <1>4 DEF TablesGood
  <2>2. CASE k.ok
    BY <2>2, <1>1, <1>3, <1>4, RemoveGood
  <2> QED  BY <2>1, <2>2
<1> QED  BY <1>1, <1>5, TableStepKeeps

LEMMA SetDefaultKeeps ==
  ASSUME GroupsInv, NEW name, NEW call, SetDefault(name, call)
  PROVE  GroupsInv'
<1>1. PICK vals : /\ UNCHANGED <<phase, sel, batch>>
                  /\ \/ table' = table
                     \/ table' = TableSetDefault(name, call.action, vals).table
  BY DEF SetDefault, nodeVars, Result
<1>2. TablesGood
  BY DEF GroupsInv
<1>3. /\ sel = [program |-> "l3fwd", backend |-> "native"] => LpmGood(table')
      /\ sel.backend = "ubpf" => UbpfGood(table')
  <2>1. CASE table' = table
    BY <2>1, <1>2 DEF TablesGood
  <2>2. CASE table' = TableSetDefault(name, call.action, vals).table
    BY <2>2, <1>2, DefaultAndClearGood
  <2> QED  BY <1>1, <2>1, <2>2
<1> QED  BY <1>1, <1>3, TableStepKeeps

LEMMA ClearKeeps ==
  ASSUME GroupsInv, NEW name, Clear(name)
  PROVE  GroupsInv'
<1>1. UNCHANGED <<phase, sel, batch>> /\ table' = TableClear(name).table
  BY DEF Clear, nodeVars
<1>2. TablesGood
  BY DEF GroupsInv
<1>3. /\ sel = [program |-> "l3fwd", backend |-> "native"] => LpmGood(table')
      /\ sel.backend = "ubpf" => UbpfGood(table')
  BY <1>1, <1>2, DefaultAndClearGood
<1> QED  BY <1>1, <1>3, TableStepKeeps

LEMMA QuietKeeps ==
  ASSUME GroupsInv, UNCHANGED <<phase, sel, table, batch>>
  PROVE  GroupsInv'
BY DEF GroupsInv, TablesGood, BatchKnown

LEMMA GroupsStep == GroupsInv /\ [Next]_vars => GroupsInv'
<1> SUFFICES ASSUME GroupsInv, [Next]_vars PROVE GroupsInv'
  OBVIOUS
<1>1. CASE \E raw \in RawConfigs, b \in CliBackends :
             \E file \in Batches(raw.pipeline) : Start(raw, b, file)
  BY <1>1, StartKeeps
<1>2. CASE Stop
  BY <1>2, ExitKeeps DEF Stop
<1>3. CASE Request
  <2>1. CASE \E entries \in Batches(sel.program) : BeginAdd(entries)
    BY <2>1, BeginKeeps
  <2>2. CASE \E name \in TableNames, text \in KeyTexts(sel.program) : TableDel(name, text)
    BY <2>2, DelKeeps
  <2>3. CASE \E name \in TableNames, call \in DefaultCalls(sel.program) : SetDefault(name, call)
    BY <2>3, SetDefaultKeeps
  <2>4. ASSUME NEW name, Clear(name) PROVE GroupsInv'
    BY <2>4, ClearKeeps
  <2>5. ASSUME NEW name, Dump(name) PROVE GroupsInv'
    BY <2>5, QuietKeeps DEF Dump, nodeVars
  <2> QED  BY <1>3, <2>1, <2>2, <2>3, <2>4, <2>5 DEF Request
<1>4. CASE ApplyEntry
  BY <1>4, ApplyKeeps
<1>5. CASE RefuseEntry
  BY <1>5, RefuseKeeps
<1>6. CASE FinishBatch
  BY <1>6, FinishKeeps
<1>7. ASSUME NEW f, Receive(f) PROVE GroupsInv'
  BY <1>7, QuietKeeps DEF Receive, nodeVars
<1>8. CASE UNCHANGED vars
  BY <1>8, QuietKeeps DEF vars
<1> QED  BY <1>1, <1>2, <1>3, <1>4, <1>5, <1>6, <1>7, <1>8 DEF Next

(* The groups of a native l3fwd node and of a ubpf node are strictly       *)
(* ordered, none of them empty, in every state: LpmTable's documented      *)
(* invariant, kept through batches, deletions, clears and restarts.        *)
THEOREM GroupsOrderedHolds == Spec => []GroupsOrdered
<1>1. GroupsInv => GroupsOrdered
  BY DEF GroupsInv, TablesGood, LpmGood, UbpfGood, Good, GroupsOrdered
<1> QED  BY GroupsInit, GroupsStep, <1>1, PTL DEF Spec

(* What a lookup on a native l3fwd node returns: an entry whose prefix     *)
(* matches, none longer matching, or the default when none matches.        *)
Longest(t, addr) ==
  \/ /\ \A l, v : ~Has(t.groups, l, Mask(addr, l), v)
     /\ LpmApply(t, addr) = t.default_action
  \/ \E l \in Nat :
       /\ Has(t.groups, l, Mask(addr, l), LpmApply(t, addr))
       /\ \A m \in Nat : m > l => \A v : ~Has(t.groups, m, Mask(addr, m), v)

LongestMatch ==
  sel = [program |-> "l3fwd", backend |-> "native"] =>
    \A addr \in Num : Longest(table, addr)

(* In every state of a native l3fwd node, in the middle of a batch too,    *)
(* LpmTable::apply answers every address with its longest prefix.          *)
THEOREM LongestMatchHolds == Spec => []LongestMatch
<1>1. GroupsInv => LongestMatch
  <2>1. ASSUME NEW addr, LpmGood(table) PROVE Longest(table, addr)
    <3>1. Good(table.groups)
      BY <2>1 DEF LpmGood
    <3> QED  BY <3>1, LongestPrefixWins, Zenon DEF Longest
  <2> QED  BY <2>1 DEF GroupsInv, TablesGood, LongestMatch
<1> QED  BY GroupsInit, GroupsStep, <1>1, PTL DEF Spec

LEMMA PowCount ==
  ASSUME NEW n \in Nat
  PROVE  IsFiniteSet(SUBSET (1 .. n)) /\ Cardinality(SUBSET (1 .. n)) = 2 ^ n
<1>1. IsFiniteSet(1 .. n) /\ Cardinality(1 .. n) = n
  <2>1. 1 \in Int /\ n \in Int
    OBVIOUS
  <2>2. IsFiniteSet(1 .. n) /\ Cardinality(1 .. n) = IF 1 > n THEN 0 ELSE n - 1 + 1
    BY <2>1, FS_Interval, Zenon
  <2>3. CASE n = 0
    BY <2>2, <2>3
  <2>4. CASE n # 0
    BY <2>2, <2>4
  <2> QED  BY <2>3, <2>4
<1> QED  BY <1>1, FS_SUBSET

LEMMA PowNat ==
  ASSUME NEW n \in Nat
  PROVE  2 ^ n \in Nat /\ 2 ^ n > 0
<1> DEFINE P == SUBSET (1 .. n)
<1>2. IsFiniteSet(P) /\ Cardinality(P) = 2 ^ n
  BY PowCount
<1>3. {} \in P
  OBVIOUS
<1> HIDE DEF P
<1>4. P # {}
  BY <1>3, Zenon
<1>5. Cardinality(P) \in Nat /\ Cardinality(P) # 0
  BY <1>2, <1>4, FS_CardinalityType, FS_EmptySet, Zenon
<1>6. 2 ^ n \in Nat /\ 2 ^ n # 0
  BY <1>2, <1>5, Zenon
<1> QED  BY <1>6

LEMMA PowSucc ==
  ASSUME NEW n \in Nat
  PROVE  2 ^ (n + 1) = 2 * 2 ^ n
<1> DEFINE A == SUBSET (1 .. n)
           B == {x \cup {n + 1} : x \in A}
           f == [x \in A |-> x \cup {n + 1}]
<1>1. IsFiniteSet(A) /\ Cardinality(A) = 2 ^ n
  BY PowCount
<1>2. Cardinality(SUBSET (1 .. n + 1)) = 2 ^ (n + 1)
  <2>1. n + 1 \in Nat
    OBVIOUS
  <2> QED  BY <2>1, PowCount, Zenon
<1>3. f \in Bijection(A, B)
  <2>1. f \in [A -> B]
    OBVIOUS
  <2>2. ASSUME NEW x \in A, NEW y \in A, f[x] = f[y] PROVE x = y
    <3>1. x \cup {n + 1} = y \cup {n + 1}
      BY <2>2
    <3>2. n + 1 \notin x /\ n + 1 \notin y
      OBVIOUS
    <3> QED  BY <3>1, <3>2
  <2>3. ASSUME NEW z \in B PROVE \E x \in A : f[x] = z
    OBVIOUS
  <2> HIDE DEF A, B, f
  <2> QED  BY <2>1, <2>2, <2>3 DEF Bijection, Injection, Surjection, IsInjective
<1>4. SUBSET (1 .. n + 1) = A \cup B
  <2>1. ASSUME NEW z \in SUBSET (1 .. n + 1) PROVE z \in A \cup B
    <3>1. CASE n + 1 \in z
      <4>1. z \ {n + 1} \in A
        OBVIOUS
      <4>2. z = (z \ {n + 1}) \cup {n + 1}
        BY <3>1
      <4> HIDE DEF A
      <4> QED  BY <4>1, <4>2
    <3>2. CASE n + 1 \notin z
      <4>1. \A i \in z : i \in 1 .. n
        BY <3>2
      <4> QED  BY <4>1
    <3> QED  BY <3>1, <3>2
  <2>2. ASSUME NEW z \in A PROVE z \in SUBSET (1 .. n + 1)
    OBVIOUS
  <2>3. ASSUME NEW x \in A PROVE x \cup {n + 1} \in SUBSET (1 .. n + 1)
    <3>1. \A i \in x \cup {n + 1} : i \in 1 .. n + 1
      OBVIOUS
    <3> QED  BY <3>1
  <2>4. ASSUME NEW z \in B PROVE z \in SUBSET (1 .. n + 1)
    <3>1. PICK x \in A : z = x \cup {n + 1}
      OBVIOUS
    <3> HIDE DEF A, B
    <3> QED  BY <3>1, <2>3, Zenon
  <2> HIDE DEF A, B
  <2>5. \A z : z \in SUBSET (1 .. n + 1) <=> z \in A \cup B
    BY <2>1, <2>2, <2>4, Zenon
  <2> QED  BY <2>5, Zenon
<1>5. A \cap B = {}
  <2>1. \A x \in A : n + 1 \notin x
    OBVIOUS
  <2>2. \A x \in B : n + 1 \in x
    OBVIOUS
  <2> HIDE DEF A, B
  <2> QED  BY <2>1, <2>2
<1> HIDE DEF A, B, f
<1>6. IsFiniteSet(B) /\ Cardinality(B) = Cardinality(A)
  BY <1>1, <1>3, FS_Bijection DEF ExistsBijection
<1>7. Cardinality(A \cup B) = Cardinality(A) + Cardinality(B) - Cardinality({})
  <2>1. Cardinality(A \cup B) = Cardinality(A) + Cardinality(B) - Cardinality(A \cap B)
    BY <1>1, <1>6, FS_Union, Zenon
  <2> QED  BY <2>1, <1>5, Zenon
<1>8. Cardinality({}) = 0
  BY FS_EmptySet
<1>9. PICK p \in Nat : p = 2 ^ n
  BY PowNat
<1>10. 2 ^ (n + 1) = p + p - 0
  BY <1>1, <1>2, <1>4, <1>6, <1>7, <1>8, <1>9, Zenon
<1>11. 2 ^ (n + 1) = 2 * p
  BY <1>10
<1> QED  BY <1>9, <1>11, Zenon

LEMMA PowAdd ==
  ASSUME NEW a \in Nat, NEW b \in Nat
  PROVE  2 ^ (a + b) = 2 ^ a * 2 ^ b
<1> DEFINE Bad == {m \in Nat : 2 ^ (a + m) # 2 ^ a * 2 ^ m}
<1> SUFFICES ASSUME Bad # {} PROVE FALSE
  OBVIOUS
<1>1. PICK m \in Bad : \A y \in Bad : m <= y
  <2>1. Bad \subseteq Nat
    OBVIOUS
  <2> HIDE DEF Bad
  <2> QED  BY <2>1, LeastNat
<1>2. m \in Nat /\ 2 ^ (a + m) # 2 ^ a * 2 ^ m
  OBVIOUS
<1>3. PICK p \in Nat : p = 2 ^ a
  BY PowNat
<1>4. CASE m = 0
  <2>1. a + m = a /\ 2 ^ 0 = 1
    BY <1>4
  <2>2. 2 ^ (a + m) = p /\ 2 ^ m = 1
    BY <2>1, <1>3, <1>4, Zenon
  <2>3. p = p * 1
    OBVIOUS
  <2> QED  BY <1>2, <1>3, <2>2, <2>3, Zenon
<1>5. CASE m # 0
  <2>1. m - 1 \in Nat /\ m - 1 \notin Bad
    BY <1>1, <1>2, <1>5
  <2> DEFINE k == m - 1
  <2>2. k \in Nat /\ 2 ^ (a + k) = 2 ^ a * 2 ^ k
    BY <2>1
  <2>3. m = k + 1 /\ a + m = (a + k) + 1 /\ a + k \in Nat
    BY <1>2, <2>1
  <2> HIDE DEF k
  <2>4. 2 ^ m = 2 * 2 ^ k /\ 2 ^ (a + m) = 2 * 2 ^ (a + k)
    BY <2>2, <2>3, PowSucc
  <2>5. PICK q \in Nat : q = 2 ^ k
    BY <2>2, PowNat
  <2>6. 2 * (p * q) = p * (2 * q)
    OBVIOUS
  <2>7. 2 ^ (a + m) = 2 * (p * q) /\ 2 ^ m = 2 * q
    BY <2>2, <2>4, <2>5, <1>3, Zenon
  <2> QED  BY <1>2, <1>3, <2>6, <2>7, Zenon
<1> QED  BY <1>4, <1>5

LEMMA MaxIsGreatest ==
  ASSUME NEW T, T \subseteq Nat, T # {}, NEW n \in Nat, \A y \in T : y <= n
  PROVE  Max(T) \in T /\ \A y \in T : Max(T) >= y
<1> DEFINE U == {m \in Nat : \A y \in T : y <= m}
<1>1. U \subseteq Nat /\ U # {}
  OBVIOUS
<1>2. PICK m \in U : \A y \in U : m <= y
  <2> HIDE DEF U
  <2> QED  BY <1>1, LeastNat
<1>3. m \in Nat /\ \A y \in T : y <= m
  OBVIOUS
<1>4. m \in T
  <2> SUFFICES ASSUME m \notin T PROVE FALSE
    OBVIOUS
  <2>1. \A y \in T : y <= m - 1
    BY <1>3
  <2>2. PICK y \in T : TRUE
    OBVIOUS
  <2>3. m - 1 \in Nat
    BY <2>1, <2>2, <1>3
  <2> QED  BY <1>2, <1>3, <2>1, <2>3
<1>5. \E x \in T : \A y \in T : x >= y
  BY <1>3, <1>4
<1> QED  BY <1>5 DEF Max

LEMMA PowWidth == 2 ^ Width \in Nat /\ 2 ^ Width > 0
BY WidthNat, PowNat

LEMMA LegalIdIs ==
  ASSUME NEW n \in Int
  PROVE  LegalVportId(n) <=> n \in 0 .. 2 ^ Width - 2
<1>1. PICK p \in Nat : p = 2 ^ Width /\ p > 0
  BY PowWidth
<1>2. n \in 0 .. p - 1 /\ n # p - 1 <=> n \in 0 .. p - 2
  OBVIOUS
<1> QED  BY <1>1, <1>2, Zenon DEF LegalVportId, Num, PUNT_VPORT

LEMMA SeqElement ==
  ASSUME NEW S, NEW s \in Seq(S), NEW i \in DOMAIN s
  PROVE  s[i] \in S
OBVIOUS

(* The rules of the node's own fields.                                     *)
NodeObeys(raw) ==
  /\ raw.bind \in Addrs /\ raw.fabric \in {"ipv4", "ipv6"} /\ raw.threads \in 1 .. 16
  /\ raw.id # "" /\ raw.ctl_socket # "" /\ raw.pipeline \in Programs
  /\ raw.pin_cores # <<>> =>
       /\ Len(raw.pin_cores[1]) = raw.threads
       /\ \A i \in DOMAIN raw.pin_cores[1] : raw.pin_cores[1][i] >= 0
  /\ raw.vports # <<>>
  /\ raw.punt \in {<<>>, <<2 ^ Width - 1>>}

LEMMA NodeVerdict ==
  ASSUME NEW raw \in RawConfigs
  PROVE  NodeViolations(raw, Registry) = {} <=> NodeObeys(raw)
<1> DEFINE pins == IF raw.pin_cores = <<>> THEN <<>> ELSE raw.pin_cores[1]
           c1 == raw.bind \notin Addrs
           c2 == ~FabricParses(raw.fabric)
           c3 == ~LegalThreads(raw.threads)
           c4 == raw.id = ""
           c5 == raw.ctl_socket = ""
           c6 == raw.pipeline \notin Registry
           c7 == /\ raw.pin_cores # <<>>
                 /\ LegalThreads(raw.threads)
                 /\ Len(pins) # raw.threads
           c8 == \E i \in DOMAIN pins : pins[i] < 0
           c9 == raw.vports = <<>>
           c10 == raw.punt # <<>> /\ raw.punt # <<PUNT_VPORT>>
<1>1. NodeViolations(raw, Registry) =
        UNION {If(c1, Node("bind")), If(c2, Node("fabric")), If(c3, Node("threads")),
               If(c4, Node("empty_id")), If(c5, Node("empty_ctl_socket")),
               If(c6, Node("unknown_pipeline")), If(c7, Node("pin_cores_arity")),
               If(c8, Node("negative_core")), If(c9, Node("no_vports")),
               If(c10, Node("punt_vport"))}
  BY DEF NodeViolations
<1>2. NodeObeys(raw) <=> ~c1 /\ ~c2 /\ ~c3 /\ ~c4 /\ ~c5 /\ ~c6 /\ ~c7 /\ ~c8 /\ ~c9 /\ ~c10
  <2>1. /\ c1 <=> raw.bind \notin Addrs
        /\ c2 <=> raw.fabric \notin {"ipv4", "ipv6"}
        /\ c3 <=> raw.threads \notin 1 .. 16
        /\ c6 <=> raw.pipeline \notin Programs
        /\ c9 <=> raw.vports = <<>>
        /\ c10 <=> raw.punt \notin {<<>>, <<2 ^ Width - 1>>}
    BY DEF FabricParses, LegalThreads, MaxThreads, Registry, PUNT_VPORT
  <2>2. ~c3 => (c7 <=> raw.pin_cores # <<>> /\ Len(raw.pin_cores[1]) # raw.threads)
    OBVIOUS
  <2>3. ~c8 <=> (raw.pin_cores # <<>> =>
                   \A i \in DOMAIN raw.pin_cores[1] : raw.pin_cores[1][i] >= 0)
    <3>1. CASE raw.pin_cores = <<>>
      BY <3>1
    <3>2. CASE raw.pin_cores # <<>>
      <4>1. pins = raw.pin_cores[1] /\ raw.pin_cores[1] \in Seq(Int)
        BY <3>2, RawAssumption
      <4>2. \A i \in DOMAIN raw.pin_cores[1] : raw.pin_cores[1][i] \in Int
        BY <4>1
      <4>3. \A x \in Int : ~(x < 0) <=> x >= 0
        OBVIOUS
      <4> QED  BY <3>2, <4>1, <4>2, <4>3
    <3> QED  BY <3>1, <3>2
  <2> HIDE DEF c1, c2, c3, c6, c7, c8, c9, c10
  <2> QED  BY <2>1, <2>2, <2>3, Zenon DEF NodeObeys
<1> HIDE DEF c1, c2, c3, c4, c5, c6, c7, c8, c9, c10
<1>3. NodeViolations(raw, Registry) = {} <=>
        ~c1 /\ ~c2 /\ ~c3 /\ ~c4 /\ ~c5 /\ ~c6 /\ ~c7 /\ ~c8 /\ ~c9 /\ ~c10
  BY <1>1, Zenon DEF If
<1> QED  BY <1>2, <1>3

LEMMA VportVerdict ==
  ASSUME NEW raw \in RawConfigs, NEW i \in DOMAIN raw.vports
  PROVE  /\ raw.bind \in Addrs =>
              (VportViolations(raw, i) = {} <=>
                 /\ raw.vports[i].id \in 0 .. 2 ^ Width - 2
                 /\ raw.vports[i].peer \in Addrs \ {raw.bind})
         /\ raw.vports[i].id \notin 0 .. 2 ^ Width - 2 =>
              Violation("vport_id", i) \in VportViolations(raw, i)
         /\ raw.vports[i].peer \notin Addrs => Violation("peer", i) \in VportViolations(raw, i)
<1> DEFINE v == raw.vports[i]
           d1 == ~LegalVportId(v.id)
           d2 == v.peer \notin Addrs
           d3 == /\ Refines(v) /\ raw.bind \in Addrs
                 /\ v.peer = raw.bind
<1>1. VportViolations(raw, i) =
        UNION {If(d1, Violation("vport_id", i)), If(d2, Violation("peer", i)),
               If(d3, Violation("peer_is_self", i))}
  BY DEF VportViolations
<1>2. v.id \in Int
  <2>1. raw.vports \in Seq([id : Int, peer : STRING])
    BY RawAssumption
  <2>2. v \in [id : Int, peer : STRING]
    BY <2>1, SeqElement
  <2> QED  BY <2>2
<1>3. d1 <=> v.id \notin 0 .. 2 ^ Width - 2
  BY <1>2, LegalIdIs
<1>4. d3 <=> ~d1 /\ ~d2 /\ raw.bind \in Addrs /\ v.peer = raw.bind
  BY DEF Refines
<1>5. d2 <=> v.peer \notin Addrs
  OBVIOUS
<1> HIDE DEF d1, d2, d3, v
<1>6. /\ VportViolations(raw, i) = {} <=> ~d1 /\ ~d2 /\ ~d3
      /\ d1 => Violation("vport_id", i) \in VportViolations(raw, i)
      /\ d2 => Violation("peer", i) \in VportViolations(raw, i)
  BY <1>1, Zenon DEF If
<1>7. /\ raw.bind \in Addrs =>
           (VportViolations(raw, i) = {} <=>
              v.id \in 0 .. 2 ^ Width - 2 /\ v.peer \in Addrs \ {raw.bind})
      /\ v.id \notin 0 .. 2 ^ Width - 2 => Violation("vport_id", i) \in VportViolations(raw, i)
      /\ v.peer \notin Addrs => Violation("peer", i) \in VportViolations(raw, i)
  BY <1>3, <1>4, <1>5, <1>6, Zenon
<1> QED  BY <1>7, Zenon DEF v

LEMMA DuplicateVerdict ==
  ASSUME NEW raw \in RawConfigs, \A i \in DOMAIN raw.vports : Refines(raw.vports[i])
  PROVE  Duplicates(raw) = {} <=>
           \A i, j \in DOMAIN raw.vports :
             i # j => raw.vports[i].id # raw.vports[j].id /\ raw.vports[i].peer # raw.vports[j].peer
<1> DEFINE vs == raw.vports
           same(i, j) == vs[j].id = vs[i].id \/ vs[j].peer = vs[i].peer
           one(i) == If(\E j \in 1 .. i - 1 : vs[j].id = vs[i].id,
                        Violation("duplicate_vport_id", i))
                       \cup If(\E j \in 1 .. i - 1 : vs[j].peer = vs[i].peer,
                               Violation("duplicate_peer", i))
<1>1. Duplicates(raw) = UNION {one(i) : i \in DOMAIN vs}
  BY Zenon DEF Duplicates
<1>2. DOMAIN vs = 1 .. Len(vs) /\ Len(vs) \in Nat
  BY RawAssumption
<1>3. \A i \in DOMAIN vs : one(i) = {} <=> \A j \in 1 .. i - 1 : ~same(i, j)
  BY Zenon DEF If
<1>4. \A i, j : same(i, j) <=> same(j, i)
  OBVIOUS
<1>5. \A i, j : ~same(i, j) <=> vs[i].id # vs[j].id /\ vs[i].peer # vs[j].peer
  OBVIOUS
<1> HIDE DEF vs, one, same
<1>6. Duplicates(raw) = {} <=> \A i \in DOMAIN vs : one(i) = {}
  <2>1. ASSUME NEW i \in DOMAIN vs, Duplicates(raw) = {}, NEW x \in one(i) PROVE FALSE
    <3>1. one(i) \in {one(j) : j \in DOMAIN vs}
      BY Zenon
    <3>2. x \in Duplicates(raw)
      BY <1>1, <2>1, <3>1, Zenon
    <3> QED  BY <2>1, <3>2, Zenon
  <2>2. ASSUME \A i \in DOMAIN vs : one(i) = {}, NEW x \in Duplicates(raw) PROVE FALSE
    <3>1. PICK y \in {one(j) : j \in DOMAIN vs} : x \in y
      BY <1>1, <2>2, Zenon
    <3> QED  BY <2>2, <3>1, Zenon
  <2>3. Duplicates(raw) = {} => \A i \in DOMAIN vs : one(i) = {}
    BY <2>1
  <2>4. (\A i \in DOMAIN vs : one(i) = {}) => Duplicates(raw) = {}
    BY <2>2
  <2> QED  BY <2>3, <2>4, Zenon
<1>7. (\A i \in DOMAIN vs : \A j \in 1 .. i - 1 : ~same(i, j))
        <=> \A i, j \in DOMAIN vs : i # j => ~same(i, j)
  <2>1. ASSUME \A i \in DOMAIN vs : \A j \in 1 .. i - 1 : ~same(i, j),
               NEW i \in DOMAIN vs, NEW j \in DOMAIN vs, i # j
        PROVE  ~same(i, j)
    <3>1. i \in 1 .. j - 1 \/ j \in 1 .. i - 1
      BY <2>1, <1>2
    <3> QED  BY <3>1, <2>1, <1>4, Zenon
  <2>2. ASSUME \A i, j \in DOMAIN vs : i # j => ~same(i, j),
               NEW i \in DOMAIN vs, NEW j \in 1 .. i - 1
        PROVE  ~same(i, j)
    <3>1. j \in DOMAIN vs /\ i # j
      BY <1>2
    <3> QED  BY <3>1, <2>2, Zenon
  <2> QED  BY <2>1, <2>2, Zenon
<1>8. Duplicates(raw) = {} <=>
        \A i, j \in DOMAIN vs : i # j => vs[i].id # vs[j].id /\ vs[i].peer # vs[j].peer
  BY <1>3, <1>5, <1>6, <1>7, Zenon
<1> QED  BY <1>8, Zenon DEF vs

(* The violations Validate collects.                                       *)
ByVport(raw) == UNION {VportViolations(raw, i) : i \in DOMAIN raw.vports}

Violations(raw) == NodeViolations(raw, Registry) \cup ByVport(raw) \cup Duplicates(raw)

LEMMA ValidateIs ==
  ASSUME NEW raw
  PROVE  /\ Validate(raw, Registry).ok <=> Violations(raw) = {}
         /\ Violations(raw) # {} => Validate(raw, Registry).err = Violations(raw)
         /\ Violations(raw) = {} =>
              Validate(raw, Registry).val.vports = VportTable(raw.vports)
<1>1. Validate(raw, Registry) =
        IF Violations(raw) # {} THEN Err(Violations(raw))
        ELSE Ok([pipeline |-> raw.pipeline, vports |-> VportTable(raw.vports)])
  BY Zenon DEF Validate, Violations, ByVport
<1> QED  BY <1>1 DEF Ok, Err

LEMMA ObeysIs ==
  ASSUME NEW raw \in RawConfigs
  PROVE  Violations(raw) = {} <=> Obeys(raw)
<1> DEFINE vs == raw.vports
           Legal(i) == vs[i].id \in 0 .. 2 ^ Width - 2 /\ vs[i].peer \in Addrs \ {raw.bind}
           Apart(i, j) == i # j => vs[i].id # vs[j].id /\ vs[i].peer # vs[j].peer
           each(i) == VportViolations(raw, i)
<1>1. Obeys(raw) <=> /\ NodeObeys(raw)
                     /\ \A i \in DOMAIN vs : Legal(i)
                     /\ \A i, j \in DOMAIN vs : Apart(i, j)
  BY Zenon DEF Obeys, NodeObeys
<1>2. NodeObeys(raw) => raw.bind \in Addrs
  BY DEF NodeObeys
<1>3. raw.bind \in Addrs => \A i \in DOMAIN vs : each(i) = {} <=> Legal(i)
  BY VportVerdict, Zenon
<1>4. ASSUME NEW i \in DOMAIN vs, Legal(i) PROVE Refines(vs[i])
  <2>1. vs[i].id \in Int
    <3>1. PICK p \in Nat : p = 2 ^ Width
      BY PowWidth
    <3>2. vs[i].id \in 0 .. p - 2
      BY <1>4, <3>1
    <3> QED  BY <3>2
  <2> QED  BY <1>4, <2>1, LegalIdIs, Zenon DEF Refines
<1>5. (\A i \in DOMAIN vs : Legal(i)) =>
        (Duplicates(raw) = {} <=> \A i, j \in DOMAIN vs : Apart(i, j))
  BY <1>4, DuplicateVerdict, Zenon
<1>6. ByVport(raw) = {} <=> \A i \in DOMAIN vs : each(i) = {}
  <2>1. ByVport(raw) = UNION {each(i) : i \in DOMAIN vs}
    BY DEF ByVport
  <2>2. ASSUME NEW i \in DOMAIN vs, NEW x \in each(i) PROVE x \in ByVport(raw)
    BY <2>1
  <2>3. ASSUME NEW x \in ByVport(raw) PROVE \E i \in DOMAIN vs : x \in each(i)
    BY <2>1, Zenon
  <2> HIDE DEF vs, each
  <2> QED  BY <2>2, <2>3
<1>8. Violations(raw) = {} <=> /\ NodeViolations(raw, Registry) = {}
                               /\ ByVport(raw) = {}
                               /\ Duplicates(raw) = {}
  BY Zenon DEF Violations
<1> HIDE DEF each, Legal, Apart, vs
<1> QED  BY <1>1, <1>2, <1>3, <1>5, <1>6, <1>8, NodeVerdict, Zenon

LEMMA RejectionNames ==
  ASSUME NEW raw \in RawConfigs
  PROVE  /\ {x.e : x \in Violations(raw)} \subseteq ConfigErrors
         /\ \A i \in DOMAIN raw.vports :
              LET v == raw.vports[i] IN
              /\ v.id \notin 0 .. 2 ^ Width - 2 => Violation("vport_id", i) \in Violations(raw)
              /\ v.peer \notin Addrs => Violation("peer", i) \in Violations(raw)
<1>1. \A e, i : Violation(e, i).e = e /\ Node(e).e = e
  BY DEF Violation, Node
<1>2. ASSUME NEW x \in NodeViolations(raw, Registry) PROVE x.e \in ConfigErrors
  <2>1. \/ x = Node("bind") \/ x = Node("fabric") \/ x = Node("threads")
        \/ x = Node("empty_id") \/ x = Node("empty_ctl_socket")
        \/ x = Node("unknown_pipeline") \/ x = Node("pin_cores_arity")
        \/ x = Node("negative_core") \/ x = Node("no_vports") \/ x = Node("punt_vport")
    BY <1>2, Zenon DEF NodeViolations, If
  <2> QED  BY <2>1, <1>1 DEF ConfigErrors
<1>3. ASSUME NEW i \in DOMAIN raw.vports, NEW x \in VportViolations(raw, i)
      PROVE  x.e \in ConfigErrors
  <2>1. x \in {Violation("vport_id", i), Violation("peer", i), Violation("peer_is_self", i)}
    BY <1>3, SMT DEF VportViolations, If
  <2>2. x.e \in {"vport_id", "peer", "peer_is_self"}
    BY <2>1, <1>1
  <2> QED  BY <2>2 DEF ConfigErrors
<1>4. ASSUME NEW x \in Duplicates(raw) PROVE x.e \in ConfigErrors
  <2>1. PICK i : x \in {Violation("duplicate_vport_id", i), Violation("duplicate_peer", i)}
    BY <1>4, Zenon DEF Duplicates, If
  <2>2. x.e \in {"duplicate_vport_id", "duplicate_peer"}
    BY <2>1, <1>1
  <2> QED  BY <2>2 DEF ConfigErrors
<1>5. ASSUME NEW x \in Violations(raw) PROVE x.e \in ConfigErrors
  <2>1. CASE x \in ByVport(raw)
    <3>1. PICK i \in DOMAIN raw.vports : x \in VportViolations(raw, i)
      BY <2>1, Zenon DEF ByVport
    <3> QED  BY <3>1, <1>3
  <2>2. x \in NodeViolations(raw, Registry) \/ x \in ByVport(raw) \/ x \in Duplicates(raw)
    BY <1>5, Zenon DEF Violations
  <2> QED  BY <1>2, <1>4, <2>1, <2>2
<1>6. ASSUME NEW i \in DOMAIN raw.vports
      PROVE  VportViolations(raw, i) \subseteq Violations(raw)
  BY <1>6, Zenon DEF Violations, ByVport
<1> QED  BY <1>5, <1>6, VportVerdict, Zenon

(* Each index finds the one place of an id or of a peer.                   *)
LEMMA IdIndex ==
  ASSUME NEW raw \in RawConfigs, Obeys(raw), NEW n \in Num
  PROVE  LET i == IdxOfId(VportTable(raw.vports), n) IN
         IF i = 0 THEN \A v \in Range(raw.vports) : v.id # n ELSE raw.vports[i].id = n
<1> DEFINE vs == raw.vports
           at == {i \in DOMAIN vs : vs[i].id = n}
           ids == {vs[i].id : i \in DOMAIN vs}
<1>1. DOMAIN vs = 1 .. Len(vs) /\ Len(vs) \in Nat
  BY RawAssumption
<1>2. PICK p \in Nat : p = 2 ^ Width
  BY PowWidth
<1>3. \A i \in DOMAIN vs : vs[i].id \in 0 .. p - 2
  BY <1>2 DEF Obeys
<1>4. ids \subseteq Nat /\ ids # {} /\ \A y \in ids : y <= p
  <2>1. vs # <<>>
    BY DEF Obeys
  <2>2. 1 \in DOMAIN vs
    BY <2>1, <1>1, RawAssumption
  <2> QED  BY <1>2, <1>3, <2>2
<1>5. Max(ids) \in Nat /\ \A y \in ids : y <= Max(ids)
  <2> HIDE DEF ids
  <2> QED  BY <1>4, MaxIsGreatest
<1>6. n \in Nat
  BY <1>2 DEF Num
<1>7. {0} \cup at \subseteq Nat /\ {0} \cup at # {} /\ \A y \in {0} \cup at : y <= Len(vs)
  BY <1>1
<1>8. /\ Max({0} \cup at) \in {0} \cup at
      /\ \A y \in {0} \cup at : Max({0} \cup at) >= y
  <2> HIDE DEF at
  <2> QED  BY <1>1, <1>7, MaxIsGreatest
<1>9. IdxOfId(VportTable(vs), n) = IF n \in 0 .. Max(ids) THEN Max({0} \cup at) ELSE 0
  BY Zenon DEF IdxOfId, VportTable
<1>10. \A v \in Range(vs) : \E i \in DOMAIN vs : v = vs[i]
  BY DEF Range
<1>11. CASE n \in 0 .. Max(ids)
  <2>1. IdxOfId(VportTable(vs), n) = Max({0} \cup at)
    BY <1>9, <1>11
  <2>2. CASE at = {}
    <3>1. Max({0} \cup at) = 0
      BY <1>8, <2>2
    <3>2. \A v \in Range(vs) : v.id # n
      BY <1>10, <2>2
    <3> QED  BY <2>1, <3>1, <3>2
  <2>3. CASE at # {}
    <3>1. Max({0} \cup at) \in at /\ Max({0} \cup at) # 0
      BY <1>1, <1>8, <2>3
    <3> QED  BY <2>1, <3>1
  <2> QED  BY <2>2, <2>3
<1>12. CASE n \notin 0 .. Max(ids)
  <2>1. n \notin ids
    BY <1>4, <1>5, <1>12
  <2>2. \A v \in Range(vs) : v.id # n
    BY <1>10, <2>1
  <2> QED  BY <1>9, <1>12, <2>2
<1> QED  BY <1>11, <1>12

LEMMA PeerIndex ==
  ASSUME NEW raw \in RawConfigs, Obeys(raw), NEW p
  PROVE  LET i == IdxOfPeer(VportTable(raw.vports), p) IN
         IF i = 0 THEN \A v \in Range(raw.vports) : v.peer # p ELSE raw.vports[i].peer = p
<1> DEFINE vs == raw.vports
           at == {i \in DOMAIN vs : vs[i].peer = p}
           peers == {vs[i].peer : i \in DOMAIN vs}
<1>1. DOMAIN vs = 1 .. Len(vs) /\ Len(vs) \in Nat
  BY RawAssumption
<1>7. {0} \cup at \subseteq Nat /\ {0} \cup at # {} /\ \A y \in {0} \cup at : y <= Len(vs)
  BY <1>1
<1>8. /\ Max({0} \cup at) \in {0} \cup at
      /\ \A y \in {0} \cup at : Max({0} \cup at) >= y
  <2> HIDE DEF at
  <2> QED  BY <1>1, <1>7, MaxIsGreatest
<1>9. IdxOfPeer(VportTable(vs), p) = IF p \in peers THEN Max({0} \cup at) ELSE 0
  BY Zenon DEF IdxOfPeer, VportTable
<1>10. \A v \in Range(vs) : \E i \in DOMAIN vs : v = vs[i]
  BY DEF Range
<1>11. CASE p \in peers
  <2>1. IdxOfPeer(VportTable(vs), p) = Max({0} \cup at)
    BY <1>9, <1>11
  <2>2. at # {}
    BY <1>11
  <2>3. Max({0} \cup at) \in at /\ Max({0} \cup at) # 0
    <3>1. PICK y \in at : TRUE
      BY <2>2, Zenon
    <3>2. y \in Nat /\ y > 0
      BY <1>1, <3>1
    <3> HIDE DEF at
    <3>3. Max({0} \cup at) >= y
      BY <1>8, <3>1, Zenon
    <3>4. Max({0} \cup at) # 0
      BY <3>2, <3>3, <1>8
    <3> QED  BY <3>4, <1>8
  <2> QED  BY <2>1, <2>3
<1>12. CASE p \notin peers
  <2>1. \A v \in Range(vs) : v.peer # p
    BY <1>10, <1>12
  <2> QED  BY <1>9, <1>12, <2>1
<1> QED  BY <1>11, <1>12

LEMMA StartVerdict ==
  ASSUME NEW raw \in RawConfigs, NEW backend, NEW file, Start(raw, backend, file)
  PROVE  ConfigVerdict'
<1> DEFINE config == Validate(raw, Registry)
           s == Selection(raw.pipeline, backend)
<1>1. CASE ~config.ok
  <2>1. last' = [kind |-> "rejected", raw |-> raw, errs |-> config.err]
    BY <1>1, Zenon DEF Start, Exit
  <2>2. Violations(raw) # {} /\ config.err = Violations(raw)
    BY <1>1, ValidateIs, Zenon
  <2>3. ~Obeys(raw)
    BY <2>2, ObeysIs
  <2> HIDE DEF config
  <2>4. last'.kind = "rejected" /\ last'.raw = raw /\ last'.errs = Violations(raw)
    BY <2>1, <2>2
  <2> QED  BY <2>3, <2>4, RejectionNames DEF ConfigVerdict
<1>2. CASE config.ok /\ ~s.ok
  <2>1. last' = [kind |-> "unselected", err |-> s.err]
    BY <1>2, Zenon DEF Start, Exit
  <2> HIDE DEF config, s
  <2>2. last'.kind = "unselected"
    BY <2>1
  <2> QED  BY <2>2 DEF ConfigVerdict
<1>3. CASE config.ok /\ s.ok
  <2>1. last' = [kind |-> "configured", raw |-> raw, vports |-> config.val.vports]
    BY <1>3, Zenon DEF Start
  <2>2. Obeys(raw) /\ config.val.vports = VportTable(raw.vports)
    BY <1>3, ValidateIs, ObeysIs, Zenon
  <2> HIDE DEF config, s
  <2>3. last'.kind = "configured" /\ last'.raw = raw /\ last'.vports = VportTable(raw.vports)
    BY <2>1, <2>2
  <2> QED  BY <2>2, <2>3, IdIndex, PeerIndex DEF ConfigVerdict
<1> QED  BY <1>1, <1>2, <1>3

(* validate of config.rs accepts a configuration exactly when it obeys     *)
(* every rule, its two vport indexes are then inverse to the list, and a   *)
(* rejection names every vport that is illegal by itself: for every octet  *)
(* width, every list of vports and every set of configurations.            *)
THEOREM ConfigVerdictHolds == Spec => []ConfigVerdict
<1>1. Init => ConfigVerdict
  BY DEF Init, ConfigVerdict
<1>2. ConfigVerdict /\ [Next]_vars => ConfigVerdict'
  <2> SUFFICES ASSUME ConfigVerdict, [Next]_vars PROVE ConfigVerdict'
    OBVIOUS
  <2>1. CASE \E raw \in RawConfigs, b \in CliBackends :
               \E file \in Batches(raw.pipeline) : Start(raw, b, file)
    BY <2>1, StartVerdict
  <2>2. CASE last'.kind \notin {"configured", "rejected"}
    BY <2>2 DEF ConfigVerdict
  <2>3. CASE UNCHANGED vars
    BY <2>3 DEF vars, ConfigVerdict
  <2>4. CASE Stop
    <3>1. last' = [kind |-> "none"]
      BY <2>4 DEF Stop, Exit
    <3> QED  BY <2>2, <3>1
  <2>5. CASE Request
    <3>1. \/ last' = [kind |-> "none"]
          \/ \E op, res, info : last' = [kind |-> "reply", op |-> op, res |-> res, info |-> info]
      BY <2>5, Zenon DEF Request, BeginAdd, TableDel, SetDefault, Clear, Dump, Reply
    <3> QED  BY <2>2, <3>1
  <2>6. CASE ApplyEntry
    <3>1. last' = [kind |-> "none"]
      BY <2>6, Zenon DEF ApplyEntry
    <3> QED  BY <2>2, <3>1
  <2>7. CASE RefuseEntry
    <3>1. \/ \E err : last' = [kind |-> "unloaded", err |-> err]
          \/ \E res, info : last' = [kind |-> "reply", op |-> "add", res |-> res, info |-> info]
      BY <2>7, Zenon DEF RefuseEntry, Exit, BatchReply
    <3> QED  BY <2>2, <3>1
  <2>8. CASE FinishBatch
    <3>1. \E res, info : last' = [kind |-> "reply", op |-> "add", res |-> res, info |-> info]
      BY <2>8, Zenon DEF FinishBatch, BatchReply
    <3> QED  BY <2>2, <3>1
  <2>9. CASE \E f \in Arrivals(sel.program) : Receive(f)
    <3>1. \E f, out : last' = [kind |-> "frame", in |-> f, out |-> out]
      BY <2>9, Zenon DEF Receive
    <3> QED  BY <2>2, <3>1
  <2> QED  BY <2>1, <2>3, <2>4, <2>5, <2>6, <2>7, <2>8, <2>9 DEF Next
<1> QED  BY <1>1, <1>2, PTL DEF Spec

---------------------------------------------------------------------------
(* Division with remainder, octets and masks.                              *)

LEMMA DivMod ==
  ASSUME NEW n \in Nat, NEW o \in Nat, o > 0
  PROVE  \E d \in Nat, m \in 0 .. o - 1 : d = n \div o /\ m = n % o /\ n = d * o + m
<1>1. PICK d \in Int, m \in Int : d = n \div o /\ m = n % o /\ n = d * o + m
  OBVIOUS
<1>2. m \in 0 .. o - 1
  BY <1>1
<1>3. d >= 0
  <2>1. CASE d <= -1
    <3>1. d * o <= (-1) * o
      BY <2>1
    <3> QED  BY <1>1, <1>2, <3>1
  <2> QED  BY <2>1
<1>4. d \in Nat
  BY <1>3
<1> QED  BY <1>1, <1>2, <1>4, Zenon

(* q and r are the quotient and the remainder of n by o.                   *)
Divides(n, o, q, r) ==
  o \in Nat /\ o > 0 /\ q \in Nat /\ r \in 0 .. o - 1 /\ n = q * o + r

LEMMA DivModUnique ==
  \A n, o, q, r : Divides(n, o, q, r) => n % o = r /\ n \div o = q
<1>1. ASSUME NEW q \in Nat, NEW o \in Nat, o > 0, NEW r \in 0 .. o - 1, NEW n, n = q * o + r
      PROVE  n % o = r /\ n \div o = q
  BY <1>1
<1> QED  BY <1>1 DEF Divides

(* What is left of a number when its low octet, or that and part of the    *)
(* high one, are cleared.                                                  *)
Multiple(o, p, e) == o \in Nat /\ p \in Nat /\ p > 0 /\ e \in Nat /\ e > 0 /\ o = p * e

LEMMA ClearLow ==
  ASSUME NEW o, NEW p, NEW e, Multiple(o, p, e), NEW hi, NEW lo, NEW n, Divides(n, o, hi, lo)
  PROVE  n % p = lo % p /\ lo - (lo % p) \in 0 .. o - 1
<1> SUFFICES ASSUME o \in Nat, p \in Nat, p > 0, e \in Nat, o = p * e,
                    lo \in 0 .. o - 1, hi \in Nat, n = hi * o + lo
             PROVE  n % p = lo % p /\ lo - (lo % p) \in 0 .. o - 1
  BY Zenon DEF Multiple, Divides
<1>1. lo \in Nat
  OBVIOUS
<1>2. PICK d \in Nat, r \in 0 .. p - 1 : d = lo \div p /\ r = lo % p /\ lo = d * p + r
  BY <1>1, DivMod, Zenon
<1>3. n = (hi * e + d) * p + r
  <2>1. hi * (p * e) = (hi * e) * p
    OBVIOUS
  <2>2. ((hi * e) + d) * p = (hi * e) * p + d * p
    OBVIOUS
  <2> QED  BY <1>2, <2>1, <2>2
<1>4. hi * e + d \in Nat
  OBVIOUS
<1>5. n % p = r
  <2>1. PICK q \in Nat : q = hi * e + d
    BY <1>4
  <2>2. Divides(n, p, q, r)
    BY <1>2, <1>3, <2>1, Zenon DEF Divides
  <2> QED  BY <2>2, DivModUnique, Zenon
<1>6. lo - r \in 0 .. o - 1
  <2>1. d * p \in Nat
    OBVIOUS
  <2> QED  BY <2>1, <1>2
<1> QED  BY <1>2, <1>5, <1>6, Zenon

LEMMA ClearHigh ==
  ASSUME NEW o, NEW p, NEW e, Multiple(p, o, e), NEW hi, hi \in 0 .. o - 1,
         NEW lo, NEW n, Divides(n, o, hi, lo)
  PROVE  /\ n - (n % p) = (hi - (hi % e)) * o /\ hi - (hi % e) \in 0 .. o - 1
         /\ lo - (lo % o) = 0
<1> SUFFICES ASSUME o \in Nat, o > 0, e \in Nat, e > 0, p = o * e,
                    lo \in 0 .. o - 1, n = hi * o + lo
             PROVE  /\ n - (n % p) = (hi - (hi % e)) * o /\ hi - (hi % e) \in 0 .. o - 1
                    /\ lo - (lo % o) = 0
  BY Zenon DEF Multiple, Divides
<1>1. lo \in Nat /\ hi \in Nat /\ p \in Nat
  OBVIOUS
<1>2. PICK d \in Nat, r \in 0 .. e - 1 : d = hi \div e /\ r = hi % e /\ hi = d * e + r
  BY <1>1, DivMod, Zenon
<1>3. PICK t \in Nat : t = r * o
  OBVIOUS
<1>4. n = d * p + (t + lo)
  <2>1. (d * e + r) * o = d * (o * e) + r * o
    OBVIOUS
  <2> QED  BY <1>2, <1>3, <2>1
<1>5. t + lo \in 0 .. p - 1 /\ p > 0
  <2>1. r + 1 <= e
    OBVIOUS
  <2>2. (r + 1) * o <= e * o
    BY <2>1
  <2>3. (r + 1) * o = r * o + o /\ e * o = o * e
    OBVIOUS
  <2>4. t + o <= p
    BY <2>2, <2>3, <1>3
  <2> QED  BY <2>4, <1>1, <1>3
<1>6. n % p = t + lo
  <2>1. PICK v \in 0 .. p - 1 : v = t + lo
    BY <1>5
  <2>2. Divides(n, p, d, v)
    BY <1>1, <1>4, <1>5, <2>1, Zenon DEF Divides
  <2>3. n % p = v
    BY <2>2, DivModUnique, Zenon
  <2> QED  BY <2>1, <2>3
<1>7. n - (t + lo) = (hi - r) * o
  <2>1. (hi - r) * o = hi * o - r * o
    BY <1>1
  <2> QED  BY <2>1, <1>1, <1>3
<1>8. hi - r \in 0 .. o - 1
  <2>1. d * e \in Nat
    OBVIOUS
  <2> QED  BY <2>1, <1>2
<1>9. lo % o = lo
  OBVIOUS
<1>10. lo - (lo % o) = 0
  BY <1>1, <1>9
<1> QED  BY <1>2, <1>6, <1>7, <1>8, <1>10, Zenon

LEMMA OctetIs == /\ Octet \in Nat /\ Octet > 0
                 /\ 2 ^ Width = Octet * Octet
<1>1. OctetBits \in Nat /\ Width = OctetBits + OctetBits
  BY OctetAssumption DEF Width
<1> QED  BY <1>1, PowNat, PowAdd DEF Octet

LEMMA NumIs == \A n : n \in Num <=> n \in Nat /\ n < Octet * Octet
<1>1. PICK o \in Nat : o = Octet
  BY OctetIs
<1>2. \A n : n \in 0 .. o * o - 1 <=> n \in Nat /\ n < o * o
  OBVIOUS
<1> QED  BY <1>1, <1>2, OctetIs DEF Num

(* A number and its two octets.                                            *)
LEMMA Octets ==
  ASSUME NEW n \in Num
  PROVE  /\ n % Octet \in 0 .. Octet - 1 /\ n \div Octet \in 0 .. Octet - 1
         /\ n = (n \div Octet) * Octet + (n % Octet)
<1>1. PICK o \in Nat : o = Octet /\ o > 0
  BY OctetIs
<1>2. n \in Nat /\ n < o * o
  BY <1>1, NumIs
<1>3. PICK d \in Nat, m \in 0 .. o - 1 : d = n \div o /\ m = n % o /\ n = d * o + m
  BY <1>1, <1>2, DivMod, Zenon
<1>4. d < o
  <2>1. CASE d >= o
    <3>1. d * o >= o * o
      BY <2>1
    <3> QED  BY <1>2, <1>3, <3>1
  <2> QED  BY <2>1
<1>5. d \in 0 .. o - 1
  BY <1>3, <1>4
<1> QED  BY <1>1, <1>3, <1>5

LEMMA FromOctets ==
  ASSUME NEW lo \in 0 .. Octet - 1, NEW hi \in 0 .. Octet - 1
  PROVE  /\ hi * Octet + lo \in Num
         /\ (hi * Octet + lo) % Octet = lo
         /\ (hi * Octet + lo) \div Octet = hi
<1>1. PICK o \in Nat : o = Octet /\ o > 0
  BY OctetIs
<1>2. lo \in 0 .. o - 1 /\ hi \in 0 .. o - 1
  BY <1>1
<1>3. hi * o + lo < o * o
  <2>1. hi + 1 <= o
    BY <1>2
  <2>2. (hi + 1) * o <= o * o
    BY <1>2, <2>1
  <2>3. (hi + 1) * o = hi * o + o
    BY <1>2
  <2> QED  BY <1>2, <2>2, <2>3
<1>4. hi * o + lo \in Nat
  BY <1>2
<1>5. hi * o + lo \in Num
  BY <1>1, <1>3, <1>4, NumIs, Zenon
<1>6. (hi * o + lo) % o = lo /\ (hi * o + lo) \div o = hi
  <2>1. hi \in Nat
    BY <1>2
  <2>2. Divides(hi * o + lo, o, hi, lo)
    BY <1>1, <1>2, <2>1, Zenon DEF Divides
  <2> QED  BY <2>2, DivModUnique, Zenon
<1> QED  BY <1>1, <1>5, <1>6, Zenon

(* 2 ^ (Width - len) divides 2 ^ Width, so clearing host bits leaves a     *)
(* number of the same width that has none.                                 *)
LEMMA MaskFacts ==
  ASSUME NEW n \in Num, NEW len \in 0 .. Width
  PROVE  /\ Mask(n, len) \in Num
         /\ Mask(Mask(n, len), len) = Mask(n, len)
<1>1. Width - len \in Nat
  BY WidthNat
<1>2. PICK p \in Nat : p = 2 ^ (Width - len) /\ p > 0
  BY <1>1, PowNat
<1>3. n \in Nat /\ n < Octet * Octet
  BY NumIs
<1>4. PICK d \in Nat, m \in 0 .. p - 1 : d = n \div p /\ m = n % p /\ n = d * p + m
  BY <1>2, <1>3, DivMod, Zenon
<1>5. Mask(n, len) = n - m
  BY <1>2, <1>4, Zenon DEF Mask
<1>6. n - m = d * p + 0 /\ n - m \in Nat /\ n - m <= n
  BY <1>3, <1>4
<1>7. 0 \in 0 .. p - 1
  BY <1>2
<1>8. (d * p + 0) % p = 0
  <2>1. Divides(d * p + 0, p, d, 0)
    BY <1>2, <1>4, <1>7, Zenon DEF Divides
  <2> QED  BY <2>1, DivModUnique, Zenon
<1>9. Mask(n - m, len) = (n - m) - 0
  BY <1>2, <1>6, <1>8, Zenon DEF Mask
<1>10. Mask(n - m, len) = n - m
  BY <1>6, <1>9
<1>11. PICK o \in Nat : o = Octet
  BY OctetIs
<1>12. n - m < o * o
  BY <1>3, <1>6, <1>11
<1>13. n - m \in Num
  BY <1>6, <1>11, <1>12, NumIs, Zenon
<1> QED  BY <1>5, <1>10, <1>13, Zenon

LEMMA MaskFull ==
  ASSUME NEW n \in Num
  PROVE  Mask(n, Width) = n
<1>1. Width - Width = 0 /\ 2 ^ 0 = 1
  BY WidthNat
<1>2. n \in Nat
  BY NumIs
<1>3. n - (n % 1) = n
  BY <1>2
<1> QED  BY <1>1, <1>3, Zenon DEF Mask

LEMMA MinMaxTwo ==
  ASSUME NEW a \in Int, NEW b \in Int
  PROVE  /\ Min({a, b}) = IF a <= b THEN a ELSE b
         /\ Max({a, b}) = IF a <= b THEN b ELSE a
BY DEF Min, Max

(* zero_below on the image of a number clears its host bits.               *)
LEMMA ZeroBelowIs ==
  ASSUME NEW n \in Num, NEW len \in 0 .. Width
  PROVE  ZeroBelow(LeBytes(n), len) = LeBytes(Mask(n, len))
<1> DEFINE w == LeBytes(n)
           b == OctetBits
           c == 2 * b - len
           x1 == IF c <= b THEN c ELSE b
           x2 == IF c <= b THEN 0 ELSE c - b
<1>1. b \in Nat /\ b > 0 /\ Width = 2 * b /\ c \in 0 .. 2 * b /\ len \in Nat
  BY OctetAssumption DEF Width
<1>2. PICK lo \in 0 .. Octet - 1, hi \in 0 .. Octet - 1 :
        lo = n % Octet /\ hi = n \div Octet /\ n = hi * Octet + lo
  BY Octets
<1>3. w = <<lo, hi>>
  BY <1>2 DEF LeBytes
<1>4. x1 \in Nat /\ x2 \in Nat
  BY <1>1
<1>5. ZeroBelow(w, len) = <<lo - (lo % 2 ^ x1), hi - (hi % 2 ^ x2)>>
  <2> DEFINE total == Len(w) * OctetBits
             cleared == total - (IF len < total THEN len ELSE total)
             inOctet(j) == Max({0, Min({OctetBits, cleared - (j - 1) * OctetBits})})
             z == [j \in DOMAIN w |-> w[j] - (w[j] % 2 ^ inOctet(j))]
  <2>1. ZeroBelow(w, len) = z
    BY DEF ZeroBelow
  <2>2. Len(w) = 2 /\ DOMAIN w = {1, 2} /\ w[1] = lo /\ w[2] = hi
    BY <1>3
  <2>3. total = 2 * b /\ cleared = c
    BY <2>2, <1>1
  <2>4. /\ cleared - (1 - 1) * OctetBits = c
        /\ cleared - (2 - 1) * OctetBits = c - b
    <3> HIDE DEF cleared, total, c
    <3>1. (1 - 1) * OctetBits = 0 /\ (2 - 1) * OctetBits = b
      BY <1>1
    <3> QED  BY <3>1, <2>3, <1>1
  <2> HIDE DEF cleared, total
  <2>5. inOctet(1) = x1
    <3>1. Min({b, c}) = x1
      BY <1>1, MinMaxTwo
    <3>2. Max({0, x1}) = x1
      <4>1. 0 \in Int /\ x1 \in Int /\ 0 <= x1
        BY <1>4
      <4> HIDE DEF x1
      <4> QED  BY <4>1, MinMaxTwo, Zenon
    <3> HIDE DEF x1, c, b
    <3> QED  BY <2>4, <3>1, <3>2, Zenon DEF b
  <2>6. inOctet(2) = x2
    <3>1. Min({b, c - b}) = c - b
      BY <1>1, MinMaxTwo
    <3>2. Max({0, c - b}) = x2
      <4>1. 0 \in Int /\ c - b \in Int
        BY <1>1
      <4>2. Max({0, c - b}) = IF 0 <= c - b THEN c - b ELSE 0
        BY <4>1, MinMaxTwo, Zenon
      <4> QED  BY <4>2, <1>1
    <3> HIDE DEF x2, c, b
    <3> QED  BY <2>4, <3>1, <3>2, Zenon DEF b
  <2> HIDE DEF inOctet, x1, x2, w
  <2>7. z = [j \in {1, 2} |-> w[j] - (w[j] % 2 ^ inOctet(j))]
    BY <2>2, Zenon
  <2>8. z[1] = lo - (lo % 2 ^ x1) /\ z[2] = hi - (hi % 2 ^ x2) /\ DOMAIN z = {1, 2}
    BY <2>2, <2>5, <2>6, <2>7
  <2> DEFINE u == lo - (lo % 2 ^ x1)
             v == hi - (hi % 2 ^ x2)
  <2>9. \A y, u1, v1 : y = [j \in {1, 2} |-> y[j]] /\ y[1] = u1 /\ y[2] = v1 => y = <<u1, v1>>
    OBVIOUS
  <2>10. z = [j \in {1, 2} |-> z[j]]
    BY <2>7
  <2> HIDE DEF z, u, v
  <2>11. z = <<u, v>>
    BY <2>8, <2>9, <2>10, Zenon DEF u, v
  <2> QED  BY <2>1, <2>11 DEF u, v
<1>6. PICK o \in Nat : o = Octet /\ o > 0 /\ o = 2 ^ b
  BY OctetIs DEF Octet
<1>7. PICK p \in Nat : p = 2 ^ c /\ p > 0
  BY <1>1, PowNat
<1>8. Mask(n, len) = n - (n % p)
  BY <1>1, <1>7 DEF Mask
<1>9. lo \in 0 .. o - 1 /\ hi \in 0 .. o - 1 /\ n = hi * o + lo
  BY <1>2, <1>6
<1>10. PICK lo1, hi1 : lo1 = lo - (lo % 2 ^ x1) /\ hi1 = hi - (hi % 2 ^ x2)
  OBVIOUS
<1>11. lo1 \in 0 .. o - 1 /\ hi1 \in 0 .. o - 1 /\ n - (n % p) = hi1 * o + lo1
  <2>1. CASE c <= b
    <3>1. x1 = c /\ x2 = 0 /\ 2 ^ 0 = 1
      BY <2>1
    <3>2. lo1 = lo - (lo % p) /\ hi1 = hi - (hi % 1)
      BY <1>7, <1>10, <3>1, Zenon
    <3>3. hi1 = hi
      BY <3>2, <1>9
    <3>4. PICK e \in Nat : e = 2 ^ (b - c) /\ e > 0
      BY <1>1, <2>1, PowNat
    <3>5. o = p * e
      <4>1. c \in Nat /\ b - c \in Nat /\ c + (b - c) = b
        BY <1>1, <2>1
      <4>2. 2 ^ (c + (b - c)) = 2 ^ c * 2 ^ (b - c)
        BY ONLY <4>1, PowAdd, Zenon
      <4> QED  BY <4>1, <4>2, <1>6, <1>7, <3>4, Zenon
    <3>6. hi \in Nat
      BY <1>9
    <3>7. n % p = lo % p /\ lo1 \in 0 .. o - 1
      <4>1. n % p = lo % p /\ lo - (lo % p) \in 0 .. o - 1
        <5>1. Multiple(o, p, e)
          BY <1>6, <1>7, <3>4, <3>5, Zenon DEF Multiple
        <5>2. Divides(n, o, hi, lo)
          BY <1>6, <1>9, <3>6, Zenon DEF Divides
        <5> QED  BY <5>1, <5>2, ClearLow, Zenon
      <4> QED  BY <3>2, <4>1, Zenon
    <3>8. PICK r \in Nat : r = lo % p
      BY <1>7, <1>9
    <3>9. n - r = hi * o + (lo - r)
      <4>1. hi * o \in Nat
        BY <1>9, <1>6
      <4> QED  BY <1>9, <3>8, <4>1
    <3> QED  BY <1>9, <3>2, <3>3, <3>7, <3>8, <3>9, Zenon
  <2>2. CASE c > b
    <3>1. x1 = b /\ x2 = c - b /\ c - b \in Nat
      BY <2>2, <1>1
    <3>2. PICK e \in Nat : e = 2 ^ (c - b) /\ e > 0
      BY <3>1, PowNat
    <3>3. lo1 = lo - (lo % o) /\ hi1 = hi - (hi % e)
      BY <1>6, <1>10, <3>1, <3>2, Zenon
    <3>4. p = o * e
      <4>1. b \in Nat /\ b + (c - b) = c
        BY <1>1
      <4> QED  BY <4>1, <3>1, <3>2, <1>6, <1>7, PowAdd, Zenon
    <3>5. n - (n % p) = hi1 * o /\ hi1 \in 0 .. o - 1 /\ lo1 = 0
      <4>1. /\ n - (n % p) = (hi - (hi % e)) * o /\ hi - (hi % e) \in 0 .. o - 1
            /\ lo - (lo % o) = 0
        <5>1. Multiple(p, o, e)
          BY <1>6, <1>7, <3>2, <3>4, Zenon DEF Multiple
        <5>2. hi \in Nat
          BY <1>9
        <5>3. Divides(n, o, hi, lo)
          BY <1>6, <1>9, <5>2, Zenon DEF Divides
        <5> QED  BY <1>9, <5>1, <5>3, ClearHigh, SMT
      <4> QED  BY <3>3, <4>1, Zenon
    <3>6. hi1 * o = hi1 * o + 0 /\ 0 \in 0 .. o - 1
      BY <3>5, <1>6
    <3> QED  BY <3>5, <3>6, Zenon
  <2> QED  BY <2>1, <2>2, <1>1
<1>12. LeBytes(n - (n % p)) = <<lo1, hi1>>
  <2>1. (hi1 * o + lo1) % o = lo1 /\ (hi1 * o + lo1) \div o = hi1
    <3>1. hi1 \in Nat
      BY <1>11
    <3>2. Divides(hi1 * o + lo1, o, hi1, lo1)
      BY <1>6, <1>11, <3>1, Zenon DEF Divides
    <3> QED  BY <3>2, DivModUnique, Zenon
  <2> QED  BY <1>6, <1>11, <2>1, Zenon DEF LeBytes
<1>13. ZeroBelow(w, len) = <<lo1, hi1>>
  BY <1>5, <1>10, Zenon
<1> QED  BY <1>8, <1>12, <1>13

---------------------------------------------------------------------------
(* The refinement of texts: what parses is exactly what is legal, and is   *)
(* then of the schema's types, so that no later check can refuse it.       *)

Value(kind, n) == [kind |-> kind, n |-> n]

KeyTyped(p, key) ==
  \/ /\ p = "l2fwd"
     /\ \E n \in Num : key = [match |-> "exact", value |-> Value("mac", n), len |-> Width]
  \/ /\ p = "l3fwd"
     /\ \E n \in Num, l \in 0 .. Width :
          key = [match |-> "lpm", value |-> Value("ipv4", n), len |-> l]

CallTyped(p, action, vals) ==
  \/ p = "l2fwd" /\ action = "forward" /\ \E n \in Num : vals = <<Value("u16", n)>>
  \/ p = "l2fwd" /\ action \in {"broadcast", "drop"} /\ vals = <<>>
  \/ /\ p = "l3fwd" /\ action = "forward"
     /\ \E n, m \in Num : vals = <<Value("u16", n), Value("mac", m)>>
  \/ p = "l3fwd" /\ action \in {"punt", "drop"} /\ vals = <<>>

(* LegalKey and LegalCall for a program.                                   *)
KeyLegal(p, name, text) ==
  /\ name = SchemaOf(p).name
  /\ text.value.form = Form(SchemaOf(p).kind)
  /\ text.value.n \in Num
  /\ text.len # <<>> => p = "l3fwd" /\ text.len[1] <= Width

CallLegal(p, action, params) ==
  LET sig == SchemaOf(p).actions IN
  /\ action \in DOMAIN sig
  /\ ParamCount(params) = Len(sig[action])
  /\ \A i \in DOMAIN sig[action] :
       \E t \in GivenText(params, sig[action], i) :
         t.form = Form(sig[action][i].kind) /\ t.n \in Num

LEMMA LegalIs ==
  ASSUME NEW name, NEW text, NEW action, NEW params
  PROVE  /\ LegalKey(name, text) <=> KeyLegal(sel.program, name, text)
         /\ LegalCall([action |-> action, params |-> params])
              <=> CallLegal(sel.program, action, params)
<1>1. LegalKey(name, text) <=> KeyLegal(sel.program, name, text)
  BY Zenon DEF LegalKey, KeyLegal
<1>2. PICK call : call = [action |-> action, params |-> params]
  OBVIOUS
<1>3. call.action = action /\ call.params = params
  BY <1>2
<1>4. LegalCall(call) <=> CallLegal(sel.program, action, params)
  BY <1>3, Zenon DEF LegalCall, CallLegal
<1> QED  BY <1>1, <1>2, <1>4

LEMMA SchemaIs ==
  /\ SchemaOf("l2fwd") = L2Schema /\ SchemaOf("l3fwd") = L3Schema
  /\ L2Schema.name = "mac_dst" /\ L2Schema.match = "exact" /\ L2Schema.kind = "mac"
  /\ L3Schema.name = "ipv4_lpm" /\ L3Schema.match = "lpm" /\ L3Schema.kind = "ipv4"
  /\ DOMAIN L2Schema.actions = {"forward", "broadcast", "drop"}
  /\ DOMAIN L3Schema.actions = {"forward", "punt", "drop"}
  /\ L2Schema.actions["forward"] = <<[name |-> "port", kind |-> "u16"]>>
  /\ L2Schema.actions["broadcast"] = <<>> /\ L2Schema.actions["drop"] = <<>>
  /\ L3Schema.actions["forward"] =
       <<[name |-> "port", kind |-> "u16"], [name |-> "dmac", kind |-> "mac"]>>
  /\ L3Schema.actions["punt"] = <<>> /\ L3Schema.actions["drop"] = <<>>
BY DEF SchemaOf, L2Schema, L3Schema

LEMMA ErrorsKnown ==
  {"unsupported", "unknown_table", "unknown_action", "arity", "malformed", "not_found"}
    \subseteq TableErrors
BY DEF TableErrors

LEMMA ResultIs ==
  /\ \A v : Ok(v).ok /\ Ok(v).val = v
  /\ \A e : ~Err(e).ok /\ Err(e).err = e
  /\ \A res, t : Result(res, t).res = res /\ Result(res, t).table = t
BY DEF Ok, Err, Result

LEMMA ParseValIs ==
  ASSUME NEW kind, NEW text
  PROVE  /\ ParseVal(kind, text).ok <=> text.form = Form(kind) /\ text.n \in Num
         /\ ParseVal(kind, text).ok => ParseVal(kind, text).val = Value(kind, text.n)
BY DEF ParseVal, Ok, Err, Value

LEMMA KeyParses ==
  ASSUME NEW p \in Programs, NEW name, NEW text, text.len \in Seq(Nat)
  PROVE  LET k == ParseKeyFor(p, name, text) IN
         /\ k.ok <=> KeyLegal(p, name, text)
         /\ k.ok => /\ KeyTyped(p, k.val)
                    /\ k.val.value.n = text.value.n
                    /\ k.val.len = IF text.len = <<>> THEN Width ELSE text.len[1]
         /\ ~k.ok => k.err \in TableErrors
<1> DEFINE S == SchemaOf(p)
           k == ParseKeyFor(p, name, text)
           v == ParseVal(S.kind, text.value)
           len == IF text.len = <<>> THEN Width ELSE text.len[1]
<1>1. CASE name # S.name
  <2>1. k = Err("unknown_table")
    BY <1>1, ResultIs, Zenon DEF ParseKeyFor, FindSchema
  <2> QED  BY <1>1, <2>1, ResultIs, ErrorsKnown DEF KeyLegal
<1>2. CASE name = S.name
  <2>1. k = ParseKey(S.match, S.kind, text)
    BY <1>2, ResultIs, Zenon DEF ParseKeyFor, FindSchema
  <2>2. k = IF ~v.ok \/ (S.match = "exact" /\ text.len # <<>>) \/ len > Width
              THEN Err("malformed")
              ELSE Ok([match |-> S.match, value |-> v.val, len |-> len])
    BY <2>1, Zenon DEF ParseKey
  <2>3. /\ v.ok <=> text.value.form = Form(S.kind) /\ text.value.n \in Num
        /\ v.ok => v.val = Value(S.kind, text.value.n)
    BY ParseValIs
  <2>4. /\ p = "l2fwd" \/ p = "l3fwd"
        /\ p = "l2fwd" => S.match = "exact" /\ S.kind = "mac"
        /\ p = "l3fwd" => S.match = "lpm" /\ S.kind = "ipv4"
    BY SchemaIs DEF Programs
  <2>5. /\ len \in Nat /\ Width \in Nat
        /\ text.len = <<>> => len = Width
        /\ text.len # <<>> => len = text.len[1]
    <3>1. text.len # <<>> => text.len[1] \in Nat
      OBVIOUS
    <3> QED  BY <3>1, WidthNat
  <2>6. KeyLegal(p, name, text) <=>
          v.ok /\ ~(S.match = "exact" /\ text.len # <<>>) /\ ~(len > Width)
    <3> HIDE DEF len, v, S, k
    <3>1. text.len = <<>> => ~(len > Width)
      BY <2>5
    <3>2. text.len # <<>> => (text.len[1] <= Width <=> ~(len > Width))
      BY <2>5
    <3>3. KeyLegal(p, name, text) <=>
            /\ text.value.form = Form(S.kind) /\ text.value.n \in Num
            /\ text.len # <<>> => p = "l3fwd" /\ text.len[1] <= Width
      BY <1>2, Zenon DEF KeyLegal, S
    <3>4. S.match = "exact" <=> p # "l3fwd"
      BY <2>4
    <3> QED  BY <2>3, <3>1, <3>2, <3>3, <3>4, Zenon
  <2> HIDE DEF len, v, S, k
  <2>7. CASE ~KeyLegal(p, name, text)
    <3>1. k = Err("malformed")
      BY <2>2, <2>6, <2>7, Zenon
    <3> QED  BY <2>7, <3>1, ResultIs, ErrorsKnown DEF k
  <2>8. CASE KeyLegal(p, name, text)
    <3> DEFINE key == [match |-> S.match, value |-> Value(S.kind, text.value.n), len |-> len]
    <3>1. k = Ok(key)
      BY <2>2, <2>3, <2>6, <2>8, Zenon
    <3>2. text.value.n \in Num
      BY <2>8 DEF KeyLegal
    <3>3. len \in 0 .. Width
      BY <2>5, <2>6, <2>8
    <3>4. S.match = "exact" => len = Width
      BY <2>5, <2>6, <2>8
    <3>5. KeyTyped(p, key)
      BY <2>4, <3>2, <3>3, <3>4 DEF KeyTyped
    <3>6. key.value.n = text.value.n /\ key.len = len
      BY DEF Value
    <3> HIDE DEF key
    <3>7. k.ok /\ k.val = key
      BY <3>1, ResultIs
    <3> QED  BY <2>8, <3>5, <3>6, <3>7, Zenon DEF k, len
  <2> QED  BY <2>7, <2>8
<1> QED  BY <1>1, <1>2

(* The one text given for a parameter is the one CHOOSE finds.             *)
LEMMA GivenOne ==
  ASSUME NEW params, DistinctNames(params), NEW sig, NEW i,
         NEW t \in GivenText(params, sig, i)
  PROVE  (CHOOSE u \in GivenText(params, sig, i) : TRUE) = t
<1>1. ASSUME NEW u \in GivenText(params, sig, i) PROVE u = t
  BY <1>1 DEF GivenText, DistinctNames
<1> QED  BY <1>1

LEMMA ParamsParse ==
  ASSUME NEW p \in Programs, NEW action, NEW params, DistinctNames(params)
  PROVE  LET v == TypedParams(SchemaOf(p), action, params) IN
         /\ v.ok <=> CallLegal(p, action, params)
         /\ v.ok => CallTyped(p, action, v.val)
         /\ ~v.ok => v.err \in TableErrors
<1> DEFINE acts == SchemaOf(p).actions
           v == TypedParams(SchemaOf(p), action, params)
           sig == acts[action]
           given(i) == GivenText(params, sig, i)
           all == \A i \in DOMAIN sig : \E t \in given(i) : ParseVal(sig[i].kind, t).ok
           vals == [i \in DOMAIN sig |->
                      ParseVal(sig[i].kind, CHOOSE t \in given(i) : TRUE).val]
<1>1. v = IF action \notin DOMAIN acts THEN Err("unknown_action")
          ELSE IF ParamCount(params) # Len(sig) THEN Err("arity")
          ELSE IF all THEN Ok(vals) ELSE Err("malformed")
  BY Zenon DEF TypedParams
<1>2. CallLegal(p, action, params) <=>
        action \in DOMAIN acts /\ ParamCount(params) = Len(sig) /\ all
  BY ParseValIs, Zenon DEF CallLegal
<1>3. ASSUME CallLegal(p, action, params) PROVE CallTyped(p, action, vals)
  <2>1. ASSUME NEW i \in DOMAIN sig
        PROVE  \E n \in Num : vals[i] = Value(sig[i].kind, n)
    <3>1. PICK t \in given(i) : ParseVal(sig[i].kind, t).ok
      BY <1>2, <1>3
    <3>2. (CHOOSE u \in given(i) : TRUE) = t
      BY GivenOne, Zenon
    <3>3. vals[i] = ParseVal(sig[i].kind, t).val
      BY <3>2
    <3>4. t.n \in Num /\ ParseVal(sig[i].kind, t).val = Value(sig[i].kind, t.n)
      BY <3>1, ParseValIs
    <3> QED  BY <3>3, <3>4
  <2>2. vals = [i \in DOMAIN sig |-> vals[i]]
    OBVIOUS
  <2>3. action \in DOMAIN acts
    BY <1>2, <1>3
  <2> HIDE DEF vals, given, all
  <2>4. CASE sig = <<>>
    <3>1. vals = <<>>
      BY <2>2, <2>4
    <3>2. \/ p = "l2fwd" /\ action \in {"broadcast", "drop"}
          \/ p = "l3fwd" /\ action \in {"punt", "drop"}
      <4>1. L2Schema.actions["forward"] # <<>> /\ L3Schema.actions["forward"] # <<>>
        BY SchemaIs
      <4>2. CASE p = "l2fwd"
        BY <2>3, <2>4, <4>1, <4>2, SchemaIs, Zenon
      <4>3. CASE p = "l3fwd"
        BY <2>3, <2>4, <4>1, <4>3, SchemaIs, Zenon
      <4> QED  BY <4>2, <4>3 DEF Programs
    <3> QED  BY <3>1, <3>2 DEF CallTyped
  <2>5. CASE p = "l2fwd" /\ action = "forward"
    <3>1. sig = <<[name |-> "port", kind |-> "u16"]>>
      BY <2>5, SchemaIs
    <3>2. DOMAIN sig = {1} /\ sig[1].kind = "u16"
      BY <3>1
    <3>3. PICK n \in Num : vals[1] = Value("u16", n)
      BY <2>1, <3>2
    <3>4. vals = <<Value("u16", n)>>
      BY <2>2, <3>2, <3>3
    <3> QED  BY <2>5, <3>4 DEF CallTyped
  <2>6. CASE p = "l3fwd" /\ action = "forward"
    <3>1. sig = <<[name |-> "port", kind |-> "u16"], [name |-> "dmac", kind |-> "mac"]>>
      BY <2>6, SchemaIs
    <3>2. DOMAIN sig = {1, 2} /\ sig[1].kind = "u16" /\ sig[2].kind = "mac"
      BY <3>1
    <3>3. PICK n \in Num : vals[1] = Value("u16", n)
      BY <2>1, <3>2
    <3>4. PICK m \in Num : vals[2] = Value("mac", m)
      BY <2>1, <3>2
    <3>5. vals = <<Value("u16", n), Value("mac", m)>>
      BY <2>2, <3>2, <3>3, <3>4
    <3> QED  BY <2>6, <3>5 DEF CallTyped
  <2>7. sig = <<>> \/ action = "forward"
    BY <2>3, SchemaIs DEF Programs
  <2> QED  BY <2>4, <2>5, <2>6, <2>7 DEF Programs
<1> HIDE DEF acts, v, sig, given, all, vals
<1>4. CASE CallLegal(p, action, params)
  <2>1. v = Ok(vals)
    BY <1>1, <1>2, <1>4, Zenon
  <2>2. v.ok /\ v.val = vals
    BY <2>1, ResultIs
  <2> QED  BY <1>3, <1>4, <2>2, Zenon DEF v
<1>5. CASE ~CallLegal(p, action, params)
  <2>1. v \in {Err("unknown_action"), Err("arity"), Err("malformed")}
    BY <1>1, <1>2, <1>5, Zenon
  <2>2. ~v.ok /\ v.err \in TableErrors
    BY <2>1, ResultIs, ErrorsKnown
  <2> QED  BY <1>5, <2>2, Zenon DEF v
<1> QED  BY <1>4, <1>5

LEMMA ChecksPass ==
  ASSUME NEW p \in Programs
  PROVE  /\ \A key : KeyTyped(p, key) => CheckKey(SchemaOf(p), key).ok
         /\ \A action, vals : CallTyped(p, action, vals) => Check(SchemaOf(p), action, vals).ok
<1>1. ASSUME NEW key, KeyTyped(p, key) PROVE CheckKey(SchemaOf(p), key).ok
  BY <1>1, SchemaIs, ResultIs DEF KeyTyped, CheckKey, Value
<1>2. ASSUME NEW action, NEW vals, CallTyped(p, action, vals)
      PROVE  Check(SchemaOf(p), action, vals).ok
  <2> DEFINE sig == SchemaOf(p).actions[action]
  <2>1. /\ action \in DOMAIN SchemaOf(p).actions
        /\ Len(vals) = Len(sig)
        /\ \A i \in DOMAIN sig : vals[i].kind = sig[i].kind
    <3>1. CASE vals = <<>>
      BY <3>1, <1>2, SchemaIs DEF CallTyped
    <3>2. CASE p = "l2fwd" /\ action = "forward"
      BY <3>2, <1>2, SchemaIs DEF CallTyped, Value
    <3>3. CASE p = "l3fwd" /\ action = "forward"
      BY <3>3, <1>2, SchemaIs DEF CallTyped, Value
    <3> QED  BY <1>2, <3>1, <3>2, <3>3 DEF CallTyped
  <2> QED  BY <2>1, ResultIs, Zenon DEF Check, Require
<1> QED  BY <1>1, <1>2

---------------------------------------------------------------------------
(* Installed for any selection and table, and what an operation does to    *)
(* the installed entries: the entry of one key is replaced or removed.     *)

NE(p, n, len, a) == Entry(n, len, a.name, Describe(p, "", a).params)

L2Content(t) == {NE("l2fwd", n, Width, t.entries[n]) : n \in DOMAIN t.entries}
L3Content(t) == {NE("l3fwd", e.base, e.len, e.action) : e \in LpmEntries(t)}
X4cContent(t) == {Entry(e.key.n, e.key.len, e.action_id, X4cParams(e)) : e \in t.pipe}

UE(p, e) ==
  LET d == UbpfDescribe(Abi(p), e) IN
  Entry(d.key.value.n, IF d.key.len = <<>> THEN Width ELSE d.key.len[1], d.action, d.params)
UbpfContent(p, t) == {UE(p, e) : e \in UbpfEntries(t.entries)}

Content(s, t) ==
  CASE s.backend = "native" /\ s.program = "l2fwd" -> L2Content(t)
    [] s.backend = "native" /\ s.program = "l3fwd" -> L3Content(t)
    [] s.backend = "x4c" -> X4cContent(t)
    [] s.backend = "ubpf" -> UbpfContent(s.program, t)
    [] OTHER -> {}

Added(C, k, action, params) ==
  {e \in C : e.key # k} \cup {Entry(k.n, k.len, action, params)}
Removed(C, k) == {e \in C : e.key # k}

LEMMA InstalledIs == Installed = Content(sel, table)
<1>1. {NativeEntry(n, Width, table.entries[n]) : n \in DOMAIN table.entries} = 
        {Entry(n, Width, table.entries[n].name, Describe(sel.program, "", table.entries[n]).params)
           : n \in DOMAIN table.entries}
  BY DEF NativeEntry
<1>2. {NativeEntry(e.base, e.len, e.action) : e \in LpmEntries(table)} =
        {Entry(e.base, e.len, e.action.name, Describe(sel.program, "", e.action).params)
           : e \in LpmEntries(table)}
  BY DEF NativeEntry
<1>3. sel.program = "l2fwd" =>
        L2Content(table) = {NativeEntry(n, Width, table.entries[n]) : n \in DOMAIN table.entries}
  BY <1>1 DEF L2Content, NE
<1>4. sel.program = "l3fwd" =>
        L3Content(table) = {NativeEntry(e.base, e.len, e.action) : e \in LpmEntries(table)}
  BY <1>2 DEF L3Content, NE
<1> QED  BY <1>3, <1>4, Zenon DEF Installed, Content, X4cContent, UbpfContent, UE

LEMMA EntryIs ==
  \A n, len, action, params :
    LET e == Entry(n, len, action, params) IN
    /\ e.key = [n |-> n, len |-> len] /\ e.key.n = n /\ e.key.len = len
    /\ e.action = action /\ e.params = params
BY DEF Entry

LEMMA EntrySame ==
  \A n, len, action, params, n1, len1, action1, params1 :
    Entry(n, len, action, params) = Entry(n1, len1, action1, params1) <=>
      n = n1 /\ len = len1 /\ action = action1 /\ params = params1
BY DEF Entry

---------------------------------------------------------------------------
(* The native backend.                                                     *)

(* A native action remembers the call it was made from.                    *)
CallKept(p, action, vals) ==
  /\ FromCall(p, action, vals).name = action
  /\ Describe(p, "", FromCall(p, action, vals)).params = Numbers(vals)

LEMMA NativeCall ==
  ASSUME NEW p, NEW action, NEW vals, CallTyped(p, action, vals)
  PROVE  CallKept(p, action, vals)
<1>1. CASE p = "l2fwd" /\ action = "forward"
  <2>1. PICK n \in Num : vals = <<Value("u16", n)>>
    BY <1>1 DEF CallTyped
  <2>2. vals[1].n = n /\ Numbers(vals) = <<n>>
    BY <2>1 DEF Numbers, Value
  <2>3. FromCall(p, action, vals) = Action("forward", n, 0)
    BY <1>1, <2>2 DEF FromCall, L2FromCall
  <2> QED  BY <1>1, <2>2, <2>3 DEF Describe, Action, CallKept
<1>2. CASE p = "l3fwd" /\ action = "forward"
  <2>1. PICK n \in Num, m \in Num : vals = <<Value("u16", n), Value("mac", m)>>
    BY <1>2 DEF CallTyped
  <2>2. vals[1].n = n /\ vals[2].n = m /\ Numbers(vals) = <<n, m>>
    BY <2>1 DEF Numbers, Value
  <2>3. FromCall(p, action, vals) = Action("forward", n, m)
    BY <1>2, <2>2 DEF FromCall, L3FromCall
  <2> QED  BY <1>2, <2>2, <2>3 DEF Describe, Action, CallKept
<1>3. CASE action # "forward"
  <2>1. vals = <<>>
    BY <1>3 DEF CallTyped
  <2>2. Numbers(vals) = <<>>
    BY <2>1 DEF Numbers
  <2>3. FromCall(p, action, vals) = Action(action, 0, 0)
    BY <1>3 DEF FromCall, L2FromCall, L3FromCall
  <2> QED  BY <1>3, <2>2, <2>3 DEF Describe, Action, CallKept
<1> QED  BY <1>1, <1>2, <1>3 DEF CallTyped

L2Shape(t) == t = [entries |-> t.entries, default_action |-> t.default_action]

LEMMA L2Ops ==
  ASSUME NEW t, L2Shape(t), NEW n, NEW a
  PROVE  /\ L2Shape(ExactInsert(t, n, a)) /\ L2Shape(ExactRemove(t, n)) /\ L2Shape(ExactClear(t))
         /\ L2Content(ExactInsert(t, n, a)) =
              Added(L2Content(t), [n |-> n, len |-> Width], a.name, Describe("l2fwd", "", a).params)
         /\ L2Content(ExactRemove(t, n)) = Removed(L2Content(t), [n |-> n, len |-> Width])
         /\ L2Content(ExactClear(t)) = {}
         /\ n \in DOMAIN t.entries <=> \E e \in L2Content(t) : e.key = [n |-> n, len |-> Width]
<1> DEFINE k == [n |-> n, len |-> Width]
           ts == ExactInsert(t, n, a)
           tr == ExactRemove(t, n)
           tc == ExactClear(t)
<1>1. ASSUME NEW x PROVE LET u == [t EXCEPT !.entries = x] IN L2Shape(u) /\ u.entries = x
  BY DEF L2Shape
<1>2. /\ L2Shape(ts) /\ ts.entries = Put(t.entries, n, a)
      /\ L2Shape(tr) /\ tr.entries = Without(t.entries, n)
      /\ L2Shape(tc) /\ tc.entries = NoEntries
  BY <1>1 DEF ExactInsert, ExactRemove, ExactClear
<1>3. /\ DOMAIN ts.entries = DOMAIN t.entries \cup {n}
      /\ \A m \in DOMAIN ts.entries : ts.entries[m] = IF m = n THEN a ELSE t.entries[m]
      /\ DOMAIN tr.entries = DOMAIN t.entries \ {n}
      /\ \A m \in DOMAIN tr.entries : tr.entries[m] = t.entries[m]
      /\ DOMAIN tc.entries = {}
  BY <1>2 DEF Put, Without, NoEntries
<1> HIDE DEF ts, tr, tc
<1>4. \A m, b : NE("l2fwd", m, Width, b).key = [n |-> m, len |-> Width]
  BY DEF NE, Entry
<1>5. \A m : [n |-> m, len |-> Width] = k <=> m = n
  OBVIOUS
<1>6. NE("l2fwd", n, Width, a) = Entry(k.n, k.len, a.name, Describe("l2fwd", "", a).params)
  BY DEF NE
<1> HIDE DEF k
<1>7. L2Content(ts) = Added(L2Content(t), k, a.name, Describe("l2fwd", "", a).params)
  <2>1. ASSUME NEW e \in L2Content(ts)
        PROVE  e \in Added(L2Content(t), k, a.name, Describe("l2fwd", "", a).params)
    <3>1. PICK m \in DOMAIN ts.entries : e = NE("l2fwd", m, Width, ts.entries[m])
      BY DEF L2Content
    <3>2. CASE m = n
      BY <1>3, <1>6, <3>1, <3>2, Zenon DEF Added
    <3>3. CASE m # n
      <4>1. m \in DOMAIN t.entries /\ e = NE("l2fwd", m, Width, t.entries[m])
        BY <1>3, <3>1, <3>3
      <4>2. e \in L2Content(t)
        BY <4>1, Zenon DEF L2Content
      <4>3. e.key # k
        BY <4>1, <1>4, <1>5, <3>3
      <4> QED  BY <4>2, <4>3, Zenon DEF Added
    <3> QED  BY <3>2, <3>3
  <2>2. ASSUME NEW e \in L2Content(t), e.key # k PROVE e \in L2Content(ts)
    <3>1. PICK m \in DOMAIN t.entries : e = NE("l2fwd", m, Width, t.entries[m])
      BY DEF L2Content
    <3>2. m # n
      BY <1>4, <1>5, <2>2, <3>1
    <3>3. m \in DOMAIN ts.entries /\ e = NE("l2fwd", m, Width, ts.entries[m])
      BY <1>3, <3>1, <3>2
    <3> QED  BY <3>3, Zenon DEF L2Content
  <2>3. NE("l2fwd", n, Width, a) \in L2Content(ts)
    <3>1. n \in DOMAIN ts.entries /\ ts.entries[n] = a
      BY <1>3
    <3> QED  BY <3>1, Zenon DEF L2Content
  <2> QED  BY <2>1, <2>2, <2>3, <1>6, Zenon DEF Added
<1>8. L2Content(tr) = Removed(L2Content(t), k)
  <2>1. ASSUME NEW e \in L2Content(tr) PROVE e \in Removed(L2Content(t), k)
    <3>1. PICK m \in DOMAIN tr.entries : e = NE("l2fwd", m, Width, tr.entries[m])
      BY DEF L2Content
    <3>2. m # n /\ m \in DOMAIN t.entries /\ e = NE("l2fwd", m, Width, t.entries[m])
      BY <1>3, <3>1
    <3>3. e \in L2Content(t)
      BY <3>2, Zenon DEF L2Content
    <3>4. e.key # k
      BY <3>2, <1>4, <1>5
    <3> QED  BY <3>3, <3>4, Zenon DEF Removed
  <2>2. ASSUME NEW e \in L2Content(t), e.key # k PROVE e \in L2Content(tr)
    <3>1. PICK m \in DOMAIN t.entries : e = NE("l2fwd", m, Width, t.entries[m])
      BY DEF L2Content
    <3>2. m # n
      BY <1>4, <1>5, <2>2, <3>1
    <3>3. m \in DOMAIN tr.entries /\ e = NE("l2fwd", m, Width, tr.entries[m])
      BY <1>3, <3>1, <3>2
    <3> QED  BY <3>3, Zenon DEF L2Content
  <2> QED  BY <2>1, <2>2, Zenon DEF Removed
<1>9. L2Content(tc) = {}
  BY <1>3, Zenon DEF L2Content
<1>10. n \in DOMAIN t.entries <=> \E e \in L2Content(t) : e.key = k
  <2>1. ASSUME n \in DOMAIN t.entries PROVE \E e \in L2Content(t) : e.key = k
    <3>1. NE("l2fwd", n, Width, t.entries[n]) \in L2Content(t)
      BY <2>1, Zenon DEF L2Content
    <3> QED  BY <3>1, <1>4, <1>5, Zenon
  <2>2. ASSUME NEW e \in L2Content(t), e.key = k PROVE n \in DOMAIN t.entries
    <3>1. PICK m \in DOMAIN t.entries : e = NE("l2fwd", m, Width, t.entries[m])
      BY DEF L2Content
    <3> QED  BY <1>4, <1>5, <2>2, <3>1, Zenon
  <2> QED  BY <2>1, <2>2, Zenon
<1> QED  BY <1>2, <1>7, <1>8, <1>9, <1>10, Zenon DEF k, ts, tr, tc

(* The entries of groups, and so of an LpmTable and of a ubpf Table.       *)
LEMMA LpmEntriesAre ==
  ASSUME NEW t, NEW x
  PROVE  x \in LpmEntries(t) <=>
           \E l, b, v : Has(t.groups, l, b, v) /\ x = [base |-> b, len |-> l, action |-> v]
<1> DEFINE gs == t.groups
           part(i) == {[base |-> b, len |-> gs[i].len, action |-> gs[i].entries[b]] : b \in DOMAIN gs[i].entries}
<1>1. LpmEntries(t) = UNION {part(i) : i \in DOMAIN gs}
  BY Zenon DEF LpmEntries
<1>2. ASSUME NEW i \in DOMAIN gs, NEW b \in DOMAIN gs[i].entries, x = [base |-> b, len |-> gs[i].len, action |-> gs[i].entries[b]]
      PROVE  \E l, c, v : Has(gs, l, c, v) /\ x = [base |-> c, len |-> l, action |-> v]
  <2>1. Has(gs, gs[i].len, b, gs[i].entries[b])
    BY Zenon DEF Has, Slot
  <2> QED  BY <1>2, <2>1, Zenon
<1>3. ASSUME NEW l, NEW b, NEW v, Has(gs, l, b, v), x = [base |-> b, len |-> l, action |-> v]
      PROVE  \E i \in DOMAIN gs : x \in part(i)
  <2>1. PICK i \in DOMAIN gs : gs[i].len = l /\ b \in DOMAIN gs[i].entries /\ gs[i].entries[b] = v
    BY <1>3, Zenon DEF Has, Slot
  <2> QED  BY <1>3, <2>1, Zenon
<1>4. x \in LpmEntries(t) <=> \E i \in DOMAIN gs : x \in part(i)
  BY <1>1, Zenon
<1>5. ASSUME NEW i \in DOMAIN gs, x \in part(i)
      PROVE  \E l, b, v : Has(gs, l, b, v) /\ x = [base |-> b, len |-> l, action |-> v]
  BY <1>2, <1>5, Zenon
<1> QED  BY <1>3, <1>4, <1>5, Zenon

LEMMA UbpfEntriesAre ==
  ASSUME NEW t, NEW x
  PROVE  x \in UbpfEntries(t) <=>
           \E l, b, v : Has(t.buckets, l, b, v) /\ x = [len |-> l, key |-> b, value |-> v]
<1> DEFINE gs == t.buckets
           part(i) == {[len |-> gs[i].len, key |-> b, value |-> gs[i].entries[b]] : b \in DOMAIN gs[i].entries}
<1>1. UbpfEntries(t) = UNION {part(i) : i \in DOMAIN gs}
  BY Zenon DEF UbpfEntries
<1>2. ASSUME NEW i \in DOMAIN gs, NEW b \in DOMAIN gs[i].entries, x = [len |-> gs[i].len, key |-> b, value |-> gs[i].entries[b]]
      PROVE  \E l, c, v : Has(gs, l, c, v) /\ x = [len |-> l, key |-> c, value |-> v]
  <2>1. Has(gs, gs[i].len, b, gs[i].entries[b])
    BY Zenon DEF Has, Slot
  <2> QED  BY <1>2, <2>1, Zenon
<1>3. ASSUME NEW l, NEW b, NEW v, Has(gs, l, b, v), x = [len |-> l, key |-> b, value |-> v]
      PROVE  \E i \in DOMAIN gs : x \in part(i)
  <2>1. PICK i \in DOMAIN gs : gs[i].len = l /\ b \in DOMAIN gs[i].entries /\ gs[i].entries[b] = v
    BY <1>3, Zenon DEF Has, Slot
  <2> QED  BY <1>3, <2>1, Zenon
<1>4. x \in UbpfEntries(t) <=> \E i \in DOMAIN gs : x \in part(i)
  BY <1>1, Zenon
<1>5. ASSUME NEW i \in DOMAIN gs, x \in part(i)
      PROVE  \E l, b, v : Has(gs, l, b, v) /\ x = [len |-> l, key |-> b, value |-> v]
  BY <1>2, <1>5, Zenon
<1> QED  BY <1>3, <1>4, <1>5, Zenon

LEMMA L3ContentIs ==
  ASSUME NEW t, NEW x
  PROVE  x \in L3Content(t) <=> \E l, b, v : Has(t.groups, l, b, v) /\ x = NE("l3fwd", b, l, v)
<1>1. x \in L3Content(t) <=> \E e \in LpmEntries(t) : x = NE("l3fwd", e.base, e.len, e.action)
  BY Zenon DEF L3Content
<1>2. \A l, b, v : LET e == [base |-> b, len |-> l, action |-> v] IN
        e.base = b /\ e.len = l /\ e.action = v
  OBVIOUS
<1>3. ASSUME NEW e \in LpmEntries(t), x = NE("l3fwd", e.base, e.len, e.action)
      PROVE  \E l, b, v : Has(t.groups, l, b, v) /\ x = NE("l3fwd", b, l, v)
  <2>1. PICK l, b, v : Has(t.groups, l, b, v) /\ e = [base |-> b, len |-> l, action |-> v]
    BY <1>3, LpmEntriesAre
  <2> QED  BY <1>2, <1>3, <2>1, Zenon
<1>4. ASSUME NEW l, NEW b, NEW v, Has(t.groups, l, b, v), x = NE("l3fwd", b, l, v)
      PROVE  x \in L3Content(t)
  <2>1. PICK e : e = [base |-> b, len |-> l, action |-> v]
    OBVIOUS
  <2>2. e \in LpmEntries(t)
    BY <1>4, <2>1, LpmEntriesAre
  <2> QED  BY <1>1, <1>2, <1>4, <2>1, <2>2, Zenon
<1> QED  BY <1>1, <1>3, <1>4, Zenon

L3Shape(t) == Good(t.groups) /\ t = [groups |-> t.groups, default_action |-> t.default_action]

LEMMA L3Ops ==
  ASSUME NEW t, L3Shape(t), NEW q, q.len \in Nat, NEW a
  PROVE  LET k == [n |-> q.base, len |-> q.len] IN
         /\ L3Shape(LpmInsert(t, q, a)) /\ L3Shape(LpmRemove(t, q)) /\ L3Shape(LpmClear(t))
         /\ L3Content(LpmInsert(t, q, a)) =
              Added(L3Content(t), k, a.name, Describe("l3fwd", "", a).params)
         /\ L3Content(LpmRemove(t, q)) = Removed(L3Content(t), k)
         /\ L3Content(LpmClear(t)) = {}
         /\ Holds(t.groups, q.len, q.base) <=> \E e \in L3Content(t) : e.key = k
<1> DEFINE k == [n |-> q.base, len |-> q.len]
           ts == LpmInsert(t, q, a)
           tr == LpmRemove(t, q)
           tc == LpmClear(t)
<1>1. ASSUME NEW x PROVE LET u == [t EXCEPT !.groups = x] IN
                         u.groups = x /\ (Good(x) => L3Shape(u))
  BY DEF L3Shape
<1>2. Good(t.groups)
  BY DEF L3Shape
<1>3. /\ ts.groups = GroupInsert(t.groups, q.len, q.base, a)
      /\ tr.groups = GroupRemove(t.groups, q.len, q.base)
      /\ tc.groups = <<>>
  BY <1>1 DEF LpmInsert, LpmRemove, LpmClear
<1>4. Good(ts.groups) /\ Good(tr.groups) /\ Good(tc.groups)
  BY <1>2, <1>3, InsertShape, RemoveShape, EmptyGood
<1>5. L3Shape(ts) /\ L3Shape(tr) /\ L3Shape(tc)
  BY <1>1, <1>3, <1>4 DEF LpmInsert, LpmRemove, LpmClear
<1>6. \A l, b, v : Has(ts.groups, l, b, v) <=>
                     IF l = q.len /\ b = q.base THEN v = a ELSE Has(t.groups, l, b, v)
  BY <1>2, <1>3, InsertIsOneEntry
<1>7. \A l, b, v : Has(tr.groups, l, b, v) <=>
                     Has(t.groups, l, b, v) /\ ~(l = q.len /\ b = q.base)
  BY <1>2, <1>3, RemoveIsOneEntry
<1>8. \A l, b, v : ~Has(tc.groups, l, b, v)
  BY <1>3 DEF Has
<1>9. \A b, l, v : NE("l3fwd", b, l, v).key = k <=> l = q.len /\ b = q.base
  <2>1. \A b, l, v : NE("l3fwd", b, l, v).key = [n |-> b, len |-> l]
    BY DEF NE, Entry
  <2>2. \A b, l : [n |-> b, len |-> l] = k <=> l = q.len /\ b = q.base
    OBVIOUS
  <2> HIDE DEF k
  <2>3. ASSUME NEW b, NEW l, NEW v PROVE NE("l3fwd", b, l, v).key = k <=> l = q.len /\ b = q.base
    <3>1. NE("l3fwd", b, l, v).key = [n |-> b, len |-> l]
      BY <2>1
    <3> QED  BY <2>2, <3>1, Zenon
  <2> QED  BY <2>3, Zenon
<1>10. NE("l3fwd", q.base, q.len, a) = Entry(k.n, k.len, a.name, Describe("l3fwd", "", a).params)
  BY DEF NE
<1> HIDE DEF k, ts, tr, tc
<1>11. L3Content(ts) = Added(L3Content(t), k, a.name, Describe("l3fwd", "", a).params)
  <2>1. ASSUME NEW e
        PROVE  e \in L3Content(ts) <=>
                 (e \in L3Content(t) /\ e.key # k) \/ e = NE("l3fwd", q.base, q.len, a)
    <3>1. e \in L3Content(ts) <=>
            \E l, b, v : Has(ts.groups, l, b, v) /\ e = NE("l3fwd", b, l, v)
      BY L3ContentIs
    <3>2. e \in L3Content(t) <=>
            \E l, b, v : Has(t.groups, l, b, v) /\ e = NE("l3fwd", b, l, v)
      BY L3ContentIs
    <3> QED  BY <3>1, <3>2, <1>6, <1>9, Zenon
  <2> QED  BY <2>1, <1>10, Zenon DEF Added
<1>12. L3Content(tr) = Removed(L3Content(t), k)
  <2>1. ASSUME NEW e PROVE e \in L3Content(tr) <=> e \in L3Content(t) /\ e.key # k
    <3>1. e \in L3Content(tr) <=>
            \E l, b, v : Has(tr.groups, l, b, v) /\ e = NE("l3fwd", b, l, v)
      BY L3ContentIs
    <3>2. e \in L3Content(t) <=>
            \E l, b, v : Has(t.groups, l, b, v) /\ e = NE("l3fwd", b, l, v)
      BY L3ContentIs
    <3>3. ASSUME e \in L3Content(tr) PROVE e \in L3Content(t) /\ e.key # k
      <4>1. PICK l, b, v : Has(tr.groups, l, b, v) /\ e = NE("l3fwd", b, l, v)
        BY <3>1, <3>3, Zenon
      <4>2. Has(t.groups, l, b, v) /\ ~(l = q.len /\ b = q.base)
        BY <4>1, <1>7, Zenon
      <4>3. NE("l3fwd", b, l, v).key = k <=> l = q.len /\ b = q.base
        BY <1>9, Zenon
      <4> QED  BY <3>2, <4>1, <4>2, <4>3, Zenon
    <3>4. ASSUME e \in L3Content(t), e.key # k PROVE e \in L3Content(tr)
      <4>1. PICK l, b, v : Has(t.groups, l, b, v) /\ e = NE("l3fwd", b, l, v)
        BY <3>2, <3>4, Zenon
      <4>2. NE("l3fwd", b, l, v).key = k <=> l = q.len /\ b = q.base
        BY <1>9, Zenon
      <4>3. Has(tr.groups, l, b, v)
        BY <3>4, <4>1, <4>2, <1>7, Zenon
      <4> QED  BY <3>1, <4>1, <4>3, Zenon
    <3> QED  BY <3>3, <3>4, Zenon
  <2> QED  BY <2>1, Zenon DEF Removed
<1>13. L3Content(tc) = {}
  BY <1>8, L3ContentIs, Zenon
<1>14. Holds(t.groups, q.len, q.base) <=> \E e \in L3Content(t) : e.key = k
  <2>1. Holds(t.groups, q.len, q.base) <=> \E v : Has(t.groups, q.len, q.base, v)
    BY Zenon DEF Holds, Has, Slot
  <2>2. ASSUME NEW v, Has(t.groups, q.len, q.base, v) PROVE \E e \in L3Content(t) : e.key = k
    <3>1. NE("l3fwd", q.base, q.len, v) \in L3Content(t)
      BY <2>2, L3ContentIs, Zenon
    <3> QED  BY <3>1, <1>9, Zenon
  <2>3. ASSUME NEW e \in L3Content(t), e.key = k PROVE \E v : Has(t.groups, q.len, q.base, v)
    <3>1. PICK l, b, v : Has(t.groups, l, b, v) /\ e = NE("l3fwd", b, l, v)
      BY L3ContentIs
    <3> QED  BY <3>1, <2>3, <1>9, Zenon
  <2> QED  BY <2>1, <2>2, <2>3, Zenon
<1> QED  BY <1>5, <1>11, <1>12, <1>13, <1>14, Zenon DEF k, ts, tr, tc

---------------------------------------------------------------------------
(* The ubpf backend: what is written to the byte images is what is read    *)
(* back from them.                                                         *)

(* The bucket and the image under which a canonical key is kept.           *)
UAt(p, k) ==
  IF p = "l2fwd" THEN [len |-> 0, base |-> <<k.n % Octet, k.n \div Octet, 0>>]
  ELSE [len |-> k.len, base |-> <<k.n % Octet, k.n \div Octet>>]

LEMMA AbiIs ==
  /\ Abi("l2fwd") = L2Abi /\ Abi("l3fwd") = L3Abi
  /\ L2Abi.matching = "exact" /\ L2Abi.key = 3 /\ L2Abi.match_at = 1 /\ L2Abi.match_len = 3
  /\ L2Abi.value = 3 /\ DOMAIN L2Abi.disc = {"forward", "broadcast", "drop"}
  /\ L2Abi.disc["forward"] = 0 /\ L2Abi.disc["broadcast"] = 1 /\ L2Abi.disc["drop"] = 2
  /\ L2Abi.fields["forward"] = <<2>>
  /\ L2Abi.fields["broadcast"] = <<>> /\ L2Abi.fields["drop"] = <<>>
  /\ L3Abi.matching = "lpm" /\ L3Abi.key = 3 /\ L3Abi.match_at = 2 /\ L3Abi.match_len = 2
  /\ L3Abi.value = 6 /\ DOMAIN L3Abi.disc = {"forward", "punt", "drop"}
  /\ L3Abi.disc["forward"] = 0 /\ L3Abi.disc["punt"] = 1 /\ L3Abi.disc["drop"] = 2
  /\ L3Abi.fields["forward"] = <<2, 5>>
  /\ L3Abi.fields["punt"] = <<>> /\ L3Abi.fields["drop"] = <<>>
BY DEF Abi, L2Abi, L3Abi

LEMMA LeOctetIs ==
  ASSUME NEW n
  PROVE  /\ LeOctet(n, 1) = n % Octet /\ LeOctet(n, 2) = n \div Octet /\ LeOctet(n, 3) = 0
BY DEF LeOctet, LeBytes

LEMMA KeyImageIs ==
  ASSUME NEW key
  PROVE  LET n == key.value.n IN
         /\ KeyImage(L2Abi, key) = <<n % Octet, n \div Octet, 0>>
         /\ KeyImage(L3Abi, key) = <<0, n % Octet, n \div Octet>>
<1> DEFINE n == key.value.n
<1>1. KeyImage(L2Abi, key) = <<n % Octet, n \div Octet, 0>>
  <2>1. KeyImage(L2Abi, key) = [i \in 1 .. 3 |-> LeOctet(n, i)]
    BY AbiIs DEF KeyImage
  <2> QED  BY <2>1, LeOctetIs
<1>2. KeyImage(L3Abi, key) = <<0, n % Octet, n \div Octet>>
  <2>1. KeyImage(L3Abi, key) = [i \in 1 .. 3 |-> IF i >= 2 THEN LeOctet(n, i - 1) ELSE 0]
    BY AbiIs DEF KeyImage
  <2> QED  BY <2>1, LeOctetIs
<1> QED  BY <1>1, <1>2

LEMMA Windows ==
  ASSUME NEW a, NEW b, NEW c
  PROVE  SubSeq(<<a, b, c>>, 1, 3) = <<a, b, c>> /\ SubSeq(<<a, b, c>>, 2, 3) = <<b, c>>
<1> DEFINE s == <<a, b, c>>
<1>1. s \in Seq({a, b, c}) /\ Len(s) = 3
  OBVIOUS
<1>2. /\ SubSeq(s, 1, 3) \in Seq({a, b, c}) /\ Len(SubSeq(s, 1, 3)) = 3
      /\ \A i \in 1 .. 3 : SubSeq(s, 1, 3)[i] = s[1 + i - 1]
  BY <1>1, SubSeqProperties
<1>3. /\ SubSeq(s, 2, 3) \in Seq({a, b, c}) /\ Len(SubSeq(s, 2, 3)) = 2
      /\ \A i \in 1 .. 2 : SubSeq(s, 2, 3)[i] = s[2 + i - 1]
  BY <1>1, SubSeqProperties
<1>4. /\ SubSeq(s, 1, 3)[1] = a /\ SubSeq(s, 1, 3)[2] = b /\ SubSeq(s, 1, 3)[3] = c
      /\ SubSeq(s, 2, 3)[1] = b /\ SubSeq(s, 2, 3)[2] = c
  BY <1>2, <1>3
<1>5. \A u \in Seq({a, b, c}) : /\ Len(u) = 3 => u = <<u[1], u[2], u[3]>>
                                /\ Len(u) = 2 => u = <<u[1], u[2]>>
  OBVIOUS
<1> QED  BY <1>2, <1>3, <1>4, <1>5

(* Table::canonical of a key's image.                                      *)
LEMMA CanonicalIs ==
  ASSUME NEW p \in Programs, NEW key, KeyTyped(p, key), NEW t,
         t.matching = Abi(p).matching, t.match_at = Abi(p).match_at,
         t.match_len = Abi(p).match_len
  PROVE  Canonical(t, KeyImage(Abi(p), key), KeyPrefix(key)) = UAt(p, Canon(key))
<1>1. CASE p = "l2fwd"
  <2>1. PICK n \in Num : key = [match |-> "exact", value |-> Value("mac", n), len |-> Width]
    BY <1>1 DEF KeyTyped
  <2>2. key.value.n = n /\ key.len = Width
    BY <2>1 DEF Value
  <2>3. Canon(key).n = n
    BY <2>2, MaskFull DEF Canon
  <2>4. PICK w : w = <<n % Octet, n \div Octet, 0>>
    OBVIOUS
  <2>5. KeyImage(Abi(p), key) = w
    BY <1>1, <2>2, <2>4, KeyImageIs, AbiIs
  <2>6. Window(t, w) = w
    <3>1. t.match_at = 1 /\ t.match_len = 3 /\ 1 + 3 - 1 = 3
      BY <1>1, AbiIs
    <3> QED  BY <2>4, <3>1, Windows, Zenon DEF Window
  <2>7. Canonical(t, w, KeyPrefix(key)) = [len |-> 0, base |-> w]
    BY <1>1, <2>6, AbiIs DEF Canonical
  <2> QED  BY <1>1, <2>3, <2>4, <2>5, <2>7 DEF UAt
<1>2. CASE p = "l3fwd"
  <2>1. PICK n \in Num, l \in 0 .. Width :
          key = [match |-> "lpm", value |-> Value("ipv4", n), len |-> l]
    BY <1>2 DEF KeyTyped
  <2>2. key.value.n = n /\ key.len = l /\ key.match = "lpm"
    BY <2>1 DEF Value
  <2>3. Canon(key) = [n |-> Mask(n, l), len |-> l] /\ KeyPrefix(key) = l
    BY <2>2 DEF Canon, KeyPrefix
  <2>4. PICK w : w = <<0, n % Octet, n \div Octet>>
    OBVIOUS
  <2>5. KeyImage(Abi(p), key) = w
    BY <1>2, <2>2, <2>4, KeyImageIs, AbiIs
  <2>6. Window(t, w) = LeBytes(n)
    <3>1. t.match_at = 2 /\ t.match_len = 2 /\ 2 + 2 - 1 = 3
      BY <1>2, AbiIs
    <3> QED  BY <2>4, <3>1, Windows, Zenon DEF Window, LeBytes
  <2>7. Canonical(t, w, l) = [len |-> l, base |-> ZeroBelow(LeBytes(n), l)]
    BY <1>2, <2>6, AbiIs DEF Canonical
  <2>8. ZeroBelow(LeBytes(n), l) = LeBytes(Mask(n, l))
    BY ZeroBelowIs
  <2>9. UAt(p, Canon(key)) = [len |-> l, base |-> LeBytes(Mask(n, l))]
    BY <1>2, <2>3 DEF UAt, LeBytes
  <2> QED  BY <2>3, <2>5, <2>7, <2>8, <2>9
<1> QED  BY <1>1, <1>2 DEF Programs

(* The key a program's table keeps: canonical, and of full length for an   *)
(* exact one.                                                              *)
Canonicals(p) ==
  IF p = "l2fwd" THEN {[n |-> n, len |-> Width] : n \in Num}
  ELSE [n : Num, len : 0 .. Width]

LEMMA CanonTyped ==
  ASSUME NEW p \in Programs, NEW key, KeyTyped(p, key)
  PROVE  /\ Canon(key) \in Canonicals(p)
         /\ Canon(key) \in [n : Num, len : 0 .. Width]
         /\ key.value.n \in Num /\ key.len \in 0 .. Width
<1>1. CASE p = "l2fwd"
  <2>1. PICK n \in Num : key = [match |-> "exact", value |-> Value("mac", n), len |-> Width]
    BY <1>1 DEF KeyTyped
  <2>2. key.value.n = n /\ key.len = Width
    BY <2>1 DEF Value
  <2>3. Canon(key) = [n |-> n, len |-> Width]
    BY <2>2, MaskFull DEF Canon
  <2>4. Width \in 0 .. Width
    BY WidthNat
  <2> QED  BY <1>1, <2>2, <2>3, <2>4 DEF Canonicals
<1>2. CASE p = "l3fwd"
  <2>1. PICK n \in Num, l \in 0 .. Width :
          key = [match |-> "lpm", value |-> Value("ipv4", n), len |-> l]
    BY <1>2 DEF KeyTyped
  <2>2. key.value.n = n /\ key.len = l
    BY <2>1 DEF Value
  <2>3. Canon(key) = [n |-> Mask(n, l), len |-> l]
    BY <2>2 DEF Canon
  <2>4. Mask(n, l) \in Num
    BY MaskFacts
  <2> QED  BY <1>2, <2>2, <2>3, <2>4 DEF Canonicals
<1> QED  BY <1>1, <1>2 DEF Programs

LEMMA UAtOnce ==
  ASSUME NEW p \in Programs, NEW k \in Canonicals(p), NEW j \in Canonicals(p),
         UAt(p, k).len = UAt(p, j).len, UAt(p, k).base = UAt(p, j).base
  PROVE  k = j
<1>1. k.n \in Num /\ j.n \in Num
  BY DEF Canonicals
<1>2. k.n % Octet = j.n % Octet /\ k.n \div Octet = j.n \div Octet
  BY DEF UAt
<1>3. /\ k.n = (k.n \div Octet) * Octet + (k.n % Octet)
      /\ j.n = (j.n \div Octet) * Octet + (j.n % Octet)
  BY <1>1, Octets
<1>4. k.n = j.n
  BY <1>2, <1>3, Zenon
<1>5. CASE p = "l2fwd"
  BY <1>4, <1>5 DEF Canonicals
<1>6. CASE p # "l2fwd"
  <2>1. k.len = j.len
    BY <1>6 DEF UAt
  <2>2. k \in [n : Num, len : 0 .. Width] /\ j \in [n : Num, len : 0 .. Width]
    BY <1>6 DEF Canonicals
  <2> QED  BY <1>4, <2>1, <2>2
<1> QED  BY <1>5, <1>6

(* The octets of a field of a value: ValueImage's CHOOSE finds the field   *)
(* the octet is in.                                                        *)
LEMMA ForwardImages ==
  ASSUME NEW vals
  PROVE  /\ DOMAIN vals = {1} =>
              ValueImage(L2Abi, "forward", vals) = <<0, vals[1].n % Octet, vals[1].n \div Octet>>
         /\ DOMAIN vals = {1, 2} =>
              ValueImage(L3Abi, "forward", vals) =
                <<0, vals[1].n % Octet, vals[1].n \div Octet,
                  0, vals[2].n % Octet, vals[2].n \div Octet>>
<1>1. ASSUME DOMAIN vals = {1}
      PROVE  ValueImage(L2Abi, "forward", vals) = <<0, vals[1].n % Octet, vals[1].n \div Octet>>
  <2> DEFINE at == L2Abi.fields["forward"]
             in(i) == \E j \in DOMAIN at \cap DOMAIN vals : i \in at[j] .. at[j] + 1
             j(i) == CHOOSE k \in DOMAIN at : i \in at[k] .. at[k] + 1
             im == ValueImage(L2Abi, "forward", vals)
  <2>0. at = <<2>>
    BY AbiIs
  <2>1. im = [i \in 1 .. 3 |-> IF i = 1 THEN 0
                ELSE IF in(i) THEN LeOctet(vals[j(i)].n, i - at[j(i)] + 1) ELSE 0]
    <3>1. im = [i \in 1 .. L2Abi.value |-> IF i = 1 THEN L2Abi.disc["forward"]
                ELSE IF in(i) THEN LeOctet(vals[j(i)].n, i - at[j(i)] + 1) ELSE 0]
      BY Zenon DEF ValueImage
    <3>2. L2Abi.value = 3 /\ L2Abi.disc["forward"] = 0
      BY AbiIs
    <3> HIDE DEF in, j, at, im
    <3> QED  BY <3>1, <3>2, Zenon
  <2>2. in(2) /\ in(3)
    BY <1>1, <2>0
  <2>3. j(2) = 1 /\ j(3) = 1
    BY <2>0
  <2> HIDE DEF in, j, at
  <2>4. im[1] = 0 /\ im[2] = LeOctet(vals[1].n, 1) /\ im[3] = LeOctet(vals[1].n, 2)
    BY <2>0, <2>1, <2>2, <2>3
  <2>5. im = <<im[1], im[2], im[3]>>
    BY <2>1
  <2> QED  BY <2>4, <2>5, LeOctetIs
<1>2. ASSUME DOMAIN vals = {1, 2}
      PROVE  ValueImage(L3Abi, "forward", vals) =
               <<0, vals[1].n % Octet, vals[1].n \div Octet,
                 0, vals[2].n % Octet, vals[2].n \div Octet>>
  <2> DEFINE at == L3Abi.fields["forward"]
             in(i) == \E j \in DOMAIN at \cap DOMAIN vals : i \in at[j] .. at[j] + 1
             j(i) == CHOOSE k \in DOMAIN at : i \in at[k] .. at[k] + 1
             im == ValueImage(L3Abi, "forward", vals)
  <2>0. at = <<2, 5>>
    BY AbiIs
  <2>1. im = [i \in 1 .. 6 |-> IF i = 1 THEN 0
                ELSE IF in(i) THEN LeOctet(vals[j(i)].n, i - at[j(i)] + 1) ELSE 0]
    <3>1. im = [i \in 1 .. L3Abi.value |-> IF i = 1 THEN L3Abi.disc["forward"]
                ELSE IF in(i) THEN LeOctet(vals[j(i)].n, i - at[j(i)] + 1) ELSE 0]
      BY Zenon DEF ValueImage
    <3>2. L3Abi.value = 6 /\ L3Abi.disc["forward"] = 0
      BY AbiIs
    <3> HIDE DEF in, j, at, im
    <3> QED  BY <3>1, <3>2, Zenon
  <2>2. in(2) /\ in(3) /\ ~in(4) /\ in(5) /\ in(6)
    BY <1>2, <2>0
  <2>3. j(2) = 1 /\ j(3) = 1 /\ j(5) = 2 /\ j(6) = 2
    BY <2>0
  <2> HIDE DEF in, j, at
  <2>4. /\ im[1] = 0 /\ im[2] = LeOctet(vals[1].n, 1) /\ im[3] = LeOctet(vals[1].n, 2)
        /\ im[4] = 0 /\ im[5] = LeOctet(vals[2].n, 1) /\ im[6] = LeOctet(vals[2].n, 2)
    <3>1. at[1] = 2 /\ at[2] = 5
      BY <2>0
    <3>2. im[1] = 0 /\ im[4] = 0
      BY <2>1, <2>2
    <3>3. \A i \in {2, 3, 5, 6} : im[i] = LeOctet(vals[j(i)].n, i - at[j(i)] + 1)
      BY <2>1, <2>2
    <3>4. /\ im[2] = LeOctet(vals[1].n, 2 - 2 + 1) /\ im[3] = LeOctet(vals[1].n, 3 - 2 + 1)
          /\ im[5] = LeOctet(vals[2].n, 5 - 5 + 1) /\ im[6] = LeOctet(vals[2].n, 6 - 5 + 1)
      BY <2>3, <3>1, <3>3
    <3> QED  BY <3>2, <3>4
  <2>5. im = <<im[1], im[2], im[3], im[4], im[5], im[6]>>
    BY <2>1
  <2> QED  BY <2>4, <2>5, LeOctetIs
<1> QED  BY <1>1, <1>2

(* Whatever the action, the image's first octet is its discriminant.       *)
LEMMA Discriminant ==
  ASSUME NEW p \in Programs, NEW a \in DOMAIN Abi(p).disc, NEW vals
  PROVE  LET im == ValueImage(Abi(p), a, vals) IN
         im[1] = Abi(p).disc[a] /\ ActionOf(Abi(p), im) = a
<1> DEFINE im == ValueImage(Abi(p), a, vals)
<1>1. 1 \in 1 .. Abi(p).value
  BY AbiIs DEF Programs
<1>2. im[1] = Abi(p).disc[a]
  BY <1>1, Zenon DEF ValueImage
<1>3. \A b \in DOMAIN Abi(p).disc : Abi(p).disc[b] = Abi(p).disc[a] => b = a
  BY AbiIs DEF Programs
<1> HIDE DEF im
<1>4. ActionOf(Abi(p), im) = a
  BY <1>2, <1>3, Zenon DEF ActionOf
<1> QED  BY <1>2, <1>4 DEF im

(* describe reads back what the operator asked for.                        *)
LEMMA UEIs ==
  ASSUME NEW p \in Programs, NEW k \in Canonicals(p),
         NEW a, NEW vals, CallTyped(p, a, vals)
  PROVE  UE(p, [len |-> UAt(p, k).len, key |-> UAt(p, k).base,
                value |-> ValueImage(Abi(p), a, vals)])
           = Entry(k.n, k.len, a, Numbers(vals))
<1> DEFINE im == ValueImage(Abi(p), a, vals)
<1>1. PICK e : e = [len |-> UAt(p, k).len, key |-> UAt(p, k).base, value |-> im]
  OBVIOUS
<1>2. e.len = UAt(p, k).len /\ e.key = UAt(p, k).base /\ e.value = im
  BY <1>1
<1>3. k.n \in Num
  BY DEF Canonicals
<1>4. ImageNumber(e.key, 1) = k.n
  <2>1. e.key[1] = k.n % Octet /\ e.key[2] = k.n \div Octet
    BY <1>2 DEF UAt
  <2>2. PICK lo \in 0 .. Octet - 1, hi \in 0 .. Octet - 1 :
          lo = k.n % Octet /\ hi = k.n \div Octet /\ k.n = hi * Octet + lo
    BY <1>3, Octets
  <2>3. ImageNumber(e.key, 1) = lo + hi * Octet
    BY <2>1, <2>2 DEF ImageNumber
  <2>4. PICK o \in Nat : o = Octet
    BY OctetIs
  <2>5. lo \in Nat /\ hi \in Nat
    BY <2>4
  <2>6. lo + hi * o = hi * o + lo
    BY <2>5
  <2> QED  BY <2>2, <2>3, <2>4, <2>6, Zenon
<1>5. a \in DOMAIN Abi(p).disc
  BY AbiIs DEF CallTyped
<1>6. ActionOf(Abi(p), e.value) = a
  BY <1>2, <1>5, Discriminant
<1>7. [i \in DOMAIN Abi(p).fields[a] |-> ImageNumber(e.value, Abi(p).fields[a][i])] = Numbers(vals)
  <2>1. ASSUME NEW v, NEW x \in Num, NEW at, v[at] = x % Octet, v[at + 1] = x \div Octet
        PROVE  ImageNumber(v, at) = x
    <3>1. PICK lo \in 0 .. Octet - 1, hi \in 0 .. Octet - 1 :
            lo = x % Octet /\ hi = x \div Octet /\ x = hi * Octet + lo
      BY Octets
    <3>2. ImageNumber(v, at) = lo + hi * Octet
      BY <2>1, <3>1 DEF ImageNumber
    <3>3. PICK o \in Nat : o = Octet
      BY OctetIs
    <3>4. lo \in Nat /\ hi \in Nat
      BY <3>3
    <3>5. lo + hi * o = hi * o + lo
      BY <3>4
    <3> QED  BY <3>1, <3>2, <3>3, <3>5, Zenon
  <2>2. CASE p = "l2fwd" /\ a = "forward"
    <3>1. PICK n \in Num : vals = <<Value("u16", n)>>
      BY <2>2 DEF CallTyped
    <3>2. DOMAIN vals = {1} /\ vals[1].n = n /\ Numbers(vals) = <<n>>
      BY <3>1 DEF Value, Numbers
    <3>3. e.value = <<0, n % Octet, n \div Octet>>
      BY <1>2, <2>2, <3>2, ForwardImages, AbiIs
    <3>4. e.value[2] = n % Octet /\ e.value[2 + 1] = n \div Octet
      BY <3>3
    <3>5. ImageNumber(e.value, 2) = n
      BY <2>1, <3>4
    <3>6. Abi(p).fields[a] = <<2>>
      BY <2>2, AbiIs
    <3> QED  BY <3>2, <3>5, <3>6
  <2>3. CASE p = "l3fwd" /\ a = "forward"
    <3>1. PICK n \in Num, m \in Num : vals = <<Value("u16", n), Value("mac", m)>>
      BY <2>3 DEF CallTyped
    <3>2. DOMAIN vals = {1, 2} /\ vals[1].n = n /\ vals[2].n = m /\ Numbers(vals) = <<n, m>>
      BY <3>1 DEF Value, Numbers
    <3>3. e.value = <<0, n % Octet, n \div Octet, 0, m % Octet, m \div Octet>>
      BY <1>2, <2>3, <3>2, ForwardImages, AbiIs
    <3>4. /\ e.value[2] = n % Octet /\ e.value[2 + 1] = n \div Octet
          /\ e.value[5] = m % Octet /\ e.value[5 + 1] = m \div Octet
      BY <3>3
    <3>5. ImageNumber(e.value, 2) = n /\ ImageNumber(e.value, 5) = m
      BY <2>1, <3>4
    <3>6. Abi(p).fields[a] = <<2, 5>>
      BY <2>3, AbiIs
    <3> QED  BY <3>2, <3>5, <3>6
  <2>4. CASE a # "forward"
    <3>1. vals = <<>> /\ Abi(p).fields[a] = <<>>
      BY <2>4, AbiIs DEF CallTyped
    <3> QED  BY <3>1 DEF Numbers
  <2> QED  BY <2>2, <2>3, <2>4 DEF CallTyped
<1>8. (IF Abi(p).matching = "exact" THEN Width ELSE e.len) = k.len
  BY <1>2, AbiIs DEF UAt, Canonicals, Programs
<1> DEFINE d == UbpfDescribe(Abi(p), e)
<1>9. /\ d.key.value.n = k.n /\ d.action = a /\ d.params = Numbers(vals)
      /\ d.key.len = IF Abi(p).matching = "exact" THEN <<>> ELSE <<e.len>>
  BY <1>4, <1>6, <1>7 DEF UbpfDescribe
<1>10. (IF d.key.len = <<>> THEN Width ELSE d.key.len[1]) = k.len
  <2> HIDE DEF d
  <2>1. CASE Abi(p).matching = "exact"
    BY <1>8, <1>9, <2>1
  <2>2. CASE Abi(p).matching # "exact"
    BY <1>8, <1>9, <2>2
  <2> QED  BY <2>1, <2>2
<1>11. UE(p, e) = Entry(d.key.value.n, IF d.key.len = <<>> THEN Width ELSE d.key.len[1],
                        d.action, d.params)
  BY Zenon DEF UE
<1> HIDE DEF d, im
<1> QED  BY <1>1, <1>9, <1>10, <1>11, Zenon DEF im

(* A slot that holds the images of a canonical key and a typed call.       *)
USlot(p, l, b, v) ==
  \E k, a, vals :
    /\ k \in Canonicals(p) /\ CallTyped(p, a, vals)
    /\ l = UAt(p, k).len /\ b = UAt(p, k).base /\ v = ValueImage(Abi(p), a, vals)

(* What is described of a slot.                                            *)
UR(p, l, b, v) == UE(p, [len |-> l, key |-> b, value |-> v])

UEntries(p, bs) ==
  [matching |-> Abi(p).matching, match_at |-> Abi(p).match_at,
   match_len |-> Abi(p).match_len, buckets |-> bs, default |-> <<>>]

UShape(p, t) ==
  /\ t = [entries |-> UEntries(p, t.entries.buckets), defaults |-> t.defaults]
  /\ Good(t.entries.buckets)
  /\ \A l, b, v : Has(t.entries.buckets, l, b, v) => USlot(p, l, b, v)

LEMMA UbpfContentIs ==
  ASSUME NEW p, NEW t, NEW x
  PROVE  x \in UbpfContent(p, t) <=>
           \E l, b, v : /\ Has(t.entries.buckets, l, b, v)
                        /\ x = UR(p, l, b, v)
<1>1. x \in UbpfContent(p, t) <=> \E e \in UbpfEntries(t.entries) : x = UE(p, e)
  BY Zenon DEF UbpfContent
<1>2. ASSUME NEW e \in UbpfEntries(t.entries), x = UE(p, e)
      PROVE  \E l, b, v : /\ Has(t.entries.buckets, l, b, v)
                          /\ x = UR(p, l, b, v)
  <2>1. PICK l, b, v : Has(t.entries.buckets, l, b, v) /\ e = [len |-> l, key |-> b, value |-> v]
    BY <1>2, UbpfEntriesAre
  <2> QED  BY <1>2, <2>1, Zenon DEF UR
<1>3. ASSUME NEW l, NEW b, NEW v, Has(t.entries.buckets, l, b, v),
             x = UR(p, l, b, v)
      PROVE  x \in UbpfContent(p, t)
  <2>1. PICK e : e = [len |-> l, key |-> b, value |-> v]
    OBVIOUS
  <2>2. e \in UbpfEntries(t.entries)
    BY <1>3, <2>1, UbpfEntriesAre
  <2> QED  BY <1>1, <1>3, <2>1, <2>2, Zenon DEF UR
<1> QED  BY <1>1, <1>2, <1>3, Zenon

(* Of the images kept, those of key k are the ones described with key k.   *)
LEMMA USlotKey ==
  ASSUME NEW p \in Programs, NEW k \in Canonicals(p), NEW l, NEW b, NEW v, USlot(p, l, b, v)
  PROVE  UR(p, l, b, v).key = [n |-> k.n, len |-> k.len] <=>
           l = UAt(p, k).len /\ b = UAt(p, k).base
<1>1. PICK j, a, vals :
        /\ j \in Canonicals(p) /\ CallTyped(p, a, vals)
        /\ l = UAt(p, j).len /\ b = UAt(p, j).base /\ v = ValueImage(Abi(p), a, vals)
  BY DEF USlot
<1>2. UR(p, l, b, v) = Entry(j.n, j.len, a, Numbers(vals))
  BY <1>1, UEIs DEF UR
<1>3. UR(p, l, b, v).key = [n |-> j.n, len |-> j.len]
  BY <1>2, EntryIs
<1>4. [n |-> j.n, len |-> j.len] = [n |-> k.n, len |-> k.len] <=> k = j
  BY <1>1 DEF Canonicals
<1>5. l = UAt(p, k).len /\ b = UAt(p, k).base => k = j
  BY <1>1, UAtOnce
<1> QED  BY <1>1, <1>3, <1>4, <1>5, Zenon

LEMMA UbpfOps ==
  ASSUME NEW p \in Programs, NEW t, UShape(p, t),
         NEW key, KeyTyped(p, key), NEW a, NEW vals, CallTyped(p, a, vals)
  PROVE  LET ts == [t EXCEPT !.entries = UbpfInsert(@, KeyImage(Abi(p), key), KeyPrefix(key),
                                                    ValueImage(Abi(p), a, vals))]
             tr == [t EXCEPT !.entries = UbpfRemove(@, KeyImage(Abi(p), key), KeyPrefix(key))]
             k == Canon(key)
         IN /\ UShape(p, ts) /\ UShape(p, tr)
            /\ ts.defaults = t.defaults /\ tr.defaults = t.defaults
            /\ UbpfContent(p, ts) = Added(UbpfContent(p, t), k, a, Numbers(vals))
            /\ UbpfContent(p, tr) = Removed(UbpfContent(p, t), k)
<1> DEFINE bs == t.entries.buckets
           k == Canon(key)
           at == UAt(p, k)
           im == ValueImage(Abi(p), a, vals)
           bi == GroupInsert(bs, at.len, at.base, im)
           br == GroupRemove(bs, at.len, at.base)
           ts == [t EXCEPT !.entries = UbpfInsert(@, KeyImage(Abi(p), key), KeyPrefix(key), im)]
           tr == [t EXCEPT !.entries = UbpfRemove(@, KeyImage(Abi(p), key), KeyPrefix(key))]
<1>1. /\ t = [entries |-> UEntries(p, bs), defaults |-> t.defaults]
      /\ Good(bs)
      /\ \A l, b, v : Has(bs, l, b, v) => USlot(p, l, b, v)
  BY Zenon DEF UShape
<1>2. t.entries = UEntries(p, bs)
  BY <1>1
<1>3. Canonical(t.entries, KeyImage(Abi(p), key), KeyPrefix(key)) = at
  <2>1. /\ UEntries(p, bs).matching = Abi(p).matching
        /\ UEntries(p, bs).match_at = Abi(p).match_at
        /\ UEntries(p, bs).match_len = Abi(p).match_len
    BY DEF UEntries
  <2> QED  BY <1>2, <2>1, CanonicalIs
<1>4. k \in Canonicals(p) /\ k = [n |-> k.n, len |-> k.len]
  BY CanonTyped DEF Canon
<1>5. at.len \in Nat
  BY <1>4 DEF UAt, Canonicals
<1> HIDE DEF at, im, k
<1>6. ASSUME NEW x, NEW u, u = [t EXCEPT !.entries = [UEntries(p, bs) EXCEPT !.buckets = x]]
      PROVE  /\ u = [entries |-> UEntries(p, x), defaults |-> t.defaults]
             /\ u.entries.buckets = x /\ u.defaults = t.defaults
  <2>1. [UEntries(p, bs) EXCEPT !.buckets = x] = UEntries(p, x) /\ UEntries(p, x).buckets = x
    BY DEF UEntries
  <2>2. u = [t EXCEPT !.entries = UEntries(p, x)]
    BY <1>6, <2>1, Zenon
  <2>3. u = [entries |-> UEntries(p, x), defaults |-> t.defaults]
    BY <1>1, <2>2
  <2>4. u.entries = UEntries(p, x) /\ u.defaults = t.defaults
    BY <2>3
  <2> QED  BY <2>1, <2>3, <2>4, Zenon
<1>7. /\ UbpfInsert(t.entries, KeyImage(Abi(p), key), KeyPrefix(key), im)
           = [UEntries(p, bs) EXCEPT !.buckets = bi]
      /\ UbpfRemove(t.entries, KeyImage(Abi(p), key), KeyPrefix(key))
           = [UEntries(p, bs) EXCEPT !.buckets = br]
  <2>1. [UEntries(p, bs) EXCEPT !.buckets = bi]
          = [UEntries(p, bs) EXCEPT !.buckets = GroupInsert(@, at.len, at.base, im)]
    BY DEF UEntries
  <2>2. [UEntries(p, bs) EXCEPT !.buckets = br]
          = [UEntries(p, bs) EXCEPT !.buckets = GroupRemove(@, at.len, at.base)]
    BY DEF UEntries
  <2> HIDE DEF bi, br
  <2>3. UbpfInsert(t.entries, KeyImage(Abi(p), key), KeyPrefix(key), im)
          = [t.entries EXCEPT !.buckets = GroupInsert(@, at.len, at.base, im)]
    BY <1>3 DEF UbpfInsert
  <2>4. UbpfRemove(t.entries, KeyImage(Abi(p), key), KeyPrefix(key))
          = [t.entries EXCEPT !.buckets = GroupRemove(@, at.len, at.base)]
    BY <1>3 DEF UbpfRemove
  <2> QED  BY <1>2, <2>1, <2>2, <2>3, <2>4, Zenon
<1>8. /\ ts = [t EXCEPT !.entries = [UEntries(p, bs) EXCEPT !.buckets = bi]]
      /\ tr = [t EXCEPT !.entries = [UEntries(p, bs) EXCEPT !.buckets = br]]
  <2> HIDE DEF bi, br, bs
  <2> QED  BY <1>7
<1>9. /\ ts = [entries |-> UEntries(p, bi), defaults |-> t.defaults]
      /\ ts.entries.buckets = bi /\ ts.defaults = t.defaults
      /\ tr = [entries |-> UEntries(p, br), defaults |-> t.defaults]
      /\ tr.entries.buckets = br /\ tr.defaults = t.defaults
  <2> HIDE DEF bi, br, bs, ts, tr
  <2> QED  BY <1>6, <1>8
<1>10. /\ Good(bi)
       /\ \A l, b, v : Has(bi, l, b, v) <=>
                         IF l = at.len /\ b = at.base THEN v = im ELSE Has(bs, l, b, v)
  BY <1>1, <1>5, InsertIsOneEntry
<1>11. /\ Good(br)
       /\ \A l, b, v : Has(br, l, b, v) <=> Has(bs, l, b, v) /\ ~(l = at.len /\ b = at.base)
  BY <1>1, <1>5, RemoveIsOneEntry
<1>12. USlot(p, at.len, at.base, im)
  BY <1>4 DEF USlot, at, im
<1> HIDE DEF bi, br, bs, ts, tr
<1>13. UShape(p, ts) /\ UShape(p, tr)
  <2>1. \A l, b, v : Has(bi, l, b, v) => USlot(p, l, b, v)
    BY <1>1, <1>10, <1>12, Zenon
  <2>2. \A l, b, v : Has(br, l, b, v) => USlot(p, l, b, v)
    BY <1>1, <1>11, Zenon
  <2> QED  BY <2>1, <2>2, <1>9, <1>10, <1>11, Zenon DEF UShape
<1>14. UR(p, at.len, at.base, im) = Entry(k.n, k.len, a, Numbers(vals))
  <2>1. UE(p, [len |-> UAt(p, k).len, key |-> UAt(p, k).base, value |-> ValueImage(Abi(p), a, vals)])
          = Entry(k.n, k.len, a, Numbers(vals))
    BY <1>4, UEIs
  <2> QED  BY <2>1, Zenon DEF UR, at, im
<1>15. \A l, b, v : USlot(p, l, b, v) =>
         (UR(p, l, b, v).key = k <=> l = at.len /\ b = at.base)
  <2>1. ASSUME NEW l, NEW b, NEW v, USlot(p, l, b, v)
        PROVE  UR(p, l, b, v).key = k <=> l = at.len /\ b = at.base
    <3>1. UR(p, l, b, v).key = [n |-> k.n, len |-> k.len] <=>
            l = UAt(p, k).len /\ b = UAt(p, k).base
      BY <1>4, <2>1, USlotKey
    <3> QED  BY <1>4, <3>1, Zenon DEF at
  <2> QED  BY <2>1, Zenon
<1>16. UbpfContent(p, ts) = Added(UbpfContent(p, t), k, a, Numbers(vals))
  <2>1. ASSUME NEW e
        PROVE  e \in UbpfContent(p, ts) <=>
                 \/ e \in UbpfContent(p, t) /\ e.key # k
                 \/ e = Entry(k.n, k.len, a, Numbers(vals))
    <3>1. e \in UbpfContent(p, ts) <=>
            \E l, b, v : Has(bi, l, b, v) /\ e = UR(p, l, b, v)
      BY <1>9, UbpfContentIs
    <3>2. e \in UbpfContent(p, t) <=>
            \E l, b, v : Has(bs, l, b, v) /\ e = UR(p, l, b, v)
      BY UbpfContentIs DEF bs
    <3>3. ASSUME NEW l, NEW b, NEW v, Has(bi, l, b, v), e = UR(p, l, b, v),
                 e # Entry(k.n, k.len, a, Numbers(vals))
          PROVE  e \in UbpfContent(p, t) /\ e.key # k
      <4>1. ~(l = at.len /\ b = at.base)
        BY <3>3, <1>10, <1>14, Zenon
      <4>2. Has(bs, l, b, v)
        BY <3>3, <4>1, <1>10, Zenon
      <4> QED  BY <3>2, <3>3, <4>1, <4>2, <1>1, <1>15, Zenon
    <3>4. ASSUME NEW l, NEW b, NEW v, Has(bs, l, b, v), e = UR(p, l, b, v), e.key # k
          PROVE  e \in UbpfContent(p, ts)
      <4>1. ~(l = at.len /\ b = at.base)
        BY <3>4, <1>1, <1>15, Zenon
      <4>2. Has(bi, l, b, v)
        BY <3>4, <4>1, <1>10, Zenon
      <4> QED  BY <3>1, <3>4, <4>2, Zenon
    <3>5. Entry(k.n, k.len, a, Numbers(vals)) \in UbpfContent(p, ts)
      <4>1. Has(bi, at.len, at.base, im)
        BY <1>10, Zenon
      <4>2. UR(p, at.len, at.base, im) \in UbpfContent(p, ts)
        BY <4>1, <1>9, UbpfContentIs
      <4> QED  BY <4>2, <1>14
    <3> QED  BY <3>1, <3>2, <3>3, <3>4, <3>5, Zenon
  <2> QED  BY <2>1, Zenon DEF Added
<1>17. UbpfContent(p, tr) = Removed(UbpfContent(p, t), k)
  <2>1. ASSUME NEW e
        PROVE  e \in UbpfContent(p, tr) <=> e \in UbpfContent(p, t) /\ e.key # k
    <3>1. e \in UbpfContent(p, tr) <=>
            \E l, b, v : Has(br, l, b, v) /\ e = UR(p, l, b, v)
      BY <1>9, UbpfContentIs
    <3>2. e \in UbpfContent(p, t) <=>
            \E l, b, v : Has(bs, l, b, v) /\ e = UR(p, l, b, v)
      BY UbpfContentIs DEF bs
    <3> QED  BY <3>1, <3>2, <1>1, <1>11, <1>15, Zenon
  <2> QED  BY <2>1, Zenon DEF Removed
<1> QED  BY <1>9, <1>13, <1>16, <1>17, Zenon DEF ts, tr, k, im

LEMMA UbpfRest ==
  ASSUME NEW p \in Programs
  PROVE  /\ UShape(p, UbpfPipelineNew(p)) /\ UbpfContent(p, UbpfPipelineNew(p)) = {}
         /\ \A t : UShape(p, t) =>
              LET tc == [t EXCEPT !.entries = UbpfClear(@)] IN
              UShape(p, tc) /\ UbpfContent(p, tc) = {} /\ tc.defaults = t.defaults
         /\ \A t, v : UShape(p, t) =>
              LET td == [t EXCEPT !.defaults = UbpfSetDefault(@, v)] IN
              /\ UShape(p, td) /\ UbpfContent(p, td) = UbpfContent(p, t)
              /\ td.defaults = UbpfSetDefault(t.defaults, v)
<1>1. ASSUME NEW t, NEW d, t = [entries |-> UEntries(p, <<>>), defaults |-> d]
      PROVE  UShape(p, t) /\ UbpfContent(p, t) = {} /\ t.defaults = d
  <2>1. t.entries.buckets = <<>> /\ t.defaults = d
    BY <1>1 DEF UEntries
  <2>2. \A l, b, v : ~Has(<<>>, l, b, v)
    BY DEF Has
  <2>3. UShape(p, t)
    BY <1>1, <2>1, <2>2, EmptyGood, Zenon DEF UShape
  <2>4. \A x : ~(x \in UbpfContent(p, t))
    BY <2>1, <2>2, UbpfContentIs
  <2> QED  BY <2>1, <2>3, <2>4, Zenon
<1>2. \E d : UbpfPipelineNew(p) = [entries |-> UEntries(p, <<>>), defaults |-> d]
  BY DEF UbpfPipelineNew, UEntries, UbpfNew
<1>3. ASSUME NEW t, UShape(p, t)
      PROVE  [t EXCEPT !.entries = UbpfClear(@)]
               = [entries |-> UEntries(p, <<>>), defaults |-> t.defaults]
  <2>1. t = [entries |-> UEntries(p, t.entries.buckets), defaults |-> t.defaults]
    BY <1>3, Zenon DEF UShape
  <2>2. UbpfClear(UEntries(p, t.entries.buckets)) = UEntries(p, <<>>)
    BY DEF UEntries, UbpfClear
  <2>3. UbpfClear(t.entries) = UEntries(p, <<>>)
    BY <2>1, <2>2
  <2> QED  BY <2>1, <2>3
<1>4. ASSUME NEW t, NEW v, UShape(p, t)
      PROVE  LET td == [t EXCEPT !.defaults = UbpfSetDefault(@, v)] IN
             /\ UShape(p, td) /\ UbpfContent(p, td) = UbpfContent(p, t)
             /\ td.defaults = UbpfSetDefault(t.defaults, v)
  <2> DEFINE td == [t EXCEPT !.defaults = UbpfSetDefault(@, v)]
  <2>1. t = [entries |-> UEntries(p, t.entries.buckets), defaults |-> t.defaults]
    BY <1>4, Zenon DEF UShape
  <2>2. /\ td = [entries |-> UEntries(p, t.entries.buckets),
                 defaults |-> UbpfSetDefault(t.defaults, v)]
        /\ td.entries = t.entries /\ td.defaults = UbpfSetDefault(t.defaults, v)
    BY <2>1
  <2> HIDE DEF td
  <2>3. UShape(p, td)
    BY <1>4, <2>2, Zenon DEF UShape
  <2>4. UbpfContent(p, td) = UbpfContent(p, t)
    BY <2>2, Zenon DEF UbpfContent
  <2> QED  BY <2>2, <2>3, <2>4, Zenon DEF td
<1> QED  BY <1>1, <1>2, <1>3, <1>4, Zenon

---------------------------------------------------------------------------
(* The x4c backend: the generated setters read back what abi.rs encoded,   *)
(* and the pipeline's entries are those of the live list.                  *)

Extract(p, data) == IF p = "l2fwd" THEN ExtractExactKey(data) ELSE ExtractLpmKey(data)

(* The pipeline's key and entry for a live entry.                          *)
PKey(key) == [match |-> key.match, n |-> key.value.n, len |-> key.len]
PEntry(e) == [key |-> PKey(e.key), action_id |-> e.action,
              parameter_data |-> EncodeParams(e.params)]

(* A key as the x4c backend keeps it, with the host bits it was typed with.*)
Typed(key) == [n |-> key.value.n, len |-> key.len]

LEMMA ReverseTwo == \A a, b : Reverse(<<a, b>>) = <<b, a>>
BY DEF Reverse

LEMMA ConcatTwo ==
  /\ \A a, b : <<>> \o <<a, b>> = <<a, b>>
  /\ \A a, b, c : <<a, b>> \o <<c>> = <<a, b, c>>
<1>1. \A a, b : <<>> \o <<a, b>> = <<a, b>>
  OBVIOUS
<1>2. ASSUME NEW a, NEW b, NEW c PROVE <<a, b>> \o <<c>> = <<a, b, c>>
  <2> DEFINE S == {a, b, c}
             u == <<a, b>> \o <<c>>
  <2>1. <<a, b>> \in Seq(S) /\ <<c>> \in Seq(S) /\ Len(<<a, b>>) = 2 /\ Len(<<c>>) = 1
    OBVIOUS
  <2>2. /\ u \in Seq(S) /\ Len(u) = Len(<<a, b>>) + Len(<<c>>)
        /\ \A i \in 1 .. Len(<<a, b>>) + Len(<<c>>) : u[i] =
             IF i <= Len(<<a, b>>) THEN <<a, b>>[i] ELSE <<c>>[i - Len(<<a, b>>)]
    BY <2>1, ConcatProperties
  <2> HIDE DEF u, S
  <2>3. Len(u) = 3 /\ u[1] = a /\ u[2] = b /\ u[3] = c
    BY <2>1, <2>2
  <2>4. u = <<u[1], u[2], u[3]>>
    BY <2>2, <2>3
  <2> QED  BY <2>3, <2>4 DEF u
<1> QED  BY <1>1, <1>2

LEMMA ExtractIs ==
  ASSUME NEW p \in Programs, NEW key, KeyTyped(p, key)
  PROVE  Extract(p, EncodeKey(key)) = PKey(key)
<1>1. key.value.n \in Num
  BY CanonTyped
<1>2. PICK n \in Num : n = key.value.n
  BY <1>1
<1>3. PICK lo \in 0 .. Octet - 1, hi \in 0 .. Octet - 1 :
        lo = n % Octet /\ hi = n \div Octet /\ n = hi * Octet + lo
  BY Octets
<1>4. WireBytes(key.value) = <<hi, lo>>
  BY <1>2, <1>3 DEF WireBytes, BeBytes
<1>5. CASE p = "l2fwd"
  <2>1. key.match = "exact" /\ key.len = Width
    BY <1>5 DEF KeyTyped
  <2>2. EncodeKey(key) = <<lo, hi>>
    BY <1>4, <2>1, ReverseTwo DEF EncodeKey, PushLe
  <2>3. FromLe(EncodeKey(key)) = n
    BY <1>3, <2>2 DEF FromLe
  <2>4. Extract(p, EncodeKey(key)) = [match |-> "exact", n |-> FromLe(EncodeKey(key)), len |-> Width]
    BY <1>5, Zenon DEF Extract, ExtractExactKey
  <2> QED  BY <1>2, <2>1, <2>3, <2>4 DEF PKey
<1>6. CASE p = "l3fwd"
  <2>1. key.match = "lpm"
    BY <1>6 DEF KeyTyped
  <2>2. EncodeKey(key) = <<hi, lo, key.len>>
    <3>1. <<>> \o <<hi, lo>> = <<hi, lo>> /\ <<hi, lo>> \o <<key.len>> = <<hi, lo, key.len>>
      BY ConcatTwo, Zenon
    <3>2. EncodeKey(key) = (<<>> \o <<hi, lo>>) \o <<key.len>>
      BY <1>4, <2>1, Zenon DEF EncodeKey, PushWire
    <3> QED  BY <3>1, <3>2, Zenon
  <2>3. FromBe(EncodeKey(key)) = n /\ EncodeKey(key)[3] = key.len
    BY <1>3, <2>2 DEF FromBe
  <2>4. Extract(p, EncodeKey(key))
          = [match |-> "lpm", n |-> FromBe(EncodeKey(key)), len |-> EncodeKey(key)[3]]
    BY <1>6 DEF Extract, ExtractLpmKey
  <2> QED  BY <1>2, <2>1, <2>3, <2>4 DEF PKey
<1> QED  BY <1>5, <1>6 DEF Programs

LEMMA PKeyOnce ==
  ASSUME NEW p \in Programs, NEW key, KeyTyped(p, key), NEW j, KeyTyped(p, j)
  PROVE  PKey(key) = PKey(j) <=> key = j
BY DEF PKey, KeyTyped, Value

LEMMA TypedOnce ==
  ASSUME NEW p \in Programs, NEW key, KeyTyped(p, key), NEW j, KeyTyped(p, j)
  PROVE  Typed(key) = Typed(j) <=> key = j
BY DEF Typed, KeyTyped, Value

LEMMA SubTwo ==
  /\ \A a, b : SubSeq(<<a, b>>, 1, 2) = <<a, b>>
  /\ \A a, b, c, d : /\ SubSeq(<<a, b, c, d>>, 1, 2) = <<a, b>>
                      /\ SubSeq(<<a, b, c, d>>, 3, 4) = <<c, d>>
<1>1. ASSUME NEW S, NEW s, NEW i \in Nat, s[i] \in S, s[i + 1] \in S
      PROVE  SubSeq(s, i, i + 1) = <<s[i], s[i + 1]>>
  <2> DEFINE u == SubSeq(s, i, i + 1)
  <2>1. \A j \in i .. i + 1 : s[j] \in S
    BY <1>1
  <2>2. /\ u \in Seq(S) /\ Len(u) = IF i <= i + 1 THEN (i + 1) - i + 1 ELSE 0
        /\ \A j \in 1 .. (i + 1) - i + 1 : u[j] = s[i + j - 1]
    BY <2>1, SubSeqProperties
  <2> HIDE DEF u
  <2>3. Len(u) = 2 /\ u[1] = s[i] /\ u[2] = s[i + 1]
    BY <2>2
  <2>4. u = <<u[1], u[2]>>
    BY <2>2, <2>3
  <2> QED  BY <2>3, <2>4 DEF u
<1>2. ASSUME NEW a, NEW b PROVE SubSeq(<<a, b>>, 1, 2) = <<a, b>>
  <2> DEFINE s == <<a, b>>
  <2>1. \A j \in {1, 1 + 1} : s[j] \in {a, b}
    OBVIOUS
  <2>2. s[1] = a /\ s[1 + 1] = b /\ 1 + 1 = 2 /\ 1 \in Nat
    OBVIOUS
  <2> HIDE DEF s
  <2>3. SubSeq(s, 1, 1 + 1) = <<s[1], s[1 + 1]>>
    BY <1>1, <2>1, <2>2, Zenon
  <2>4. SubSeq(s, 1, 2) = <<a, b>>
    BY <2>2, <2>3, Zenon
  <2> QED  BY <2>4 DEF s
<1>3. ASSUME NEW a, NEW b, NEW c, NEW d
      PROVE  /\ SubSeq(<<a, b, c, d>>, 1, 2) = <<a, b>>
             /\ SubSeq(<<a, b, c, d>>, 3, 4) = <<c, d>>
  <2> DEFINE s == <<a, b, c, d>>
  <2>1. \A j \in {1, 1 + 1, 3, 3 + 1} : s[j] \in {a, b, c, d}
    OBVIOUS
  <2>2. s[1] = a /\ s[1 + 1] = b /\ s[3] = c /\ s[3 + 1] = d /\ 1 + 1 = 2 /\ 3 + 1 = 4
    OBVIOUS
  <2> HIDE DEF s
  <2>3. SubSeq(s, 1, 1 + 1) = <<s[1], s[1 + 1]>> /\ SubSeq(s, 3, 3 + 1) = <<s[3], s[3 + 1]>>
    <3>1. 1 \in Nat /\ 3 \in Nat
      OBVIOUS
    <3> QED  BY <1>1, <2>1, <3>1, Zenon
  <2>4. SubSeq(s, 1, 2) = <<a, b>> /\ SubSeq(s, 3, 4) = <<c, d>>
    BY <2>2, <2>3, Zenon
  <2> QED  BY <2>4 DEF s
<1> QED  BY <1>2, <1>3, Zenon

(* The parameters of a call as p4rs finds them in its bytes.               *)
LEMMA ParameterData ==
  ASSUME NEW vals
  PROVE  /\ \A n \in Num : vals = <<Value("u16", n)>> =>
              /\ EncodeParams(vals) = LeBytes(n)
              /\ ExtractParameter(EncodeParams(vals), 0) = LeBytes(n)
         /\ \A n, m \in Num : vals = <<Value("u16", n), Value("mac", m)>> =>
              /\ Len(EncodeParams(vals)) = 4
              /\ ExtractParameter(EncodeParams(vals), 0) = LeBytes(n)
              /\ ExtractParameter(EncodeParams(vals), 2) = LeBytes(m)
<1> DEFINE data == EncodeParams(vals)
<1>1. ASSUME NEW v, NEW n \in Num, v.n = n
      PROVE  PushLe(<<>>, WireBytes(v)) = <<n % Octet, n \div Octet>>
  BY <1>1, ReverseTwo DEF PushLe, WireBytes, BeBytes
<1>4. data = [i \in 1 .. 2 * Len(vals) |->
                PushLe(<<>>, WireBytes(vals[(i + 1) \div 2]))[2 - (i % 2)]]
  BY Zenon DEF EncodeParams
<1> HIDE DEF data
<1>6. ASSUME NEW n \in Num, vals = <<Value("u16", n)>>
      PROVE  data = LeBytes(n) /\ ExtractParameter(data, 0) = LeBytes(n)
  <2>1. Len(vals) = 1 /\ vals[1].n = n 
    BY <1>6 DEF Value
  <2>2. PushLe(<<>>, WireBytes(vals[1])) = <<n % Octet, n \div Octet>>
    BY <1>1, <2>1
  <2>3. /\ DOMAIN data = 1 .. 2 /\ data = [i \in 1 .. 2 |-> data[i]]
        /\ data[1] = n % Octet /\ data[2] = n \div Octet
    BY <1>4, <2>1, <2>2
  <2>4. data = <<n % Octet, n \div Octet>>
    BY <2>3
  <2>5. ExtractParameter(data, 0) = <<n % Octet, n \div Octet>>
    BY <2>4, SubTwo DEF ExtractParameter
  <2> QED  BY <2>4, <2>5 DEF LeBytes
<1>7. ASSUME NEW n \in Num, NEW m \in Num, vals = <<Value("u16", n), Value("mac", m)>>
      PROVE  /\ Len(data) = 4
             /\ ExtractParameter(data, 0) = LeBytes(n) /\ ExtractParameter(data, 2) = LeBytes(m)
  <2>1. Len(vals) = 2 /\ vals[1].n = n /\ vals[2].n = m
    BY <1>7 DEF Value
  <2>2. /\ PushLe(<<>>, WireBytes(vals[1])) = <<n % Octet, n \div Octet>>
        /\ PushLe(<<>>, WireBytes(vals[2])) = <<m % Octet, m \div Octet>>
    BY <1>1, <2>1
  <2>3. /\ DOMAIN data = 1 .. 4 /\ data = [i \in 1 .. 4 |-> data[i]]
        /\ data[1] = n % Octet /\ data[2] = n \div Octet
        /\ data[3] = m % Octet /\ data[4] = m \div Octet
    BY <1>4, <2>1, <2>2
  <2>4. data = <<n % Octet, n \div Octet, m % Octet, m \div Octet>>
    BY <2>3
  <2>5. /\ ExtractParameter(data, 0) = <<n % Octet, n \div Octet>>
        /\ ExtractParameter(data, 2) = <<m % Octet, m \div Octet>>
    <3>1. /\ ExtractParameter(data, 0) = SubSeq(data, 1, 2)
          /\ ExtractParameter(data, 2) = SubSeq(data, 3, 4)
      BY DEF ExtractParameter
    <3>2. PICK x1, x2, x3, x4 : /\ x1 = n % Octet /\ x2 = n \div Octet
                               /\ x3 = m % Octet /\ x4 = m \div Octet
      OBVIOUS
    <3>3. data = <<x1, x2, x3, x4>>
      BY <2>4, <3>2
    <3>4. ExtractParameter(data, 0) = <<x1, x2>> /\ ExtractParameter(data, 2) = <<x3, x4>>
      <4>1. PICK u : u = <<x1, x2, x3, x4>>
        OBVIOUS
      <4>2. SubSeq(u, 1, 2) = <<x1, x2>> /\ SubSeq(u, 3, 4) = <<x3, x4>>
        BY <4>1, SubTwo
      <4>3. data = u
        BY <3>3, <4>1
      <4> QED  BY <3>1, <4>2, <4>3, Zenon
    <3> QED  BY <3>2, <3>4
  <2> QED  BY <2>4, <2>5 DEF LeBytes
<1> QED  BY <1>6, <1>7 DEF data

LEMMA X4cParamsIs ==
  ASSUME NEW p, NEW a, NEW vals, CallTyped(p, a, vals), NEW e,
         e.parameter_data = EncodeParams(vals)
  PROVE  X4cParams(e) = Numbers(vals)
<1> DEFINE data == EncodeParams(vals)
<1>2. ASSUME NEW n \in Num
      PROVE  FromLe(LeBytes(n)) = n
  <2>1. PICK lo \in 0 .. Octet - 1, hi \in 0 .. Octet - 1 :
          lo = n % Octet /\ hi = n \div Octet /\ n = hi * Octet + lo
    BY Octets
  <2> QED  BY <2>1 DEF FromLe, LeBytes
<1>3. X4cParams(e) = [i \in 1 .. Len(data) \div 2 |->
                        FromLe(ExtractParameter(data, 2 * (i - 1)))]
  BY Zenon DEF X4cParams
<1>5. CASE vals = <<>>
  <2>1. data = <<>>
    BY <1>5 DEF EncodeParams
  <2>2. Len(data) \div 2 = 0
    BY <2>1
  <2> QED  BY <1>3, <1>5, <2>2 DEF Numbers
<1> HIDE DEF data
<1>6. ASSUME NEW n \in Num, vals = <<Value("u16", n)>> PROVE X4cParams(e) = Numbers(vals)
  <2>1. Numbers(vals) = <<n>>
    BY <1>6 DEF Value, Numbers
  <2>2. Len(data) = 2 /\ ExtractParameter(data, 0) = LeBytes(n)
    BY <1>6, ParameterData DEF data, LeBytes
  <2> QED  BY <1>2, <1>3, <2>1, <2>2
<1>7. ASSUME NEW n \in Num, NEW m \in Num, vals = <<Value("u16", n), Value("mac", m)>>
      PROVE  X4cParams(e) = Numbers(vals)
  <2>1. Numbers(vals) = <<n, m>>
    BY <1>7 DEF Value, Numbers
  <2>2. /\ Len(data) = 4 /\ ExtractParameter(data, 0) = LeBytes(n)
        /\ ExtractParameter(data, 2) = LeBytes(m)
    BY <1>7, ParameterData DEF data
  <2> QED  BY <1>2, <1>3, <2>1, <2>2
<1> QED  BY <1>5, <1>6, <1>7 DEF CallTyped

LiveSet(t) == {t.live[i] : i \in DOMAIN t.live}

LiveTyped(p, e) == KeyTyped(p, e.key) /\ CallTyped(p, e.action, e.params)

LE(e) == Entry(e.key.value.n, e.key.len, e.action, Numbers(e.params))

(* A sequence whose members are typed, one for each key.                   *)
LiveGood(p, s) ==
  /\ \E S : s \in Seq(S)
  /\ \A i \in DOMAIN s : LiveTyped(p, s[i])
  /\ \A i, j \in DOMAIN s : s[i].key = s[j].key => i = j

XShape(p, t) ==
  /\ t = [live |-> t.live, pipe |-> t.pipe]
  /\ LiveGood(p, t.live)
  /\ t.pipe = {PEntry(e) : e \in LiveSet(t)}

XE(e) == Entry(e.key.n, e.key.len, e.action_id, X4cParams(e))

LEMMA XEIs ==
  ASSUME NEW p \in Programs, NEW e, LiveTyped(p, e)
  PROVE  XE(PEntry(e)) = LE(e) /\ PEntry(e).key = PKey(e.key) /\ LE(e).key = Typed(e.key)
<1>1. PICK x : x = PEntry(e)
  OBVIOUS
<1>2. /\ x.key = PKey(e.key) /\ x.action_id = e.action
      /\ x.parameter_data = EncodeParams(e.params)
  BY <1>1 DEF PEntry
<1>3. x.key.n = e.key.value.n /\ x.key.len = e.key.len
  BY <1>2 DEF PKey
<1>4. X4cParams(x) = Numbers(e.params)
  BY <1>2, X4cParamsIs DEF LiveTyped
<1>5. XE(x) = LE(e)
  BY <1>2, <1>3, <1>4, Zenon DEF XE, LE
<1>6. LE(e).key = Typed(e.key)
  BY DEF LE, Entry, Typed
<1> QED  BY <1>1, <1>2, <1>5, <1>6

(* What the pipeline holds is what the live list says.                     *)
LEMMA X4cContentIs ==
  ASSUME NEW p \in Programs, NEW t, XShape(p, t)
  PROVE  X4cContent(t) = {LE(e) : e \in LiveSet(t)}
<1>1. X4cContent(t) = {XE(x) : x \in t.pipe}
  BY DEF X4cContent, XE
<1>2. t.pipe = {PEntry(e) : e \in LiveSet(t)}
  BY DEF XShape
<1>3. \A e \in LiveSet(t) : XE(PEntry(e)) = LE(e)
  BY XEIs DEF XShape, LiveGood, LiveSet
<1>4. ASSUME NEW x PROVE x \in X4cContent(t) <=> x \in {LE(e) : e \in LiveSet(t)}
  <2>1. x \in X4cContent(t) <=> \E e \in LiveSet(t) : x = XE(PEntry(e))
    BY <1>1, <1>2, Zenon
  <2> QED  BY <1>3, <2>1, Zenon
<1> QED  BY <1>4, Zenon

(* The pipeline's entries after an Add and a Remove.                       *)
LEMMA PipeOps ==
  ASSUME NEW p \in Programs, NEW pipe, NEW e, LiveTyped(p, e)
  PROVE  /\ ApplyAdd(p, pipe, e) = EntryRemove(pipe, PKey(e.key)) \cup {PEntry(e)}
         /\ RemoveTableEntry(p, pipe, EncodeKey(e.key)) = EntryRemove(pipe, PKey(e.key))
<1> DEFINE K == PKey(e.key)
           rest == {x \in pipe : x.key # K}
<1>1. Extract(p, EncodeKey(e.key)) = K
  BY ExtractIs DEF LiveTyped
<1>2. \A q : RemoveTableEntry(p, q, EncodeKey(e.key)) = {x \in q : x.key # K}
  <2>1. CASE p = "l2fwd"
    BY <1>1, <2>1, Zenon DEF RemoveTableEntry, L2RemoveEntry, EntryRemove, Extract
  <2>2. CASE p # "l2fwd"
    BY <1>1, <2>2, Zenon DEF RemoveTableEntry, L3RemoveEntry, EntryRemove, Extract
  <2> QED  BY <2>1, <2>2
<1>3. \A q : AddTableEntry(p, q, e.action, EncodeKey(e.key), EncodeParams(e.params))
              = EntryInsert(q, PEntry(e))
  <2>1. CASE p = "l2fwd"
    BY <1>1, <2>1, Zenon DEF AddTableEntry, L2AddEntry, PEntry, Extract
  <2>2. CASE p # "l2fwd"
    BY <1>1, <2>2, Zenon DEF AddTableEntry, L3AddEntry, PEntry, Extract
  <2> QED  BY <2>1, <2>2
<1>4. PEntry(e).key = K
  BY DEF PEntry
<1>5. EntryInsert(rest, PEntry(e)) = rest \cup {PEntry(e)}
  <2>1. ~ \E x \in rest : x.key = PEntry(e).key
    BY <1>4, Zenon
  <2> QED  BY <2>1, Zenon DEF EntryInsert
<1>6. ApplyAdd(p, pipe, e) = rest \cup {PEntry(e)}
  BY <1>2, <1>3, <1>5, Zenon DEF ApplyAdd
<1> QED  BY <1>2, <1>6, Zenon DEF EntryRemove

LivePut(t, e) ==
  LET at == LiveAt(t, e.key) IN
  IF at = {} THEN Append(t.live, e) ELSE [t.live EXCEPT ![Min(at)] = e]
LiveCut(t, key) ==
  LET at == LiveAt(t, key) IN
  IF at = {} THEN t.live ELSE RemoveAt(t.live, Min(at))

(* The live list after an Add: the entry of the key replaced or appended.  *)
LEMMA LiveAdded ==
  ASSUME NEW p, NEW t, LiveGood(p, t.live), NEW e, LiveTyped(p, e)
  PROVE  LET s == LivePut(t, e) IN
         /\ LiveGood(p, s)
         /\ {s[i] : i \in DOMAIN s} = {x \in LiveSet(t) : x.key # e.key} \cup {e}
<1> DEFINE live == t.live
           at == LiveAt(t, e.key)
           s == IF at = {} THEN Append(live, e) ELSE [live EXCEPT ![Min(at)] = e]
<1>1. PICK S : live \in Seq(S)
  BY DEF LiveGood
<1>2. live \in Seq(S \cup {e})
  BY <1>1
<1>3. /\ Len(live) \in Nat /\ DOMAIN live = 1 .. Len(live)
  BY <1>1
<1>4. /\ at = {i \in DOMAIN live : live[i].key = e.key}
      /\ \A i \in DOMAIN live : LiveTyped(p, live[i])
      /\ \A i, j \in DOMAIN live : live[i].key = live[j].key => i = j
  BY DEF LiveAt, LiveGood
<1>5. LiveSet(t) = {live[i] : i \in DOMAIN live}
  BY DEF LiveSet
<1> HIDE DEF at, live
<1>6. CASE at = {}
  <2>1. s = Append(live, e)
    BY <1>6
  <2> HIDE DEF s
  <2>2. /\ s \in Seq(S \cup {e}) /\ DOMAIN s = 1 .. Len(live) + 1
        /\ \A i \in 1 .. Len(live) : s[i] = live[i]
        /\ s[Len(live) + 1] = e
    BY <1>2, <1>3, <2>1
  <2>3. \A i \in DOMAIN live : live[i].key # e.key
    BY <1>4, <1>6
  <2>4. \A i \in DOMAIN s : (i \in DOMAIN live /\ s[i] = live[i]) \/ (i = Len(live) + 1 /\ s[i] = e)
    <3>1. ASSUME NEW i \in DOMAIN s
          PROVE  (i \in DOMAIN live /\ s[i] = live[i]) \/ (i = Len(live) + 1 /\ s[i] = e)
      <4>1. i \in 1 .. Len(live) \/ i = Len(live) + 1
        BY <1>3, <2>2
      <4>2. CASE i \in 1 .. Len(live)
        BY <1>3, <2>2, <4>2, Zenon
      <4>3. CASE i = Len(live) + 1
        BY <2>2, <4>3, Zenon
      <4> QED  BY <4>1, <4>2, <4>3
    <3> QED  BY <3>1
  <2>5. LiveGood(p, s)
    <3>1. \A i \in DOMAIN s : LiveTyped(p, s[i])
      BY <1>4, <2>4
    <3>2. ASSUME NEW i \in DOMAIN s, NEW j \in DOMAIN s, s[i].key = s[j].key PROVE i = j
      BY <1>4, <2>3, <2>4, <3>2, Zenon
    <3> QED  BY <2>2, <3>1, <3>2, Zenon DEF LiveGood
  <2>6. {s[i] : i \in DOMAIN s} = {x \in LiveSet(t) : x.key # e.key} \cup {e}
    <3>1. Len(live) + 1 \in DOMAIN s /\ \A i \in DOMAIN live : i \in DOMAIN s /\ s[i] = live[i]
      BY <1>3, <2>2
    <3>2. ASSUME NEW i \in DOMAIN s
          PROVE  s[i] \in {x \in LiveSet(t) : x.key # e.key} \cup {e}
      BY <1>5, <2>3, <2>4, Zenon
    <3>3. ASSUME NEW x \in LiveSet(t) PROVE \E i \in DOMAIN s : x = s[i]
      <4>1. PICK i \in DOMAIN live : x = live[i]
        BY <1>5, Zenon
      <4> QED  BY <3>1, <4>1, Zenon
    <3>4. \E i \in DOMAIN s : e = s[i]
      BY <2>2, <3>1, Zenon
    <3> QED  BY <3>2, <3>3, <3>4, Zenon
  <2> QED  BY <2>5, <2>6, Zenon DEF s, at, live, LivePut
<1>7. CASE at # {}
  <2> DEFINE m == Min(at)
  <2>1. m \in at
    <3>1. at \subseteq Nat
      BY <1>3, <1>4
    <3> QED  BY <1>7, <3>1, MinIsLeast
  <2>2. m \in DOMAIN live /\ live[m].key = e.key
    BY <1>4, <2>1
  <2>3. s = [live EXCEPT ![m] = e]
    BY <1>7
  <2> HIDE DEF s, m
  <2>4. /\ s \in Seq(S \cup {e}) /\ DOMAIN s = DOMAIN live
        /\ \A i \in DOMAIN live : s[i] = IF i = m THEN e ELSE live[i]
    BY <1>2, <1>3, <2>2, <2>3
  <2>5. \A i \in DOMAIN live : live[i].key = e.key <=> i = m
    BY <1>4, <2>2
  <2>6. LiveGood(p, s)
    <3>1. \A i \in DOMAIN s : LiveTyped(p, s[i])
      BY <1>4, <2>4, Zenon
    <3>2. ASSUME NEW i \in DOMAIN s PROVE s[i].key = live[i].key
      BY <2>2, <2>4, Zenon
    <3>3. \A i, j \in DOMAIN s : s[i].key = s[j].key => i = j
      BY <1>4, <2>4, <3>2, Zenon
    <3> QED  BY <2>4, <3>1, <3>3, Zenon DEF LiveGood
  <2>7. {s[i] : i \in DOMAIN s} = {x \in LiveSet(t) : x.key # e.key} \cup {e}
    <3>1. ASSUME NEW i \in DOMAIN s
          PROVE  s[i] \in {x \in LiveSet(t) : x.key # e.key} \cup {e}
      <4>1. CASE i = m
        BY <2>4, <4>1, Zenon
      <4>2. CASE i # m
        BY <1>5, <2>4, <2>5, <4>2, Zenon
      <4> QED  BY <4>1, <4>2
    <3>2. ASSUME NEW x \in LiveSet(t), x.key # e.key PROVE \E i \in DOMAIN s : x = s[i]
      <4>1. PICK i \in DOMAIN live : x = live[i]
        BY <1>5, Zenon
      <4>2. i # m
        BY <2>5, <3>2, <4>1
      <4> QED  BY <2>4, <4>1, <4>2, Zenon
    <3>3. \E i \in DOMAIN s : e = s[i]
      BY <2>2, <2>4, Zenon
    <3> QED  BY <3>1, <3>2, <3>3, Zenon
  <2> QED  BY <2>6, <2>7, Zenon DEF s, at, live, LivePut
<1> QED  BY <1>6, <1>7

(* And after a Remove.                                                     *)
LEMMA LiveRemoved ==
  ASSUME NEW p, NEW t, LiveGood(p, t.live), NEW key
  PROVE  LET s == LiveCut(t, key) IN
         /\ LiveGood(p, s)
         /\ {s[i] : i \in DOMAIN s} = {x \in LiveSet(t) : x.key # key}
<1> DEFINE live == t.live
           at == LiveAt(t, key)
           s == IF at = {} THEN live ELSE RemoveAt(live, Min(at))
<1>1. PICK S : live \in Seq(S)
  BY DEF LiveGood
<1>3. /\ Len(live) \in Nat /\ DOMAIN live = 1 .. Len(live)
  BY <1>1
<1>4. /\ at = {i \in DOMAIN live : live[i].key = key}
      /\ \A i \in DOMAIN live : LiveTyped(p, live[i])
      /\ \A i, j \in DOMAIN live : live[i].key = live[j].key => i = j
  BY DEF LiveAt, LiveGood
<1>5. LiveSet(t) = {live[i] : i \in DOMAIN live}
  BY DEF LiveSet
<1>6. CASE at = {}
  <2>1. s = live
    BY <1>6
  <2>2. \A i \in DOMAIN live : live[i].key # key
    BY <1>4, <1>6
  <2>3. LiveSet(t) = {x \in LiveSet(t) : x.key # key}
    BY <1>5, <2>2, Zenon
  <2> QED  BY <1>5, <1>6, <2>1, <2>3 DEF LiveCut
<1> HIDE DEF at, live
<1>7. CASE at # {}
  <2> DEFINE m == Min(at)
  <2>1. m \in at
    <3>1. at \subseteq Nat
      BY <1>3, <1>4
    <3> QED  BY <1>7, <3>1, MinIsLeast
  <2>2. m \in DOMAIN live /\ live[m].key = key
    BY <1>4, <2>1
  <2>3. s = RemoveAt(live, m)
    BY <1>7
  <2> HIDE DEF s, m
  <2>4. m \in 1 .. Len(live)
    BY <1>3, <2>2
  <2>5. /\ s \in Seq(S) /\ Len(s) = Len(live) - 1
        /\ \A i \in 1 .. Len(live) - 1 : s[i] = IF i < m THEN live[i] ELSE live[i + 1]
    BY <1>1, <2>3, <2>4, RemoveAtIndex
  <2>6. DOMAIN s = 1 .. Len(live) - 1
    BY <2>5
  <2> DEFINE from(i) == IF i < m THEN i ELSE i + 1
  <2>7. \A i \in DOMAIN s : from(i) \in DOMAIN live /\ from(i) # m /\ s[i] = live[from(i)]
    BY <1>3, <2>4, <2>5, <2>6
  <2>8. \A i, j \in DOMAIN s : from(i) = from(j) => i = j
    BY <1>3, <2>4, <2>6
  <2>9. ASSUME NEW i \in DOMAIN live, i # m PROVE \E j \in DOMAIN s : s[j] = live[i]
    <3>1. CASE i < m
      <4>1. i \in DOMAIN s /\ s[i] = live[i]
        BY <1>3, <2>4, <2>5, <2>6, <3>1
      <4> QED  BY <4>1
    <3>2. CASE ~(i < m)
      <4>1. i - 1 \in DOMAIN s /\ s[i - 1] = live[i]
        BY <1>3, <2>4, <2>5, <2>6, <2>9, <3>2
      <4> QED  BY <4>1
    <3> QED  BY <3>1, <3>2
  <2> HIDE DEF from
  <2>10. LiveGood(p, s)
    <3>1. \A i \in DOMAIN s : LiveTyped(p, s[i])
      BY <1>4, <2>7, Zenon
    <3>2. \A i, j \in DOMAIN s : s[i].key = s[j].key => i = j
      BY <1>4, <2>7, <2>8, Zenon
    <3> QED  BY <2>5, <3>1, <3>2, Zenon DEF LiveGood
  <2>11. \A i \in DOMAIN live : live[i].key = key <=> i = m
    BY <1>4, <2>2
  <2>12. {s[i] : i \in DOMAIN s} = {x \in LiveSet(t) : x.key # key}
    <3>1. ASSUME NEW i \in DOMAIN s PROVE s[i] \in {x \in LiveSet(t) : x.key # key}
      BY <1>5, <2>7, <2>11, Zenon
    <3>2. ASSUME NEW x \in LiveSet(t), x.key # key PROVE \E i \in DOMAIN s : x = s[i]
      <4>1. PICK i \in DOMAIN live : x = live[i]
        BY <1>5, Zenon
      <4>2. i # m
        BY <2>11, <3>2, <4>1
      <4>3. PICK j \in DOMAIN s : s[j] = live[i]
        BY <2>9, <4>2
      <4> QED  BY <4>1, <4>3, Zenon
    <3> QED  BY <3>1, <3>2, Zenon
  <2> QED  BY <2>10, <2>12, Zenon DEF s, at, live, LiveCut
<1> QED  BY <1>6, <1>7

LEMMA X4cOps ==
  ASSUME NEW p \in Programs, NEW t, XShape(p, t),
         NEW key, KeyTyped(p, key), NEW a, NEW vals, CallTyped(p, a, vals)
  PROVE  LET e == [key |-> key, action |-> a, params |-> vals]
             at == LiveAt(t, key)
             ts == [live |-> IF at = {} THEN Append(t.live, e) ELSE [t.live EXCEPT ![Min(at)] = e],
                    pipe |-> ApplyAdd(p, t.pipe, e)]
             tr == [live |-> IF at = {} THEN t.live ELSE RemoveAt(t.live, Min(at)),
                    pipe |-> RemoveTableEntry(p, t.pipe, EncodeKey(key))]
         IN /\ XShape(p, ts) /\ XShape(p, tr)
            /\ X4cContent(ts) = Added(X4cContent(t), Typed(key), a, Numbers(vals))
            /\ X4cContent(tr) = Removed(X4cContent(t), Typed(key))
<1> DEFINE at == LiveAt(t, key)
<1>1. PICK e : e = [key |-> key, action |-> a, params |-> vals]
  OBVIOUS
<1>2. e.key = key /\ e.action = a /\ e.params = vals /\ LiveTyped(p, e)
  BY <1>1 DEF LiveTyped
<1> DEFINE s == IF at = {} THEN Append(t.live, e) ELSE [t.live EXCEPT ![Min(at)] = e]
           r == IF at = {} THEN t.live ELSE RemoveAt(t.live, Min(at))
           ts == [live |-> s, pipe |-> ApplyAdd(p, t.pipe, e)]
           tr == [live |-> r, pipe |-> RemoveTableEntry(p, t.pipe, EncodeKey(key))]
           L == LiveSet(t)
<1>3. LiveGood(p, t.live) /\ t.pipe = {PEntry(x) : x \in L}
  BY DEF XShape
<1>4. LiveGood(p, s) /\ {s[i] : i \in DOMAIN s} = {x \in L : x.key # key} \cup {e}
  <2>1. s = LivePut(t, e)
    BY <1>2, Zenon DEF LivePut
  <2> HIDE DEF s, L
  <2>2. LiveGood(p, s) /\ {s[i] : i \in DOMAIN s} = {x \in LiveSet(t) : x.key # e.key} \cup {e}
    <3>1. LiveGood(p, t.live) /\ LiveTyped(p, e)
      BY <1>2, <1>3
    <3>2. /\ LiveGood(p, LivePut(t, e))
          /\ {LivePut(t, e)[i] : i \in DOMAIN LivePut(t, e)}
               = {x \in LiveSet(t) : x.key # e.key} \cup {e}
      BY <3>1, LiveAdded, Zenon
    <3> QED  BY <2>1, <3>2, Zenon
  <2> QED  BY <1>2, <2>2, Zenon DEF L
<1>5. LiveGood(p, r) /\ {r[i] : i \in DOMAIN r} = {x \in L : x.key # key}
  <2>1. r = LiveCut(t, key)
    BY Zenon DEF LiveCut
  <2> HIDE DEF r
  <2> QED  BY <1>3, <2>1, LiveRemoved
<1>6. /\ ts.live = s /\ ts.pipe = ApplyAdd(p, t.pipe, e) /\ ts = [live |-> ts.live, pipe |-> ts.pipe]
      /\ tr.live = r /\ tr.pipe = RemoveTableEntry(p, t.pipe, EncodeKey(key))
      /\ tr = [live |-> tr.live, pipe |-> tr.pipe]
  <2> HIDE DEF s, r
  <2> QED  OBVIOUS
<1> HIDE DEF s, r, ts, tr
<1>7. LiveSet(ts) = {x \in L : x.key # key} \cup {e} /\ LiveSet(tr) = {x \in L : x.key # key}
  BY <1>4, <1>5, <1>6, Zenon DEF LiveSet
<1>8. \A x \in L : LiveTyped(p, x)
  BY <1>3 DEF LiveGood, LiveSet
<1> HIDE DEF L
<1>9. /\ ts.pipe = {x \in t.pipe : x.key # PKey(key)} \cup {PEntry(e)}
      /\ tr.pipe = {x \in t.pipe : x.key # PKey(key)}
  <2>1. /\ ts.pipe = EntryRemove(t.pipe, PKey(key)) \cup {PEntry(e)}
        /\ tr.pipe = EntryRemove(t.pipe, PKey(key))
    BY <1>2, <1>6, PipeOps
  <2> QED  BY <2>1, Zenon DEF EntryRemove
<1>10. \A x \in L :
         /\ PEntry(x).key = PKey(key) <=> x.key = key
         /\ LE(x).key = Typed(key) <=> x.key = key
  <2>1. ASSUME NEW x \in L
        PROVE  /\ PEntry(x).key = PKey(key) <=> x.key = key
               /\ LE(x).key = Typed(key) <=> x.key = key
    <3>1. LiveTyped(p, x) /\ KeyTyped(p, x.key)
      BY <1>8 DEF LiveTyped
    <3>2. PEntry(x).key = PKey(x.key) /\ LE(x).key = Typed(x.key)
      BY <3>1, XEIs
    <3>3. (PKey(x.key) = PKey(key) <=> x.key = key) /\ (Typed(x.key) = Typed(key) <=> x.key = key)
      BY <3>1, PKeyOnce, TypedOnce
    <3> QED  BY <3>2, <3>3, Zenon
  <2> QED  BY <2>1, Zenon
<1>11. XShape(p, ts)
  <2>1. ASSUME NEW y PROVE y \in ts.pipe <=> \E x \in LiveSet(ts) : y = PEntry(x)
    <3>1. ASSUME NEW x \in L, x.key # key PROVE PEntry(x) \in ts.pipe
      BY <1>3, <1>9, <1>10, <3>1, Zenon
    <3>2. ASSUME y \in t.pipe, y.key # PKey(key) PROVE \E x \in LiveSet(ts) : y = PEntry(x)
      <4>1. PICK x \in L : y = PEntry(x)
        BY <1>3, <3>2, Zenon
      <4>2. x.key # key
        BY <1>10, <3>2, <4>1, Zenon
      <4> QED  BY <1>7, <4>1, <4>2, Zenon
    <3> QED  BY <1>7, <1>9, <3>1, <3>2, Zenon
  <2>2. ts.pipe = {PEntry(x) : x \in LiveSet(ts)}
    BY <2>1, <1>9, Zenon
  <2> QED  BY <1>4, <1>6, <2>2, Zenon DEF XShape
<1>12. XShape(p, tr)
  <2>1. ASSUME NEW y PROVE y \in tr.pipe <=> \E x \in LiveSet(tr) : y = PEntry(x)
    <3>1. ASSUME NEW x \in L, x.key # key PROVE PEntry(x) \in tr.pipe
      BY <1>3, <1>9, <1>10, <3>1, Zenon
    <3>2. ASSUME y \in t.pipe, y.key # PKey(key) PROVE \E x \in LiveSet(tr) : y = PEntry(x)
      <4>1. PICK x \in L : y = PEntry(x)
        BY <1>3, <3>2, Zenon
      <4>2. x.key # key
        BY <1>10, <3>2, <4>1, Zenon
      <4> QED  BY <1>7, <4>1, <4>2, Zenon
    <3> QED  BY <1>7, <1>9, <3>1, <3>2, Zenon
  <2>2. tr.pipe = {PEntry(x) : x \in LiveSet(tr)}
    BY <2>1, <1>9, Zenon
  <2> QED  BY <1>5, <1>6, <2>2, Zenon DEF XShape
<1>13. /\ X4cContent(t) = {LE(x) : x \in L}
       /\ X4cContent(ts) = {LE(x) : x \in LiveSet(ts)}
       /\ X4cContent(tr) = {LE(x) : x \in LiveSet(tr)}
  BY <1>11, <1>12, X4cContentIs DEF L
<1>14. LE(e) = Entry(Typed(key).n, Typed(key).len, a, Numbers(vals))
  BY <1>2 DEF LE, Typed
<1>15. X4cContent(ts) = Added(X4cContent(t), Typed(key), a, Numbers(vals))
  <2>1. ASSUME NEW y
        PROVE  y \in X4cContent(ts) <=> (y \in X4cContent(t) /\ y.key # Typed(key)) \/ y = LE(e)
    <3>1. y \in X4cContent(ts) <=> \E x \in LiveSet(ts) : y = LE(x)
      BY <1>13, Zenon
    <3>2. y \in X4cContent(t) <=> \E x \in L : y = LE(x)
      BY <1>13, Zenon
    <3>3. \A x : x \in LiveSet(ts) <=> (x \in L /\ x.key # key) \/ x = e
      BY <1>7, Zenon
    <3> QED  BY <1>10, <3>1, <3>2, <3>3, Zenon
  <2> QED  BY <2>1, <1>14, Zenon DEF Added
<1>16. X4cContent(tr) = Removed(X4cContent(t), Typed(key))
  <2>1. ASSUME NEW y PROVE y \in X4cContent(tr) <=> y \in X4cContent(t) /\ y.key # Typed(key)
    <3>1. y \in X4cContent(tr) <=> \E x \in LiveSet(tr) : y = LE(x)
      BY <1>13, Zenon
    <3>2. y \in X4cContent(t) <=> \E x \in L : y = LE(x)
      BY <1>13, Zenon
    <3>3. \A x : x \in LiveSet(tr) <=> x \in L /\ x.key # key
      BY <1>7, Zenon
    <3> QED  BY <1>10, <3>1, <3>2, <3>3, Zenon
  <2> QED  BY <2>1, Zenon DEF Removed
<1> QED  BY <1>1, <1>11, <1>12, <1>15, <1>16 DEF ts, tr, s, r

LEMMA X4cRest ==
  ASSUME NEW p \in Programs
  PROVE  /\ XShape(p, X4cNew) /\ X4cContent(X4cNew) = {}
         /\ \A t, name : XShape(p, t) /\ FindSchema(p, name).ok =>
              LET tc == X4cClear(p, t, name).table IN XShape(p, tc) /\ X4cContent(tc) = {}
<1>1. LiveGood(p, <<>>)
  <2>1. <<>> \in Seq({}) /\ DOMAIN <<>> = {}
    OBVIOUS
  <2> QED  BY <2>1, Zenon DEF LiveGood
<1>2. ASSUME NEW t, t = [live |-> <<>>, pipe |-> {}] PROVE XShape(p, t) /\ X4cContent(t) = {}
  <2>1. t.live = <<>> /\ t.pipe = {} /\ LiveSet(t) = {}
    BY <1>2 DEF LiveSet
  <2>2. XShape(p, t)
    BY <1>1, <1>2, <2>1 DEF XShape
  <2> QED  BY <2>1, <2>2, X4cContentIs
<1>3. ASSUME NEW t, NEW name, XShape(p, t), FindSchema(p, name).ok
      PROVE  X4cClear(p, t, name).table = [live |-> <<>>, pipe |-> {}]
  <2> DEFINE left == {e \in t.pipe : \A i \in DOMAIN t.live :
                        e \in RemoveTableEntry(p, t.pipe, EncodeKey(t.live[i].key))}
  <2>1. X4cClear(p, t, name).table = [live |-> <<>>, pipe |-> left]
    <3>1. X4cClear(p, t, name) = Result(Ok(Len(t.live)), [live |-> <<>>, pipe |-> left])
      BY <1>3, Zenon DEF X4cClear
    <3> HIDE DEF left
    <3> QED  BY <3>1, ResultIs
  <2>2. ASSUME NEW e \in left PROVE FALSE
    <3>1. e \in t.pipe
      OBVIOUS
    <3>2. PICK i \in DOMAIN t.live : e = PEntry(t.live[i])
      BY <1>3, <3>1 DEF XShape, LiveSet
    <3>3. LiveTyped(p, t.live[i])
      BY <1>3 DEF XShape, LiveGood
    <3>4. e \in RemoveTableEntry(p, t.pipe, EncodeKey(t.live[i].key))
      OBVIOUS
    <3>5. e.key # PKey(t.live[i].key)
      <4>1. RemoveTableEntry(p, t.pipe, EncodeKey(t.live[i].key))
              = {x \in t.pipe : x.key # PKey(t.live[i].key)}
        <5>1. RemoveTableEntry(p, t.pipe, EncodeKey(t.live[i].key))
                = EntryRemove(t.pipe, PKey(t.live[i].key))
          BY <3>3, PipeOps
        <5> QED  BY <5>1, Zenon DEF EntryRemove
      <4> QED  BY <3>4, <4>1, Zenon
    <3> QED  BY <3>2, <3>3, <3>5, XEIs
  <2> HIDE DEF left
  <2>3. left = {}
    BY <2>2, Zenon
  <2> QED  BY <2>1, <2>3
<1>4. X4cNew = [live |-> <<>>, pipe |-> {}]
  BY DEF X4cNew
<1> QED  BY <1>2, <1>3, <1>4

---------------------------------------------------------------------------
(* The operations of the selected backend, whatever it is.                 *)

Sels == [program : Programs, backend : Backends]

Shape(s, t) ==
  /\ s.backend = "native" /\ s.program = "l2fwd" => L2Shape(t)
  /\ s.backend = "native" /\ s.program = "l3fwd" => L3Shape(t)
  /\ s.backend = "x4c" => XShape(s.program, t)
  /\ s.backend = "ubpf" => UShape(s.program, t)

(* The key under which a backend keeps an entry.                           *)
Stored(s, key) == IF s.backend = "x4c" THEN Typed(key) ELSE Canon(key)

LEMMA SelCases ==
  ASSUME NEW s \in Sels
  PROVE  /\ s.program \in Programs
         /\ \/ s.backend = "native" /\ s.program = "l2fwd"
            \/ s.backend = "native" /\ s.program = "l3fwd"
            \/ s.backend = "x4c"
            \/ s.backend = "ubpf"
BY DEF Sels, Programs, Backends

(* Shape and Content of each selection.                                    *)
LEMMA ShapeIs ==
  ASSUME NEW s, NEW t
  PROVE  /\ s.backend = "native" /\ s.program = "l2fwd" =>
              (Shape(s, t) <=> L2Shape(t)) /\ Content(s, t) = L2Content(t)
         /\ s.backend = "native" /\ s.program = "l3fwd" =>
              (Shape(s, t) <=> L3Shape(t)) /\ Content(s, t) = L3Content(t)
         /\ s.backend = "x4c" =>
              (Shape(s, t) <=> XShape(s.program, t)) /\ Content(s, t) = X4cContent(t)
         /\ s.backend = "ubpf" =>
              (Shape(s, t) <=> UShape(s.program, t)) /\ Content(s, t) = UbpfContent(s.program, t)
<1>1. CASE s.backend = "native" /\ s.program = "l2fwd"
  BY <1>1 DEF Shape, Content
<1>2. CASE s.backend = "native" /\ s.program = "l3fwd"
  BY <1>2 DEF Shape, Content
<1>3. CASE s.backend = "x4c"
  BY <1>3 DEF Shape, Content
<1>4. CASE s.backend = "ubpf"
  BY <1>4 DEF Shape, Content
<1> QED  BY <1>1, <1>2, <1>3, <1>4

LEMMA Found ==
  ASSUME NEW p, NEW name
  PROVE  /\ FindSchema(p, name).ok <=> name = SchemaOf(p).name
         /\ ~FindSchema(p, name).ok => FindSchema(p, name).err = "unknown_table"
BY ResultIs DEF FindSchema

(* The keys of the native tables.                                          *)
LEMMA NativeKeys ==
  ASSUME NEW p \in Programs, NEW key, KeyTyped(p, key)
  PROVE  /\ p = "l2fwd" => Canon(key) = [n |-> key.value.n, len |-> Width]
         /\ p = "l3fwd" => /\ Prefix(key).len \in Nat
                           /\ Canon(key) = [n |-> Prefix(key).base, len |-> Prefix(key).len]
<1>1. CASE p = "l2fwd"
  <2>1. PICK n \in Num : key = [match |-> "exact", value |-> Value("mac", n), len |-> Width]
    BY <1>1 DEF KeyTyped
  <2>2. key.value.n = n /\ key.len = Width
    BY <2>1 DEF Value
  <2> QED  BY <1>1, <2>2, MaskFull DEF Canon
<1>2. CASE p = "l3fwd"
  <2>1. key.len \in 0 .. Width
    BY CanonTyped
  <2> QED  BY <1>2, <2>1 DEF Canon, Prefix
<1> QED  BY <1>1, <1>2 DEF Programs

(* TableOps of a selection s with table t.                                 *)
AddTo(s, t, name, key, a, vals) ==
  CASE s.backend = "native" -> NativeAdd(s.program, t, name, key, a, vals)
    [] s.backend = "x4c" -> X4cAdd(s.program, t, name, key, a, vals)
    [] OTHER -> UbpfAdd(s.program, t, name, key, a, vals)

RemoveFrom(s, t, name, key) ==
  CASE s.backend = "native" -> NativeRemove(s.program, t, name, key)
    [] s.backend = "x4c" -> X4cRemove(s.program, t, name, key)
    [] OTHER -> UbpfTableRemove(s.program, t, name, key)

(* The tables left by an add and by a removal.                             *)
XPut(p, t, key, a, vals) ==
  LET e == [key |-> key, action |-> a, params |-> vals]
      at == LiveAt(t, key)
  IN [live |-> IF at = {} THEN Append(t.live, e) ELSE [t.live EXCEPT ![Min(at)] = e],
      pipe |-> ApplyAdd(p, t.pipe, e)]
XCut(p, t, key) ==
  LET at == LiveAt(t, key)
  IN [live |-> IF at = {} THEN t.live ELSE RemoveAt(t.live, Min(at)),
      pipe |-> RemoveTableEntry(p, t.pipe, EncodeKey(key))]
UPut(p, t, key, a, vals) ==
  [t EXCEPT !.entries = UbpfInsert(@, KeyImage(Abi(p), key), KeyPrefix(key),
                                      ValueImage(Abi(p), a, vals))]
UCut(p, t, key) == [t EXCEPT !.entries = UbpfRemove(@, KeyImage(Abi(p), key), KeyPrefix(key))]

L2Added(t, n, a) ==
  Added(L2Content(t), [n |-> n, len |-> Width], a.name, Describe("l2fwd", "", a).params)

LEMMA L2PutIs ==
  ASSUME NEW t, L2Shape(t), NEW n, NEW a
  PROVE  L2Shape(ExactInsert(t, n, a)) /\ L2Content(ExactInsert(t, n, a)) = L2Added(t, n, a)
<1>1. /\ L2Shape(ExactInsert(t, n, a)) /\ L2Shape(ExactRemove(t, n)) /\ L2Shape(ExactClear(t))
      /\ L2Content(ExactInsert(t, n, a)) =
           Added(L2Content(t), [n |-> n, len |-> Width], a.name, Describe("l2fwd", "", a).params)
      /\ L2Content(ExactRemove(t, n)) = Removed(L2Content(t), [n |-> n, len |-> Width])
      /\ L2Content(ExactClear(t)) = {}
      /\ n \in DOMAIN t.entries <=> \E e \in L2Content(t) : e.key = [n |-> n, len |-> Width]
  BY L2Ops, Zenon
<1> QED  BY <1>1, Zenon DEF L2Added

LEMMA L3PutIs ==
  ASSUME NEW t, L3Shape(t), NEW q, q.len \in Nat, NEW a
  PROVE  /\ L3Shape(LpmInsert(t, q, a))
         /\ L3Content(LpmInsert(t, q, a)) =
              Added(L3Content(t), [n |-> q.base, len |-> q.len], a.name,
                    Describe("l3fwd", "", a).params)
<1> DEFINE k == [n |-> q.base, len |-> q.len]
<1>1. /\ L3Shape(LpmInsert(t, q, a)) /\ L3Shape(LpmRemove(t, q)) /\ L3Shape(LpmClear(t))
      /\ L3Content(LpmInsert(t, q, a)) =
           Added(L3Content(t), k, a.name, Describe("l3fwd", "", a).params)
      /\ L3Content(LpmRemove(t, q)) = Removed(L3Content(t), k)
      /\ L3Content(LpmClear(t)) = {}
      /\ Holds(t.groups, q.len, q.base) <=> \E e \in L3Content(t) : e.key = k
  BY L3Ops, Zenon
<1> QED  BY <1>1, Zenon

LEMMA XPutIs ==
  ASSUME NEW p \in Programs, NEW t, XShape(p, t),
         NEW key, KeyTyped(p, key), NEW a, NEW vals, CallTyped(p, a, vals)
  PROVE  /\ XShape(p, XPut(p, t, key, a, vals)) /\ XShape(p, XCut(p, t, key))
         /\ X4cContent(XPut(p, t, key, a, vals)) =
              Added(X4cContent(t), Typed(key), a, Numbers(vals))
         /\ X4cContent(XCut(p, t, key)) = Removed(X4cContent(t), Typed(key))
BY X4cOps, Zenon DEF XPut, XCut

LEMMA UPutIs ==
  ASSUME NEW p \in Programs, NEW t, UShape(p, t),
         NEW key, KeyTyped(p, key), NEW a, NEW vals, CallTyped(p, a, vals)
  PROVE  /\ UShape(p, UPut(p, t, key, a, vals)) /\ UShape(p, UCut(p, t, key))
         /\ UbpfContent(p, UPut(p, t, key, a, vals)) =
              Added(UbpfContent(p, t), Canon(key), a, Numbers(vals))
         /\ UbpfContent(p, UCut(p, t, key)) = Removed(UbpfContent(p, t), Canon(key))
BY UbpfOps, SMT DEF UPut, UCut

LEMMA AddIs ==
  ASSUME NEW s \in Sels, NEW t, Shape(s, t), NEW name, name = SchemaOf(s.program).name,
         NEW key, KeyTyped(s.program, key), NEW a, NEW vals, CallTyped(s.program, a, vals)
  PROVE  LET r == AddTo(s, t, name, key, a, vals) IN
         /\ r.res = Ok(1)
         /\ Shape(s, r.table)
         /\ Content(s, r.table) =
              Added(Content(s, t), Stored(s, key), a, Numbers(vals))
<1>0. PICK p \in Programs : p = s.program /\ KeyTyped(p, key) /\ CallTyped(p, a, vals)
  BY SelCases
<1>a. KeyTyped(p, key)
  BY <1>0
<1>b. CallTyped(p, a, vals)
  BY <1>0
<1>c. CallKept(p, a, vals)
  BY <1>b, NativeCall, Zenon
<1> DEFINE r == AddTo(s, t, name, key, a, vals)
<1>1. /\ FindSchema(p, name).ok
      /\ CheckKey(SchemaOf(p), key).ok
      /\ Check(SchemaOf(p), a, vals).ok
  BY <1>0, Found, ChecksPass
<1>2. CASE s.backend = "native" /\ p = "l2fwd"
  <2>1. r = Result(Ok(1), ExactInsert(t, key.value.n, FromCall(p, a, vals)))
    BY <1>1, <1>2, <1>0, Zenon DEF AddTo, NativeAdd, NativeKey, L2Add
  <2> HIDE DEF r
  <2>2. r.res = Ok(1) /\ r.table = ExactInsert(t, key.value.n, FromCall(p, a, vals))
    BY <2>1, ResultIs
  <2>3. /\ FromCall(p, a, vals).name = a
        /\ Describe(p, "", FromCall(p, a, vals)).params = Numbers(vals)
    BY <1>c, Zenon DEF CallKept
  <2>4. L2Shape(t)
    BY <1>2, <1>0, ShapeIs
  <2>5. PICK c, m : /\ c = FromCall(p, a, vals) /\ m = key.value.n
                 /\ c.name = a /\ Describe("l2fwd", "", c).params = Numbers(vals)
    BY <1>2, <2>3
  <2>6. /\ L2Shape(ExactInsert(t, m, c))
        /\ L2Content(ExactInsert(t, m, c)) = L2Added(t, m, c)
    BY <2>4, L2PutIs
  <2>7. Stored(s, key) = [n |-> m, len |-> Width]
    BY <1>2, <1>0, <2>5, NativeKeys DEF Stored
  <2> HIDE DEF r
  <2>8. L2Shape(r.table) /\ L2Content(r.table) =
          Added(L2Content(t), Stored(s, key), a, Numbers(vals))
    BY <1>2, <2>2, <2>3, <2>5, <2>6, <2>7, Zenon DEF L2Added
  <2> QED  BY <1>2, <2>2, <2>8, <1>0, ShapeIs, Zenon DEF r
<1>3. CASE s.backend = "native" /\ p = "l3fwd"
  <2>0. p # "l2fwd"
    BY <1>3
  <2>1. r = Result(Ok(1), LpmInsert(t, Prefix(key), FromCall(p, a, vals)))
    BY <1>1, <1>3, <2>0, <1>0, Zenon DEF AddTo, NativeAdd, NativeKey, L3Add
  <2> HIDE DEF r
  <2>2. r.res = Ok(1) /\ r.table = LpmInsert(t, Prefix(key), FromCall(p, a, vals))
    BY <2>1, ResultIs
  <2>3. /\ FromCall(p, a, vals).name = a
        /\ Describe(p, "", FromCall(p, a, vals)).params = Numbers(vals)
    BY <1>c, Zenon DEF CallKept
  <2>4. L3Shape(t)
    BY <1>3, <1>0, ShapeIs
  <2>5. PICK c, q : /\ c = FromCall(p, a, vals) /\ q = Prefix(key)
                    /\ c.name = a /\ Describe("l3fwd", "", c).params = Numbers(vals)
    BY <1>3, <2>3
  <2>6. q.len \in Nat /\ Stored(s, key) = [n |-> q.base, len |-> q.len]
    BY <1>3, <2>5, <1>0, NativeKeys DEF Stored
  <2>7. /\ L3Shape(LpmInsert(t, q, c))
        /\ L3Content(LpmInsert(t, q, c)) =
             Added(L3Content(t), [n |-> q.base, len |-> q.len], c.name,
                   Describe("l3fwd", "", c).params)
    <3>1. q.len \in Nat
      BY <2>6
    <3> QED  BY <2>4, <3>1, L3PutIs, Zenon
  <2> HIDE DEF r
  <2>8. L3Shape(r.table) /\ L3Content(r.table) =
          Added(L3Content(t), Stored(s, key), a, Numbers(vals))
    BY <1>3, <2>2, <2>3, <2>5, <2>6, <2>7, Zenon
  <2> QED  BY <1>3, <2>2, <2>8, <1>0, ShapeIs, Zenon DEF r
<1>4. CASE s.backend = "x4c"
  <2> DEFINE ts == XPut(p, t, key, a, vals)
  <2>1. r = Result(Ok(1), ts)
    <3>1. s.backend # "native"
      BY <1>4
    <3>2. r = X4cAdd(p, t, name, key, a, vals)
      BY <1>4, <3>1, <1>0, Zenon DEF AddTo
    <3> QED  BY <1>1, <3>2, Zenon DEF X4cAdd, XPut
  <2>2. p \in Programs /\ XShape(p, t)
    BY <1>4, <1>0, ShapeIs
  <2>3. XShape(p, ts) /\ X4cContent(ts) = Added(X4cContent(t), Typed(key), a, Numbers(vals))
    BY <1>a, <1>b, <2>2, XPutIs
  <2> HIDE DEF ts, r
  <2>4. r.res = Ok(1) /\ r.table = ts
    BY <2>1, ResultIs
  <2>5. Stored(s, key) = Typed(key)
    BY <1>4 DEF Stored
  <2>6. XShape(p, r.table) /\ X4cContent(r.table) =
          Added(X4cContent(t), Stored(s, key), a, Numbers(vals))
    BY <2>3, <2>4, <2>5, Zenon
  <2> QED  BY <1>4, <2>4, <2>6, <1>0, ShapeIs, Zenon DEF r
<1>5. CASE s.backend = "ubpf"
  <2> DEFINE ts == UPut(p, t, key, a, vals)
  <2>1. r = Result(Ok(1), ts)
    <3>1. s.backend # "native" /\ s.backend # "x4c"
      BY <1>5
    <3>2. r = UbpfAdd(p, t, name, key, a, vals)
      BY <3>1, <1>0, Zenon DEF AddTo
    <3> QED  BY <1>1, <3>2, Zenon DEF UbpfAdd, UPut
  <2>2. p \in Programs /\ UShape(p, t)
    BY <1>5, <1>0, ShapeIs
  <2>3. UShape(p, ts) /\ UbpfContent(p, ts) = Added(UbpfContent(p, t), Canon(key), a, Numbers(vals))
    BY <1>a, <1>b, <2>2, UPutIs
  <2> HIDE DEF ts, r
  <2>4. r.res = Ok(1) /\ r.table = ts
    BY <2>1, ResultIs
  <2>5. Stored(s, key) = Canon(key)
    BY <1>5 DEF Stored
  <2>6. UShape(p, r.table) /\ UbpfContent(p, r.table) =
          Added(UbpfContent(p, t), Stored(s, key), a, Numbers(vals))
    BY <2>3, <2>4, <2>5, Zenon
  <2> QED  BY <1>5, <2>4, <2>6, <1>0, ShapeIs, Zenon DEF r
<1> QED  BY <1>2, <1>3, <1>4, <1>5, <1>0, SelCases

(* Whether a key is installed.                                             *)
HasKey(C, k) == \E e \in C : e.key = k

LEMMA L2CutIs ==
  ASSUME NEW t, L2Shape(t), NEW n
  PROVE  /\ L2Shape(ExactRemove(t, n))
         /\ L2Content(ExactRemove(t, n)) = Removed(L2Content(t), [n |-> n, len |-> Width])
         /\ n \in DOMAIN t.entries <=> HasKey(L2Content(t), [n |-> n, len |-> Width])
         /\ L2Shape(ExactClear(t)) /\ L2Content(ExactClear(t)) = {}
<1>1. PICK a : TRUE
  OBVIOUS
<1>2. /\ L2Shape(ExactInsert(t, n, a)) /\ L2Shape(ExactRemove(t, n)) /\ L2Shape(ExactClear(t))
      /\ L2Content(ExactInsert(t, n, a)) =
           Added(L2Content(t), [n |-> n, len |-> Width], a.name, Describe("l2fwd", "", a).params)
      /\ L2Content(ExactRemove(t, n)) = Removed(L2Content(t), [n |-> n, len |-> Width])
      /\ L2Content(ExactClear(t)) = {}
      /\ n \in DOMAIN t.entries <=> \E e \in L2Content(t) : e.key = [n |-> n, len |-> Width]
  BY L2Ops, Zenon
<1> QED  BY <1>2, Zenon DEF HasKey

LEMMA L3CutIs ==
  ASSUME NEW t, L3Shape(t), NEW q, q.len \in Nat
  PROVE  /\ L3Shape(LpmRemove(t, q))
         /\ L3Content(LpmRemove(t, q)) = Removed(L3Content(t), [n |-> q.base, len |-> q.len])
         /\ Holds(t.groups, q.len, q.base) <=> HasKey(L3Content(t), [n |-> q.base, len |-> q.len])
         /\ L3Shape(LpmClear(t)) /\ L3Content(LpmClear(t)) = {}
BY L3Ops, Zenon DEF HasKey

LEMMA RemoveIs ==
  ASSUME NEW s \in Sels, NEW t, Shape(s, t), NEW name, name = SchemaOf(s.program).name,
         NEW key, KeyTyped(s.program, key)
  PROVE  LET r == RemoveFrom(s, t, name, key) IN
         /\ Shape(s, r.table)
         /\ Content(s, r.table) = Removed(Content(s, t), Stored(s, key))
         /\ r.res.ok <=> (s.backend = "native" => HasKey(Content(s, t), Canon(key)))
         /\ ~r.res.ok => r.res.err = "not_found"
<1>0. PICK p \in Programs : p = s.program /\ KeyTyped(p, key)
  BY SelCases
<1>a. KeyTyped(p, key)
  BY <1>0
<1>b. PICK a, vals : CallTyped(p, a, vals)
  <2>1. CallTyped(p, "drop", <<>>)
    BY DEF CallTyped, Programs
  <2> QED  BY <2>1
<1> DEFINE r == RemoveFrom(s, t, name, key)
<1>1. FindSchema(p, name).ok /\ CheckKey(SchemaOf(p), key).ok
  BY <1>0, Found, ChecksPass
<1>2. CASE s.backend = "native" /\ p = "l2fwd"
  <2>0. PICK m : m = key.value.n
    OBVIOUS
  <2>1. r = Result(IF m \in DOMAIN t.entries THEN Ok(1) ELSE Err("not_found"), ExactRemove(t, m))
    BY <1>1, <1>2, <1>0, <2>0, Zenon DEF RemoveFrom, NativeRemove, NativeKey, L2Remove
  <2> HIDE DEF r
  <2>2. /\ r.res.ok <=> m \in DOMAIN t.entries
        /\ ~r.res.ok => r.res.err = "not_found"
        /\ r.table = ExactRemove(t, m)
    BY <2>1, ResultIs
  <2>3. L2Shape(t)
    BY <1>2, <1>0, ShapeIs
  <2>4. Canon(key) = [n |-> m, len |-> Width] /\ Stored(s, key) = Canon(key)
    BY <1>2, <1>0, <2>0, NativeKeys DEF Stored
  <2>5. /\ L2Shape(ExactRemove(t, m))
        /\ L2Content(ExactRemove(t, m)) = Removed(L2Content(t), [n |-> m, len |-> Width])
        /\ m \in DOMAIN t.entries <=> HasKey(L2Content(t), [n |-> m, len |-> Width])
    BY <2>3, L2CutIs
  <2>6. /\ L2Shape(r.table)
        /\ L2Content(r.table) = Removed(L2Content(t), Stored(s, key))
        /\ r.res.ok <=> HasKey(L2Content(t), Canon(key))
    BY <2>2, <2>4, <2>5, Zenon
  <2> QED  BY <1>2, <1>0, <2>2, <2>6, ShapeIs, Zenon DEF r
<1>3. CASE s.backend = "native" /\ p = "l3fwd"
  <2>0. p # "l2fwd"
    BY <1>3
  <2>a. PICK q : q = Prefix(key)
    OBVIOUS
  <2>1. r = Result(IF Holds(t.groups, q.len, q.base) THEN Ok(1) ELSE Err("not_found"),
                   LpmRemove(t, q))
    BY <1>1, <1>3, <1>0, <2>0, <2>a, Zenon DEF RemoveFrom, NativeRemove, NativeKey, L3Remove
  <2> HIDE DEF r
  <2>2. /\ r.res.ok <=> Holds(t.groups, q.len, q.base)
        /\ ~r.res.ok => r.res.err = "not_found"
        /\ r.table = LpmRemove(t, q)
    BY <2>1, ResultIs
  <2>3. L3Shape(t)
    BY <1>3, <1>0, ShapeIs
  <2>4. /\ q.len \in Nat /\ Canon(key) = [n |-> q.base, len |-> q.len]
        /\ Stored(s, key) = Canon(key)
    BY <1>3, <1>0, <2>a, NativeKeys DEF Stored
  <2>5. /\ L3Shape(LpmRemove(t, q))
        /\ L3Content(LpmRemove(t, q)) = Removed(L3Content(t), [n |-> q.base, len |-> q.len])
        /\ Holds(t.groups, q.len, q.base) <=>
             HasKey(L3Content(t), [n |-> q.base, len |-> q.len])
    BY <2>3, <2>4, L3CutIs
  <2>6. /\ L3Shape(r.table)
        /\ L3Content(r.table) = Removed(L3Content(t), Stored(s, key))
        /\ r.res.ok <=> HasKey(L3Content(t), Canon(key))
    BY <2>2, <2>4, <2>5, Zenon
  <2> QED  BY <1>3, <1>0, <2>2, <2>6, ShapeIs, Zenon DEF r
<1>4. CASE s.backend = "x4c"
  <2>1. r = Result(Ok(1), XCut(p, t, key))
    <3>1. s.backend # "native"
      BY <1>4
    <3>2. r = X4cRemove(p, t, name, key)
      BY <1>4, <3>1, <1>0, Zenon DEF RemoveFrom
    <3> QED  BY <1>1, <3>2, Zenon DEF X4cRemove, XCut
  <2> HIDE DEF r
  <2>2. r.res.ok /\ r.table = XCut(p, t, key) /\ s.backend # "native"
    BY <2>1, <1>4, ResultIs
  <2>3. XShape(p, t)
    BY <1>4, <1>0, ShapeIs
  <2>4. XShape(p, XCut(p, t, key)) /\ X4cContent(XCut(p, t, key)) = Removed(X4cContent(t), Typed(key))
    BY <1>a, <1>b, <2>3, XPutIs
  <2>5. Stored(s, key) = Typed(key)
    BY <1>4 DEF Stored
  <2>6. XShape(p, r.table) /\ X4cContent(r.table) = Removed(X4cContent(t), Stored(s, key))
    BY <2>2, <2>4, <2>5, Zenon
  <2> QED  BY <1>4, <1>0, <2>2, <2>6, ShapeIs, Zenon DEF r
<1>5. CASE s.backend = "ubpf"
  <2>1. r = Result(Ok(1), UCut(p, t, key))
    <3>1. s.backend # "native" /\ s.backend # "x4c"
      BY <1>5
    <3>2. r = UbpfTableRemove(p, t, name, key)
      BY <1>5, <3>1, <1>0, Zenon DEF RemoveFrom
    <3> QED  BY <1>1, <3>2, Zenon DEF UbpfTableRemove, UCut
  <2> HIDE DEF r
  <2>2. r.res.ok /\ r.table = UCut(p, t, key) /\ s.backend # "native"
    BY <2>1, <1>5, ResultIs
  <2>3. UShape(p, t)
    BY <1>5, <1>0, ShapeIs
  <2>4. UShape(p, UCut(p, t, key)) /\ UbpfContent(p, UCut(p, t, key)) = Removed(UbpfContent(p, t), Canon(key))
    BY <1>a, <1>b, <2>3, UPutIs
  <2>5. Stored(s, key) = Canon(key)
    BY <1>5 DEF Stored
  <2>6. UShape(p, r.table) /\ UbpfContent(p, r.table) = Removed(UbpfContent(p, t), Stored(s, key))
    BY <2>2, <2>4, <2>5, Zenon
  <2> QED  BY <1>5, <1>0, <2>2, <2>6, ShapeIs, Zenon DEF r
<1> QED  BY <1>2, <1>3, <1>4, <1>5, <1>0, SelCases

ClearOf(s, t, name) ==
  CASE s.backend = "native" -> NativeClear(s.program, t, name)
    [] s.backend = "x4c" -> X4cClear(s.program, t, name)
    [] OTHER -> UbpfTableClear(s.program, t, name)

SetDefaultOf(s, t, name, a, vals) ==
  CASE s.backend = "native" -> NativeSetDefault(s.program, t, name, a, vals)
    [] s.backend = "x4c" -> X4cSetDefault(s.program, t, name)
    [] OTHER -> UbpfTableSetDefault(s.program, t, name, a, vals)

(* The number of entries a clear reports.                                  *)
Count(s, t) ==
  CASE s.backend = "native" /\ s.program = "l2fwd" -> Cardinality(DOMAIN t.entries)
    [] s.backend = "native" /\ s.program # "l2fwd" -> Cardinality(LpmEntries(t))
    [] s.backend = "x4c" -> Len(t.live)
    [] OTHER -> Cardinality(UbpfEntries(t.entries))

LEMMA BuildIs ==
  ASSUME NEW s \in Sels
  PROVE  Shape(s, Build(s)) /\ Content(s, Build(s)) = {}
<1>0. PICK p \in Programs : p = s.program
  BY SelCases
<1>1. CASE s.backend = "native" /\ p = "l2fwd"
  <2>1. Build(s) = [entries |-> NoEntries, default_action |-> Action("broadcast", 0, 0)]
    BY <1>0, <1>1 DEF Build, NativeNew, L2New, ExactNew
  <2>2. L2Shape(Build(s)) /\ DOMAIN Build(s).entries = {}
    BY <2>1 DEF L2Shape, NoEntries
  <2>3. L2Content(Build(s)) = {}
    BY <2>2 DEF L2Content
  <2> QED  BY <1>0, <1>1, <2>2, <2>3, ShapeIs, Zenon
<1>2. CASE s.backend = "native" /\ p = "l3fwd"
  <2>1. Build(s) = [groups |-> <<>>, default_action |-> Action("drop", 0, 0)]
    BY <1>0, <1>2 DEF Build, NativeNew, L3New, LpmNew
  <2>2. PICK x : x = [groups |-> <<>>, default_action |-> Action("drop", 0, 0)]
    OBVIOUS
  <2>3. x.groups = <<>> /\ L3Shape(x)
    BY <2>2, EmptyGood DEF L3Shape
  <2>4. LpmClear(x) = x
    BY <2>2 DEF LpmClear
  <2>5. PICK q : q = [len |-> 0, base |-> 0]
    OBVIOUS
  <2>6. q.len \in Nat
    BY <2>5
  <2>7. L3Content(LpmClear(x)) = {}
    BY <2>3, <2>6, L3CutIs
  <2>8. Shape(s, x) /\ Content(s, x) = {}
    BY <1>0, <1>2, <2>3, <2>4, <2>7, ShapeIs, Zenon
  <2> QED  BY <2>1, <2>2, <2>8, Zenon
<1>3. CASE s.backend = "x4c"
  <2>1. Build(s) = X4cNew
    BY <1>3 DEF Build
  <2> QED  BY <1>0, <1>3, <2>1, X4cRest, ShapeIs, Zenon
<1>4. CASE s.backend = "ubpf"
  <2>1. Build(s) = UbpfPipelineNew(p)
    BY <1>0, <1>4 DEF Build
  <2>2. UShape(p, UbpfPipelineNew(p)) /\ UbpfContent(p, UbpfPipelineNew(p)) = {}
    BY UbpfRest
  <2> QED  BY <1>0, <1>4, <2>1, <2>2, ShapeIs, Zenon
<1> QED  BY <1>0, <1>1, <1>2, <1>3, <1>4, SelCases

LEMMA UClearIs ==
  ASSUME NEW p \in Programs, NEW t, UShape(p, t)
  PROVE  LET tc == [t EXCEPT !.entries = UbpfClear(@)] IN
         UShape(p, tc) /\ UbpfContent(p, tc) = {}
BY UbpfRest

LEMMA ClearIs ==
  ASSUME NEW s \in Sels, NEW t, Shape(s, t), NEW name
  PROVE  LET r == ClearOf(s, t, name) IN
         /\ r.res.ok <=> name = SchemaOf(s.program).name
         /\ ~r.res.ok => r.res.err = "unknown_table" /\ r.table = t
         /\ r.res.ok => /\ Shape(s, r.table) /\ Content(s, r.table) = {}
                        /\ r.res.val = Count(s, t)
<1>0. PICK p \in Programs : p = s.program
  BY SelCases
<1> DEFINE r == ClearOf(s, t, name)
<1>a. CASE ~FindSchema(p, name).ok
  <2>1. r = Result(FindSchema(p, name), t)
    BY <1>0, <1>a, Zenon DEF ClearOf, NativeClear, X4cClear, UbpfTableClear
  <2>2. r.res = FindSchema(p, name) /\ r.table = t
    BY <2>1, ResultIs
  <2> QED  BY <1>0, <1>a, <2>2, Found
<1>b. CASE FindSchema(p, name).ok
  <2>0. name = SchemaOf(p).name
    BY <1>b, Found
  <2>1. CASE s.backend = "native" /\ p = "l2fwd"
    <3>1. r = Result(Ok(Cardinality(DOMAIN t.entries)), ExactClear(t))
      BY <1>0, <1>b, <2>1, Zenon DEF ClearOf, NativeClear
    <3>2. r.res.ok /\ r.res.val = Cardinality(DOMAIN t.entries) /\ r.table = ExactClear(t)
      BY <3>1, ResultIs
    <3>3. L2Shape(t)
      BY <1>0, <2>1, ShapeIs
    <3>4. L2Shape(ExactClear(t)) /\ L2Content(ExactClear(t)) = {}
      <4>1. PICK n : TRUE
        OBVIOUS
      <4> QED  BY <3>3, L2CutIs
    <3>5. Count(s, t) = Cardinality(DOMAIN t.entries)
      BY <1>0, <2>1, Zenon DEF Count
    <3> HIDE DEF r
    <3> QED  BY <1>0, <2>0, <2>1, <3>2, <3>4, <3>5, ShapeIs, Zenon DEF r
  <2>2. CASE s.backend = "native" /\ p = "l3fwd"
    <3>0. p # "l2fwd"
      BY <2>2
    <3>1. r = Result(Ok(Cardinality(LpmEntries(t))), LpmClear(t))
      BY <1>0, <1>b, <2>2, <3>0, Zenon DEF ClearOf, NativeClear
    <3>2. r.res.ok /\ r.res.val = Cardinality(LpmEntries(t)) /\ r.table = LpmClear(t)
      BY <3>1, ResultIs
    <3>3. L3Shape(t)
      BY <1>0, <2>2, ShapeIs
    <3>4. L3Shape(LpmClear(t)) /\ L3Content(LpmClear(t)) = {}
      <4>1. PICK q : q = [len |-> 0, base |-> 0]
        OBVIOUS
      <4>2. q.len \in Nat
        BY <4>1
      <4> QED  BY <3>3, <4>2, L3CutIs
    <3>5. Count(s, t) = Cardinality(LpmEntries(t))
      BY <1>0, <2>2, <3>0, Zenon DEF Count
    <3> HIDE DEF r
    <3> QED  BY <1>0, <2>0, <2>2, <3>2, <3>4, <3>5, ShapeIs, Zenon DEF r
  <2>3. CASE s.backend = "x4c"
    <3>0. s.backend # "native"
      BY <2>3
    <3>1. r = X4cClear(p, t, name)
      BY <1>0, <2>3, <3>0, Zenon DEF ClearOf
    <3>2. r.res.ok /\ r.res.val = Len(t.live)
      <4>1. PICK x : X4cClear(p, t, name) = Result(Ok(Len(t.live)), x)
        BY <1>b, Zenon DEF X4cClear
      <4>2. Result(Ok(Len(t.live)), x).res.ok /\ Result(Ok(Len(t.live)), x).res.val = Len(t.live)
        BY ResultIs
      <4> QED  BY <3>1, <4>1, <4>2, Zenon
    <3>3. XShape(p, t)
      BY <1>0, <2>3, ShapeIs
    <3>4. XShape(p, r.table) /\ X4cContent(r.table) = {}
      BY <1>b, <3>1, <3>3, X4cRest, Zenon
    <3>5. Count(s, t) = Len(t.live)
      BY <2>3, <3>0, Zenon DEF Count
    <3> HIDE DEF r
    <3> QED  BY <1>0, <2>0, <2>3, <3>2, <3>4, <3>5, ShapeIs, Zenon DEF r
  <2>4. CASE s.backend = "ubpf"
    <3> DEFINE tc == [t EXCEPT !.entries = UbpfClear(@)]
    <3>0. s.backend # "native" /\ s.backend # "x4c"
      BY <2>4
    <3>1. r = Result(Ok(Cardinality(UbpfEntries(t.entries))), tc)
      BY <1>0, <1>b, <2>4, <3>0, Zenon DEF ClearOf, UbpfTableClear
    <3>3. UShape(p, t)
      BY <1>0, <2>4, ShapeIs
    <3>4. UShape(p, tc) /\ UbpfContent(p, tc) = {}
      BY <3>3, UClearIs
    <3>5. Count(s, t) = Cardinality(UbpfEntries(t.entries))
      BY <2>4, <3>0, Zenon DEF Count
    <3> HIDE DEF tc, r
    <3>2. r.res.ok /\ r.res.val = Cardinality(UbpfEntries(t.entries)) /\ r.table = tc
      BY <3>1, ResultIs
    <3> QED  BY <1>0, <2>0, <2>4, <3>2, <3>4, <3>5, ShapeIs, Zenon DEF r
  <2> QED  BY <1>0, <2>1, <2>2, <2>3, <2>4, SelCases
<1> QED  BY <1>a, <1>b

LEMMA UDefaultIs ==
  ASSUME NEW p \in Programs, NEW t, UShape(p, t), NEW v
  PROVE  LET td == [t EXCEPT !.defaults = UbpfSetDefault(@, v)] IN
         UShape(p, td) /\ UbpfContent(p, td) = UbpfContent(p, t)
BY UbpfRest

LEMMA SetDefaultIs ==
  ASSUME NEW s \in Sels, NEW t, Shape(s, t), NEW name, name = SchemaOf(s.program).name,
         NEW a, NEW vals, CallTyped(s.program, a, vals)
  PROVE  LET r == SetDefaultOf(s, t, name, a, vals) IN
         /\ r.res.ok <=> s.backend # "x4c"
         /\ ~r.res.ok => r.res.err = "unsupported"
         /\ Shape(s, r.table) /\ Content(s, r.table) = Content(s, t)
<1>0. PICK p \in Programs : p = s.program /\ CallTyped(p, a, vals)
  BY SelCases
<1> DEFINE r == SetDefaultOf(s, t, name, a, vals)
<1>1. FindSchema(p, name).ok /\ Check(SchemaOf(p), a, vals).ok
  BY <1>0, Found, ChecksPass
<1>2. CASE s.backend = "native"
  <2> DEFINE td == [t EXCEPT !.default_action = FromCall(p, a, vals)]
  <2>1. r = Result(Ok(1), td)
    BY <1>0, <1>1, <1>2, Zenon DEF SetDefaultOf, NativeSetDefault
  <2>2. ASSUME p = "l2fwd" PROVE Shape(s, td) /\ Content(s, td) = Content(s, t)
    <3>1. L2Shape(t)
      BY <1>0, <1>2, <2>2, ShapeIs
    <3>2. L2Shape(td) /\ td.entries = t.entries
      BY <3>1 DEF L2Shape
    <3>3. L2Content(td) = L2Content(t)
      BY <3>2 DEF L2Content
    <3> HIDE DEF td
    <3> QED  BY <1>0, <1>2, <2>2, <3>2, <3>3, ShapeIs, Zenon
  <2>3. ASSUME p = "l3fwd" PROVE Shape(s, td) /\ Content(s, td) = Content(s, t)
    <3>1. L3Shape(t)
      BY <1>0, <1>2, <2>3, ShapeIs
    <3>2. L3Shape(td) /\ td.groups = t.groups
      BY <3>1 DEF L3Shape
    <3> HIDE DEF td
    <3>3. LpmEntries(td) = LpmEntries(t)
      BY <3>2, SMT DEF LpmEntries
    <3>4. L3Content(td) = L3Content(t)
      BY <3>3, Zenon DEF L3Content
    <3> HIDE DEF td
    <3> QED  BY <1>0, <1>2, <2>3, <3>2, <3>4, ShapeIs, Zenon
  <2> HIDE DEF td, r
  <2>4. r.res.ok /\ r.table = td /\ s.backend # "x4c"
    BY <2>1, <1>2, ResultIs
  <2> QED  BY <1>0, <2>2, <2>3, <2>4, Zenon DEF r, Programs
<1>3. CASE s.backend = "x4c"
  <2>1. r = Result(Err("unsupported"), t)
    <3>1. s.backend # "native"
      BY <1>3
    <3> QED  BY <1>0, <1>1, <1>3, <3>1, Zenon DEF SetDefaultOf, X4cSetDefault
  <2> HIDE DEF r
  <2>2. ~r.res.ok /\ r.res.err = "unsupported" /\ r.table = t
    BY <2>1, ResultIs
  <2> QED  BY <1>3, <2>2, Zenon DEF r
<1>4. CASE s.backend = "ubpf"
  <2> DEFINE td == [t EXCEPT !.defaults = UbpfSetDefault(@, ValueImage(Abi(p), a, vals))]
  <2>0. s.backend # "native" /\ s.backend # "x4c"
    BY <1>4
  <2>1. r = Result(Ok(1), td)
    BY <1>0, <1>1, <2>0, Zenon DEF SetDefaultOf, UbpfTableSetDefault
  <2>2. UShape(p, t)
    BY <1>0, <1>4, ShapeIs
  <2>3. UShape(p, td) /\ UbpfContent(p, td) = UbpfContent(p, t)
    BY <2>2, UDefaultIs
  <2> HIDE DEF td, r
  <2>4. r.res.ok /\ r.table = td
    BY <2>1, ResultIs
  <2> QED  BY <1>0, <1>4, <2>0, <2>3, <2>4, ShapeIs, Zenon DEF r
<1> QED  BY <1>2, <1>3, <1>4, SelCases

---------------------------------------------------------------------------
(* The operator's dictionary as a set of entries.                          *)

Keys == [n : Num, len : 0 .. Width]

DE(k, c) == Entry(k.n, k.len, c.action, c.params)
Dict(f) == {DE(k, f[k]) : k \in DOMAIN f}

LEMMA AskedIs == AskedEntries = Dict(asked)
BY DEF AskedEntries, Dict, DE

LEMMA DEKey ==
  ASSUME NEW k \in Keys, NEW c
  PROVE  DE(k, c).key = k /\ DE(k, c).action = c.action /\ DE(k, c).params = c.params
<1>1. k = [n |-> k.n, len |-> k.len]
  BY DEF Keys
<1> QED  BY <1>1 DEF DE, Entry

LEMMA DictOps ==
  ASSUME NEW f, DOMAIN f \subseteq Keys, NEW k \in Keys
  PROVE  /\ \A c : Dict(Put(f, k, c)) = Added(Dict(f), k, c.action, c.params)
         /\ \A c : DOMAIN Put(f, k, c) \subseteq Keys
         /\ Dict(Without(f, k)) = Removed(Dict(f), k)
         /\ DOMAIN Without(f, k) \subseteq Keys
         /\ k \in DOMAIN f <=> HasKey(Dict(f), k)
<1>0. \A j \in DOMAIN f : \A c : DE(j, c).key = j
  BY DEKey
<1>1. ASSUME NEW c PROVE Dict(Put(f, k, c)) = Added(Dict(f), k, c.action, c.params)
  <2> DEFINE g == Put(f, k, c)
  <2>1. /\ DOMAIN g = DOMAIN f \cup {k}
        /\ \A j \in DOMAIN g : g[j] = IF j = k THEN c ELSE f[j]
    BY DEF Put
  <2> HIDE DEF g
  <2>2. ASSUME NEW e \in Dict(g) PROVE e \in Added(Dict(f), k, c.action, c.params)
    <3>1. PICK j \in DOMAIN g : e = DE(j, g[j])
      BY Zenon DEF Dict
    <3>2. CASE j = k
      BY <2>1, <3>1, <3>2, Zenon DEF Added, DE
    <3>3. CASE j # k
      <4>1. j \in DOMAIN f /\ e = DE(j, f[j]) /\ e.key # k
        BY <1>0, <2>1, <3>1, <3>3
      <4> QED  BY <4>1, Zenon DEF Added, Dict
    <3> QED  BY <3>2, <3>3
  <2>3. ASSUME NEW e \in Dict(f), e.key # k PROVE e \in Dict(g)
    <3>1. PICK j \in DOMAIN f : e = DE(j, f[j])
      BY Zenon DEF Dict
    <3>2. j \in DOMAIN g /\ g[j] = f[j]
      BY <1>0, <2>1, <2>3, <3>1
    <3> QED  BY <3>1, <3>2, Zenon DEF Dict
  <2>4. Entry(k.n, k.len, c.action, c.params) \in Dict(g)
    <3>1. k \in DOMAIN g /\ g[k] = c
      BY <2>1
    <3>2. DE(k, g[k]) \in Dict(g)
      BY <3>1, Zenon DEF Dict
    <3> QED  BY <3>1, <3>2, Zenon DEF DE
  <2>5. ASSUME NEW e \in Added(Dict(f), k, c.action, c.params) PROVE e \in Dict(g)
    BY <2>3, <2>4, Zenon DEF Added
  <2> QED  BY <2>2, <2>5, Zenon DEF g
<1>2. Dict(Without(f, k)) = Removed(Dict(f), k)
  <2> DEFINE g == Without(f, k)
  <2>1. /\ DOMAIN g = DOMAIN f \ {k}
        /\ \A j \in DOMAIN g : g[j] = f[j]
    BY DEF Without
  <2> HIDE DEF g
  <2>2. ASSUME NEW e \in Dict(g) PROVE e \in Removed(Dict(f), k)
    <3>1. PICK j \in DOMAIN g : e = DE(j, g[j])
      BY Zenon DEF Dict
    <3>2. j \in DOMAIN f /\ e = DE(j, f[j]) /\ e.key # k
      BY <1>0, <2>1, <3>1
    <3> QED  BY <3>2, Zenon DEF Removed, Dict
  <2>3. ASSUME NEW e \in Removed(Dict(f), k) PROVE e \in Dict(g)
    <3>1. PICK j \in DOMAIN f : e = DE(j, f[j])
      BY <2>3, Zenon DEF Dict, Removed
    <3>2. e.key # k
      BY <2>3, Zenon DEF Removed
    <3>3. j \in DOMAIN g /\ g[j] = f[j]
      BY <1>0, <2>1, <3>2, <3>1
    <3> QED  BY <3>1, <3>3, Zenon DEF Dict
  <2> QED  BY <2>2, <2>3, Zenon DEF g
<1>3. /\ \A c : DOMAIN Put(f, k, c) \subseteq Keys
      /\ DOMAIN Without(f, k) \subseteq Keys
  BY DEF Put, Without
<1>4. k \in DOMAIN f <=> HasKey(Dict(f), k)
  <2>1. ASSUME k \in DOMAIN f PROVE HasKey(Dict(f), k)
    <3>1. DE(k, f[k]) \in Dict(f)
      BY <2>1, Zenon DEF Dict
    <3>2. DE(k, f[k]).key = k
      BY <1>0, <2>1
    <3> QED  BY <3>1, <3>2, Zenon DEF HasKey
  <2>2. ASSUME HasKey(Dict(f), k) PROVE k \in DOMAIN f
    <3>1. PICK j \in DOMAIN f : DE(j, f[j]).key = k
      BY <2>2, Zenon DEF HasKey, Dict
    <3> QED  BY <1>0, <3>1
  <2> QED  BY <2>1, <2>2
<1> QED  BY <1>1, <1>2, <1>3, <1>4

LEMMA DictEmpty == Dict(NoEntries) = {} /\ DOMAIN NoEntries = {}
BY DEF Dict, NoEntries

---------------------------------------------------------------------------
(* One entry of a batch.                                                   *)

LEMMA OpsAre ==
  /\ \A name, key, a, vals : TableAdd(name, key, a, vals) = AddTo(sel, table, name, key, a, vals)
  /\ \A name, key : TableRemove(name, key) = RemoveFrom(sel, table, name, key)
  /\ \A name : TableClear(name) = ClearOf(sel, table, name)
  /\ \A name, a, vals : TableSetDefault(name, a, vals) = SetDefaultOf(sel, table, name, a, vals)
<1>1. \A name, key, a, vals : TableAdd(name, key, a, vals) = AddTo(sel, table, name, key, a, vals)
  BY Zenon DEF TableAdd, AddTo
<1>2. \A name, key : TableRemove(name, key) = RemoveFrom(sel, table, name, key)
  BY Zenon DEF TableRemove, RemoveFrom
<1>3. \A name : TableClear(name) = ClearOf(sel, table, name)
  BY Zenon DEF TableClear, ClearOf
<1>4. \A name, a, vals : TableSetDefault(name, a, vals) = SetDefaultOf(sel, table, name, a, vals)
  BY Zenon DEF TableSetDefault, SetDefaultOf
<1> QED  BY <1>1, <1>2, <1>3, <1>4, Zenon

EntryLegal(p, spec) == KeyLegal(p, spec.table, spec.key) /\ CallLegal(p, spec.action, spec.params)

LEMMA RefinedIs ==
  ASSUME NEW p \in Programs, p = sel.program, NEW spec, spec.key.len \in Seq(Nat),
         DistinctNames(spec.params)
  PROVE  LET r == Refined(spec) IN
         /\ LegalEntry(spec) <=> EntryLegal(p, spec)
         /\ r.ok <=> EntryLegal(p, spec)
         /\ ~r.ok => r.err \in TableErrors
         /\ r.ok => /\ spec.table = SchemaOf(p).name
                    /\ r.val.key = ParseKeyFor(p, spec.table, spec.key).val
                    /\ KeyTyped(p, r.val.key)
                    /\ CallTyped(p, spec.action, r.val.vals)
<1> DEFINE r == Refined(spec)
<1>1. PICK k : k = ParseKeyFor(p, spec.table, spec.key)
  OBVIOUS
<1>2. PICK v : v = TypedParams(SchemaOf(p), spec.action, spec.params)
  OBVIOUS
<1>3. r = IF ~k.ok THEN k ELSE IF ~v.ok THEN v ELSE Ok([key |-> k.val, vals |-> v.val])
  BY <1>1, <1>2, Zenon DEF Refined
<1>4. /\ k.ok <=> KeyLegal(p, spec.table, spec.key)
      /\ k.ok => KeyTyped(p, k.val)
      /\ ~k.ok => k.err \in TableErrors
  BY <1>1, KeyParses
<1>5. /\ v.ok <=> CallLegal(p, spec.action, spec.params)
      /\ v.ok => CallTyped(p, spec.action, v.val)
      /\ ~v.ok => v.err \in TableErrors
  BY <1>2, ParamsParse
<1>6. LegalEntry(spec) <=> EntryLegal(p, spec)
  BY LegalIs, Zenon DEF LegalEntry, EntryLegal
<1> HIDE DEF r
<1>7. CASE ~k.ok
  BY <1>3, <1>4, <1>6, <1>7, Zenon DEF EntryLegal, r
<1>8. CASE k.ok /\ ~v.ok
  BY <1>3, <1>4, <1>5, <1>6, <1>8, Zenon DEF EntryLegal, r
<1>9. CASE k.ok /\ v.ok
  <2>1. r = Ok([key |-> k.val, vals |-> v.val])
    BY <1>3, <1>9, Zenon
  <2>2. r.ok /\ r.val.key = k.val /\ r.val.vals = v.val
    BY <2>1, ResultIs
  <2>3. EntryLegal(p, spec)
    BY <1>4, <1>5, <1>9 DEF EntryLegal
  <2>4. spec.table = SchemaOf(p).name
    BY <2>3, Zenon DEF EntryLegal, KeyLegal
  <2> QED  BY <1>1, <1>4, <1>5, <1>6, <1>9, <2>2, <2>3, <2>4, Zenon DEF r
<1> QED  BY <1>7, <1>8, <1>9

LEMMA AddResultIs ==
  ASSUME NEW p \in Programs, p = sel.program, sel \in Sels, Shape(sel, table),
         NEW spec, spec.key.len \in Seq(Nat), DistinctNames(spec.params)
  PROVE  LET r == AddResult(spec) IN
         /\ r.res.ok <=> EntryLegal(p, spec)
         /\ ~r.res.ok => r.res.err \in TableErrors
         /\ r.res.ok => /\ Shape(sel, r.table)
                        /\ Content(sel, r.table) =
                             Added(Content(sel, table), Stored(sel, Refined(spec).val.key),
                                   spec.action, Numbers(Refined(spec).val.vals))
<1> DEFINE r == AddResult(spec)
<1>0. PICK f : f = Refined(spec)
  OBVIOUS
<1>1. /\ f.ok <=> EntryLegal(p, spec)
      /\ ~f.ok => f.err \in TableErrors
      /\ f.ok => /\ spec.table = SchemaOf(p).name
                 /\ KeyTyped(p, f.val.key)
                 /\ CallTyped(p, spec.action, f.val.vals)
  BY <1>0, RefinedIs
<1>2. CASE ~f.ok
  <2>1. r = Result(f, table)
    BY <1>0, <1>2, Zenon DEF AddResult
  <2>2. r.res = f
    BY <2>1, ResultIs
  <2> QED  BY <1>1, <1>2, <2>2
<1>3. CASE f.ok
  <2>1. r = AddTo(sel, table, spec.table, f.val.key, spec.action, f.val.vals)
    BY <1>0, <1>3, OpsAre, Zenon DEF AddResult
  <2>2. PICK name, key, a, vals : /\ name = spec.table /\ key = f.val.key
                                  /\ a = spec.action /\ vals = f.val.vals
    OBVIOUS
  <2>3. /\ name = SchemaOf(sel.program).name /\ KeyTyped(sel.program, key)
        /\ CallTyped(sel.program, a, vals)
    BY <1>1, <1>3, <2>2
  <2> DEFINE x == AddTo(sel, table, name, key, a, vals)
  <2>4. /\ x.res = Ok(1)
        /\ Shape(sel, x.table)
        /\ Content(sel, x.table) = Added(Content(sel, table), Stored(sel, key), a, Numbers(vals))
    BY <2>3, AddIs
  <2>5. r = x
    BY <2>1, <2>2, Zenon
  <2> HIDE DEF x, r
  <2>6. r.res.ok
    BY <2>4, <2>5, ResultIs
  <2> QED  BY <1>0, <1>1, <1>3, <2>2, <2>4, <2>5, <2>6, Zenon DEF r
<1> QED  BY <1>2, <1>3

---------------------------------------------------------------------------
(* The inductive invariant of the tables.  Shape says that the             *)
(* representation is the backend's own.                                    *)

NodeGood ==
  /\ aliased \in BOOLEAN
  /\ phase = "down" => sel = NoSel /\ asked = NoEntries /\ aliased = FALSE
  /\ phase # "down" => sel \in Sels /\ Shape(sel, table)
  /\ batch # <<>> => phase # "down"
  /\ phase = "loading" => batch # <<>>
  /\ phase \in {"down", "loading", "up"}
  /\ DOMAIN asked \subseteq Keys

AskedHeld == ~Diverged => Content(sel, table) = Dict(asked)

FaithInv == GroupsInv /\ NodeGood /\ AskedHeld

(* With no key that has host bits, an x4c node keeps its keys masked too.  *)
LEMMA StoredIs ==
  ASSUME NEW s \in Sels, NEW p \in Programs, NEW key, KeyTyped(p, key),
         s.backend # "x4c" \/ ~HasHostBits(key)
  PROVE  Stored(s, key) = Canon(key)
<1>1. CASE s.backend # "x4c"
  BY <1>1 DEF Stored
<1>2. CASE s.backend = "x4c" /\ ~HasHostBits(key)
  BY <1>2 DEF Stored, HasHostBits, Canon, Typed
<1> QED  BY <1>1, <1>2

LEMMA NoSelIs == /\ NoSel.backend # "x4c"
                 /\ \A t : Content(NoSel, t) = {}
BY DEF NoSel, Content

LEMMA FaithInit == Init => FaithInv
<1> SUFFICES ASSUME Init PROVE FaithInv
  OBVIOUS
<1>1. NodeGood
  BY DictEmpty DEF Init, NodeGood
<1>2. AskedHeld
  BY DictEmpty, NoSelIs DEF Init, AskedHeld
<1> QED  BY <1>1, <1>2, GroupsInit DEF FaithInv

LEMMA ExitFaith ==
  ASSUME NEW event, Exit(event)
  PROVE  NodeGood' /\ AskedHeld'
<1>1. /\ phase' = "down" /\ sel' = NoSel /\ asked' = NoEntries /\ aliased' = FALSE
      /\ batch' = <<>>
  BY DEF Exit
<1>2. NodeGood'
  BY <1>1, DictEmpty DEF NodeGood
<1>3. AskedHeld'
  BY <1>1, DictEmpty, NoSelIs DEF AskedHeld
<1> QED  BY <1>2, <1>3

LEMMA StartFaith ==
  ASSUME FaithInv, NEW raw \in RawConfigs, NEW backend, NEW file \in Batches(raw.pipeline),
         Start(raw, backend, file)
  PROVE  NodeGood' /\ AskedHeld'
<1> DEFINE config == Validate(raw, Registry)
           s == Selection(raw.pipeline, backend)
<1>1. CASE ~config.ok \/ ~s.ok
  BY <1>1, ExitFaith DEF Start
<1>2. CASE config.ok /\ s.ok
  <2>1. /\ phase = "down" /\ phase' = "loading" /\ sel' = s.val /\ table' = Build(s.val)
        /\ batch' = <<[given |-> file, done |-> 0]>> /\ UNCHANGED <<asked, aliased>>
    BY <1>2, Zenon DEF Start
  <2>2. s.val \in Sels
    <3>1. /\ raw.pipeline \in Programs
          /\ \E x \in Backends : s = Ok([program |-> raw.pipeline, backend |-> x])
      BY <1>2, ResultIs DEF Selection, Backends
    <3> QED  BY <3>1, ResultIs DEF Sels
  <2> HIDE DEF s, config
  <2>3. asked = NoEntries /\ aliased = FALSE
    BY <2>1 DEF FaithInv, NodeGood
  <2>4. batch' # <<>>
    BY <2>1
  <2>5. NodeGood'
    BY <2>1, <2>2, <2>3, <2>4, BuildIs, DictEmpty DEF NodeGood
  <2>6. AskedHeld'
    BY <2>1, <2>2, <2>3, BuildIs, DictEmpty DEF AskedHeld
  <2> QED  BY <2>5, <2>6
<1> QED  BY <1>1, <1>2

(* A step that leaves the tables, the dictionary and the selection alone.  *)
LEMMA QuietFaith ==
  ASSUME FaithInv, UNCHANGED <<sel, table, asked, aliased>>,
         phase # "down", phase' = "up" \/ (phase' = phase /\ batch' = batch)
  PROVE  NodeGood' /\ AskedHeld'
BY DEF FaithInv, NodeGood, AskedHeld, Diverged

(* A step that puts, or cuts, one key.                                     *)
LEMMA PutFaith ==
  ASSUME FaithInv, phase # "down", UNCHANGED <<phase, sel>>, batch # <<>> <=> batch' # <<>>,
         NEW key, KeyTyped(sel.program, key), NEW a, NEW vals,
         aliased' = (aliased \/ HasHostBits(key)),
         Shape(sel, table'),
         \/ /\ asked' = Put(asked, Canon(key), Call(a, vals))
            /\ Content(sel, table') = Added(Content(sel, table), Stored(sel, key), a, Numbers(vals))
         \/ /\ asked' = Without(asked, Canon(key))
            /\ Content(sel, table') = Removed(Content(sel, table), Stored(sel, key))
  PROVE  NodeGood' /\ AskedHeld'
<1>1. sel \in Sels /\ sel.program \in Programs /\ DOMAIN asked \subseteq Keys /\ aliased \in BOOLEAN
  BY SelCases DEF FaithInv, NodeGood
<1>2. Canon(key) \in Keys
  BY <1>1, CanonTyped DEF Keys
<1>3. DOMAIN asked' \subseteq Keys
  BY <1>1, <1>2, DictOps
<1>4. NodeGood'
  BY <1>1, <1>3 DEF NodeGood, FaithInv
<1>5. ASSUME ~Diverged' PROVE Content(sel, table') = Dict(asked')
  <2>1. sel.backend # "x4c" \/ (~aliased /\ ~HasHostBits(key))
    BY <1>1, <1>5 DEF Diverged
  <2>2. Content(sel, table) = Dict(asked)
    BY <2>1 DEF FaithInv, AskedHeld, Diverged
  <2>3. Stored(sel, key) = Canon(key)
    BY <1>1, <2>1, StoredIs
  <2>4. Call(a, vals).action = a /\ Call(a, vals).params = Numbers(vals)
    BY DEF Call
  <2>5. CASE asked' = Put(asked, Canon(key), Call(a, vals)) /\ Content(sel, table') = Added(Content(sel, table), Stored(sel, key), a, Numbers(vals))
    <3>1. PICK c : c = Call(a, vals)
      OBVIOUS
    <3>2. Dict(Put(asked, Canon(key), c)) = Added(Dict(asked), Canon(key), c.action, c.params)
      BY <1>1, <1>2, DictOps
    <3> QED  BY <2>2, <2>3, <2>4, <2>5, <3>1, <3>2, Zenon
  <2>6. CASE asked' = Without(asked, Canon(key)) /\ Content(sel, table') = Removed(Content(sel, table), Stored(sel, key))
    <3>1. Dict(Without(asked, Canon(key))) = Removed(Dict(asked), Canon(key))
      BY <1>1, <1>2, DictOps
    <3> QED  BY <2>2, <2>3, <2>6, <3>1, Zenon
  <2> QED  BY <2>5, <2>6
<1> QED  BY <1>4, <1>5 DEF AskedHeld

(* What ApplyEntry does, in terms of the entries held.                     *)
LEMMA PendingIs ==
  ASSUME FaithInv, Pending
  PROVE  LET b == batch[1]
             spec == b.given[b.done + 1]
         IN /\ phase # "down" /\ sel \in Sels /\ sel.program \in Programs /\ Shape(sel, table)
            /\ b.given \in Batches(sel.program) /\ b.given \in Seq(Range(b.given))
            /\ b.done \in Nat /\ b.done < Len(b.given) /\ b.done + 1 \in DOMAIN b.given
            /\ b = [given |-> b.given, done |-> b.done]
            /\ spec.key.len \in Seq(Nat) /\ DistinctNames(spec.params)
<1> DEFINE b == batch[1]
           spec == b.given[b.done + 1]
<1>1. batch # <<>> /\ b.done < Len(b.given)
  BY DEF Pending
<1>2. phase # "down" /\ sel \in Sels /\ sel.program \in Programs /\ Shape(sel, table)
  BY <1>1, SelCases DEF FaithInv, NodeGood
<1>3. /\ b.given \in Batches(sel.program) /\ b.done \in Nat
      /\ b = [given |-> b.given, done |-> b.done]
  BY <1>1 DEF FaithInv, GroupsInv, BatchKnown
<1>4. /\ b.given \in Seq(Range(b.given)) /\ \A e \in Range(b.given) : e.key.len \in Seq(Nat)
      /\ \A e \in Range(b.given) : DistinctNames(e.params)
  BY <1>2, <1>3, TextAssumption
<1>5. b.done + 1 \in DOMAIN b.given
  BY <1>1, <1>3, <1>4
<1>6. spec \in Range(b.given)
  BY <1>4, <1>5 DEF Range
<1> HIDE DEF b
<1> QED  BY <1>1, <1>2, <1>3, <1>4, <1>5, <1>6 DEF b

LEMMA ApplyFaith ==
  ASSUME FaithInv, ApplyEntry
  PROVE  /\ NodeGood' /\ AskedHeld'
         /\ \E k, a, ps : /\ k = [n |-> k.n, len |-> k.len]
                          /\ Content(sel', table') = Added(Content(sel, table), k, a, ps)
<1> DEFINE b == batch[1]
           spec == b.given[b.done + 1]
           r == AddResult(spec)
<1>1. /\ Pending /\ r.res.ok /\ table' = r.table
      /\ batch' = <<[b EXCEPT !.done = @ + 1]>>
      /\ asked' = Put(asked, Canon(Refined(spec).val.key), Call(spec.action, Refined(spec).val.vals))
      /\ aliased' = (aliased \/ HasHostBits(Refined(spec).val.key))
      /\ UNCHANGED <<phase, sel>>
  BY Zenon DEF ApplyEntry, nodeVars
<1>2. /\ phase # "down" /\ sel \in Sels /\ sel.program \in Programs /\ Shape(sel, table)
      /\ spec.key.len \in Seq(Nat) /\ DistinctNames(spec.params)
  BY <1>1, PendingIs
<1>3. PICK p \in Programs : p = sel.program
  BY <1>2
<1>4. PICK e : e = spec
  OBVIOUS
<1> HIDE DEF spec, b
<1>5. PICK key, vals : key = Refined(e).val.key /\ vals = Refined(e).val.vals
  OBVIOUS
<1>6. /\ EntryLegal(p, e)
      /\ Shape(sel, r.table)
      /\ Content(sel, r.table) = Added(Content(sel, table), Stored(sel, key), e.action, Numbers(vals))
  BY <1>1, <1>2, <1>3, <1>4, <1>5, AddResultIs
<1>7. KeyTyped(p, key)
  BY <1>2, <1>3, <1>4, <1>5, <1>6, RefinedIs
<1>8. batch # <<>> /\ batch' # <<>>
  BY <1>1 DEF Pending
<1> HIDE DEF r
<1>9. NodeGood' /\ AskedHeld'
  BY <1>1, <1>2, <1>3, <1>4, <1>5, <1>6, <1>7, <1>8, PutFaith
<1>10. PICK k : k = Stored(sel, key)
  OBVIOUS
<1>11. k = [n |-> k.n, len |-> k.len]
  BY <1>10 DEF Stored, Typed, Canon
<1>12. Content(sel', table') = Added(Content(sel, table), k, e.action, Numbers(vals))
  BY <1>1, <1>6, <1>10
<1> QED  BY <1>9, <1>11, <1>12

LEMMA DelFaith ==
  ASSUME FaithInv, NEW name, NEW text \in KeyTexts(sel.program), TableDel(name, text)
  PROVE  LET k == ParseKeyFor(sel.program, name, text) IN
         /\ NodeGood' /\ AskedHeld'
         /\ \/ Content(sel', table') = Content(sel, table)
            \/ \E j : Content(sel', table') = Removed(Content(sel, table), j)
         /\ last'.res.ok <=> /\ KeyLegal(sel.program, name, text)
                             /\ sel.backend = "native" => k.ok /\ Canon(k.val) \in DOMAIN asked
         /\ ~last'.res.ok => last'.res.err \in TableErrors
<1> DEFINE k == ParseKeyFor(sel.program, name, text)
           r == IF ~k.ok THEN Result(k, table) ELSE TableRemove(name, k.val)
<1>1. /\ phase = "up" /\ UNCHANGED <<phase, sel, batch>>
      /\ table' = r.table
      /\ asked' = IF k.ok THEN Without(asked, Canon(k.val)) ELSE asked
      /\ aliased' = (aliased \/ (k.ok /\ HasHostBits(k.val)))
      /\ last'.res = r.res
  BY DEF TableDel, Idle, nodeVars, Reply
<1>2. sel \in Sels /\ sel.program \in Programs /\ Shape(sel, table)
  BY <1>1, SelCases DEF FaithInv, NodeGood
<1>3. PICK p \in Programs : p = sel.program
  BY <1>2
<1>4. text.len \in Seq(Nat)
  BY <1>2, TextAssumption
<1>5. /\ k.ok <=> KeyLegal(p, name, text)
      /\ k.ok => KeyTyped(p, k.val)
      /\ ~k.ok => k.err \in TableErrors
  BY <1>3, <1>4, KeyParses
<1>6. k.ok => name = SchemaOf(p).name
  BY <1>5 DEF KeyLegal
<1>7. CASE ~k.ok
  <2>1. r = Result(k, table)
    BY <1>7
  <2> HIDE DEF k, r
  <2>2. r.res = k /\ r.table = table
    BY <2>1, ResultIs
  <2>3. /\ UNCHANGED <<sel, table, asked>> /\ phase # "down"
        /\ phase' = phase /\ batch' = batch
    BY <1>1, <1>7, <2>2
  <2>4. aliased' = aliased
    BY <1>1, <1>7 DEF FaithInv, NodeGood
  <2>5. NodeGood' /\ AskedHeld'
    BY <2>3, <2>4, QuietFaith
  <2>6. Content(sel', table') = Content(sel, table)
    BY <2>3
  <2> QED  BY <1>1, <1>3, <1>5, <1>7, <2>2, <2>5, <2>6 DEF k
<1>8. CASE k.ok
  <2>1. PICK key : key = k.val
    OBVIOUS
  <2>2. r = RemoveFrom(sel, table, name, key)
    BY <1>8, <2>1, OpsAre
  <2>3. name = SchemaOf(sel.program).name /\ KeyTyped(sel.program, key)
    BY <1>3, <1>5, <1>6, <1>8, <2>1
  <2>4. /\ Shape(sel, r.table)
        /\ Content(sel, r.table) = Removed(Content(sel, table), Stored(sel, key))
        /\ r.res.ok <=> (sel.backend = "native" => HasKey(Content(sel, table), Canon(key)))
        /\ ~r.res.ok => r.res.err = "not_found"
    BY <1>2, <2>2, <2>3, RemoveIs
  <2> HIDE DEF k, r
  <2>5. asked' = Without(asked, Canon(key)) /\ aliased' = (aliased \/ HasHostBits(key))
    BY <1>1, <1>8, <2>1
  <2>6. PICK a, vals : TRUE
    OBVIOUS
  <2>7. phase # "down" /\ UNCHANGED <<phase, sel>> /\ (batch # <<>> <=> batch' # <<>>)
    BY <1>1
  <2>8. Shape(sel, table') /\ Content(sel, table') = Removed(Content(sel, table), Stored(sel, key))
    BY <1>1, <2>4
  <2>9. NodeGood' /\ AskedHeld'
    BY <2>3, <2>5, <2>6, <2>7, <2>8, PutFaith
  <2>10. sel.backend = "native" => (HasKey(Content(sel, table), Canon(key)) <=> Canon(key) \in DOMAIN asked)
    <3>1. sel.backend = "native" => Content(sel, table) = Dict(asked)
      BY DEF FaithInv, AskedHeld, Diverged
    <3>2. Canon(key) \in Keys /\ DOMAIN asked \subseteq Keys
      BY <1>3, <2>3, CanonTyped DEF Keys, FaithInv, NodeGood
    <3>3. Canon(key) \in DOMAIN asked <=> HasKey(Dict(asked), Canon(key))
      BY <3>2, DictOps
    <3> QED  BY <3>1, <3>3, Zenon
  <2>11. "not_found" \in TableErrors
    BY DEF TableErrors
  <2>12. sel' = sel
    BY <1>1
  <2> QED  BY <1>1, <1>3, <1>5, <1>8, <2>1, <2>4, <2>8, <2>9, <2>10, <2>11, <2>12, Zenon DEF k
<1> QED  BY <1>7, <1>8

LEMMA SetDefaultFaith ==
  ASSUME FaithInv, NEW name, NEW call \in DefaultCalls(sel.program), SetDefault(name, call)
  PROVE  /\ NodeGood' /\ AskedHeld'
         /\ Content(sel', table') = Content(sel, table)
         /\ last'.res.ok <=> /\ name = SchemaOf(sel.program).name
                             /\ CallLegal(sel.program, call.action, call.params)
                             /\ sel.backend # "x4c"
         /\ ~last'.res.ok => last'.res.err \in TableErrors
<1> DEFINE s == FindSchema(sel.program, name)
           v == TypedParams(SchemaOf(sel.program), call.action, call.params)
           r == IF ~s.ok THEN Result(s, table)
                ELSE IF ~v.ok THEN Result(v, table)
                ELSE TableSetDefault(name, call.action, v.val)
<1>1. /\ phase = "up" /\ UNCHANGED <<phase, sel, batch, asked, aliased>>
      /\ table' = r.table /\ last'.res = r.res
  BY DEF SetDefault, Idle, nodeVars, Reply
<1>2. sel \in Sels /\ sel.program \in Programs /\ Shape(sel, table)
  BY <1>1, SelCases DEF FaithInv, NodeGood
<1>3. PICK p \in Programs : p = sel.program
  BY <1>2
<1>4. DistinctNames(call.params)
  BY <1>2, TextAssumption
<1>5. /\ v.ok <=> CallLegal(p, call.action, call.params)
      /\ v.ok => CallTyped(p, call.action, v.val)
      /\ ~v.ok => v.err \in TableErrors
  BY <1>3, <1>4, ParamsParse
<1>6. (s.ok <=> name = SchemaOf(p).name) /\ (~s.ok => s.err \in TableErrors)
  BY <1>3, Found DEF TableErrors
<1>7. /\ Shape(sel, r.table) /\ Content(sel, r.table) = Content(sel, table)
      /\ r.res.ok <=> s.ok /\ v.ok /\ sel.backend # "x4c"
      /\ ~r.res.ok => r.res.err \in TableErrors
  <2>1. CASE ~s.ok
    <3>1. r = Result(s, table)
      BY <2>1
    <3> HIDE DEF r, s, v
    <3>2. r.res = s /\ r.table = table
      BY <3>1, ResultIs
    <3> QED  BY <1>2, <1>6, <2>1, <3>2
  <2>2. CASE s.ok /\ ~v.ok
    <3>1. r = Result(v, table)
      BY <2>2
    <3> HIDE DEF r, s, v
    <3>2. r.res = v /\ r.table = table
      BY <3>1, ResultIs
    <3> QED  BY <1>2, <1>5, <2>2, <3>2
  <2>3. CASE s.ok /\ v.ok
    <3>1. PICK a, vals : a = call.action /\ vals = v.val
      OBVIOUS
    <3>2. r = SetDefaultOf(sel, table, name, a, vals)
      BY <2>3, <3>1, OpsAre
    <3>3. name = SchemaOf(sel.program).name /\ CallTyped(sel.program, a, vals)
      BY <1>3, <1>5, <1>6, <2>3, <3>1
    <3>4. /\ r.res.ok <=> sel.backend # "x4c"
          /\ ~r.res.ok => r.res.err = "unsupported"
          /\ Shape(sel, r.table) /\ Content(sel, r.table) = Content(sel, table)
      BY <1>2, <3>2, <3>3, SetDefaultIs
    <3> HIDE DEF r, s, v
    <3> QED  BY <2>3, <3>4 DEF TableErrors
  <2> QED  BY <2>1, <2>2, <2>3
<1> HIDE DEF r, s, v
<1>8. Content(sel', table') = Content(sel, table) /\ Shape(sel', table')
  BY <1>1, <1>7
<1>9. NodeGood' /\ AskedHeld'
  BY <1>1, <1>8 DEF FaithInv, NodeGood, AskedHeld, Diverged
<1> QED  BY <1>1, <1>3, <1>5, <1>6, <1>7, <1>8, <1>9, Zenon

LEMMA ClearFaith ==
  ASSUME FaithInv, NEW name, Clear(name)
  PROVE  /\ NodeGood' /\ AskedHeld'
         /\ last'.res.ok <=> name = SchemaOf(sel.program).name
         /\ ~last'.res.ok => last'.res.err \in TableErrors
         /\ last'.res.ok => last'.res.val = Count(sel, table)
<1> DEFINE r == TableClear(name)
<1>1. /\ phase = "up" /\ UNCHANGED <<phase, sel, batch>>
      /\ table' = r.table
      /\ asked' = IF r.res.ok THEN NoEntries ELSE asked
      /\ aliased' = (aliased /\ ~r.res.ok)
      /\ last'.res = r.res
  BY DEF Clear, Idle, nodeVars, Reply
<1>2. sel \in Sels /\ Shape(sel, table)
  BY <1>1 DEF FaithInv, NodeGood
<1>3. r = ClearOf(sel, table, name)
  BY OpsAre
<1>4. /\ r.res.ok <=> name = SchemaOf(sel.program).name
      /\ ~r.res.ok => r.res.err = "unknown_table" /\ r.table = table
      /\ r.res.ok => /\ Shape(sel, r.table) /\ Content(sel, r.table) = {}
                     /\ r.res.val = Count(sel, table)
  BY <1>2, <1>3, ClearIs
<1> HIDE DEF r
<1>5. NodeGood' /\ AskedHeld'
  <2>0. aliased \in BOOLEAN
    BY DEF FaithInv, NodeGood
  <2>1. CASE r.res.ok
    <3>1. asked' = NoEntries /\ aliased' = FALSE /\ Shape(sel', table') /\ Content(sel', table') = {}
      BY <1>1, <1>4, <2>0, <2>1
    <3>2. NodeGood'
      BY <1>1, <3>1, DictEmpty DEF FaithInv, NodeGood
    <3> QED  BY <3>1, <3>2, DictEmpty DEF AskedHeld
  <2>2. CASE ~r.res.ok
    <3>1. UNCHANGED <<sel, table, asked, aliased>>
      BY <1>1, <1>4, <2>0, <2>2
    <3> QED  BY <1>1, <3>1, QuietFaith
  <2> QED  BY <2>1, <2>2
<1> QED  BY <1>1, <1>4, <1>5 DEF TableErrors

LEMMA RefuseFaith ==
  ASSUME FaithInv, RefuseEntry
  PROVE  /\ NodeGood' /\ AskedHeld'
         /\ phase' = "down" \/ UNCHANGED <<sel, table>>
<1>1. CASE \E event : Exit(event)
  BY <1>1, ExitFaith DEF Exit
<1>2. CASE phase # "loading" /\ batch' = <<>> /\ UNCHANGED <<phase, sel, table, asked, aliased>>
  <2>1. batch # <<>>
    BY DEF RefuseEntry, Pending
  <2>2. phase = "up"
    BY <1>2, <2>1 DEF FaithInv, NodeGood
  <2> QED  BY <1>2, <2>2, QuietFaith
<1> QED  BY <1>1, <1>2 DEF RefuseEntry, nodeVars, askedVars

LEMMA FaithStep == FaithInv /\ [Next]_vars => FaithInv'
<1> SUFFICES ASSUME FaithInv, [Next]_vars PROVE NodeGood' /\ AskedHeld'
  BY GroupsStep DEF FaithInv
<1>1. CASE \E raw \in RawConfigs, b \in CliBackends :
             \E file \in Batches(raw.pipeline) : Start(raw, b, file)
  BY <1>1, StartFaith
<1>2. CASE Stop
  BY <1>2, ExitFaith DEF Stop
<1>3. CASE Request
  <2>1. ASSUME NEW entries, BeginAdd(entries) PROVE NodeGood' /\ AskedHeld'
    <3>1. phase = "up" /\ UNCHANGED <<phase, sel, table, asked, aliased>>
      BY <2>1 DEF BeginAdd, Idle, nodeVars, askedVars
    <3> QED  BY <3>1, QuietFaith
  <2>2. CASE \E name \in TableNames, text \in KeyTexts(sel.program) : TableDel(name, text)
    BY <2>2, DelFaith
  <2>3. CASE \E name \in TableNames, call \in DefaultCalls(sel.program) : SetDefault(name, call)
    BY <2>3, SetDefaultFaith
  <2>4. ASSUME NEW name, Clear(name) PROVE NodeGood' /\ AskedHeld'
    BY <2>4, ClearFaith
  <2>5. ASSUME NEW name, Dump(name) PROVE NodeGood' /\ AskedHeld'
    <3>1. phase = "up" /\ UNCHANGED <<phase, sel, table, asked, aliased>>
      BY <2>5 DEF Dump, Idle, nodeVars, askedVars
    <3> QED  BY <3>1, QuietFaith
  <2> QED  BY <1>3, <2>1, <2>2, <2>3, <2>4, <2>5 DEF Request
<1>4. CASE ApplyEntry
  BY <1>4, ApplyFaith
<1>5. CASE RefuseEntry
  BY <1>5, RefuseFaith
<1>6. CASE FinishBatch
  <2>1. batch # <<>> /\ phase' = "up" /\ UNCHANGED <<sel, table, asked, aliased>>
    BY <1>6 DEF FinishBatch, askedVars
  <2>2. phase # "down"
    BY <2>1 DEF FaithInv, NodeGood
  <2> QED  BY <2>1, <2>2, QuietFaith
<1>7. ASSUME NEW f, Receive(f) PROVE NodeGood' /\ AskedHeld'
  <2>1. phase = "up" /\ UNCHANGED <<phase, sel, table, asked, aliased>>
    BY <1>7 DEF Receive, nodeVars, askedVars
  <2> QED  BY <2>1, QuietFaith
<1>8. CASE UNCHANGED vars
  <2>1. UNCHANGED <<phase, sel, table, asked, aliased, batch>>
    BY <1>8 DEF vars
  <2> QED  BY <2>1 DEF FaithInv, NodeGood, AskedHeld, Diverged
<1> QED  BY <1>1, <1>2, <1>3, <1>4, <1>5, <1>6, <1>7, <1>8 DEF Next

LEMMA FaithAlways == Spec => []FaithInv
BY FaithInit, FaithStep, PTL DEF Spec

(* Whatever requests, batches, refusals, clears and restarts come in       *)
(* whatever order, the table a backend keeps (native maps and groups, x4c  *)
(* entry sets, ubpf byte images) holds exactly the entries they add up to, *)
(* and the x4c pipelines exactly the live entries of the backend.          *)
THEOREM TableFaithfulHolds == Spec => []TableFaithful
<1>1. FaithInv => TableFaithful
  <2> SUFFICES ASSUME FaithInv PROVE TableFaithful
    OBVIOUS
  <2>1. ~Diverged => Installed = AskedEntries
    BY InstalledIs, AskedIs DEF FaithInv, AskedHeld
  <2>2. ASSUME sel.backend = "x4c"
        PROVE  Installed = {LET e == table.live[i] IN
                 Entry(e.key.value.n, e.key.len, e.action, Numbers(e.params))
                   : i \in DOMAIN table.live}
    <3>1. phase # "down"
      BY <2>2, NoSelIs DEF FaithInv, NodeGood
    <3>2. sel.program \in Programs /\ XShape(sel.program, table) /\ Content(sel, table) = X4cContent(table)
      BY <2>2, <3>1, SelCases, ShapeIs DEF FaithInv, NodeGood
    <3>3. Content(sel, table) = {LE(e) : e \in LiveSet(table)}
      BY <3>2, X4cContentIs
    <3>4. {LE(e) : e \in LiveSet(table)} = {LE(table.live[i]) : i \in DOMAIN table.live}
      BY DEF LiveSet
    <3>5. \A i : LE(table.live[i]) = LET e == table.live[i] IN
                 Entry(e.key.value.n, e.key.len, e.action, Numbers(e.params))
      BY DEF LE
    <3> QED  BY <3>3, <3>4, <3>5, InstalledIs, Zenon
  <2> QED  BY <2>1, <2>2 DEF TableFaithful
<1> QED  BY <1>1, FaithAlways, PTL

(* Added and Removed touch one key.                                        *)
LEMMA OneKey ==
  ASSUME NEW C, NEW D, NEW k,
         \/ D = C
         \/ D = Removed(C, k)
         \/ /\ k = [n |-> k.n, len |-> k.len]
            /\ \E a, ps : D = Added(C, k, a, ps)
  PROVE  Cardinality({e.key : e \in (C \ D) \cup (D \ C)}) <= 1
<1> DEFINE changed == {e.key : e \in (C \ D) \cup (D \ C)}
<1>1. ASSUME NEW e \in (C \ D) \cup (D \ C) PROVE e.key = k
  <2>1. CASE D = C
    BY <2>1
  <2>2. CASE D = Removed(C, k)
    BY <2>2 DEF Removed
  <2>3. CASE k = [n |-> k.n, len |-> k.len] /\ \E a, ps : D = Added(C, k, a, ps)
    <3>1. PICK a, ps : D = Added(C, k, a, ps)
      BY <2>3
    <3>2. Entry(k.n, k.len, a, ps).key = k
      BY <2>3 DEF Entry
    <3>3. e = Entry(k.n, k.len, a, ps) \/ e.key = k
      BY <3>1 DEF Added
    <3> QED  BY <3>2, <3>3
  <2> QED  BY <2>1, <2>2, <2>3
<1>2. changed \subseteq {k}
  BY <1>1
<1> HIDE DEF changed
<1>3. IsFiniteSet({k}) /\ Cardinality({k}) = 1
  BY FS_Singleton
<1>4. Cardinality(changed) <= Cardinality({k})
  BY <1>2, <1>3, FS_Subset
<1> QED  BY <1>3, <1>4 DEF changed

(* A step of a running node that is not a clear changes one key at most.   *)
LEMMA EntryAtomic ==
  ASSUME FaithInv, [Next]_vars,
         phase # "down", phase' # "down", ~(last'.kind = "reply" /\ last'.op = "clear")
  PROVE  Cardinality({e.key : e \in (Installed \ Installed') \cup (Installed' \ Installed)}) <= 1
<1>0. Installed = Content(sel, table) /\ Installed' = Content(sel', table')
  <2>1. (Installed = Content(sel, table))'
    BY InstalledIs, PTL
  <2> QED  BY <2>1, InstalledIs
<1> DEFINE C == Content(sel, table)
           D == Content(sel', table')
           Goal == \E k : \/ D = C
                         \/ D = Removed(C, k)
                         \/ /\ k = [n |-> k.n, len |-> k.len]
                            /\ \E a, ps : D = Added(C, k, a, ps)
<1>1. ASSUME NEW raw, NEW b, NEW file, Start(raw, b, file) PROVE FALSE
  BY <1>1 DEF Start
<1>2. ASSUME Stop PROVE FALSE
  BY <1>2 DEF Stop, Exit
<1>a. UNCHANGED <<sel, table>> => Goal
  OBVIOUS
<1>3. ASSUME Request PROVE Goal
  <2>1. ASSUME NEW entries, BeginAdd(entries) PROVE Goal
    BY <2>1, <1>a DEF BeginAdd, nodeVars
  <2>2. ASSUME NEW name, NEW text \in KeyTexts(sel.program), TableDel(name, text) PROVE Goal
    BY <2>2, DelFaith
  <2>3. ASSUME NEW name, NEW call \in DefaultCalls(sel.program), SetDefault(name, call) PROVE Goal
    BY <2>3, SetDefaultFaith
  <2>4. ASSUME NEW name, Clear(name) PROVE FALSE
    BY <2>4 DEF Clear, Reply
  <2>5. ASSUME NEW name, Dump(name) PROVE Goal
    BY <2>5, <1>a DEF Dump, nodeVars
  <2> HIDE DEF Goal
  <2> QED  BY <1>3, <2>1, <2>2, <2>3, <2>4, <2>5 DEF Request
<1>4. ASSUME ApplyEntry PROVE Goal
  BY <1>4, ApplyFaith
<1>5. ASSUME RefuseEntry PROVE Goal
  BY <1>5, <1>a, RefuseFaith
<1>6. ASSUME FinishBatch PROVE Goal
  BY <1>6, <1>a DEF FinishBatch
<1>7. ASSUME NEW f, Receive(f) PROVE Goal
  BY <1>7, <1>a DEF Receive, nodeVars
<1>8. ASSUME UNCHANGED vars PROVE Goal
  BY <1>8, <1>a DEF vars
<1>9. Goal
  <2> HIDE DEF Goal
  <2> QED  BY <1>1, <1>2, <1>3, <1>4, <1>5, <1>6, <1>7, <1>8 DEF Next
<1> HIDE DEF C, D
<1>10. PICK k : \/ D = C
               \/ D = Removed(C, k)
               \/ /\ k = [n |-> k.n, len |-> k.len]
                  /\ \E a, ps : D = Added(C, k, a, ps)
  BY <1>9
<1>11. Cardinality({e.key : e \in (C \ D) \cup (D \ C)}) <= 1
  BY <1>10, OneKey, Zenon
<1> QED  BY <1>0, <1>11, Zenon DEF C, D

(* TableOps is atomic per call: between two states of a running node the   *)
(* entry of one key at most differs, a clear excepted, so a frame between  *)
(* two entries of a batch finds every other entry in place.                *)
THEOREM PerEntryAtomicHolds == Spec => PerEntryAtomic
<1>1. FaithInv /\ [Next]_vars =>
        [ \/ phase' = "down" \/ phase = "down"
          \/ last'.kind = "reply" /\ last'.op = "clear"
          \/ LET changed == {e.key : e \in (Installed \ Installed') \cup (Installed' \ Installed)}
             IN Cardinality(changed) <= 1 ]_vars
  BY EntryAtomic, Zenon
<1> QED  BY <1>1, FaithAlways, PTL DEF PerEntryAtomic, Spec

---------------------------------------------------------------------------
(* Counting.                                                               *)

LEMMA Bijected ==
  ASSUME NEW S, NEW T, NEW g, g \in [S -> T],
         \A x, y \in S : g[x] = g[y] => x = y,
         \A y \in T : \E x \in S : g[x] = y,
         IsFiniteSet(S) \/ IsFiniteSet(T)
  PROVE  Cardinality(S) = Cardinality(T)
<1>1. g \in Bijection(S, T)
  BY Fun_IsBij
<1>2. Inverse(g, S, T) \in Bijection(T, S)
  BY <1>1, Fun_BijInverse
<1>3. ExistsBijection(S, T) /\ ExistsBijection(T, S)
  BY <1>1, <1>2, Fun_ExistsBij
<1>4. CASE IsFiniteSet(S)
  BY <1>3, <1>4, FS_Bijection
<1>5. CASE IsFiniteSet(T)
  BY <1>3, <1>5, FS_Bijection
<1> QED  BY <1>4, <1>5

LEMMA KeysFinite == IsFiniteSet(Keys)
<1>1. IsFiniteSet(Num) /\ IsFiniteSet(0 .. Width)
  <2>1. 2 ^ Width - 1 \in Int /\ Width \in Int
    BY WidthNat
  <2> QED  BY <2>1, FS_Interval DEF Num
<1>2. IsFiniteSet(Num \X (0 .. Width))
  BY <1>1, FS_Product
<1> DEFINE g == [x \in Num \X (0 .. Width) |-> [n |-> x[1], len |-> x[2]]]
<1>3. g \in Surjection(Num \X (0 .. Width), Keys)
  <2>1. g \in [Num \X (0 .. Width) -> Keys]
    BY DEF Keys
  <2>2. ASSUME NEW k \in Keys PROVE \E x \in Num \X (0 .. Width) : g[x] = k
    <3>1. <<k.n, k.len>> \in Num \X (0 .. Width) /\ k = [n |-> k.n, len |-> k.len]
      BY DEF Keys
    <3>2. g[<<k.n, k.len>>] = k
      BY <3>1
    <3> QED  BY <3>1, <3>2
  <2> HIDE DEF g
  <2> QED  BY <2>1, <2>2 DEF Surjection
<1> HIDE DEF g
<1> QED  BY <1>2, <1>3, FS_Surjection

LEMMA DictCount ==
  ASSUME NEW f, DOMAIN f \subseteq Keys
  PROVE  Cardinality(Dict(f)) = Cardinality(DOMAIN f) /\ IsFiniteSet(Dict(f))
<1>1. IsFiniteSet(DOMAIN f)
  BY KeysFinite, FS_Subset
<1> DEFINE g == [k \in DOMAIN f |-> DE(k, f[k])]
<1>2. g \in [DOMAIN f -> Dict(f)]
  BY DEF Dict
<1>3. \A k, j \in DOMAIN f : g[k] = g[j] => k = j
  <2>1. ASSUME NEW k \in DOMAIN f PROVE g[k].key = k
    BY DEKey
  <2> QED  BY <2>1
<1>4. \A y \in Dict(f) : \E k \in DOMAIN f : g[k] = y
  BY DEF Dict
<1>5. g \in Surjection(DOMAIN f, Dict(f))
  <2> HIDE DEF g
  <2> QED  BY <1>2, <1>4 DEF Surjection
<1> HIDE DEF g
<1>6. IsFiniteSet(Dict(f))
  BY <1>1, <1>5, FS_Surjection
<1> QED  BY <1>1, <1>2, <1>3, <1>4, <1>6, Bijected

LEMMA HasOnce ==
  ASSUME NEW gs, Good(gs), NEW l, NEW b, NEW v, NEW w, Has(gs, l, b, v), Has(gs, l, b, w)
  PROVE  v = w
<1>1. PICK i \in DOMAIN gs : Slot(gs[i], l, b, v)
  BY DEF Has
<1>2. PICK j \in DOMAIN gs : Slot(gs[j], l, b, w)
  BY DEF Has
<1>3. gs[i].len = gs[j].len
  BY <1>1, <1>2 DEF Slot
<1>4. i = j
  BY <1>3, LengthOnce
<1> QED  BY <1>1, <1>2, <1>4 DEF Slot

(* An entry is known by its key.                                           *)
LEMMA LpmOnce ==
  ASSUME NEW t, L3Shape(t), NEW x \in LpmEntries(t), NEW y \in LpmEntries(t),
         x.base = y.base, x.len = y.len
  PROVE  x = y
<1>1. PICK l, b, v : Has(t.groups, l, b, v) /\ x = [base |-> b, len |-> l, action |-> v]
  BY LpmEntriesAre
<1>2. PICK l1, b1, v1 : Has(t.groups, l1, b1, v1) /\ y = [base |-> b1, len |-> l1, action |-> v1]
  BY LpmEntriesAre
<1>3. l = l1 /\ b = b1
  BY <1>1, <1>2
<1>4. v = v1
  BY <1>1, <1>2, <1>3, HasOnce DEF L3Shape
<1> QED  BY <1>1, <1>2, <1>3, <1>4

LEMMA ImageOnce ==
  ASSUME NEW p \in Programs, NEW t, UShape(p, t),
         NEW x \in UbpfEntries(t.entries), NEW y \in UbpfEntries(t.entries), UE(p, x) = UE(p, y)
  PROVE  x = y
<1>0. Good(t.entries.buckets) /\ \A l, b, v : Has(t.entries.buckets, l, b, v) => USlot(p, l, b, v)
  BY Zenon DEF UShape
<1>1. PICK l, b, v : Has(t.entries.buckets, l, b, v) /\ x = [len |-> l, key |-> b, value |-> v]
  BY UbpfEntriesAre
<1>2. PICK l1, b1, v1 : Has(t.entries.buckets, l1, b1, v1) /\ y = [len |-> l1, key |-> b1, value |-> v1]
  BY UbpfEntriesAre
<1>3. UR(p, l, b, v) = UR(p, l1, b1, v1)
  BY <1>1, <1>2 DEF UR
<1>4. USlot(p, l, b, v) /\ USlot(p, l1, b1, v1)
  BY <1>0, <1>1, <1>2
<1>5. PICK j, a, vals : /\ j \in Canonicals(p) /\ CallTyped(p, a, vals)
                        /\ l = UAt(p, j).len /\ b = UAt(p, j).base /\ v = ValueImage(Abi(p), a, vals)
  BY <1>4 DEF USlot
<1>6. UR(p, l, b, v).key = [n |-> j.n, len |-> j.len]
  BY <1>4, <1>5, USlotKey
<1>7. l1 = UAt(p, j).len /\ b1 = UAt(p, j).base
  BY <1>3, <1>4, <1>5, <1>6, USlotKey
<1>8. l = l1 /\ b = b1
  BY <1>5, <1>7
<1>9. v = v1
  BY <1>0, <1>1, <1>2, <1>8, HasOnce
<1> QED  BY <1>1, <1>2, <1>8, <1>9

LEMMA CountIs ==
  ASSUME NEW s \in Sels, NEW t, Shape(s, t), IsFiniteSet(Content(s, t))
  PROVE  Count(s, t) = Cardinality(Content(s, t))
<1>0. PICK p \in Programs : p = s.program
  BY SelCases
<1>1. CASE s.backend = "native" /\ p = "l2fwd"
  <2>1. Content(s, t) = L2Content(t) /\ Count(s, t) = Cardinality(DOMAIN t.entries)
    BY <1>0, <1>1, ShapeIs, Zenon DEF Count
  <2> DEFINE g == [n \in DOMAIN t.entries |-> NE("l2fwd", n, Width, t.entries[n])]
  <2>2. g \in [DOMAIN t.entries -> L2Content(t)]
    BY DEF L2Content
  <2>3. \A y \in L2Content(t) : \E n \in DOMAIN t.entries : g[n] = y
    BY DEF L2Content
  <2>4. \A m, n \in DOMAIN t.entries : g[m] = g[n] => m = n
    <3>1. ASSUME NEW n \in DOMAIN t.entries PROVE g[n].key.n = n
      BY DEF NE, Entry
    <3> QED  BY <3>1
  <2> HIDE DEF g
  <2>5. IsFiniteSet(L2Content(t))
    BY <2>1
  <2> QED  BY <2>1, <2>2, <2>3, <2>4, <2>5, Bijected
<1>2. CASE s.backend = "native" /\ p = "l3fwd"
  <2>0. p # "l2fwd"
    BY <1>2
  <2>1. Content(s, t) = L3Content(t) /\ Count(s, t) = Cardinality(LpmEntries(t)) /\ L3Shape(t)
    BY <1>0, <1>2, <2>0, ShapeIs, Zenon DEF Count
  <2> DEFINE S == LpmEntries(t)
             g == [e \in S |-> NE("l3fwd", e.base, e.len, e.action)]
  <2>2. g \in [S -> L3Content(t)]
    BY DEF L3Content
  <2>3. \A y \in L3Content(t) : \E e \in S : g[e] = y
    BY DEF L3Content
  <2>4. ASSUME NEW x \in S, NEW y \in S, g[x] = g[y] PROVE x = y
    <3>1. g[x].key.n = x.base /\ g[x].key.len = x.len /\ g[y].key.n = y.base /\ g[y].key.len = y.len
      BY DEF NE, Entry
    <3>2. x.base = y.base /\ x.len = y.len
      BY <2>4, <3>1
    <3> QED  BY <2>1, <3>2, LpmOnce
  <2> HIDE DEF g, S
  <2>5. IsFiniteSet(L3Content(t))
    BY <2>1
  <2>6. Cardinality(S) = Cardinality(L3Content(t))
    BY <2>2, <2>3, <2>4, <2>5, Bijected
  <2> QED  BY <2>1, <2>6 DEF S
<1>3. CASE s.backend = "x4c"
  <2>1. Content(s, t) = {LE(e) : e \in LiveSet(t)} /\ Count(s, t) = Len(t.live) /\ XShape(p, t)
    <3>1. s.backend # "native"
      BY <1>3
    <3>2. Content(s, t) = X4cContent(t) /\ XShape(p, t)
      BY <1>0, <1>3, ShapeIs, Zenon
    <3>3. Count(s, t) = Len(t.live)
      BY <1>3, <3>1, Zenon DEF Count
    <3> QED  BY <3>2, <3>3, X4cContentIs
  <2> DEFINE S == DOMAIN t.live
             T == {LE(e) : e \in LiveSet(t)}
             g == [i \in S |-> LE(t.live[i])]
  <2>2. g \in [S -> T]
    BY DEF LiveSet
  <2>3. \A y \in T : \E i \in S : g[i] = y
    BY DEF LiveSet
  <2>4. /\ \A i \in S : KeyTyped(p, t.live[i].key)
        /\ \A i, j \in S : t.live[i].key = t.live[j].key => i = j
        /\ S = 1 .. Len(t.live) /\ Len(t.live) \in Nat
    BY <2>1 DEF XShape, LiveGood, LiveTyped
  <2>5. ASSUME NEW i \in S, NEW j \in S, g[i] = g[j] PROVE i = j
    <3>1. g[i].key = Typed(t.live[i].key) /\ g[j].key = Typed(t.live[j].key)
      BY DEF LE, Entry, Typed
    <3>2. t.live[i].key = t.live[j].key
      BY <2>4, <2>5, <3>1, TypedOnce
    <3> QED  BY <2>4, <3>2
  <2> HIDE DEF g
  <2>6. IsFiniteSet(T)
    BY <2>1
  <2>7. Cardinality(S) = Len(t.live)
    BY <2>4, FS_Interval
  <2> HIDE DEF S, T
  <2>8. Cardinality(S) = Cardinality(T)
    BY <2>2, <2>3, <2>5, <2>6, Bijected
  <2> QED  BY <2>1, <2>7, <2>8 DEF T
<1>4. CASE s.backend = "ubpf"
  <2>0. s.backend # "native" /\ s.backend # "x4c"
    BY <1>4
  <2>1. Content(s, t) = UbpfContent(p, t) /\ Count(s, t) = Cardinality(UbpfEntries(t.entries)) /\ UShape(p, t)
    BY <1>0, <1>4, <2>0, ShapeIs, Zenon DEF Count
  <2> DEFINE S == UbpfEntries(t.entries)
             T == UbpfContent(p, t)
             g == [e \in S |-> UE(p, e)]
  <2>2. g \in [S -> T]
    BY DEF UbpfContent
  <2>3. \A y \in T : \E e \in S : g[e] = y
    BY DEF UbpfContent
  <2>5. ASSUME NEW x \in S, NEW y \in S, g[x] = g[y] PROVE x = y
    <3>1. UE(p, x) = UE(p, y)
      BY <2>5
    <3> QED  BY <2>1, <3>1, ImageOnce
  <2> HIDE DEF g, S, T
  <2>6. IsFiniteSet(T)
    BY <2>1 DEF T
  <2>7. Cardinality(S) = Cardinality(T)
    BY <2>2, <2>3, <2>5, <2>6, Bijected
  <2> QED  BY <2>1, <2>7 DEF S, T
<1> QED  BY <1>0, <1>1, <1>2, <1>3, <1>4, SelCases

---------------------------------------------------------------------------
(* AnswersSame, as a relation between a selection and an event.            *)

Answered(s, l) ==
  l.kind = "reply" =>
    /\ l.op = "del" =>
         /\ l.res.ok => KeyLegal(s.program, l.info.name, l.info.text)
         /\ KeyLegal(s.program, l.info.name, l.info.text) /\ l.info.had => l.res.ok
    /\ l.op = "set_default" =>
         /\ l.res.ok => /\ l.info.name = SchemaOf(s.program).name
                        /\ CallLegal(s.program, l.info.call.action, l.info.call.params)
         /\ /\ l.info.name = SchemaOf(s.program).name
            /\ CallLegal(s.program, l.info.call.action, l.info.call.params)
            /\ s.backend # "x4c"
            => l.res.ok
    /\ l.op = "clear" =>
         /\ l.res.ok <=> l.info.name = SchemaOf(s.program).name
         /\ l.res.ok /\ (s.backend = "x4c" => l.info.exact) => l.res.val = l.info.count

LEMMA AnsweredIs == AnswersSame <=> Answered(sel, last)
<1>1. \A name, text : LegalKey(name, text) <=> KeyLegal(sel.program, name, text)
  BY Zenon DEF LegalKey, KeyLegal
<1>2. \A call : LegalCall(call) <=> CallLegal(sel.program, call.action, call.params)
  BY Zenon DEF LegalCall, CallLegal
<1>3. CASE last.op = "del"
  BY <1>1, <1>3 DEF AnswersSame, Answered
<1>4. CASE last.op = "set_default"
  BY <1>2, <1>4 DEF AnswersSame, Answered
<1>5. CASE last.op = "clear"
  BY <1>5 DEF AnswersSame, Answered
<1>6. CASE last.op \notin {"del", "set_default", "clear"}
  BY <1>6 DEF AnswersSame, Answered
<1> QED  BY <1>3, <1>4, <1>5, <1>6

LEMMA NoAnswer ==
  ASSUME NEW s, NEW l, l.kind # "reply" \/ l.op \in {"add", "dump"}
  PROVE  Answered(s, l)
BY DEF Answered

LEMMA DelAnswer ==
  ASSUME FaithInv, NEW name, NEW text \in KeyTexts(sel.program), TableDel(name, text)
  PROVE  Answered(sel', last')
<1> DEFINE k == ParseKeyFor(sel.program, name, text)
           had == k.ok /\ Canon(k.val) \in DOMAIN asked
<1>1. PICK res : /\ last' = [kind |-> "reply", op |-> "del", res |-> res,
                             info |-> [name |-> name, text |-> text, had |-> had]]
                 /\ sel' = sel
  BY DEF TableDel, Reply, nodeVars
<1>2. last'.res.ok <=> /\ KeyLegal(sel.program, name, text)
                       /\ sel.backend = "native" => k.ok /\ Canon(k.val) \in DOMAIN asked
  BY DelFaith
<1>3. /\ last'.kind = "reply" /\ last'.op = "del" /\ last'.info.name = name
      /\ last'.info.text = text /\ last'.info.had = had
  BY <1>1
<1> HIDE DEF k
<1> QED  BY <1>1, <1>2, <1>3 DEF Answered

LEMMA SetDefaultAnswer ==
  ASSUME FaithInv, NEW name, NEW call \in DefaultCalls(sel.program), SetDefault(name, call)
  PROVE  Answered(sel', last')
<1>1. PICK res : /\ last' = [kind |-> "reply", op |-> "set_default", res |-> res,
                             info |-> [name |-> name, call |-> call]]
                 /\ sel' = sel
  BY DEF SetDefault, Reply, nodeVars
<1>2. last'.res.ok <=> /\ name = SchemaOf(sel.program).name
                       /\ CallLegal(sel.program, call.action, call.params)
                       /\ sel.backend # "x4c"
  BY SetDefaultFaith
<1>3. /\ last'.kind = "reply" /\ last'.op = "set_default" /\ last'.info.name = name
      /\ last'.info.call = call
  BY <1>1
<1> QED  BY <1>1, <1>2, <1>3 DEF Answered

LEMMA ClearAnswer ==
  ASSUME FaithInv, NEW name, Clear(name)
  PROVE  Answered(sel', last')
<1>1. PICK res : /\ last' = [kind |-> "reply", op |-> "clear", res |-> res,
                             info |-> [name |-> name, count |-> Cardinality(DOMAIN asked),
                                       exact |-> ~aliased]]
                 /\ sel' = sel /\ phase = "up"
  BY DEF Clear, Reply, nodeVars, Idle
<1>2. /\ last'.res.ok <=> name = SchemaOf(sel.program).name
      /\ last'.res.ok => last'.res.val = Count(sel, table)
  BY ClearFaith
<1>3. /\ last'.kind = "reply" /\ last'.op = "clear" /\ last'.info.name = name
      /\ last'.info.count = Cardinality(DOMAIN asked) /\ last'.info.exact = ~aliased
  BY <1>1
<1>4. ASSUME ~Diverged PROVE Count(sel, table) = Cardinality(DOMAIN asked)
  <2>1. Content(sel, table) = Dict(asked) /\ sel \in Sels /\ Shape(sel, table) /\ DOMAIN asked \subseteq Keys
    BY <1>1, <1>4 DEF FaithInv, AskedHeld, NodeGood
  <2>2. Cardinality(Dict(asked)) = Cardinality(DOMAIN asked) /\ IsFiniteSet(Dict(asked))
    BY <2>1, DictCount
  <2> QED  BY <2>1, <2>2, CountIs
<1>5. (sel.backend = "x4c" => last'.info.exact) => ~Diverged
  BY <1>3 DEF Diverged
<1> QED  BY <1>1, <1>2, <1>3, <1>4, <1>5 DEF Answered

LEMMA AnswerStep == FaithInv /\ Answered(sel, last) /\ [Next]_vars => Answered(sel', last')
<1> SUFFICES ASSUME FaithInv, Answered(sel, last), [Next]_vars PROVE Answered(sel', last')
  OBVIOUS
<1>1. ASSUME NEW raw, NEW b, NEW file, Start(raw, b, file) PROVE Answered(sel', last')
  <2>1. last'.kind # "reply"
    BY <1>1 DEF Start, Exit
  <2> QED  BY <2>1, NoAnswer
<1>2. CASE Stop
  <2>1. last'.kind # "reply"
    BY <1>2 DEF Stop, Exit
  <2> QED  BY <2>1, NoAnswer
<1>3. CASE Request
  <2>1. ASSUME NEW entries, BeginAdd(entries) PROVE Answered(sel', last')
    <3>1. last'.kind # "reply"
      BY <2>1 DEF BeginAdd
    <3> QED  BY <3>1, NoAnswer
  <2>2. CASE \E name \in TableNames, text \in KeyTexts(sel.program) : TableDel(name, text)
    BY <2>2, DelAnswer
  <2>3. CASE \E name \in TableNames, call \in DefaultCalls(sel.program) : SetDefault(name, call)
    BY <2>3, SetDefaultAnswer
  <2>4. ASSUME NEW name, Clear(name) PROVE Answered(sel', last')
    BY <2>4, ClearAnswer
  <2>5. ASSUME NEW name, Dump(name) PROVE Answered(sel', last')
    <3>1. last'.op = "dump"
      BY <2>5 DEF Dump, Reply
    <3> QED  BY <3>1, NoAnswer
  <2> QED  BY <1>3, <2>1, <2>2, <2>3, <2>4, <2>5 DEF Request
<1>4. CASE ApplyEntry
  <2>1. last' = [kind |-> "none"]
    BY <1>4, Zenon DEF ApplyEntry
  <2>2. last'.kind # "reply"
    BY <2>1
  <2> QED  BY <2>2, NoAnswer
<1>5. CASE RefuseEntry
  <2>1. last'.kind # "reply" \/ last'.op = "add"
    BY <1>5 DEF RefuseEntry, Exit, BatchReply
  <2> QED  BY <2>1, NoAnswer
<1>6. CASE FinishBatch
  <2>1. last'.op = "add"
    BY <1>6 DEF FinishBatch, BatchReply
  <2> QED  BY <2>1, NoAnswer
<1>7. ASSUME NEW f, Receive(f) PROVE Answered(sel', last')
  <2>1. PICK o : last' = [kind |-> "frame", in |-> f, out |-> o]
    BY <1>7, Zenon DEF Receive
  <2>2. last'.kind # "reply"
    BY <2>1
  <2> QED  BY <2>2, NoAnswer
<1>8. CASE UNCHANGED vars
  BY <1>8 DEF vars
<1> QED  BY <1>1, <1>2, <1>3, <1>4, <1>5, <1>6, <1>7, <1>8 DEF Next

(* Every backend accepts only legal deletions, defaults and clears, and    *)
(* each one AnswersSame speaks of; a clear counts the entries there were,  *)
(* whatever has been installed.                                            *)
THEOREM AnswersSameHolds == Spec => []AnswersSame
<1>1. Init => Answered(sel, last)
  BY NoAnswer DEF Init
<1>2. (Answered(sel, last))' <=> Answered(sel', last')
  OBVIOUS
<1> QED  BY <1>1, <1>2, FaithAlways, AnswerStep, AnsweredIs, PTL DEF Spec

---------------------------------------------------------------------------
(* BatchExact: how far a batch has come.                                   *)

KeyIn(p, e) == Canon(ParseKeyFor(p, e.table, e.key).val)

Replaced(p, g, n, i) == \E j \in i + 1 .. n : KeyIn(p, g[j]) = KeyIn(p, g[i])

Took(p, g, n, i, f) ==
  \/ Replaced(p, g, n, i)
  \/ KeyIn(p, g[i]) \in DOMAIN f /\ f[KeyIn(p, g[i])].action = g[i].action

Applied(p, g, n, f) == \A i \in 1 .. n : EntryLegal(p, g[i]) /\ Took(p, g, n, i, f)

BatchInv ==
  batch # <<>> =>
    /\ batch[1].done \in 0 .. Len(batch[1].given)
    /\ Applied(sel.program, batch[1].given, batch[1].done, asked)

LEMMA AppliedNone == \A p, g, f : Applied(p, g, 0, f)
BY DEF Applied

LEMMA AppliedOne ==
  ASSUME NEW p, NEW g, NEW n \in Nat, NEW f, Applied(p, g, n, f), EntryLegal(p, g[n + 1]),
         NEW c, c.action = g[n + 1].action
  PROVE  Applied(p, g, n + 1, Put(f, KeyIn(p, g[n + 1]), c))
<1> DEFINE k == KeyIn(p, g[n + 1])
           h == Put(f, k, c)
<1>1. /\ DOMAIN h = DOMAIN f \cup {k}
      /\ \A j \in DOMAIN h : h[j] = IF j = k THEN c ELSE f[j]
  BY DEF Put
<1> HIDE DEF h, k
<1>2. ASSUME NEW i \in 1 .. n + 1 PROVE EntryLegal(p, g[i]) /\ Took(p, g, n + 1, i, h)
  <2>1. CASE i = n + 1
    <3>1. k \in DOMAIN h /\ h[k] = c
      BY <1>1
    <3> QED  BY <2>1, <3>1 DEF Took, k
  <2>2. CASE i # n + 1
    <3>1. i \in 1 .. n
      BY <2>2
    <3>2. EntryLegal(p, g[i]) /\ Took(p, g, n, i, f)
      BY <3>1 DEF Applied
    <3>3. CASE Replaced(p, g, n, i)
      <4>1. PICK j \in i + 1 .. n : KeyIn(p, g[j]) = KeyIn(p, g[i])
        BY <3>3 DEF Replaced
      <4>2. j \in i + 1 .. n + 1
        BY <3>1
      <4>3. Replaced(p, g, n + 1, i)
        BY <4>1, <4>2 DEF Replaced
      <4> QED  BY <3>2, <4>3 DEF Took
    <3>4. CASE KeyIn(p, g[i]) = k
      <4>1. n + 1 \in i + 1 .. n + 1
        BY <3>1
      <4>2. Replaced(p, g, n + 1, i)
        BY <3>4, <4>1 DEF Replaced, k
      <4> QED  BY <3>2, <4>2 DEF Took
    <3>5. CASE KeyIn(p, g[i]) # k /\ KeyIn(p, g[i]) \in DOMAIN f /\ f[KeyIn(p, g[i])].action = g[i].action
      <4>1. KeyIn(p, g[i]) \in DOMAIN h /\ h[KeyIn(p, g[i])] = f[KeyIn(p, g[i])]
        BY <1>1, <3>5
      <4> QED  BY <3>2, <3>5, <4>1 DEF Took
    <3> QED  BY <3>2, <3>3, <3>4, <3>5 DEF Took
  <2> QED  BY <2>1, <2>2
<1> QED  BY <1>2 DEF Applied, h, k

LEMMA BatchInvStep == FaithInv /\ BatchInv /\ [Next]_vars => BatchInv'
<1> SUFFICES ASSUME FaithInv, BatchInv, [Next]_vars PROVE BatchInv'
  OBVIOUS
<1>a. ASSUME batch' = <<>> PROVE BatchInv'
  BY <1>a DEF BatchInv
<1>b. ASSUME UNCHANGED <<sel, batch, asked>> PROVE BatchInv'
  BY <1>b DEF BatchInv
<1>c. ASSUME NEW g, batch' = <<[given |-> g, done |-> 0]>>, NEW S, g \in Seq(S) PROVE BatchInv'
  <2>1. batch'[1].given = g /\ batch'[1].done = 0
    BY <1>c
  <2>2. 0 \in 0 .. Len(g)
    BY <1>c
  <2> QED  BY <2>1, <2>2, AppliedNone DEF BatchInv
<1>1. ASSUME NEW raw, NEW b, NEW file \in Batches(raw.pipeline), Start(raw, b, file) PROVE BatchInv'
  <2> DEFINE config == Validate(raw, Registry)
             s == Selection(raw.pipeline, b)
  <2>1. CASE ~config.ok \/ ~s.ok
    <3>1. batch' = <<>>
      BY <1>1, <2>1 DEF Start, Exit
    <3> QED  BY <3>1, <1>a
  <2>2. CASE config.ok /\ s.ok
    <3>1. batch' = <<[given |-> file, done |-> 0]>>
      BY <1>1, <2>2, Zenon DEF Start
    <3>2. raw.pipeline \in Programs
      BY <2>2, ResultIs DEF Selection
    <3>3. file \in Seq(Range(file))
      BY <1>1, <3>2, TextAssumption
    <3> QED  BY <3>1, <3>3, <1>c
  <2> QED  BY <2>1, <2>2
<1>2. CASE Stop
  BY <1>2, <1>a DEF Stop, Exit
<1>3. CASE Request
  <2>1. ASSUME NEW entries \in Batches(sel.program), BeginAdd(entries) PROVE BatchInv'
    <3>1. phase = "up" /\ batch' = <<[given |-> entries, done |-> 0]>>
      BY <2>1 DEF BeginAdd, Idle
    <3>2. sel.program \in Programs
      BY <3>1 DEF FaithInv, GroupsInv
    <3>3. entries \in Seq(Range(entries))
      BY <2>1, <3>2, TextAssumption
    <3> QED  BY <3>1, <3>3, <1>c
  <2>2. ASSUME NEW name, NEW text, TableDel(name, text) PROVE BatchInv'
    BY <2>2, <1>a DEF TableDel, Idle
  <2>3. ASSUME NEW name, NEW call, SetDefault(name, call) PROVE BatchInv'
    BY <2>3, <1>a DEF SetDefault, Idle
  <2>4. ASSUME NEW name, Clear(name) PROVE BatchInv'
    BY <2>4, <1>a DEF Clear, Idle
  <2>5. ASSUME NEW name, Dump(name) PROVE BatchInv'
    BY <2>5, <1>a DEF Dump, Idle
  <2> QED  BY <1>3, <2>1, <2>2, <2>3, <2>4, <2>5 DEF Request
<1>4. CASE ApplyEntry
  <2> DEFINE b == batch[1]
             spec == b.given[b.done + 1]
             r == Refined(spec)
  <2>1. /\ Pending /\ AddResult(spec).res.ok
        /\ batch' = <<[b EXCEPT !.done = @ + 1]>>
        /\ asked' = Put(asked, Canon(r.val.key), Call(spec.action, r.val.vals))
        /\ sel' = sel
    BY <1>4, Zenon DEF ApplyEntry, nodeVars
  <2>2. /\ sel \in Sels /\ sel.program \in Programs /\ Shape(sel, table)
        /\ b.given \in Seq(Range(b.given))
        /\ b.done \in Nat /\ b.done < Len(b.given)
        /\ b = [given |-> b.given, done |-> b.done]
        /\ spec.key.len \in Seq(Nat) /\ DistinctNames(spec.params)
    BY <2>1, PendingIs
  <2>a. PICK p \in Programs, n \in Nat : p = sel.program /\ n = b.done
    BY <2>2
  <2>b. PICK g : g = b.given
    OBVIOUS
  <2>3. p = sel.program /\ g = b.given /\ n = b.done
    BY <2>a, <2>b
  <2>4. batch' = <<[given |-> g, done |-> n + 1]>>
    <3>1. [b EXCEPT !.done = @ + 1] = [given |-> b.given, done |-> b.done + 1]
      BY <2>2
    <3> HIDE DEF b
    <3> QED  BY <2>1, <2>3, <3>1
  <2>5. n + 1 \in 0 .. Len(g)
    BY <2>2, <2>3
  <2>6. Applied(p, g, n, asked)
    BY <2>1, <2>3 DEF BatchInv, Pending
  <2>7. PICK e : e = g[n + 1]
    OBVIOUS
  <2>8. /\ e.key.len \in Seq(Nat) /\ DistinctNames(e.params) /\ AddResult(e).res.ok
        /\ asked' = Put(asked, Canon(Refined(e).val.key), Call(e.action, Refined(e).val.vals))
    BY <2>1, <2>2, <2>3, <2>7
  <2> HIDE DEF spec, b
  <2>9. EntryLegal(p, e)
    BY <2>2, <2>3, <2>8, AddResultIs
  <2>10. Canon(Refined(e).val.key) = KeyIn(p, e)
    BY <2>3, <2>8, <2>9, RefinedIs DEF KeyIn
  <2>11. PICK c : c = Call(e.action, Refined(e).val.vals)
    OBVIOUS
  <2>12. c.action = e.action
    BY <2>11 DEF Call
  <2>13. Applied(p, g, n + 1, Put(asked, KeyIn(p, g[n + 1]), c))
    BY <2>6, <2>7, <2>9, <2>12, AppliedOne
  <2>14. asked' = Put(asked, KeyIn(p, g[n + 1]), c)
    BY <2>7, <2>8, <2>10, <2>11
  <2>15. batch'[1].given = g /\ batch'[1].done = n + 1 /\ sel'.program = p
    BY <2>1, <2>3, <2>4
  <2> QED  BY <2>5, <2>13, <2>14, <2>15, Zenon DEF BatchInv
<1>5. CASE RefuseEntry
  BY <1>5, <1>a DEF RefuseEntry, Exit
<1>6. CASE FinishBatch
  BY <1>6, <1>a DEF FinishBatch
<1>7. ASSUME NEW f, Receive(f) PROVE BatchInv'
  BY <1>7, <1>b DEF Receive, nodeVars, askedVars
<1>8. CASE UNCHANGED vars
  BY <1>8, <1>b DEF vars
<1> QED  BY <1>1, <1>2, <1>3, <1>4, <1>5, <1>6, <1>7, <1>8 DEF Next

(* BatchExact, of a selection, an event and the entries held.              *)
Exact(s, l, C, div) ==
  l.kind = "reply" /\ l.op = "add" =>
    LET g == l.info.given
        n == l.info.done
    IN /\ \A i \in 1 .. n : EntryLegal(s.program, g[i])
       /\ l.res.ok <=> n = Len(g)
       /\ n < Len(g) => ~EntryLegal(s.program, g[n + 1])
       /\ ~div => \A i \in 1 .. n :
            \/ Replaced(s.program, g, n, i)
            \/ \E e \in C : e.key = KeyIn(s.program, g[i]) /\ e.action = g[i].action

LEMMA ExactIs == BatchExact <=> Exact(sel, last, Installed, Diverged)
<1>1. \A spec : LegalEntry(spec) <=> EntryLegal(sel.program, spec)
  BY LegalIs, Zenon DEF LegalEntry, EntryLegal
<1> QED  BY <1>1, Zenon DEF BatchExact, Exact, Replaced, KeyIn

LEMMA NotAdd ==
  ASSUME NEW s, NEW l, NEW C, NEW div, l.kind # "reply" \/ l.op # "add"
  PROVE  Exact(s, l, C, div)
BY DEF Exact

(* The reply to a batch that came as far as n of its entries.              *)
LEMMA ReplyExact ==
  ASSUME FaithInv, BatchInv, batch # <<>>,
         NEW l, NEW res, l = BatchReply(batch[1], res),
         res.ok <=> batch[1].done = Len(batch[1].given),
         batch[1].done < Len(batch[1].given) =>
           ~EntryLegal(sel.program, batch[1].given[batch[1].done + 1])
  PROVE  Exact(sel, l, Content(sel, table), Diverged)
<1>1. PICK g, n : g = batch[1].given /\ n = batch[1].done
  OBVIOUS
<1>2. l.info.given = g /\ l.info.done = n /\ l.res = res
  BY <1>1 DEF BatchReply
<1>3. PICK p : p = sel.program
  OBVIOUS
<1>4. Applied(p, g, n, asked)
  BY <1>1, <1>3 DEF BatchInv
<1>5. \A i \in 1 .. n : EntryLegal(p, g[i])
  BY <1>4 DEF Applied
<1>6. ASSUME ~Diverged, NEW i \in 1 .. n
      PROVE  \/ Replaced(p, g, n, i)
             \/ \E e \in Content(sel, table) : e.key = KeyIn(p, g[i]) /\ e.action = g[i].action
  <2>1. Took(p, g, n, i, asked)
    BY <1>4 DEF Applied
  <2>2. CASE KeyIn(p, g[i]) \in DOMAIN asked /\ asked[KeyIn(p, g[i])].action = g[i].action
    <3>1. PICK k : k = KeyIn(p, g[i])
      OBVIOUS
    <3>2. Content(sel, table) = Dict(asked) /\ DOMAIN asked \subseteq Keys
      BY <1>6 DEF FaithInv, AskedHeld, NodeGood
    <3>3. DE(k, asked[k]) \in Dict(asked)
      BY <2>2, <3>1, Zenon DEF Dict
    <3>4. DE(k, asked[k]).key = k /\ DE(k, asked[k]).action = asked[k].action
      BY <2>2, <3>1, <3>2, DEKey
    <3> QED  BY <2>2, <3>1, <3>2, <3>3, <3>4, Zenon
  <2> QED  BY <2>1, <2>2 DEF Took
<1> QED  BY <1>1, <1>2, <1>3, <1>5, <1>6 DEF Exact

LEMMA ExactStep ==
  ASSUME FaithInv, BatchInv, [Next]_vars, Exact(sel, last, Content(sel, table), Diverged)
  PROVE  Exact(sel', last', Content(sel', table'), Diverged')
<1> DEFINE Goal == Exact(sel', last', Content(sel', table'), Diverged')
<1> USE DEF Goal
<1>0. ASSUME last'.kind # "reply" \/ last'.op # "add" PROVE Goal
  BY <1>0, NotAdd
<1> HIDE DEF Goal
<1>1. ASSUME NEW raw, NEW b, NEW file, Start(raw, b, file) PROVE Goal
  <2>1. last'.kind # "reply"
    BY <1>1 DEF Start, Exit
  <2> QED  BY <2>1, <1>0
<1>2. ASSUME Stop PROVE Goal
  <2>1. last'.kind # "reply"
    BY <1>2 DEF Stop, Exit
  <2> QED  BY <2>1, <1>0
<1>3. ASSUME Request PROVE Goal
  <2>1. ASSUME NEW entries, BeginAdd(entries) PROVE last'.kind # "reply"
    BY <2>1 DEF BeginAdd
  <2>2. ASSUME NEW name, NEW text, TableDel(name, text) PROVE last'.op # "add"
    BY <2>2 DEF TableDel, Reply
  <2>3. ASSUME NEW name, NEW call, SetDefault(name, call) PROVE last'.op # "add"
    BY <2>3 DEF SetDefault, Reply
  <2>4. ASSUME NEW name, Clear(name) PROVE last'.op # "add"
    BY <2>4 DEF Clear, Reply
  <2>5. ASSUME NEW name, Dump(name) PROVE last'.op # "add"
    BY <2>5 DEF Dump, Reply
  <2>6. last'.kind # "reply" \/ last'.op # "add"
    BY <1>3, <2>1, <2>2, <2>3, <2>4, <2>5 DEF Request
  <2> QED  BY <1>0, <2>6
<1>4. ASSUME ApplyEntry PROVE Goal
  <2>1. last' = [kind |-> "none"]
    BY <1>4, Zenon DEF ApplyEntry
  <2>2. last'.kind # "reply"
    BY <2>1
  <2> QED  BY <2>2, <1>0
<1>5. ASSUME RefuseEntry PROVE Goal
  <2> DEFINE b == batch[1]
             spec == b.given[b.done + 1]
  <2>1. CASE phase = "loading"
    <3>1. last'.kind # "reply"
      BY <1>5, <2>1 DEF RefuseEntry, Exit
    <3> QED  BY <3>1, <1>0
  <2>2. CASE phase # "loading"
    <3>1. /\ Pending /\ ~AddResult(spec).res.ok /\ last' = BatchReply(b, AddResult(spec).res)
          /\ UNCHANGED <<sel, table, aliased>>
      BY <1>5, <2>2 DEF RefuseEntry, nodeVars, askedVars
    <3>2. /\ sel \in Sels /\ sel.program \in Programs /\ Shape(sel, table)
          /\ b.done \in Nat /\ b.done < Len(b.given) /\ b.given \in Seq(Range(b.given))
          /\ spec.key.len \in Seq(Nat) /\ DistinctNames(spec.params)
      BY <3>1, PendingIs
    <3>3. PICK p \in Programs : p = sel.program
      BY <3>2
    <3>4. PICK e : e = spec
      OBVIOUS
    <3>5. ~EntryLegal(p, e)
      BY <3>1, <3>2, <3>3, <3>4, AddResultIs
    <3>6. b.done # Len(b.given) /\ batch # <<>>
      BY <3>1, <3>2 DEF Pending
    <3>7. PICK res : last' = BatchReply(batch[1], res) /\ ~res.ok
      BY <3>1
    <3>8. Exact(sel, last', Content(sel, table), Diverged)
      BY <3>3, <3>4, <3>5, <3>6, <3>7, ReplyExact
    <3>9. Diverged' <=> Diverged
      BY <3>1 DEF Diverged
    <3> QED  BY <3>1, <3>8, <3>9 DEF Goal, Exact
  <2> QED  BY <2>1, <2>2
<1>6. ASSUME FinishBatch PROVE Goal
  <2>1. /\ batch # <<>> /\ ~Pending /\ UNCHANGED <<sel, table, aliased>>
        /\ last' = BatchReply(batch[1], Ok(Len(batch[1].given)))
    BY <1>6 DEF FinishBatch, askedVars
  <2>2. PICK res : res = Ok(Len(batch[1].given))
    OBVIOUS
  <2>3. res.ok
    BY <2>2, ResultIs
  <2>4. batch[1].done = Len(batch[1].given)
    <3>1. batch[1].given \in Batches(sel.program) /\ sel.program \in Programs
      BY <2>1 DEF FaithInv, GroupsInv, BatchKnown
    <3>2. batch[1].given \in Seq(Range(batch[1].given))
      BY <3>1, TextAssumption
    <3> QED  BY <2>1, <3>2 DEF BatchInv, Pending
  <2>5. ~(batch[1].done < Len(batch[1].given))
    BY <2>1 DEF Pending
  <2>6. Exact(sel, last', Content(sel, table), Diverged)
    BY <2>1, <2>2, <2>3, <2>4, <2>5, ReplyExact
  <2>7. Diverged' <=> Diverged
    BY <2>1 DEF Diverged
  <2> QED  BY <2>1, <2>6, <2>7 DEF Goal, Exact
<1>7. ASSUME NEW f, Receive(f) PROVE Goal
  <2>1. PICK o : last' = [kind |-> "frame", in |-> f, out |-> o]
    BY <1>7, Zenon DEF Receive
  <2>2. last'.kind # "reply"
    BY <2>1
  <2> QED  BY <2>2, <1>0
<1>8. ASSUME UNCHANGED vars PROVE Goal
  <2>1. UNCHANGED <<sel, last, table>> /\ (Diverged' <=> Diverged)
    BY <1>8 DEF vars, Diverged
  <2> QED  BY <2>1 DEF Goal, Exact
<1>9. Goal
  BY <1>1, <1>2, <1>3, <1>4, <1>5, <1>6, <1>7, <1>8 DEF Next
<1> QED  BY <1>9 DEF Goal

(* apply_entries of server.rs stops at the first illegal entry and at no   *)
(* other, and its reply says how many took effect: for batches of any      *)
(* length, with frames between any two of their entries.                   *)
THEOREM BatchExactHolds == Spec => []BatchExact
<1> DEFINE Held == Exact(sel, last, Content(sel, table), Diverged)
<1>1. Init => BatchInv /\ Held
  BY NotAdd DEF Init, BatchInv
<1>2. FaithInv /\ BatchInv /\ Held /\ [Next]_vars => Held'
  BY ExactStep
<1>3. Held <=> BatchExact
  BY ExactIs, InstalledIs
<1> HIDE DEF Held
<1> QED  BY <1>1, <1>2, <1>3, FaithAlways, BatchInvStep, PTL DEF Spec

=============================================================================
