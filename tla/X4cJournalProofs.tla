-------------------------- MODULE X4cJournalProofs --------------------------
(***************************************************************************)
(* For any number of engines, tables, keys, actions and updates, and any   *)
(* slack: the journal replays to the live entries, no engine's position is *)
(* ever outside the journal it loads, and the whole implements the         *)
(* abstract register of TableRegister.  The argument is that of IInv:      *)
(* every published journal comes with the states its replay goes through,  *)
(* an update extends them or, when it rewrites the log, starts them anew   *)
(* under a generation no engine has seen.                                  *)
(***************************************************************************)
EXTENDS X4cJournal, FiniteSetTheorems, TLAPS

Unique(S) == \A e, f \in S : e.id = f.id => e = f

(* j continues the published journal.                                      *)
Extends(j) ==
  /\ j.generation = journal.generation
  /\ Len(journal.ops) <= Len(j.ops)
  /\ \A i \in 0 .. Len(journal.ops) : j.after[i] = journal.after[i]

(* Replaying an operation yields entries again.                            *)
LEMMA ApplyType ==
  ASSUME NEW S \in SUBSET Entries, NEW op \in Op,
         op.kind = "add" => op.action \in Actions
  PROVE  Apply(S, op) \in SUBSET Entries
BY DEF Apply, Entries, Op

(* Logging operations whose effects on the live set are known keeps the    *)
(* journal a fold (the pushes and the extend of the TableOps methods).     *)
LEMMA LoggedOK ==
  ASSUME NEW j, JournalOK(j), Unrolls(j),
         NEW more \in Seq(Op),
         NEW states \in [0 .. Len(more) -> SUBSET Entries],
         states[0] = j.live,
         \A i \in 1 .. Len(more) : states[i] = Apply(states[i - 1], more[i])
  PROVE  LET k == Logged(j, more, states)
         IN  /\ JournalOK(k) /\ Unrolls(k)
             /\ k.live = states[Len(more)]
             /\ k.generation = j.generation
             /\ Len(j.ops) <= Len(k.ops)
             /\ \A i \in 0 .. Len(j.ops) : k.after[i] = j.after[i]
<1> DEFINE k == Logged(j, more, states)
           n == Len(j.ops)
           m == Len(more)
<1>1. /\ n \in Nat /\ m \in Nat
      /\ j.ops \in Seq(Op)
      /\ j.after \in [0 .. n -> SUBSET Entries]
  BY DEF JournalOK
<1>2. /\ k.ops \in Seq(Op) /\ Len(k.ops) = n + m
      /\ \A i \in 1 .. n : k.ops[i] = j.ops[i]
      /\ \A i \in n + 1 .. n + m : k.ops[i] = more[i - n]
  BY <1>1 DEF Logged
<1>3. /\ k.after = [i \in 0 .. n + m |-> IF i <= n THEN j.after[i] ELSE states[i - n]]
      /\ k.live = states[m] /\ k.generation = j.generation
      /\ k = [generation |-> k.generation, ops |-> k.ops, live |-> k.live,
              after |-> k.after]
  BY DEF Logged
<1> HIDE DEF k
<1>4. k.after \in [0 .. n + m -> SUBSET Entries]
  BY <1>1, <1>3
<1>5. k.live \in SUBSET Entries /\ k.generation \in Nat
  <2>1. m \in 0 .. m /\ states[m] \in SUBSET Entries
    BY <1>1
  <2>2. j.generation \in Nat
    BY DEF JournalOK
  <2> QED
    BY <1>3, <2>1, <2>2
<1>6. JournalOK(k)
  BY <1>2, <1>3, <1>4, <1>5 DEF JournalOK
<1>7. k.after[0] = {} /\ k.after[n + m] = k.live
  <2>1. k.after[0] = {}
    BY <1>1, <1>3 DEF Unrolls
  <2>2. CASE m = 0
    BY <1>1, <1>3, <2>2 DEF Unrolls
  <2>3. CASE m # 0
    <3>1. n + m \in 0 .. n + m /\ ~(n + m <= n) /\ (n + m) - n = m
      BY <1>1, <2>3
    <3> QED
      BY <1>3, <2>1, <3>1
  <2> QED
    BY <2>1, <2>2, <2>3
<1>8. ASSUME NEW i \in 1 .. n + m PROVE k.after[i] = Apply(k.after[i - 1], k.ops[i])
  <2>1. CASE i <= n
    BY <1>1, <1>2, <1>3, <2>1 DEF Unrolls
  <2>2. CASE i = n + 1
    <3>1. k.after[i] = states[1] /\ k.after[i - 1] = j.after[n] /\ k.ops[i] = more[1]
      <4>1. /\ n + 1 \in 0 .. n + m /\ n \in 0 .. n + m /\ n + 1 \in n + 1 .. n + m
            /\ ~(n + 1 <= n) /\ n <= n /\ (n + 1) - n = 1 /\ i - 1 = n
        BY <1>1, <2>2
      <4>2. k.after[n + 1] = states[(n + 1) - n] /\ k.after[n] = j.after[n]
        BY <1>3, <4>1
      <4>3. k.ops[n + 1] = more[(n + 1) - n]
        BY <1>2, <4>1
      <4> QED
        BY <2>2, <4>1, <4>2, <4>3
    <3>2. states[1] = Apply(states[0], more[1]) /\ j.after[n] = states[0]
      BY <1>1, <2>2 DEF Unrolls
    <3> QED
      BY <3>1, <3>2
  <2>3. CASE i > n + 1
    <3>1. /\ i - n \in 1 .. m /\ i \in n + 1 .. n + m /\ ~(i <= n) /\ ~(i - 1 <= n)
          /\ i \in 0 .. n + m /\ i - 1 \in 0 .. n + m
          /\ (i - 1) - n = (i - n) - 1
      BY <1>1, <2>3
    <3>2. /\ k.after[i] = states[i - n]
          /\ k.after[i - 1] = states[(i - n) - 1]
          /\ k.ops[i] = more[i - n]
      BY <1>2, <1>3, <3>1
    <3> QED
      BY <3>1, <3>2
  <2> QED
    BY <1>1, <2>1, <2>2, <2>3
<1>9. Unrolls(k)
  BY <1>2, <1>7, <1>8 DEF Unrolls
<1>10. \A i \in 0 .. n : k.after[i] = j.after[i]
  BY <1>1, <1>3
<1> QED
  BY <1>1, <1>2, <1>3, <1>6, <1>9, <1>10 DEF k

(* A rewritten log replays to the entries it was written from: no two of   *)
(* them have one key, so no Add of it removes another's entry.             *)
LEMMA RewrittenOK ==
  ASSUME NEW j, JournalOK(j), IsFiniteSet(j.live), Unique(j.live),
         NEW g \in Nat, NEW order \in Orders(j.live)
  PROVE  LET k == Rewritten(j, g, order)
         IN  /\ JournalOK(k) /\ Unrolls(k) /\ Short(k)
             /\ k.live = j.live /\ k.generation = g
<1> DEFINE k == Rewritten(j, g, order)
           n == Cardinality(j.live)
<1>1. n \in Nat
  BY FS_CardinalityType
<1>2. /\ order \in [1 .. n -> j.live]
      /\ \A i, h \in 1 .. n : order[i] = order[h] => i = h
      /\ \A e \in j.live : \E i \in 1 .. n : order[i] = e
  BY DEF Orders, Bijection, Injection, Surjection, IsInjective
<1>3. /\ k.ops = [i \in 1 .. n |-> Add(order[i])]
      /\ k.after = [i \in 0 .. n |-> {order[h] : h \in 1 .. i}]
      /\ k.live = j.live /\ k.generation = g
      /\ k = [generation |-> k.generation, ops |-> k.ops, live |-> k.live,
              after |-> k.after]
  BY <1>2 DEF Rewritten
<1> HIDE DEF k
<1>4. j.live \in SUBSET Entries
  BY DEF JournalOK
<1>5. \A i \in 1 .. n : Add(order[i]) \in Op
  BY <1>2, <1>4 DEF Add, Op, Entries
<1>6. k.ops \in Seq(Op) /\ Len(k.ops) = n
  BY <1>1, <1>3, <1>5
<1>7. k.after \in [0 .. n -> SUBSET Entries]
  BY <1>1, <1>2, <1>3, <1>4
<1>8. JournalOK(k)
  BY <1>3, <1>4, <1>6, <1>7 DEF JournalOK
<1>9. k.after[0] = {} /\ k.after[n] = k.live
  <2>1. 0 \in 0 .. n /\ n \in 0 .. n /\ 1 .. 0 = {}
    BY <1>1
  <2>2. {order[h] : h \in 1 .. 0} = {} /\ {order[h] : h \in 1 .. n} = j.live
    BY <1>2, <2>1
  <2> QED
    BY <1>3, <2>1, <2>2
<1>10. ASSUME NEW i \in 1 .. n PROVE k.after[i] = Apply(k.after[i - 1], k.ops[i])
  <2>1. /\ k.after[i] = {order[h] : h \in 1 .. i}
        /\ k.after[i - 1] = {order[h] : h \in 1 .. i - 1}
        /\ k.ops[i] = Add(order[i])
    BY <1>1, <1>3
  <2>2. \A h \in 1 .. i - 1 : order[h].id # order[i].id
    <3> SUFFICES ASSUME NEW h \in 1 .. i - 1, order[h].id = order[i].id PROVE FALSE
      OBVIOUS
    <3>1. h \in 1 .. n /\ h # i /\ order[h] \in j.live /\ order[i] \in j.live
      BY <1>1, <1>2
    <3> QED
      BY <1>2, <3>1 DEF Unique
  <2>3. order[i] = [id |-> order[i].id, action |-> order[i].action]
    BY <1>2, <1>4 DEF Entries
  <2>4. Apply(k.after[i - 1], k.ops[i])
          = {e \in k.after[i - 1] : e.id # order[i].id} \cup {order[i]}
    BY <2>1, <2>3 DEF Apply, Add
  <2>5. {e \in k.after[i - 1] : e.id # order[i].id} = k.after[i - 1]
    BY <2>1, <2>2
  <2>6. 1 .. i = (1 .. i - 1) \cup {i}
    BY <1>1
  <2>7. k.after[i] = k.after[i - 1] \cup {order[i]}
    BY <2>1, <2>6
  <2> QED
    BY <2>4, <2>5, <2>7
<1>11. Unrolls(k)
  BY <1>6, <1>9, <1>10 DEF Unrolls
<1>12. Short(k)
  BY <1>1, <1>3, <1>6, JournalAssumption DEF Short
<1> QED
  BY <1>3, <1>8, <1>11, <1>12 DEF k

(* Journal::compact returns the journal or one with the same entries and   *)
(* the next generation; either way it is short.                            *)
LEMMA CompactOK ==
  ASSUME NEW j, JournalOK(j), Unrolls(j), IsFiniteSet(j.live), Unique(j.live),
         NEW k \in Compact(j)
  PROVE  /\ JournalOK(k) /\ Unrolls(k) /\ Short(k)
         /\ k.live = j.live
         /\ k = j \/ k.generation = j.generation + 1
<1>1. CASE Short(j)
  BY <1>1 DEF Compact
<1>2. CASE ~Short(j)
  <2>1. PICK o \in Orders(j.live) : k = Rewritten(j, j.generation + 1, o)
    BY <1>2 DEF Compact
  <2>2. j.generation + 1 \in Nat
    BY DEF JournalOK
  <2> QED
    BY <2>1, <2>2, RewrittenOK
<1> QED
  BY <1>1, <1>2

(* The entries of a table have different keys.                             *)
LEMMA EnteredUnique ==
  ASSUME NEW t PROVE Unique(Entered(t))
<1> SUFFICES ASSUME NEW e \in Entered(t), NEW f \in Entered(t), e.id = f.id PROVE e = f
  BY DEF Unique
<1>1. e.action = f.action
  BY DEF Entered
<1> QED
  BY <1>1 DEF Entered, Entries
------------------------------------------------------------------------------
(* The empty journal satisfies the invariant.                              *)
LEMMA InitIInv == Init => IInv
<1> SUFFICES ASSUME Init PROVE IInv
  OBVIOUS
<1> USE DEF Init, Fresh, Empty
<1>1. /\ journal.generation = 0 /\ journal.ops = <<>> /\ journal.live = {}
      /\ journal.after = [i \in {0} |-> {}]
      /\ Len(journal.ops) = 0 /\ 0 .. 0 = {0}
  OBVIOUS
<1>2. JournalOK(Fresh)
  BY <1>1 DEF JournalOK
<1>3. IsFiniteSet(journal.live) /\ Cardinality(journal.live) = 0
  BY <1>1, FS_EmptySet
<1>4. Short(journal)
  BY <1>1, <1>3, JournalAssumption DEF Short
<1>5. Len(log) = 1 /\ log[1] = Empty /\ log \in Seq([Ids -> Actions \cup {Miss}])
  OBVIOUS
<1>6. TypeOK
  <2>1. /\ journal = Fresh /\ \A r \in Readers : snap[r] = Fresh
        /\ DOMAIN snap = Readers
    OBVIOUS
  <2>2. JournalOK(journal) /\ \A r \in Readers : JournalOK(snap[r])
    BY <1>2, <2>1
  <2>3. /\ version \in Nat
        /\ Len(log) \in 1 .. MaxUpdates + 1
    BY <1>5, JournalAssumption
  <2>6. busy \in BOOLEAN
    OBVIOUS
  <2>4. /\ pc \in [Readers -> Pcs]
        /\ pipe \in [Readers -> SUBSET Entries]
        /\ generation \in [Readers -> Nat]
        /\ applied \in [Readers -> Nat]
        /\ tag \in [Readers -> Nat \cup {NeverSynced}]
    BY DEF Pcs
  <2>5. /\ seen \in [Readers -> Nat]
        /\ upto \in [Readers -> Nat]
        /\ view \in [Readers -> Nat]
    OBVIOUS
  <2> QED
    BY <1>4, <1>5, <2>1, <2>2, <2>3, <2>4, <2>5, <2>6 DEF TypeOK
<1>7. Entered(Empty) = {}
  <2> SUFFICES ASSUME NEW e \in Entered(Empty) PROVE FALSE
    OBVIOUS
  <2>1. e.id \in Ids /\ e.action \in Actions /\ Empty[e.id] = e.action
    BY DEF Entered, Entries
  <2> QED
    BY <2>1, JournalAssumption
<1>8. ReplayIsExact /\ SliceInBounds
  BY <1>1, <1>5, <1>7 DEF ReplayIsExact, SliceInBounds
<1>9. JournalInv
  BY <1>1, <1>3, <1>5 DEF JournalInv, Unrolls
<1>10. EngineInv
  BY <1>1, <1>5 DEF EngineInv, VersionInv, Position, NeverSynced
<1> QED
  BY <1>6, <1>8, <1>9, <1>10 DEF IInv

(* Shared::update with a journal that extends the published one and leaves *)
(* the entries the request asks for, compacted or not.                     *)
LEMMA PublishIInv ==
  ASSUME IInv, NEW req, NEW j,
         JournalOK(j), Unrolls(j), Extends(j), IsFiniteSet(j.live),
         Perform(req, log[Len(log)]) \in [Ids -> Actions \cup {Miss}],
         j.live = Entered(Perform(req, log[Len(log)])),
         Publish(req, j)
  PROVE  IInv'
<1> DEFINE t == Perform(req, log[Len(log)])
<1>1. /\ JournalOK(journal') /\ Unrolls(journal') /\ Short(journal')
      /\ journal'.live = j.live
      /\ journal' = j \/ journal'.generation = j.generation + 1
  BY EnteredUnique, CompactOK DEF Publish
<1>2. /\ log \in Seq([Ids -> Actions \cup {Miss}])
      /\ Len(log) \in 1 .. MaxUpdates /\ log' = Append(log, t)
  BY JournalAssumption DEF IInv, TypeOK, Publish
<1> HIDE DEF t
<1>3. /\ log' \in Seq([Ids -> Actions \cup {Miss}])
      /\ Len(log') = Len(log) + 1 /\ log'[Len(log) + 1] = t
      /\ \A i \in 1 .. Len(log) : log'[i] = log[i]
  BY <1>2 DEF t
<1>4. UNCHANGED <<version, pc, pipe, generation, applied, tag, snap, upto, seen, view>>
  BY DEF Publish, engineVars
<1>5. busy' = TRUE /\ ~busy /\ version = Len(log) - 1
  BY DEF Publish, IInv, JournalInv
<1>6. TypeOK'
  BY <1>1, <1>2, <1>3, <1>4, <1>5, JournalAssumption DEF IInv, TypeOK
<1>7. \A r \in Readers : upto[r] + 1 \in 1 .. Len(log)
  BY <1>2 DEF IInv, TypeOK, EngineInv, VersionInv
<1>8. ReplayIsExact'
  BY <1>1, <1>2, <1>3, <1>4, <1>7 DEF IInv, ReplayIsExact, t
<1>9. JournalInv'
  BY <1>1, <1>2, <1>3, <1>4, <1>5 DEF JournalInv
<1>10. ASSUME NEW r \in Readers
       PROVE  /\ VersionInv(r)' /\ Position(r)'
              /\ (pc[r] = "replay" => Replaying(r))'
  <2> USE DEF IInv, EngineInv
  <2>1. /\ generation[r] \in Nat /\ journal.generation \in Nat
        /\ j.generation = journal.generation
        /\ generation[r] <= journal.generation
        /\ applied[r] \in Nat /\ Len(journal.ops) \in Nat /\ Len(j.ops) \in Nat
        /\ Len(journal.ops) <= Len(j.ops)
    BY DEF TypeOK, JournalOK, Position, Extends
  <2>2. VersionInv(r)'
    BY <1>2, <1>3, <1>4 DEF VersionInv, TypeOK
  <2>3. Position(r)'
    BY <1>1, <1>4, <2>1 DEF Position, Extends
  <2>4. ASSUME pc[r] = "replay" PROVE Replaying(r)'
    <3>1. /\ Replaying(r) /\ Len(snap[r].ops) \in Nat
      BY <2>4 DEF TypeOK, JournalOK
    <3>2. /\ (Unrolls(snap[r]))'
          /\ (snap[r].generation = generation[r])'
          /\ (applied[r] <= Len(snap[r].ops))'
          /\ (pipe[r] = snap[r].after[applied[r]])'
      BY <1>4, <3>1 DEF Replaying, Unrolls
    <3>3. (snap[r].live = Entered(log[upto[r] + 1]))'
      BY <1>3, <1>4, <1>7, <3>1 DEF Replaying, Entered
    <3>4. ASSUME generation[r] = journal'.generation
          PROVE  /\ Len(snap[r].ops) <= Len(journal'.ops)
                 /\ \A i \in 0 .. Len(snap[r].ops) : snap[r].after[i] = journal'.after[i]
      <4>1. journal' = j /\ generation[r] = journal.generation
        BY <1>1, <2>1, <3>4
      <4> QED
        BY <2>1, <3>1, <4>1 DEF Replaying, Extends
    <3> QED
      BY <1>4, <3>2, <3>3, <3>4 DEF Replaying
  <2> QED
    BY <1>4, <2>2, <2>3, <2>4
<1>11. EngineInv'
  BY <1>3, <1>4, <1>7, <1>10 DEF IInv, EngineInv
<1>12. SliceInBounds'
  BY <1>4, <1>10 DEF SliceInBounds, Position
<1> QED
  BY <1>6, <1>8, <1>9, <1>11, <1>12 DEF IInv

(* What the user's table becomes is a table.                               *)
LEMMA PerformType ==
  ASSUME NEW t \in [Ids -> Actions \cup {Miss}], NEW req \in Requests
  PROVE  Perform(req, t) \in [Ids -> Actions \cup {Miss}]
<1>1. CASE req \in [what : {"add"}, id : Ids, action : Actions]
  BY <1>1 DEF Perform
<1>2. CASE req \in [what : {"remove"}, id : Ids]
  BY <1>2 DEF Perform
<1>3. CASE req \in [what : {"clear"}, table : Tables]
  BY <1>3 DEF Perform
<1> QED
  BY <1>1, <1>2, <1>3 DEF Requests

(* One operation pushed on the published journal.                          *)
LEMMA LoggedOneOK ==
  ASSUME IInv, NEW op \in Op, NEW live \in SUBSET Entries,
         live = Apply(journal.live, op)
  PROVE  LET k == LoggedOne(journal, op, live)
         IN  JournalOK(k) /\ Unrolls(k) /\ Extends(k) /\ k.live = live
<1> DEFINE states == [i \in 0 .. 1 |-> IF i = 0 THEN journal.live ELSE live]
<1>1. JournalOK(journal) /\ Unrolls(journal) /\ journal.live \in SUBSET Entries
  BY DEF IInv, TypeOK, JournalInv, JournalOK
<1>2. /\ <<op>> \in Seq(Op) /\ Len(<<op>>) = 1 /\ <<op>>[1] = op
      /\ states \in [0 .. 1 -> SUBSET Entries]
      /\ states[0] = journal.live /\ states[1] = live
  BY <1>1
<1>3. LoggedOne(journal, op, live) = Logged(journal, <<op>>, states)
  BY DEF LoggedOne
<1> HIDE DEF states
<1>4. \A i \in 1 .. Len(<<op>>) : states[i] = Apply(states[i - 1], <<op>>[i])
  BY <1>2
<1> DEFINE more == <<op>>
           k == Logged(journal, more, states)
<1>5. /\ more \in Seq(Op) /\ Len(more) = 1
      /\ states \in [0 .. Len(more) -> SUBSET Entries]
      /\ \A i \in 1 .. Len(more) : states[i] = Apply(states[i - 1], more[i])
  BY <1>2, <1>4
<1> HIDE DEF more
<1>6. /\ JournalOK(k) /\ Unrolls(k)
      /\ k.live = states[Len(more)]
      /\ k.generation = journal.generation
      /\ Len(journal.ops) <= Len(k.ops)
      /\ \A i \in 0 .. Len(journal.ops) : k.after[i] = journal.after[i]
  BY <1>1, <1>2, <1>5, LoggedOK
<1>7. LoggedOne(journal, op, live) = k
  BY <1>3 DEF more
<1> HIDE DEF k
<1> QED
  BY <1>2, <1>5, <1>6, <1>7 DEF Extends

(* table_add installs or replaces.                                         *)
LEMMA AddIInv ==
  ASSUME IInv, NEW id \in Ids, NEW a \in Actions, TableAdd(id, a)
  PROVE  IInv'
<1> DEFINE e == [id |-> id, action |-> a]
           req == [what |-> "add", id |-> id, action |-> a]
           t == log[Len(log)]
           live == Install(journal.live, e)
           j == LoggedOne(journal, Add(e), live)
<1>1. /\ journal.live \in SUBSET Entries /\ IsFiniteSet(journal.live)
      /\ journal.live = Entered(t) /\ t \in [Ids -> Actions \cup {Miss}]
  BY DEF IInv, TypeOK, JournalOK, JournalInv, ReplayIsExact
<1>2. e \in Entries /\ e.id = id /\ e.action = a /\ Add(e) \in Op /\ req \in Requests
  BY DEF Entries, Add, Op, Requests
<1>3. live \in SUBSET Entries /\ live = Apply(journal.live, Add(e))
  BY <1>1, <1>2 DEF Install, Uninstall, Apply, Add
<1>4. IsFiniteSet(live)
  BY <1>1, FS_Subset, FS_AddElement DEF Install, Uninstall
<1>5. live = Entered(Perform(req, t))
  <2>1. \A i \in Ids : Perform(req, t)[i] = IF i = id THEN a ELSE t[i]
    BY DEF Perform
  <2>2. ASSUME NEW f \in Entries
        PROVE  f \in live <=> Perform(req, t)[f.id] = f.action
    <3>1. f.id \in Ids /\ f = [id |-> f.id, action |-> f.action]
      BY DEF Entries
    <3>2. f \in live <=> (f \in journal.live /\ f.id # id) \/ f = e
      BY DEF Install, Uninstall
    <3>3. f \in journal.live <=> t[f.id] = f.action
      BY <1>1 DEF Entered
    <3> QED
      BY <2>1, <3>1, <3>2, <3>3
  <2> QED
    BY <1>3, <2>2 DEF Entered
<1>6. Perform(req, t) \in [Ids -> Actions \cup {Miss}]
  BY <1>1, <1>2, PerformType
<1>7. Publish(req, j)
  BY DEF TableAdd
<1> HIDE DEF e, live, req, t
<1>8. JournalOK(j) /\ Unrolls(j) /\ Extends(j) /\ j.live = live
  BY <1>2, <1>3, LoggedOneOK
<1> HIDE DEF j
<1> QED
  BY <1>4, <1>5, <1>6, <1>7, <1>8, PublishIInv DEF t

(* table_remove uninstalls, or logs a removal of nothing.                  *)
LEMMA RemoveIInv ==
  ASSUME IInv, NEW id \in Ids, TableRemove(id)
  PROVE  IInv'
<1> DEFINE req == [what |-> "remove", id |-> id]
           t == log[Len(log)]
           live == Uninstall(journal.live, id)
           j == LoggedOne(journal, Remove(id), live)
<1>1. /\ journal.live \in SUBSET Entries /\ IsFiniteSet(journal.live)
      /\ journal.live = Entered(t) /\ t \in [Ids -> Actions \cup {Miss}]
  BY DEF IInv, TypeOK, JournalOK, JournalInv, ReplayIsExact
<1>2. Remove(id) \in Op /\ req \in Requests
  BY DEF Remove, Op, Requests
<1>3. live \in SUBSET Entries /\ live = Apply(journal.live, Remove(id))
  BY <1>1 DEF Uninstall, Apply, Remove
<1>4. IsFiniteSet(live)
  BY <1>1, FS_Subset DEF Uninstall
<1>5. live = Entered(Perform(req, t))
  <2>1. \A i \in Ids : Perform(req, t)[i] = IF i = id THEN Miss ELSE t[i]
    BY DEF Perform
  <2>2. ASSUME NEW f \in Entries
        PROVE  f \in live <=> Perform(req, t)[f.id] = f.action
    <3>1. f.id \in Ids /\ f.action # Miss
      BY JournalAssumption DEF Entries
    <3>2. f \in live <=> f \in journal.live /\ f.id # id
      BY DEF Uninstall
    <3>3. f \in journal.live <=> t[f.id] = f.action
      BY <1>1 DEF Entered
    <3> QED
      BY <2>1, <3>1, <3>2, <3>3
  <2> QED
    BY <1>3, <2>2 DEF Entered
<1>6. Perform(req, t) \in [Ids -> Actions \cup {Miss}]
  BY <1>1, <1>2, PerformType
<1>7. Publish(req, j)
  BY DEF TableRemove
<1> HIDE DEF live, req, t
<1>8. JournalOK(j) /\ Unrolls(j) /\ Extends(j) /\ j.live = live
  BY <1>2, <1>3, LoggedOneOK
<1> HIDE DEF j
<1> QED
  BY <1>4, <1>5, <1>6, <1>7, <1>8, PublishIInv DEF t

(* table_clear logs one removal per entry of the table.                    *)
LEMMA ClearIInv ==
  ASSUME IInv, NEW tb \in Tables, TableClear(tb)
  PROVE  IInv'
<1> DEFINE req == [what |-> "clear", table |-> tb]
           t == log[Len(log)]
           n == Cardinality(Victims(tb))
<1>1. /\ journal.live \in SUBSET Entries /\ IsFiniteSet(journal.live)
      /\ journal.live = Entered(t) /\ t \in [Ids -> Actions \cup {Miss}]
      /\ JournalOK(journal) /\ Unrolls(journal) /\ Unique(journal.live)
  BY EnteredUnique DEF IInv, TypeOK, JournalOK, JournalInv, ReplayIsExact
<1>2. n \in Nat
  BY <1>1, FS_Subset, FS_CardinalityType DEF Victims
<1>3. PICK v \in Orders(Victims(tb)) :
        Publish(req, Logged(journal, [i \in DOMAIN v |-> Remove(v[i].id)],
                            [i \in 0 .. n |-> journal.live \ {v[k] : k \in 1 .. i}]))
  BY DEF TableClear
<1> DEFINE more == [i \in 1 .. n |-> Remove(v[i].id)]
           states == [i \in 0 .. n |-> journal.live \ {v[k] : k \in 1 .. i}]
           j == Logged(journal, more, states)
<1>4. /\ v \in [1 .. n -> Victims(tb)]
      /\ \A i, h \in 1 .. n : v[i] = v[h] => i = h
      /\ \A e \in Victims(tb) : \E i \in 1 .. n : v[i] = e
  BY <1>3 DEF Orders, Bijection, Injection, Surjection, IsInjective
<1>5. Publish(req, j)
  BY <1>3, <1>4
<1>6. \A i \in 1 .. n : v[i] \in journal.live /\ v[i].id \in Ids /\ Remove(v[i].id) \in Op
  BY <1>1, <1>4 DEF Victims, Remove, Op, Entries
<1>7. more \in Seq(Op) /\ Len(more) = n
  BY <1>2, <1>6
<1>8. /\ states \in [0 .. n -> SUBSET Entries]
      /\ states[0] = journal.live
      /\ states[n] = journal.live \ Victims(tb)
  <2>1. 0 \in 0 .. n /\ n \in 0 .. n /\ 1 .. 0 = {}
    BY <1>2
  <2>2. {v[k] : k \in 1 .. 0} = {} /\ {v[k] : k \in 1 .. n} = Victims(tb)
    BY <1>4, <2>1
  <2> QED
    BY <1>1, <2>1, <2>2
<1>9. ASSUME NEW i \in 1 .. n PROVE states[i] = Apply(states[i - 1], more[i])
  <2>1. /\ states[i] = journal.live \ {v[k] : k \in 1 .. i}
        /\ states[i - 1] = journal.live \ {v[k] : k \in 1 .. i - 1}
        /\ more[i] = Remove(v[i].id)
    BY <1>2
  <2> HIDE DEF states, more
  <2>2. 1 .. i = (1 .. i - 1) \cup {i}
    BY <1>2
  <2>3. states[i] = states[i - 1] \ {v[i]}
    BY <2>1, <2>2
  <2>4. Apply(states[i - 1], more[i]) = {e \in states[i - 1] : e.id # v[i].id}
    BY <2>1 DEF Apply, Remove
  <2>5. \A e \in states[i - 1] : e.id = v[i].id <=> e = v[i]
    BY <1>1, <1>6, <2>1 DEF Unique
  <2> QED
    BY <2>3, <2>4, <2>5
<1> HIDE DEF more, states
<1>10. /\ JournalOK(j) /\ Unrolls(j) /\ Extends(j)
       /\ j.live = journal.live \ Victims(tb)
  BY <1>1, <1>7, <1>8, <1>9, LoggedOK DEF Extends
<1>11. IsFiniteSet(j.live)
  BY <1>1, <1>10, FS_Subset
<1>12. req \in Requests
  BY DEF Requests
<1>13. j.live = Entered(Perform(req, t))
  <2>1. \A i \in Ids : Perform(req, t)[i] = IF tb = i[1] THEN Miss ELSE t[i]
    BY DEF Perform
  <2>2. ASSUME NEW f \in Entries
        PROVE  f \in j.live <=> Perform(req, t)[f.id] = f.action
    <3>1. f.id \in Ids /\ f.action # Miss
      BY JournalAssumption DEF Entries
    <3>2. f \in j.live <=> f \in journal.live /\ f.id[1] # tb
      BY <1>10 DEF Victims
    <3>3. f \in journal.live <=> t[f.id] = f.action
      BY <1>1 DEF Entered
    <3> QED
      BY <2>1, <3>1, <3>2, <3>3
  <2>3. j.live \in SUBSET Entries
    BY <1>1, <1>10
  <2> QED
    BY <2>2, <2>3 DEF Entered
<1>14. Perform(req, t) \in [Ids -> Actions \cup {Miss}]
  BY <1>1, <1>12, PerformType
<1> HIDE DEF j, req, t
<1> QED
  BY <1>5, <1>10, <1>11, <1>13, <1>14, PublishIInv DEF t

(* The end of an update changes nothing but the version.                   *)
LEMMA BumpIInv == ASSUME IInv, Bump PROVE IInv'
<1> USE DEF Bump, engineVars
<1>1. /\ UNCHANGED <<journal, log, pc, pipe, generation, applied, tag, snap, upto, seen, view>>
      /\ version' = version + 1
  OBVIOUS
<1>2. busy' = FALSE /\ busy
  OBVIOUS
<1>3. version \in Nat /\ version = Len(log) - 2 /\ Len(log) \in Nat
  BY <1>2 DEF IInv, TypeOK, JournalInv
<1>4. TypeOK'
  <2>1. busy' \in BOOLEAN
    BY <1>2
  <2>2. version' \in Nat
    BY <1>1, <1>3
  <2> QED
    BY <1>1, <2>1, <2>2 DEF IInv, TypeOK
<1>5. ReplayIsExact' /\ SliceInBounds'
  BY <1>1 DEF IInv, ReplayIsExact, SliceInBounds
<1>6. JournalInv'
  BY <1>1, <1>2, <1>3 DEF IInv, JournalInv
<1>7. EngineInv'
  BY <1>1, <1>3 DEF IInv, EngineInv, VersionInv, Position, Replaying, TypeOK
<1> QED
  BY <1>4, <1>5, <1>6, <1>7 DEF IInv

(* A step of an engine leaves the journal alone, and every other engine.   *)
LEMMA EngineIInv ==
  ASSUME IInv, NEW r \in Readers, EngineStep(r)
  PROVE  IInv'
<1> USE DEF IInv
<1>1. UNCHANGED <<journal, version, busy, log>>
  BY DEF EngineStep, EngineNew, SyncVersion, SyncLoad, ReplayOp, SyncDone, Run, sharedVars
<1>2. /\ JournalOK(journal) /\ Unrolls(journal)
      /\ journal.generation \in Nat /\ Len(journal.ops) \in Nat /\ version \in Nat
      /\ journal.after \in [0 .. Len(journal.ops) -> SUBSET Entries]
      /\ Len(log) \in Nat \ {0}
      /\ version \in {Len(log) - 1, Len(log) - 2}
  BY DEF TypeOK, JournalOK, JournalInv
<1>3. \A q \in Readers \ {r} :
        /\ pc'[q] = pc[q] /\ pipe'[q] = pipe[q] /\ generation'[q] = generation[q]
        /\ applied'[q] = applied[q] /\ tag'[q] = tag[q] /\ seen'[q] = seen[q]
        /\ snap'[q] = snap[q] /\ upto'[q] = upto[q] /\ view'[q] = view[q]
  BY DEF EngineStep, EngineNew, SyncVersion, SyncLoad, ReplayOp, SyncDone, Run,
         engineVars, TypeOK
<1>4. /\ applied[r] \in Nat /\ generation[r] \in Nat /\ upto[r] \in Nat /\ seen[r] \in Nat
      /\ tag[r] \in Nat \cup {NeverSynced} /\ view[r] \in Nat
      /\ pipe[r] \in SUBSET Entries
      /\ JournalOK(snap[r]) /\ Len(snap[r].ops) \in Nat
      /\ snap[r].after \in [0 .. Len(snap[r].ops) -> SUBSET Entries]
      /\ VersionInv(r) /\ Position(r)
  BY DEF TypeOK, JournalOK, EngineInv
<1>5. /\ TypeOK'
      /\ VersionInv(r)' /\ Position(r)'
      /\ (pc[r] = "replay" => Replaying(r))'
      /\ (pc[r] # "replay" /\ tag[r] # NeverSynced => pipe[r] = Entered(log[upto[r] + 1]))'
      /\ (pc[r] = "run" => tag[r] # NeverSynced)'
  <2>1. CASE EngineNew(r)
    <3>1. TypeOK'
      BY <1>1, <2>1 DEF EngineNew, engineVars, TypeOK, Pcs
    <3> QED
      BY <1>1, <1>4, <2>1, <3>1
      DEF EngineNew, engineVars, TypeOK, EngineInv, VersionInv, Position
  <2>2. CASE SyncVersion(r)
    <3>1. TypeOK'
      BY <1>1, <1>2, <2>2 DEF SyncVersion, engineVars, TypeOK, Pcs
    <3>2. version # NeverSynced
      BY <1>2 DEF NeverSynced
    <3>3. /\ pc'[r] \in {"run", "load"} /\ seen'[r] = version
          /\ pc'[r] = "run" => version = tag[r]
      BY <2>2 DEF SyncVersion, TypeOK
    <3>4. UNCHANGED <<pipe, generation, applied, tag, snap, upto, view>> /\ pc[r] = "idle"
      BY <2>2 DEF SyncVersion, engineVars
    <3>5. VersionInv(r)'
      BY <1>1, <1>2, <1>4, <3>3, <3>4 DEF VersionInv
    <3>6. Position(r)'
      BY <1>1, <1>4, <3>4 DEF Position
    <3>7. tag[r] # NeverSynced => pipe[r] = Entered(log[upto[r] + 1])
      BY <3>4 DEF EngineInv
    <3>8. (pc[r] # "replay" /\ tag[r] # NeverSynced => pipe[r] = Entered(log[upto[r] + 1]))'
      BY <1>1, <3>4, <3>7
    <3> QED
      BY <3>1, <3>2, <3>3, <3>4, <3>5, <3>6, <3>8
  <2>3. CASE SyncLoad(r)
    <3>1. /\ pc'[r] = "replay" /\ snap'[r] = journal /\ upto'[r] = Len(log) - 1
          /\ tag' = tag /\ seen' = seen /\ view' = view
          /\ pc[r] = "load" /\ ~busy
          /\ generation'[r] = journal.generation
      BY <2>3 DEF SyncLoad, TypeOK
    <3>2. /\ applied'[r] \in Nat /\ applied'[r] <= Len(journal.ops)
          /\ pipe'[r] = journal.after[applied'[r]]
      <4>1. CASE generation[r] = journal.generation
        <5>1. UNCHANGED <<pipe, applied>>
          BY <2>3, <4>1 DEF SyncLoad
        <5> QED
          BY <1>4, <4>1, <5>1 DEF Position
      <4>2. CASE generation[r] # journal.generation
        <5>1. pipe'[r] = {} /\ applied'[r] = 0
          BY <2>3, <4>2 DEF SyncLoad, TypeOK
        <5> QED
          BY <1>2, <5>1 DEF Unrolls
      <4> QED
        BY <4>1, <4>2
    <3>3. pipe'[r] \in SUBSET Entries
      BY <1>2, <3>2
    <3>4. TypeOK'
      <4>1. /\ pc' \in [Readers -> Pcs]
            /\ upto' \in [Readers -> Nat]
        BY <1>2, <2>3 DEF SyncLoad, TypeOK, Pcs
      <4>2. DOMAIN snap' = Readers /\ \A q \in Readers : JournalOK(snap'[q])
        BY <1>2, <1>3, <2>3, <3>1 DEF SyncLoad, TypeOK
      <4>3. /\ generation' \in [Readers -> Nat]
            /\ applied' \in [Readers -> Nat]
            /\ pipe' \in [Readers -> SUBSET Entries]
        <5>1. CASE generation[r] = journal.generation
          BY <2>3, <5>1 DEF SyncLoad, TypeOK
        <5>2. CASE generation[r] # journal.generation
          <6>1. /\ pipe' = [pipe EXCEPT ![r] = {}]
                /\ generation' = [generation EXCEPT ![r] = journal.generation]
                /\ applied' = [applied EXCEPT ![r] = 0]
            BY <2>3, <5>2 DEF SyncLoad
          <6>2. generation' \in [Readers -> Nat] /\ applied' \in [Readers -> Nat]
            BY <1>2, <6>1 DEF TypeOK
          <6>3. pipe' \in [Readers -> SUBSET Entries]
            BY <6>1 DEF TypeOK
          <6> QED
            BY <6>2, <6>3
        <5> QED
          BY <5>1, <5>2
      <4> QED
        BY <1>1, <3>1, <4>1, <4>2, <4>3 DEF TypeOK
    <3>5. journal.live = Entered(log[(Len(log) - 1) + 1])
      BY <1>2 DEF ReplayIsExact
    <3>6. Replaying(r)'
      BY <1>1, <1>2, <3>1, <3>2, <3>5 DEF Replaying
    <3>7. Position(r)'
      BY <1>1, <1>2, <3>1, <3>2 DEF Position
    <3>8. VersionInv(r)'
      BY <1>1, <1>2, <1>4, <3>1 DEF VersionInv, JournalInv, NeverSynced
    <3> QED
      BY <3>1, <3>4, <3>6, <3>7, <3>8
  <2>4. CASE ReplayOp(r)
    <3> DEFINE op == snap[r].ops[applied[r] + 1]
    <3>1. /\ pc[r] = "replay" /\ pc' = pc /\ applied'[r] = applied[r] + 1
          /\ pipe'[r] = Apply(pipe[r], op) /\ applied[r] < Len(snap[r].ops)
          /\ UNCHANGED <<generation, tag, seen, snap, upto, view>>
      BY <2>4 DEF ReplayOp, TypeOK
    <3>2. Replaying(r)
      BY <3>1 DEF EngineInv
    <3>3. /\ applied[r] + 1 \in 1 .. Len(snap[r].ops)
          /\ applied[r] + 1 \in 0 .. Len(snap[r].ops)
          /\ (applied[r] + 1) - 1 = applied[r]
      BY <1>4, <3>1
    <3>4. pipe'[r] = snap[r].after[applied[r] + 1]
      BY <3>1, <3>2, <3>3 DEF Replaying, Unrolls
    <3>5. TypeOK'
      <4>1. pipe'[r] \in SUBSET Entries
        BY <1>4, <3>3, <3>4
      <4>2. pipe' \in [Readers -> SUBSET Entries] /\ applied' \in [Readers -> Nat]
        BY <1>4, <2>4, <3>1, <4>1 DEF ReplayOp, TypeOK
      <4> QED
        BY <1>1, <3>1, <4>2 DEF TypeOK
    <3> HIDE DEF op
    <3>6. Replaying(r)'
      BY <1>1, <1>4, <3>1, <3>2, <3>3, <3>4 DEF Replaying
    <3>7. Position(r)'
      <4>1. ASSUME generation[r] = journal.generation
            PROVE  /\ applied[r] + 1 <= Len(journal.ops)
                   /\ snap[r].after[applied[r] + 1] = journal.after[applied[r] + 1]
        <5>1. /\ Len(snap[r].ops) <= Len(journal.ops)
              /\ \A i \in 0 .. Len(snap[r].ops) : snap[r].after[i] = journal.after[i]
          BY <3>2, <4>1 DEF Replaying
        <5>2. snap[r].after[applied[r] + 1] = journal.after[applied[r] + 1]
          BY <3>3, <5>1
        <5> QED
          BY <1>2, <1>4, <3>3, <5>1, <5>2
      <4> QED
        BY <1>1, <1>4, <3>1, <3>4, <4>1 DEF Position
    <3>8. VersionInv(r)'
      BY <1>1, <1>4, <3>1 DEF VersionInv
    <3> QED
      BY <3>1, <3>5, <3>6, <3>7, <3>8
  <2>5. CASE SyncDone(r)
    <3>1. /\ pc[r] = "replay" /\ pc'[r] = "run" /\ tag'[r] = seen[r]
          /\ applied[r] = Len(snap[r].ops)
          /\ UNCHANGED <<pipe, generation, applied, seen, snap, upto, view>>
      BY <2>5 DEF SyncDone, TypeOK
    <3>2. Replaying(r)
      BY <3>1 DEF EngineInv
    <3>3. TypeOK'
      BY <1>1, <1>4, <2>5, <3>1 DEF SyncDone, TypeOK, Pcs
    <3>4. pipe[r] = Entered(log[upto[r] + 1])
      BY <3>1, <3>2 DEF Replaying, Unrolls
    <3>5. seen[r] # NeverSynced
      BY <1>4 DEF NeverSynced
    <3> QED
      BY <1>1, <1>4, <3>1, <3>3, <3>4, <3>5 DEF VersionInv, Position
  <2>6. CASE Run(r)
    <3>1. TypeOK'
      BY <1>1, <1>4, <2>6 DEF Run, engineVars, TypeOK, Pcs
    <3>2. /\ pc[r] = "run" /\ pc'[r] = "idle" /\ view'[r] = upto[r]
          /\ UNCHANGED <<pipe, generation, applied, tag, seen, snap, upto>>
      BY <2>6 DEF Run, engineVars, TypeOK
    <3> QED
      BY <1>1, <1>4, <3>1, <3>2 DEF EngineInv, VersionInv, Position
  <2> QED
    BY <2>1, <2>2, <2>3, <2>4, <2>5, <2>6 DEF EngineStep
<1>6. ASSUME NEW q \in Readers \ {r}
      PROVE  /\ VersionInv(q)' /\ Position(q)'
             /\ (pc[q] = "replay" => Replaying(q))'
             /\ (pc[q] # "replay" /\ tag[q] # NeverSynced => pipe[q] = Entered(log[upto[q] + 1]))'
             /\ (pc[q] = "run" => tag[q] # NeverSynced)'
  BY <1>1, <1>3, <1>6 DEF EngineInv, VersionInv, Position, Replaying
<1>7. EngineInv'
  BY <1>5, <1>6 DEF EngineInv
<1>8. JournalInv'
  BY <1>1 DEF JournalInv
<1>9. SliceInBounds' /\ ReplayIsExact'
  <2>1. journal.live = Entered(log[Len(log)])
    BY DEF ReplayIsExact
  <2> QED
    BY <1>1, <1>7, <2>1 DEF SliceInBounds, ReplayIsExact, EngineInv, Position
<1> QED
  BY <1>5, <1>7, <1>8, <1>9

(* Every step, or a stutter, preserves the inductive invariant.            *)
LEMMA NextIInv == IInv /\ [Next]_vars => IInv'
<1> SUFFICES ASSUME IInv, [Next]_vars PROVE IInv'
  OBVIOUS
<1>1. CASE ControlStep
  BY <1>1, AddIInv, RemoveIInv, ClearIInv, BumpIInv DEF ControlStep
<1>2. ASSUME NEW r \in Readers, EngineStep(r) PROVE IInv'
  BY <1>2, EngineIInv
<1>3. CASE UNCHANGED vars
  <2> USE <1>3 DEF vars, sharedVars, engineVars
  <2>1. TypeOK' /\ SliceInBounds' /\ ReplayIsExact'
    BY DEF IInv, TypeOK, SliceInBounds, ReplayIsExact
  <2>2. JournalInv'
    BY DEF IInv, JournalInv
  <2>3. EngineInv'
    BY DEF IInv, EngineInv, VersionInv, Position, Replaying
  <2> QED
    BY <2>1, <2>2, <2>3 DEF IInv
<1> QED
  BY <1>1, <1>2, <1>3 DEF Next
------------------------------------------------------------------------------
(* The inductive invariant holds of every reachable state.                 *)
THEOREM Invariance == Spec => []IInv
<1>1. Init => IInv
  BY InitIInv
<1>2. IInv /\ [Next]_vars => IInv'
  BY NextIInv
<1> QED
  BY <1>1, <1>2, PTL DEF Spec

(* The state stays of its kind and the journal within twice the live       *)
(* entries plus the slack, whatever the churn (Journal::compact).          *)
THEOREM TypeCorrect == Spec => []TypeOK
<1>1. IInv => TypeOK
  BY DEF IInv
<1> QED
  BY <1>1, Invariance, PTL

(* X4cEngine::sync never slices past the end of the journal.               *)
THEOREM SyncNeverPanics == Spec => []SliceInBounds
<1>1. IInv => SliceInBounds
  BY DEF IInv
<1> QED
  BY <1>1, Invariance, PTL

(* A frame is processed on exactly the entries the updates it has loaded   *)
(* leave (X4cEngine::sync, apply).                                         *)
THEOREM ReplayIsFaithful == Spec => []ReplayIsExact
<1>1. IInv => ReplayIsExact
  BY DEF IInv
<1> QED
  BY <1>1, Invariance, PTL
------------------------------------------------------------------------------
(* An initial state is one of the register.                                *)
LEMMA RegisterInit == Init => Register!Init
BY DEF Init, Register!Init, Register!Idle

(* A step of the control plane is a Write, a Complete or a stutter.        *)
LEMMA ControlRefines ==
  ASSUME IInv, ControlStep
  PROVE  [Register!Next]_(Register!regVars)
<1>1. ASSUME NEW req \in Requests, NEW j, Publish(req, j) PROVE Register!Next
  <2>1. version = Len(log) - 1
    BY <1>1 DEF Publish, IInv, JournalInv
  <2>2. Register!Write(req)
    BY <1>1, <2>1 DEF Publish, Register!Write, Register!Applied
  <2> QED
    BY <2>2 DEF Register!Next
<1>2. ASSUME NEW id \in Ids, NEW a \in Actions, TableAdd(id, a) PROVE Register!Next
  <2>1. [what |-> "add", id |-> id, action |-> a] \in Requests
    BY DEF Requests
  <2> QED
    BY <1>1, <1>2, <2>1 DEF TableAdd
<1>3. ASSUME NEW id \in Ids, TableRemove(id) PROVE Register!Next
  <2>1. [what |-> "remove", id |-> id] \in Requests
    BY DEF Requests
  <2> QED
    BY <1>1, <1>3, <2>1 DEF TableRemove
<1>4. ASSUME NEW t \in Tables, TableClear(t) PROVE Register!Next
  <2>1. [what |-> "clear", table |-> t] \in Requests
    BY DEF Requests
  <2>2. PICK j : Publish([what |-> "clear", table |-> t], j)
    BY <1>4 DEF TableClear
  <2> QED
    BY <1>1, <2>1, <2>2
<1>5. CASE Bump
  <2>1. version = Len(log) - 2 /\ Len(log) \in Nat
    BY <1>5 DEF Bump, IInv, JournalInv, TypeOK
  <2>2. Register!Complete
    BY <1>5, <2>1 DEF Bump, Register!Complete, Register!Applied
  <2> QED
    BY <2>2 DEF Register!Next
<1> QED
  BY <1>2, <1>3, <1>4, <1>5 DEF ControlStep

(* A step of an engine is a Join, the start or the end of a read, or a     *)
(* stutter.                                                                *)
LEMMA EngineRefines ==
  ASSUME IInv, NEW r \in Readers, EngineStep(r)
  PROVE  [Register!Next]_(Register!regVars)
<1> DEFINE joined == {q \in Readers : pc[q] # "unborn"}
           floor == [q \in Readers |-> IF pc[q] \in {"load", "replay", "run"}
                                       THEN seen[q] ELSE -1]
<1> USE DEF sharedVars, engineVars
<1>1. /\ pc \in [Readers -> Pcs] /\ view \in [Readers -> Nat] /\ seen \in [Readers -> Nat]
      /\ upto[r] \in Nat /\ version \in Nat /\ Len(log) \in Nat /\ view[r] \in Nat
      /\ VersionInv(r) /\ seen[r] \in Nat
  BY DEF IInv, TypeOK, EngineInv
<1>2. CASE EngineNew(r)
  <2>1. joined' = joined \cup {r} /\ r \notin joined /\ floor' = floor
    BY <1>1, <1>2 DEF EngineNew
  <2>2. 0 \in 0 .. Register!Applied
    BY <1>1 DEF VersionInv, Register!Applied
  <2>3. view' = [view EXCEPT ![r] = 0]
    BY <1>1, <1>2 DEF EngineNew, VersionInv
  <2>4. Register!Join(r)
    BY <1>2, <2>1, <2>2, <2>3 DEF EngineNew, Register!Join
  <2> QED
    BY <2>4 DEF Register!Next
<1>3. CASE SyncVersion(r)
  <2>1. joined' = joined /\ r \in joined /\ floor[r] = -1
    BY <1>1, <1>3 DEF SyncVersion
  <2>2. floor' = [floor EXCEPT ![r] = version]
    BY <1>1, <1>3 DEF SyncVersion
  <2>3. Register!BeginRead(r)
    BY <1>3, <2>1, <2>2 DEF SyncVersion, Register!BeginRead, Register!Idle
  <2> QED
    BY <2>3 DEF Register!Next
<1>4. CASE SyncLoad(r)
  <2>1. joined' = joined /\ floor' = floor
    BY <1>1, <1>4 DEF SyncLoad
  <2> QED
    BY <1>4, <2>1 DEF SyncLoad, Register!regVars
<1>5. CASE ReplayOp(r)
  BY <1>5 DEF ReplayOp, Register!regVars
<1>6. CASE SyncDone(r)
  <2>1. joined' = joined /\ floor' = floor
    BY <1>1, <1>6 DEF SyncDone
  <2> QED
    BY <1>6, <2>1 DEF SyncDone, Register!regVars
<1>7. CASE Run(r)
  <2>1. joined' = joined /\ floor[r] = seen[r] /\ floor[r] # -1
    BY <1>1, <1>7 DEF Run
  <2>2. floor' = [floor EXCEPT ![r] = -1]
    BY <1>1, <1>7 DEF Run
  <2>3. /\ upto[r] \in 0 .. Register!Applied
        /\ upto[r] >= floor[r] /\ upto[r] >= view[r]
    BY <1>1, <1>7, <2>1 DEF Run, VersionInv, Register!Applied
  <2>4. Register!EndRead(r)
    BY <1>7, <2>1, <2>2, <2>3 DEF Run, Register!EndRead, Register!Idle
  <2> QED
    BY <2>4 DEF Register!Next
<1> QED
  BY <1>2, <1>3, <1>4, <1>5, <1>6, <1>7 DEF EngineStep

(* The journal, its generations and the private pipelines implement the    *)
(* register that the other backends' shared tables implement.              *)
THEOREM JournalRefinesRegister == Spec => RegisterSpec
<1>1. Init => Register!Init
  BY RegisterInit
<1>2. IInv /\ [Next]_vars => [Register!Next]_(Register!regVars)
  <2> SUFFICES ASSUME IInv, [Next]_vars PROVE [Register!Next]_(Register!regVars)
    OBVIOUS
  <2>1. CASE Next
    BY <2>1, ControlRefines, EngineRefines DEF Next
  <2>2. CASE UNCHANGED vars
    BY <2>2 DEF vars, sharedVars, Register!regVars
  <2> QED
    BY <2>1, <2>2
<1> QED
  BY <1>1, <1>2, Invariance, PTL DEF Spec, RegisterSpec, Register!Spec
==============================================================================
