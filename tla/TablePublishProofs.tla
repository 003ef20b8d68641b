------------------------- MODULE TablePublishProofs -------------------------
(***************************************************************************)
(* The publication discipline for any number of writers, shards, updates   *)
(* and any table contents: no update is lost, no cached table is behind    *)
(* its version tag, and the whole implements the abstract TableRegister.   *)
(***************************************************************************)
EXTENDS TablePublish, TLAPS

USE DEF Free, NeverSynced, Minted, MayWrite

(* The initial state satisfies the inductive invariant: Shared::new        *)
(* publishes version 0 and no engine exists.                               *)
LEMMA InitIInv == Init => IInv
<1> SUFFICES ASSUME Init PROVE IInv
  OBVIOUS
<1> USE ValuesAssumption, FreeAssumption, BoundAssumption, BackendAssumption, HotMintAssumption
<1>1. TypeOK
  <2>1. (CHOOSE op \in Ops : TRUE) \in Ops
    OBVIOUS
  <2> QED
    BY <2>1 DEF Init, TypeOK, RPcs, WPcs
<1>2. NoLostUpdate
  BY DEF Init, NoLostUpdate
<1>3. CacheNotBehindTag
  BY DEF Init, CacheNotBehindTag
<1>4. MutexInv
  BY DEF Init, MutexInv
<1>5. ReaderInv
  <2>1. ~(serving /\ backend \notin HotMint)
    BY Zenon DEF Init
  <2>2. \A r \in Readers : seen[r] <= version /\ at[r] = 0 /\ rpc[r] = "unborn"
    BY DEF Init
  <2> QED
    BY <2>1, <2>2 DEF ReaderInv
<1> QED
  BY <1>1, <1>2, <1>3, <1>4, <1>5 DEF IInv

(* Shared::update keeps the invariant, step by step.                       *)
LEMMA WriterIInv ==
  ASSUME IInv, NEW w \in Writers, WriterStep(w)
  PROVE  IInv'
<1> USE ValuesAssumption, FreeAssumption, BoundAssumption DEF IInv
<1>1. ASSUME NEW op \in Ops, UpdateBegin(w, op) PROVE IInv'
  <2> USE <1>1 DEF UpdateBegin, readerVars
  <2>0. Apply(op, current) \in Values
    BY DEF TypeOK
  <2>1. TypeOK'
    BY <2>0 DEF TypeOK, WPcs
  <2>2. NoLostUpdate'
    BY DEF NoLostUpdate
  <2>3. CacheNotBehindTag'
    BY DEF CacheNotBehindTag
  <2>4. MutexInv'
    BY DEF MutexInv, TypeOK
  <2>5. ReaderInv'
    <3>1. \A r \in Readers : rpc[r] # "new_version"
      BY HotMintAssumption DEF ReaderInv
    <3> QED
      BY <3>1 DEF ReaderInv
  <2> QED
    BY <2>1, <2>2, <2>3, <2>4, <2>5
<1>2. CASE UpdateStore(w)
  <2> USE <1>2 DEF UpdateStore, readerVars
  <2>1. TypeOK'
    BY DEF TypeOK, WPcs
  <2>0. /\ log \in Seq(Values) /\ ops \in Seq(Ops)
        /\ next[w] \in Values /\ wop[w] \in Ops
        /\ Len(log) = Len(ops) + 1
        /\ Len(ops') = Len(ops) + 1 /\ Len(log') = Len(log) + 1
        /\ \A i \in 1 .. Len(log) : log'[i] = log[i]
        /\ \A i \in 1 .. Len(ops) : ops'[i] = ops[i]
        /\ log'[Len(log) + 1] = next[w]
        /\ ops'[Len(ops) + 1] = wop[w]
    BY DEF TypeOK, NoLostUpdate
  <2>2. NoLostUpdate'
    <3>1. next[w] = Apply(wop[w], log[Len(log)])
      BY DEF MutexInv, NoLostUpdate
    <3>2. ASSUME NEW i \in 1 .. Len(ops') PROVE log'[i + 1] = Apply(ops'[i], log'[i])
      <4>1. CASE i \in 1 .. Len(ops)
        BY <2>0, <4>1 DEF NoLostUpdate
      <4>2. CASE i = Len(ops) + 1
        BY <2>0, <3>1, <4>2
      <4> QED
        BY <2>0, <4>1, <4>2
    <3>3. current' = log'[Len(log')]
      BY <2>0
    <3> QED
      BY <2>0, <3>2, <3>3 DEF NoLostUpdate
  <2>3. CacheNotBehindTag'
    BY <2>0 DEF CacheNotBehindTag, TypeOK
  <2>4. MutexInv'
    <3>1. \A v \in Writers : v # w => wpc[v] = "idle" /\ wpc'[v] = "idle"
      BY DEF MutexInv, TypeOK
    <3>2. version = Len(ops) /\ Len(ops) < MaxUpdates /\ wpc'[w] = "stored"
      BY <3>1 DEF MutexInv, TypeOK
    <3> QED
      BY <2>0, <3>1, <3>2 DEF MutexInv, TypeOK
  <2>5. ReaderInv'
    BY DEF ReaderInv, MutexInv, TypeOK
  <2> QED
    BY <2>1, <2>2, <2>3, <2>4, <2>5
<1>3. CASE UpdateBump(w)
  <2> USE <1>3 DEF UpdateBump, readerVars
  <2>1. TypeOK'
    BY DEF TypeOK, WPcs, MutexInv
  <2>2. NoLostUpdate'
    BY DEF NoLostUpdate
  <2>3. CacheNotBehindTag'
    BY DEF CacheNotBehindTag
  <2>4. MutexInv'
    <3>1. \A v \in Writers : wpc'[v] # "stored"
      BY DEF MutexInv, TypeOK
    <3>2. version' = Len(ops)
      BY DEF MutexInv, TypeOK
    <3> QED
      BY <3>1, <3>2 DEF MutexInv, TypeOK
  <2>5. ReaderInv'
    BY DEF ReaderInv, MutexInv, TypeOK
  <2> QED
    BY <2>1, <2>2, <2>3, <2>4, <2>5
<1>4. CASE UpdateUnlock(w)
  <2> USE <1>4 DEF UpdateUnlock, readerVars
  <2>1. TypeOK'
    BY DEF TypeOK, WPcs
  <2>2. NoLostUpdate'
    BY DEF NoLostUpdate
  <2>3. CacheNotBehindTag'
    BY DEF CacheNotBehindTag
  <2>4. MutexInv'
    BY DEF MutexInv, TypeOK
  <2>5. ReaderInv'
    BY DEF ReaderInv, MutexInv
  <2> QED
    BY <2>1, <2>2, <2>3, <2>4, <2>5
<1> QED
  BY <1>1, <1>2, <1>3, <1>4 DEF WriterStep

(* Minting and looking up keep the invariant.                              *)
LEMMA ReaderIInv ==
  ASSUME IInv, NEW r \in Readers, ReaderStep(r)
  PROVE  IInv'
<1> USE FreeAssumption, BoundAssumption DEF IInv, sharedVars, writerVars
<1>0. UNCHANGED <<backend, serving, lock, current, version, wpc, wop, next, log, ops>>
  BY DEF ReaderStep, CachedNewVersion, CachedNewLoad, UbpfEngineLoad, UbpfEngineVersion,
     X4cEngineNew, GetVersion, ServeCached, ReloadAndServe
<1>1. NoLostUpdate' /\ MutexInv'
  BY <1>0 DEF NoLostUpdate, MutexInv
<1>2. /\ lock = Free => version = Len(ops)
      /\ version <= Len(ops)
      /\ version \in Nat /\ Len(ops) \in Nat
  <2>1. version \in Nat /\ Len(ops) \in Nat
    BY DEF TypeOK
  <2>2. CASE \E w \in Writers : wpc[w] = "stored"
    <3>1. PICK w \in Writers : wpc[w] = "stored"
      BY <2>2
    <3>2. lock = w /\ version = Len(ops) - 1
      BY <3>1 DEF MutexInv
    <3> QED
      BY <2>1, <3>2
  <2>3. CASE \A w \in Writers : wpc[w] # "stored"
    BY <2>1, <2>3 DEF MutexInv
  <2> QED
    BY <2>2, <2>3
<1>3. Len(ops) = Len(log) - 1 /\ current = log[Len(ops) + 1]
  BY DEF NoLostUpdate, TypeOK
<1> USE <1>0, <1>2, <1>3
<1>4. CASE CachedNewVersion(r)
  <2> USE <1>4 DEF CachedNewVersion
  <2>1. TypeOK'
    BY DEF TypeOK, RPcs
  <2>2. CacheNotBehindTag'
    BY DEF CacheNotBehindTag, TypeOK
  <2>3. ReaderInv'
    BY DEF ReaderInv, TypeOK
  <2> QED
    BY <1>1, <2>1, <2>2, <2>3
<1>5. CASE CachedNewLoad(r)
  <2> USE <1>5 DEF CachedNewLoad
  <2>1. TypeOK'
    BY DEF TypeOK, RPcs
  <2>2. CacheNotBehindTag'
    BY DEF CacheNotBehindTag, TypeOK, ReaderInv
  <2>3. ReaderInv'
    BY DEF ReaderInv, TypeOK
  <2> QED
    BY <1>1, <2>1, <2>2, <2>3
<1>6. CASE UbpfEngineLoad(r)
  <2> USE <1>6 DEF UbpfEngineLoad
  <2>1. TypeOK'
    BY DEF TypeOK, RPcs
  <2>2. CacheNotBehindTag'
    BY DEF CacheNotBehindTag, TypeOK
  <2>3. ReaderInv'
    BY HotMintAssumption DEF ReaderInv, TypeOK
  <2> QED
    BY <1>1, <2>1, <2>2, <2>3
<1>7. CASE UbpfEngineVersion(r)
  <2> USE <1>7 DEF UbpfEngineVersion
  <2>1. TypeOK'
    BY DEF TypeOK, RPcs
  <2>2. CacheNotBehindTag'
    BY DEF CacheNotBehindTag, TypeOK, ReaderInv
  <2>3. ReaderInv'
    BY DEF ReaderInv, TypeOK
  <2> QED
    BY <1>1, <2>1, <2>2, <2>3
<1>8. CASE X4cEngineNew(r)
  <2> USE <1>8 DEF X4cEngineNew
  <2>1. TypeOK'
    BY DEF TypeOK, RPcs
  <2>2. CacheNotBehindTag'
    BY DEF CacheNotBehindTag, TypeOK
  <2>3. ReaderInv'
    BY DEF ReaderInv, TypeOK
  <2> QED
    BY <1>1, <2>1, <2>2, <2>3
<1>9. CASE GetVersion(r)
  <2> USE <1>9 DEF GetVersion
  <2>1. TypeOK'
    BY DEF TypeOK, RPcs
  <2>2. CacheNotBehindTag'
    BY DEF CacheNotBehindTag, TypeOK
  <2>3. ReaderInv'
    BY DEF ReaderInv, TypeOK
  <2> QED
    BY <1>1, <2>1, <2>2, <2>3
<1>10. CASE ServeCached(r)
  <2> USE <1>10 DEF ServeCached
  <2>1. TypeOK'
    BY DEF TypeOK, RPcs
  <2>2. CacheNotBehindTag'
    BY DEF CacheNotBehindTag, TypeOK
  <2>3. ReaderInv'
    BY DEF ReaderInv, TypeOK
  <2> QED
    BY <1>1, <2>1, <2>2, <2>3
<1>11. CASE ReloadAndServe(r)
  <2> USE <1>11 DEF ReloadAndServe
  <2>1. TypeOK'
    BY DEF TypeOK, RPcs
  <2>2. CacheNotBehindTag'
    BY DEF CacheNotBehindTag, TypeOK, ReaderInv
  <2>3. ReaderInv'
    BY DEF ReaderInv, TypeOK
  <2> QED
    BY <1>1, <2>1, <2>2, <2>3
<1> QED
  BY <1>4, <1>5, <1>6, <1>7, <1>8, <1>9, <1>10, <1>11 DEF ReaderStep

(* Starting the control thread keeps the invariant: every engine has been  *)
(* minted by then.                                                         *)
LEMMA StartIInv ==
  ASSUME IInv, StartServing
  PROVE  IInv'
<1> USE DEF IInv, StartServing, sharedVars, writerVars, readerVars
<1>1. TypeOK'
  BY DEF TypeOK
<1>2. NoLostUpdate' /\ CacheNotBehindTag' /\ MutexInv'
  BY DEF NoLostUpdate, CacheNotBehindTag, MutexInv
<1>3. ReaderInv'
  BY DEF ReaderInv
<1> QED
  BY <1>1, <1>2, <1>3

(* Every step of the whole system, or a stutter, preserves the inductive    *)
(* invariant: the three kinds of step above are all there are.             *)
LEMMA NextIInv == IInv /\ [Next]_vars => IInv'
<1> SUFFICES ASSUME IInv, [Next]_vars PROVE IInv'
  OBVIOUS
<1>1. CASE Next
  BY <1>1, WriterIInv, ReaderIInv, StartIInv DEF Next
<1>2. CASE UNCHANGED vars
  BY <1>2 DEF vars, sharedVars, writerVars, readerVars, IInv, TypeOK, NoLostUpdate,
     CacheNotBehindTag, MutexInv, ReaderInv
<1> QED
  BY <1>1, <1>2

(* The inductive invariant holds throughout, for every instance.           *)
THEOREM Invariance == Spec => []IInv
BY InitIInv, NextIInv, PTL DEF Spec

(* Every variable of Shared and of the engines keeps its type, and the     *)
(* version never exceeds the number of updates.                            *)
THEOREM TypeCorrect == Spec => []TypeOK
<1>1. IInv => TypeOK
  BY DEF IInv
<1> QED
  BY <1>1, Invariance, PTL

(* Shared::update never loses an operation, however many threads call it.  *)
THEOREM UpdatesAreSerial == Spec => []NoLostUpdate
<1>1. IInv => NoLostUpdate
  BY DEF IInv
<1> QED
  BY <1>1, Invariance, PTL

(* No engine's cached table is ever behind the version it is tagged with,  *)
(* for every backend, given how engines are minted (HotMintAssumption).    *)
THEOREM TagsAreHonest == Spec => []CacheNotBehindTag
<1>1. IInv => CacheNotBehindTag
  BY DEF IInv
<1> QED
  BY <1>1, Invariance, PTL

------------------------------------------------------------------------------
(* The refinement.  An update takes effect in the register when it is      *)
(* stored and completes when the version is bumped; a lookup begins when   *)
(* it reads the version and ends when it is served.                        *)
LEMMA RegisterInit == Init => Register!Init
<1> SUFFICES ASSUME Init PROVE Register!Init
  OBVIOUS
<1>1. \A r \in Readers : rpc[r] = "unborn"
  BY DEF Init
<1>2. {r \in Readers : Minted(r)} = {}
  BY <1>1
<1>3. [r \in Readers |-> IF rpc[r] \in {"hit", "stale"} THEN seen[r] ELSE -1]
        = [r \in Readers |-> -1]
  BY <1>1
<1>4. [r \in Readers |-> IF Minted(r) THEN at[r] ELSE 0] = [r \in Readers |-> 0]
  BY <1>1
<1> QED
  BY <1>2, <1>3, <1>4 DEF Init, Register!Init, Register!Idle

(* A step of Shared::update is a step of the register (storing the table   *)
(* is its Write, bumping the version its Complete) or a stutter.           *)
LEMMA WriterRefines ==
  ASSUME IInv, NEW w \in Writers, WriterStep(w)
  PROVE  [Register!Next]_(Register!regVars)
<1> USE DEF IInv, readerVars
<1>1. ASSUME NEW op \in Ops, UpdateBegin(w, op) PROVE UNCHANGED Register!regVars
  BY <1>1 DEF UpdateBegin, Register!regVars
<1>2. CASE UpdateStore(w)
  <2>1. /\ wop[w] \in Ops
        /\ next[w] = Apply(wop[w], log[Len(log)])
        /\ version = Len(log) - 1
    <3>1. \A v \in Writers : wpc[v] # "stored"
      BY <1>2, FreeAssumption DEF UpdateStore, MutexInv, TypeOK
    <3> QED
      BY <1>2, <3>1 DEF UpdateStore, MutexInv, NoLostUpdate, TypeOK
  <2>2. Register!Write(wop[w])
    BY <1>2, <2>1 DEF UpdateStore, Register!Write, Register!Applied
  <2> QED
    BY <2>1, <2>2 DEF Register!Next
<1>3. CASE UpdateBump(w)
  <2>1. version = Len(log) - 2 /\ Len(log) \in Nat
    BY <1>3 DEF UpdateBump, MutexInv, NoLostUpdate, TypeOK
  <2>2. Register!Complete
    BY <1>3, <2>1 DEF UpdateBump, Register!Complete, Register!Applied
  <2> QED
    BY <2>2 DEF Register!Next
<1>4. CASE UpdateUnlock(w)
  BY <1>4 DEF UpdateUnlock, Register!regVars
<1> QED
  BY <1>1, <1>2, <1>3, <1>4 DEF WriterStep

(* A step of a shard's cached reader is a join, a read's start or end of    *)
(* the register, or a stutter.                                             *)
LEMMA ReaderRefines ==
  ASSUME IInv, IInv', NEW r \in Readers, ReaderStep(r)
  PROVE  [Register!Next]_(Register!regVars)
<1> DEFINE joined == {q \in Readers : Minted(q)}
           floor == [q \in Readers |-> IF rpc[q] \in {"hit", "stale"} THEN seen[q] ELSE -1]
           view == [q \in Readers |-> IF Minted(q) THEN at[q] ELSE 0]
<1> USE DEF IInv, sharedVars, writerVars
<1>0. UNCHANGED <<log, version>>
  BY DEF ReaderStep, CachedNewVersion, CachedNewLoad, UbpfEngineLoad, UbpfEngineVersion,
     X4cEngineNew, GetVersion, ServeCached, ReloadAndServe
<1>1. /\ at'[r] \in 0 .. (Len(log) - 1)
      /\ at[r] \in 0 .. (Len(log) - 1)
  BY <1>0 DEF TypeOK, CacheNotBehindTag, NoLostUpdate
<1>2. CASE CachedNewVersion(r) \/ UbpfEngineLoad(r)
  <2>1. joined' = joined /\ floor' = floor /\ view' = view
    BY <1>2 DEF CachedNewVersion, UbpfEngineLoad, TypeOK
  <2> QED
    BY <1>0, <2>1 DEF Register!regVars
<1>3. CASE CachedNewLoad(r) \/ UbpfEngineVersion(r) \/ X4cEngineNew(r)
  <2>1. /\ r \notin joined
        /\ joined' = joined \cup {r}
        /\ floor' = floor
        /\ view' = [view EXCEPT ![r] = at'[r]]
    BY <1>3 DEF CachedNewLoad, UbpfEngineVersion, X4cEngineNew, TypeOK
  <2>2. Register!Join(r)
    BY <1>0, <1>1, <2>1 DEF Register!Join, Register!Applied
  <2> QED
    BY <2>2 DEF Register!Next
<1>4. CASE GetVersion(r)
  <2>1. /\ r \in joined
        /\ joined' = joined
        /\ floor[r] = -1
        /\ floor' = [floor EXCEPT ![r] = version]
        /\ view' = view
    BY <1>4 DEF GetVersion, TypeOK
  <2>2. Register!BeginRead(r)
    BY <1>0, <2>1 DEF Register!BeginRead, Register!Idle
  <2> QED
    BY <2>2 DEF Register!Next
<1>5. CASE ServeCached(r) \/ ReloadAndServe(r)
  <2>1. /\ joined' = joined
        /\ floor[r] = seen[r]
        /\ floor' = [floor EXCEPT ![r] = -1]
        /\ view[r] = at[r]
        /\ view' = [view EXCEPT ![r] = at'[r]]
    BY <1>5 DEF ServeCached, ReloadAndServe, TypeOK
  <2>2. seen[r] \in Nat
    BY DEF TypeOK
  <2>3. at'[r] >= seen[r] /\ at'[r] >= at[r]
    <3>1. CASE ServeCached(r)
      BY <1>1, <2>2, <3>1 DEF ServeCached, ReaderInv, CacheNotBehindTag, TypeOK
    <3>2. CASE ReloadAndServe(r)
      BY <1>1, <2>2, <3>2, BoundAssumption
      DEF ReloadAndServe, ReaderInv, CacheNotBehindTag, TypeOK
    <3> QED
      BY <1>5, <3>1, <3>2
  <2>4. Register!EndRead(r)
    <3> HIDE DEF joined, floor, view
    <3>1. floor[r] # -1
      BY <2>1, <2>2
    <3>2. \E n \in 0 .. (Len(log) - 1) :
            n >= floor[r] /\ n >= view[r] /\ view' = [view EXCEPT ![r] = n]
      BY <1>1, <2>1, <2>3
    <3> QED
      BY <1>0, <2>1, <3>1, <3>2
      DEF Register!EndRead, Register!Idle, Register!Applied, joined, floor, view
  <2> QED
    BY <2>4 DEF Register!Next
<1> QED
  BY <1>2, <1>3, <1>4, <1>5 DEF ReaderStep

(* The versioned caches implement the register, for any number of shards,  *)
(* writers and updates and for every backend.                              *)
THEOREM PublicationRefinesRegister == Spec => RegisterSpec
<1>1. ASSUME IInv, IInv', [Next]_vars PROVE [Register!Next]_(Register!regVars)
  <2>1. CASE \E w \in Writers : WriterStep(w)
    BY <1>1, <2>1, WriterRefines
  <2>2. CASE \E r \in Readers : ReaderStep(r)
    BY <1>1, <2>2, ReaderRefines
  <2>3. CASE StartServing
    BY <2>3 DEF StartServing, Register!regVars, sharedVars, readerVars
  <2>4. CASE UNCHANGED vars
    BY <2>4 DEF vars, Register!regVars, sharedVars, readerVars
  <2> QED
    BY <1>1, <2>1, <2>2, <2>3, <2>4 DEF Next
<1> QED
  BY <1>1, RegisterInit, Invariance, PTL DEF Spec, RegisterSpec, Register!Spec

==============================================================================
