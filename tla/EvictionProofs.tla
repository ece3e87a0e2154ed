---------------------------- MODULE EvictionProofs ---------------------------
(***************************************************************************)
(* What holds of Eviction for any number of narinfos, NARs and calls, any  *)
(* sizes and any references. The sums of sizes stay opaque: no theorem     *)
(* depends on how much an eviction frees.                                  *)
(***************************************************************************)
EXTENDS Eviction, FiniteSetTheorems, TLAPS

(* The tables are well typed and a run outside its last phase has nothing  *)
(* left to delete.                                                         *)
TypeInv == TypeOK /\ (lru.step # "delete" => lru.queue = {})

(* What every scenario gives.                                              *)
LEMMA ScenarioFacts ==
    ASSUME TypeInv
    PROVE  /\ Item \in [Tasks -> Infos] /\ Kind \in [Tasks -> Kinds]
           /\ Plain \subseteq Nars /\ MaxFetchRows \in Nat
BY ScenarioAssumption
   DEF TypeInv, TypeOK, Scenario, Item, Kind, Plain, MaxFetchRows

(* The scenario of a behaviour never changes, nor what depends on it.      *)
LEMMA ScenarioStays == [Next]_vars => UNCHANGED scenario
BY DEF Next, vars

LEMMA ObjectOf ==
    ASSUME TypeInv
    PROVE  \A t \in Tasks : Object(t) \in Variants(Nar(t)) /\ Nar(t) \in Nars
BY LinkAssumption, ScenarioFacts DEF Object, Variants, Nar, Own

LEMMA VariantsOf == \A n \in Nars : Variants(n) \subseteq Nars \X {"own", "zst"}
BY DEF Variants, Own

LEMMA TypeInit == Init => TypeInv
BY LinkAssumption, LoadedAssumption, FS_CardinalityType, SMTT(30)
   DEF Init, TypeInv, TypeOK, Idle, Own

LEMMA TypeNext == TypeInv /\ [Next]_vars => TypeInv'
<1> SUFFICES ASSUME TypeInv, [Next]_vars PROVE TypeInv'
    OBVIOUS
<1> USE LinkAssumption, ScenarioFacts, ScenarioStays DEF TypeInv, TypeOK
<1>1. ASSUME NEW t \in Tasks, UploadCheck(t) \/ Touch(t) PROVE TypeInv'
  BY <1>1 DEF UploadCheck, Touch, MaybeTouch, SetLastAccessed, Go, TablesOnly, Client
<1>2. ASSUME NEW t \in Tasks, FetchCheck(t) \/ StoreGetNar(t) \/ PinCheck(t) \/ Fail(t)
      PROVE TypeInv'
  BY <1>2 DEF FetchCheck, StoreGetNar, PinCheck, Fail, Go, StoreOnly, Client
<1>3. ASSUME NEW t \in Tasks, StorePutNar(t) PROVE TypeInv'
  BY <1>3, ObjectOf, VariantsOf DEF StorePutNar, Go, StoreOnly, Client
<1>4. ASSUME NEW t \in Tasks, EnsureNarFileRecord(t) PROVE TypeInv'
  BY <1>4, ObjectOf DEF EnsureNarFileRecord, Go, TablesOnly, Client
<1>5. ASSUME NEW t \in Tasks, PutNarInfo(t) PROVE TypeInv'
  BY <1>5 DEF PutNarInfo, StoreInDatabase, SetLastAccessed, Go, TablesOnly, Client
<1>6. ASSUME NEW t \in Tasks, DeleteNar(t) \/ DeleteNarFails(t) PROVE TypeInv'
  BY <1>6 DEF DeleteNar, DeleteNarFails, Go, StoreOnly, Client
<1>7. ASSUME NEW t \in Tasks, ClearBytesStored(t) PROVE TypeInv'
  BY <1>7 DEF ClearBytesStored, Go, TablesOnly, Client
<1>8. ASSUME NEW t \in Tasks, PinInsert(t) \/ UnpinClosure(t) PROVE TypeInv'
  BY <1>8 DEF PinInsert, UnpinClosure, Go, Client
<1>9. CASE StartLRU
  BY <1>9 DEF StartLRU
<1>10. CASE LRUTransaction
  BY <1>10 DEF LRUTransaction, DeleteRows, Orphans, TablesOnly
<1>11. CASE NothingToEvict \/ EndLRU \/ CrashLRU
  BY <1>11 DEF NothingToEvict, EndLRU, CrashLRU, Idle
<1>12. ASSUME NEW n \in Nars, DeleteFromStore(n) \/ DeleteFromStoreFails(n) PROVE TypeInv'
  BY <1>12 DEF DeleteFromStore, DeleteFromStoreFails, StoreOnly
<1>13. CASE UNCHANGED vars
  BY <1>13 DEF vars
<1> QED
  BY <1>1, <1>2, <1>3, <1>4, <1>5, <1>6, <1>7, <1>8, <1>9, <1>10, <1>11, <1>12, <1>13
     DEF Next, RunLRU, Serve

(* The type invariant of the tables, the store and the run.                *)
THEOREM TypeCorrect == Spec => []TypeOK
<1>1. TypeInv => TypeOK
  BY DEF TypeInv
<1> QED
  BY <1>1, TypeInit, TypeNext, PTL DEF Spec

(* A narinfo keeps its nar_files row: whatever shares the NAR is evicted,  *)
(* whatever fails or dies, the run removes only rows that nothing links.   *)
THEOREM LinksAreKept == Spec => []LinkedRowKept
<1>1. Init => LinkedRowKept
  BY DEF Init, LinkedRowKept, Here
<1>2. TypeInv /\ LinkedRowKept /\ [Next]_vars => LinkedRowKept'
  <2> SUFFICES ASSUME TypeInv, LinkedRowKept, [Next]_vars PROVE LinkedRowKept'
      OBVIOUS
  <2> USE LinkAssumption, ScenarioFacts DEF TypeInv, TypeOK, LinkedRowKept, Here
  <2>1. ASSUME NEW t \in Tasks, UploadCheck(t) \/ Touch(t) PROVE LinkedRowKept'
    BY <2>1 DEF UploadCheck, Touch, MaybeTouch, SetLastAccessed
  <2>2. ASSUME NEW t \in Tasks, EnsureNarFileRecord(t) PROVE LinkedRowKept'
    BY <2>2 DEF EnsureNarFileRecord
  <2>3. ASSUME NEW t \in Tasks, PutNarInfo(t) PROVE LinkedRowKept'
    BY <2>3 DEF PutNarInfo, StoreInDatabase, SetLastAccessed
  <2>4. CASE LRUTransaction
    BY <2>4 DEF LRUTransaction, DeleteRows, Orphans
  <2>5. CASE UNCHANGED <<accessed, rows>>
    BY <2>5
  <2>6. ASSUME NEW t \in Tasks,
               \/ FetchCheck(t) \/ StorePutNar(t) \/ StoreGetNar(t) \/ DeleteNar(t)
               \/ ClearBytesStored(t) \/ PinCheck(t) \/ PinInsert(t) \/ UnpinClosure(t)
               \/ Fail(t) \/ DeleteNarFails(t)
        PROVE  UNCHANGED <<accessed, rows>>
    BY <2>6 DEF FetchCheck, StorePutNar, StoreGetNar, DeleteNar, ClearBytesStored, PinCheck,
                PinInsert, UnpinClosure, Fail, DeleteNarFails, StoreOnly
  <2>7. ASSUME \/ StartLRU \/ NothingToEvict \/ EndLRU \/ CrashLRU \/ UNCHANGED vars
               \/ \E n \in Nars : DeleteFromStore(n) \/ DeleteFromStoreFails(n)
        PROVE  UNCHANGED <<accessed, rows>>
    BY <2>7 DEF StartLRU, NothingToEvict, EndLRU, CrashLRU, vars, DeleteFromStore,
                DeleteFromStoreFails, StoreOnly
  <2> QED
    BY <2>1, <2>2, <2>3, <2>4, <2>5, <2>6, <2>7 DEF Next, RunLRU, Serve
<1> QED
  BY <1>1, <1>2, TypeInit, TypeNext, PTL DEF Spec

-----------------------------------------------------------------------------
(* Only the transaction of the eviction removes a narinfo row.             *)
LEMMA OnlyEvictionRemoves ==
    ASSUME TypeInv, [Next]_vars, NEW i \in Infos, Leaves(i)
    PROVE  LRUTransaction /\ i \in Evicted
<1> USE ScenarioFacts DEF TypeInv, TypeOK, Leaves, Here
<1>1. ASSUME NEW t \in Tasks, UploadCheck(t) \/ Touch(t) PROVE FALSE
  BY <1>1 DEF UploadCheck, Touch, MaybeTouch, SetLastAccessed
<1>2. ASSUME NEW t \in Tasks, PutNarInfo(t) PROVE FALSE
  BY <1>2 DEF PutNarInfo, StoreInDatabase, SetLastAccessed
<1>3. CASE LRUTransaction
  BY <1>3 DEF LRUTransaction, DeleteRows
<1>4. CASE UNCHANGED accessed
  BY <1>4
<1>5. ASSUME NEW t \in Tasks,
             \/ FetchCheck(t) \/ StorePutNar(t) \/ StoreGetNar(t) \/ EnsureNarFileRecord(t)
             \/ DeleteNar(t) \/ ClearBytesStored(t) \/ PinCheck(t) \/ PinInsert(t)
             \/ UnpinClosure(t) \/ Fail(t) \/ DeleteNarFails(t)
      PROVE  UNCHANGED accessed
  BY <1>5 DEF FetchCheck, StorePutNar, StoreGetNar, EnsureNarFileRecord, DeleteNar,
              ClearBytesStored, PinCheck, PinInsert, UnpinClosure, Fail, DeleteNarFails, StoreOnly
<1>6. ASSUME \/ StartLRU \/ NothingToEvict \/ EndLRU \/ CrashLRU \/ UNCHANGED vars
             \/ \E n \in Nars : DeleteFromStore(n) \/ DeleteFromStoreFails(n)
      PROVE  UNCHANGED accessed
  BY <1>6 DEF StartLRU, NothingToEvict, EndLRU, CrashLRU, vars, DeleteFromStore,
              DeleteFromStoreFails, StoreOnly
<1> QED
  BY <1>1, <1>2, <1>3, <1>4, <1>5, <1>6 DEF Next, RunLRU, Serve

-----------------------------------------------------------------------------
(* The roots pinned since before the run began are among what it keeps.    *)
RootsKept == lru.step = "evict" => early \subseteq lru.keep

(* No eviction removes a root that was pinned before it began, however the *)
(* pin calls interleave with it.                                           *)
THEOREM EarlyPinsAreKept == Spec => EarlyPinsKept
<1>1. Init => RootsKept
  BY DEF Init, RootsKept, Idle
<1>2. TypeInv /\ RootsKept /\ [Next]_vars => RootsKept'
  <2> SUFFICES ASSUME TypeInv, RootsKept, [Next]_vars PROVE RootsKept'
      OBVIOUS
  <2> USE DEF TypeInv, TypeOK, RootsKept
  <2>1. ASSUME NEW t \in Tasks, UnpinClosure(t) PROVE RootsKept'
    BY <2>1 DEF UnpinClosure
  <2>2. ASSUME NEW t \in Tasks, Serve(t) \/ Fail(t) \/ DeleteNarFails(t), ~UnpinClosure(t)
        PROVE  UNCHANGED <<lru, early>>
    BY <2>2 DEF Serve, UploadCheck, FetchCheck, StorePutNar, StoreGetNar, EnsureNarFileRecord,
                PutNarInfo, DeleteNar, ClearBytesStored, Touch, PinCheck, PinInsert, Fail,
                DeleteNarFails, Client
  <2>3. CASE StartLRU
    BY <2>3 DEF StartLRU, GetPinnedClosureHashes
  <2>4. CASE LRUTransaction \/ NothingToEvict \/ EndLRU \/ CrashLRU
    <3>1. CASE LRUTransaction
      <4>1. lru' = [lru EXCEPT !.step = "delete", !.queue = Orphans(Here \ Evicted)]
        BY <3>1 DEF LRUTransaction
      <4> QED
        BY <4>1
    <3>2. CASE NothingToEvict \/ EndLRU \/ CrashLRU
      BY <3>2 DEF NothingToEvict, EndLRU, CrashLRU, Idle
    <3> QED
      BY <2>4, <3>1, <3>2
  <2>5. ASSUME NEW n \in Nars, DeleteFromStore(n) \/ DeleteFromStoreFails(n)
        PROVE  RootsKept'
    BY <2>5 DEF DeleteFromStore, DeleteFromStoreFails
  <2>6. CASE UNCHANGED vars
    BY <2>6 DEF vars
  <2> QED
    BY <2>1, <2>2, <2>3, <2>4, <2>5, <2>6 DEF Next, RunLRU
<1>3. TypeInv /\ RootsKept /\ [Next]_vars => [\A i \in early : ~Leaves(i)]_vars
  <2> SUFFICES ASSUME TypeInv, RootsKept, [Next]_vars, NEW i \in early, Leaves(i) PROVE FALSE
      OBVIOUS
  <2>1. LRUTransaction /\ i \in Evicted
    BY OnlyEvictionRemoves DEF TypeInv, TypeOK
  <2> QED
    BY <2>1 DEF LRUTransaction, RootsKept, Evicted, Loose
<1> QED
  BY <1>1, <1>2, <1>3, TypeInit, TypeNext, PTL DEF Spec, EarlyPinsKept

-----------------------------------------------------------------------------
(* No two rows have the same last_accessed_at, and none is in the future.  *)
Stamps ==
    /\ \A i \in Infos : accessed[i] <= clock
    /\ \A i, j \in Infos : i # j /\ accessed[i] > 0 => accessed[i] # accessed[j]

LEMMA StampsInit == Init => Stamps
BY LoadedAssumption, FS_CardinalityType DEF Init, Stamps

LEMMA StampsNext == TypeInv /\ Stamps /\ [Next]_vars => Stamps'
<1> SUFFICES ASSUME TypeInv, Stamps, [Next]_vars PROVE Stamps'
    OBVIOUS
<1> USE ScenarioFacts DEF TypeInv, TypeOK, Stamps
<1>1. ASSUME NEW t \in Tasks, UploadCheck(t) \/ Touch(t) PROVE Stamps'
  BY <1>1 DEF UploadCheck, Touch, MaybeTouch, SetLastAccessed
<1>2. ASSUME NEW t \in Tasks, PutNarInfo(t) PROVE Stamps'
  BY <1>2 DEF PutNarInfo, StoreInDatabase, SetLastAccessed
<1>3. CASE LRUTransaction
  BY <1>3 DEF LRUTransaction, DeleteRows
<1>4. CASE UNCHANGED <<accessed, clock>>
  BY <1>4
<1>5. ASSUME NEW t \in Tasks,
             \/ FetchCheck(t) \/ StorePutNar(t) \/ StoreGetNar(t) \/ EnsureNarFileRecord(t)
             \/ DeleteNar(t) \/ ClearBytesStored(t) \/ PinCheck(t) \/ PinInsert(t)
             \/ UnpinClosure(t) \/ Fail(t) \/ DeleteNarFails(t)
      PROVE  UNCHANGED <<accessed, clock>>
  BY <1>5 DEF FetchCheck, StorePutNar, StoreGetNar, EnsureNarFileRecord, DeleteNar,
              ClearBytesStored, PinCheck, PinInsert, UnpinClosure, Fail, DeleteNarFails, StoreOnly
<1>6. ASSUME \/ StartLRU \/ NothingToEvict \/ EndLRU \/ CrashLRU \/ UNCHANGED vars
             \/ \E n \in Nars : DeleteFromStore(n) \/ DeleteFromStoreFails(n)
      PROVE  UNCHANGED <<accessed, clock>>
  BY <1>6 DEF StartLRU, NothingToEvict, EndLRU, CrashLRU, vars, DeleteFromStore,
              DeleteFromStoreFails, StoreOnly
<1> QED
  BY <1>1, <1>2, <1>3, <1>4, <1>5, <1>6 DEF Next, RunLRU, Serve

(* The candidates are closed downwards: what is colder than one is one.    *)
LEMMA CandidatesCold ==
    ASSUME TypeInv, NEW i \in Candidates, NEW j \in Here, accessed[j] <= accessed[i]
    PROVE  j \in Candidates
<1> USE DEF TypeInv, TypeOK, Here, UpTo
<1>1. UpTo(j, Here) \subseteq UpTo(i, Here)
  BY DEF Candidates
<1>2. IsFiniteSet(UpTo(i, Here))
  <2>1. UpTo(i, Here) \subseteq Infos
    OBVIOUS
  <2> QED
    BY <2>1, LoadedAssumption, FS_Subset
<1>3. Cardinality(UpTo(j, Here)) <= Cardinality(UpTo(i, Here))
  BY <1>1, <1>2, FS_Subset
<1>4. /\ IsFiniteSet(UpTo(j, Here))
      /\ Cardinality(UpTo(j, Here)) \in Nat /\ Cardinality(UpTo(i, Here)) \in Nat
  BY <1>1, <1>2, FS_Subset, FS_CardinalityType
<1>5. Cardinality(UpTo(j, Here)) <= MaxFetchRows
  BY <1>3, <1>4, ScenarioFacts DEF Candidates
<1> QED
  BY <1>1, <1>5 DEF Candidates

(* What is evicted was accessed before everything that stays, but for what *)
(* the run keeps.                                                          *)
THEOREM ColdestLeaveFirst == Spec => ColdestFirst
<1>1. TypeInv /\ Stamps /\ [Next]_vars =>
        [\A i, j \in Infos : Leaves(i) /\ Stays(j) /\ j \notin lru.keep
                            => accessed[i] < accessed[j]]_vars
  <2> SUFFICES ASSUME TypeInv, Stamps, [Next]_vars, NEW i \in Infos, NEW j \in Infos,
                      Leaves(i), Stays(j), j \notin lru.keep, ~(accessed[i] < accessed[j])
               PROVE  FALSE
      OBVIOUS
  <2>1. LRUTransaction /\ i \in Evicted
    BY OnlyEvictionRemoves
  <2>2. i # j /\ j \in Here
    BY DEF Leaves, Stays
  <2>3. accessed[j] < accessed[i]
    BY <2>2 DEF Stamps, TypeInv, TypeOK, Leaves, Here
  <2>4. i \in Candidates
    BY <2>1 DEF Evicted, Loose
  <2>5. j \in Candidates
    BY <2>2, <2>3, <2>4, CandidatesCold DEF TypeInv, TypeOK
  <2>6. j \in Loose /\ j \notin Evicted
    BY <2>1, <2>5 DEF Loose, Stays, LRUTransaction, DeleteRows
  <2>7. PICK k \in Loose : accessed[k] < accessed[j] /\ StopsAt(k)
    BY <2>6 DEF Evicted
  <2>8. accessed[k] < accessed[i]
    BY <2>3, <2>7 DEF Loose, Candidates, Here, TypeInv, TypeOK
  <2> QED
    BY <2>1, <2>7, <2>8 DEF Evicted
<1> QED
  BY <1>1, TypeInit, TypeNext, StampsInit, StampsNext, PTL DEF Spec, ColdestFirst

-----------------------------------------------------------------------------
(* Without Compression:none NARs an object has the name of its row.        *)
NamedAfterRow == \A f \in files : f = Own(f[1])

(* The bytes in the store are always accounted for, while nothing fails    *)
(* and no NAR is stored under another name than its row's.                 *)
THEOREM BytesAreAccounted == Spec => []BytesAccounted
<1> DEFINE Inv == Faultless => NamedAfterRow /\ BytesAccounted
<1>1. Init => Inv
  BY DEF Init, NamedAfterRow, BytesAccounted, Faultless, Own
<1>2. TypeInv /\ Inv /\ [Next]_vars => Inv'
  <2> SUFFICES ASSUME TypeInv, Inv, [Next]_vars, Faultless' PROVE Inv'
      OBVIOUS
  <2>0. UNCHANGED scenario /\ Faultless
    BY ScenarioStays DEF Faultless, MayFail, MayCrash, Plain
  <2> USE <2>0, LinkAssumption, ScenarioFacts
      DEF TypeInv, TypeOK, NamedAfterRow, BytesAccounted, Own, Object, Nar, Faultless, Item, Kind,
          Plain
  <2>1. ASSUME NEW t \in Tasks, UploadCheck(t) \/ Touch(t) \/ FetchCheck(t) \/ PinCheck(t)
                               \/ PinInsert(t) \/ UnpinClosure(t) \/ ClearBytesStored(t)
        PROVE Inv'
    BY <2>1 DEF UploadCheck, Touch, FetchCheck, PinCheck, PinInsert, UnpinClosure,
                ClearBytesStored, At, Go, StoreOnly, TablesOnly, Client
  <2>2. ASSUME NEW t \in Tasks, StorePutNar(t) PROVE Inv'
    BY <2>2 DEF StorePutNar, Go, StoreOnly, Client
  <2>3. ASSUME NEW t \in Tasks, StoreGetNar(t) PROVE Inv'
    BY <2>3 DEF StoreGetNar, Go, StoreOnly, Client
  <2>4. ASSUME NEW t \in Tasks, EnsureNarFileRecord(t) PROVE Inv'
    BY <2>4 DEF EnsureNarFileRecord, Go, TablesOnly, Client
  <2>5. ASSUME NEW t \in Tasks, PutNarInfo(t) PROVE Inv'
    BY <2>5 DEF PutNarInfo, StoreInDatabase, At, Go, TablesOnly, Client
  <2>6. ASSUME NEW t \in Tasks, DeleteNar(t) PROVE Inv'
    BY <2>6 DEF DeleteNar, At, Go, StoreOnly, Client
  <2>7. CASE StartLRU
    BY <2>7 DEF StartLRU
  <2>8. CASE LRUTransaction
    BY <2>8 DEF LRUTransaction, Orphans, TablesOnly
  <2>9. CASE NothingToEvict \/ EndLRU
    BY <2>9 DEF NothingToEvict, EndLRU, Idle
  <2>10. ASSUME NEW n \in Nars, DeleteFromStore(n) PROVE Inv'
    BY <2>10 DEF DeleteFromStore, StoreOnly
  <2>11. CASE UNCHANGED vars
    BY <2>11 DEF vars
  <2> QED
    BY <2>1, <2>2, <2>3, <2>4, <2>5, <2>6, <2>7, <2>8, <2>9, <2>10, <2>11
       DEF Next, RunLRU, Serve, Fail, DeleteNarFails, CrashLRU, DeleteFromStoreFails
<1> QED
  <2>1. Inv => BytesAccounted
    BY DEF BytesAccounted
  <2> QED
    BY <1>1, <1>2, <2>1, TypeInit, TypeNext, PTL DEF Spec
=============================================================================
