----------------------------- MODULE LockProofs -----------------------------
(***************************************************************************)
(* What holds of the two Redis locks for any number of processes and       *)
(* clients.                                                                *)
(*                                                                         *)
(* The exclusive lock: the bookkeeping of the circuit breaker and of the   *)
(* fallback's references in every mode and, with degraded mode off and no  *)
(* TTL running out under its holder, exclusion.                            *)
(*                                                                         *)
(* The read-write lock: its types; while no TTL runs out under its holder, *)
(* that writers exclude one another and wait for the readers ahead of      *)
(* them; and that no call removes the key of another process.              *)
(***************************************************************************)
EXTENDS RedisLock, RWLock, FiniteSetTheorems, TLAPS

CircuitType ==
    /\ fails \in [Instances -> 0..Threshold]
    /\ circuit \in [Instances -> {"closed", "open", "half"}]

CircuitInv == CircuitType /\ CircuitCounts

LEMMA CircuitInit == Init => CircuitInv
  BY ThresholdAssumption DEF Init, CircuitInv, CircuitType, CircuitCounts

(* Each operation of the circuit breaker keeps count and state in line.    *)
LEMMA AskKeeps ==
    ASSUME CircuitInv, NEW i \in Instances, Ask(i), UNCHANGED fails
    PROVE  CircuitInv'
  BY DEF CircuitInv, CircuitType, CircuitCounts, Ask

LEMMA SuccessKeeps ==
    ASSUME CircuitInv, NEW i \in Instances, RecordSuccess(i)
    PROVE  CircuitInv'
  BY ThresholdAssumption DEF CircuitInv, CircuitType, CircuitCounts, RecordSuccess

LEMMA FailureKeeps ==
    ASSUME CircuitInv, NEW i \in Instances, RecordFailure(i)
    PROVE  CircuitInv'
  <1>1. fails[i] \in 0..Threshold /\ Threshold \in Nat \ {0}
    BY ThresholdAssumption DEF CircuitInv, CircuitType
  <1>2. CASE fails[i] < Threshold
    <2>1. fails' = [fails EXCEPT ![i] = fails[i] + 1] /\ fails[i] + 1 \in 0..Threshold
      BY <1>1, <1>2 DEF RecordFailure, CircuitInv, CircuitType
    <2> QED
      BY <1>1, <1>2, <2>1 DEF RecordFailure, CircuitInv, CircuitType, CircuitCounts
  <1>3. CASE ~(fails[i] < Threshold)
    <2>1. fails' = fails
      BY <1>3 DEF RecordFailure, CircuitInv, CircuitType
    <2> QED
      BY <1>1, <1>3, <2>1 DEF RecordFailure, CircuitInv, CircuitType, CircuitCounts
  <1> QED
    BY <1>2, <1>3

LEMMA CircuitStep == CircuitInv /\ [Next]_vars => CircuitInv'
  <1> SUFFICES ASSUME CircuitInv, [Next]_vars PROVE CircuitInv'
    OBVIOUS
  <1> USE HomeAssumption
  <1>1. ASSUME UNCHANGED <<fails, circuit>> PROVE CircuitInv'
    BY <1>1 DEF CircuitInv, CircuitType, CircuitCounts
  <1>2. ASSUME NEW c \in Clients, Lock(c) \/ TryLock(c) \/ Extend(c) \/ Unlock(c)
        PROVE  CircuitInv'
    BY <1>2, AskKeeps DEF Lock, TryLock, Begin, Extend, Unlock
  <1>3. ASSUME NEW c \in Clients, LockAttempt(c) \/ TryAttempt(c) PROVE CircuitInv'
    BY <1>1, <1>3, FailureKeeps DEF LockAttempt, TryAttempt, Attempt, Refused
  <1>4. ASSUME NEW c \in Clients, Store(c) PROVE CircuitInv'
    BY <1>4, SuccessKeeps DEF Store
  <1>5. ASSUME NEW c \in Clients,
               LocalLock(c) \/ LocalTry(c) \/ RedisUnlock(c) \/ LocalUnlock(c)
        PROVE  CircuitInv'
    BY <1>1, <1>5 DEF LocalLock, LocalTry, RedisUnlock, LocalUnlock
  <1>6. ASSUME NEW i \in Instances, Cool(i) PROVE CircuitInv'
    BY <1>6 DEF Cool, CircuitInv, CircuitType, CircuitCounts
  <1>7. CASE Toggle \/ Expire \/ (\E i \in Instances : Crash(i)) \/ UNCHANGED vars
    BY <1>1, <1>7 DEF Toggle, Expire, Crash, vars
  <1> QED
    BY <1>2, <1>3, <1>4, <1>5, <1>6, <1>7 DEF Next, Use

(* In every mode, the circuit breaker of a locker is closed exactly while  *)
(* fewer failures than the threshold follow one another.                   *)
THEOREM CircuitCorrect == Spec => []CircuitCounts
  <1>1. CircuitInv => CircuitCounts
    BY DEF CircuitInv
  <1> QED
    BY <1>1, CircuitInit, CircuitStep, PTL DEF Spec

-----------------------------------------------------------------------------
(* With degraded mode off nobody reaches the fallback; from its SET NX to  *)
(* its release a client owns the key, and from the moment it returns from  *)
(* Lock its instance knows its mutex.                                      *)
KeyInv ==
    /\ pc \in [Clients -> Where \ {"localLock", "localTry", "local", "localUnlock"}]
    /\ mutexes \in [Instances -> Owner]
    /\ \A c \in Clients : pc[c] \in {"got", "redis", "unlock"} => key = c
    /\ \A c \in Clients : pc[c] \in {"redis", "unlock"} => mutexes[Home[c]] = c

LEMMA KeyInit == Init => KeyInv
  BY DEF Init, KeyInv, Where, Owner

LEMMA KeyStep ==
    ASSUME Strict, KeyInv, [Next]_vars
    PROVE  KeyInv'
  <1> USE HomeAssumption
  <1>0. ~Degraded /\ ~MayLapse
    BY DEF Strict
  <1>1. ASSUME NEW c \in Clients, Lock(c) \/ TryLock(c) PROVE KeyInv'
    BY <1>0, <1>1 DEF Lock, TryLock, Begin, Go, KeyInv, Where
  <1>2. ASSUME NEW c \in Clients, NEW from \in {"lock", "try"}, NEW to, Attempt(c, from, to)
        PROVE  KeyInv'
    <2>1. CASE LockContext(c, from)
      BY <1>2, <2>1, NobodyAssumption DEF Attempt, LockContext, Go, KeyInv, Where
    <2>2. CASE NotAcquired(c, from)
      BY <1>2, <2>2 DEF Attempt, NotAcquired, Go, KeyInv, Where
    <2>3. CASE Refused(c, from, to)
      BY <1>0, <1>2, <2>3, NobodyAssumption DEF Attempt, Refused, Go, KeyInv, Where
    <2> QED
      BY <1>2, <2>1, <2>2, <2>3 DEF Attempt
  <1>3. ASSUME NEW c \in Clients, Store(c) PROVE KeyInv'
    BY <1>3 DEF Store, Go, KeyInv, Where, Owner
  <1>4. ASSUME NEW c \in Clients, Extend(c) PROVE KeyInv'
    BY <1>4 DEF Extend, KeyInv
  <1>5. ASSUME NEW c \in Clients, Unlock(c) PROVE KeyInv'
    BY <1>0, <1>5 DEF Unlock, Holding, Go, KeyInv, Where
  <1>6. ASSUME NEW c \in Clients, RedisUnlock(c) PROVE KeyInv'
    BY <1>6 DEF RedisUnlock, Go, KeyInv, Where, Owner
  <1>7. ASSUME NEW c \in Clients, LocalLock(c) \/ LocalTry(c) \/ LocalUnlock(c) PROVE FALSE
    BY <1>7 DEF LocalLock, LocalTry, LocalUnlock, Go, KeyInv
  <1>8. ASSUME NEW i \in Instances, Cool(i) \/ Crash(i) PROVE KeyInv'
    BY <1>8 DEF Cool, Crash, Die, KeyInv, Where
  <1>9. CASE Toggle \/ UNCHANGED vars
    BY <1>9 DEF Toggle, vars, KeyInv
  <1>10. CASE Expire
    BY <1>0, <1>10 DEF Expire, KeyInv
  <1> QED
    BY <1>1, <1>2, <1>3, <1>4, <1>5, <1>6, <1>7, <1>8, <1>9, <1>10
       DEF Next, Use, LockAttempt, TryAttempt

(* A mode is for ever.                                                     *)
LEMMA StrictStep == [Next]_vars => (Strict' <=> Strict)
  BY DEF Next, vars, Strict, Degraded, MayLapse

LEMMA StrictKeys == Spec => [](Strict => KeyInv)
  <1>1. (Strict => KeyInv) /\ [Next]_vars => (Strict => KeyInv)'
    BY KeyStep, StrictStep
  <1> QED
    BY <1>1, KeyInit, PTL DEF Spec

(* With degraded mode off, one client of the whole cluster holds the lock, *)
(* while Redis comes and goes and processes die, as long as no TTL runs    *)
(* out under its holder.                                                   *)
THEOREM LockIsExclusive == Spec => []Exclusive
  <1>1. (Strict => KeyInv) => Exclusive
    BY DEF KeyInv, Exclusive, Holding
  <1> QED
    BY <1>1, StrictKeys, PTL

(* Under the same conditions the mutex a holder will release is the one    *)
(* its instance has stored.                                                *)
THEOREM HoldersCanUnlock == Spec => []HolderCanUnlock
  <1>1. (Strict => KeyInv) => HolderCanUnlock
    BY DEF KeyInv, HolderCanUnlock
  <1> QED
    BY <1>1, StrictKeys, PTL

LEMMA ReleaseStep ==
    ASSUME KeyInv, Next,
           NEW c \in Clients, pc[c] = "redis", key = c, key' # c
    PROVE  pc' = pc
  <1>1. ASSUME NEW d \in Clients, Lock(d) \/ TryLock(d) \/ Store(d) \/ Extend(d) \/ Unlock(d)
        PROVE  FALSE
    BY <1>1 DEF Lock, TryLock, Begin, Store, Extend, Unlock
  <1>2. ASSUME NEW d \in Clients, NEW from, NEW to, Attempt(d, from, to) PROVE FALSE
    BY <1>2, NobodyAssumption DEF Attempt, LockContext, NotAcquired, Refused
  <1>3. ASSUME NEW d \in Clients, RedisUnlock(d) PROVE FALSE
    BY <1>3 DEF RedisUnlock, Go, KeyInv
  <1>4. ASSUME NEW d \in Clients, LocalLock(d) \/ LocalTry(d) \/ LocalUnlock(d) PROVE FALSE
    BY <1>4 DEF LocalLock, LocalTry, LocalUnlock
  <1>5. ASSUME Toggle \/ Expire \/ \E i \in Instances : Cool(i) \/ Crash(i) PROVE pc' = pc
    BY <1>5 DEF Toggle, Expire, Cool, Crash
  <1> QED
    BY <1>1, <1>2, <1>3, <1>4, <1>5 DEF Next, Use, LockAttempt, TryAttempt

(* Under the same conditions no Unlock removes the key of another holder.  *)
THEOREM ReleasesOwn == Spec => NoForeignRelease
  <1>1. (Strict => KeyInv) /\ [Next]_vars => [Strict => ~ForeignRelease]_vars
    BY ReleaseStep DEF ForeignRelease
  <1> QED
    BY <1>1, StrictKeys, PTL DEF Spec, NoForeignRelease

-----------------------------------------------------------------------------
(* The reference count of the fallback.  A process dies as a whole, so the *)
(* count of a process is either exact or of no interest to anybody.        *)
DieTogether ==
    \A c, d \in Clients : Home[c] = Home[d] /\ pc[c] = "dead" => pc[d] = "dead"

FallbackType ==
    /\ pc \in [Clients -> Where]
    /\ refs \in [Instances -> Nat]
    /\ locked \in [Instances -> BOOLEAN]

FallbackInv == FallbackType /\ DieTogether /\ RefCounted

Waiting == {"localLock", "localTry"}

LEMMA WaitersFinite ==
    ASSUME NEW i
    PROVE  IsFiniteSet(Waiters(i)) /\ Cardinality(Waiters(i)) \in Nat
  <1>1. Waiters(i) \in SUBSET Clients
    BY DEF Waiters
  <1>2. IsFiniteSet(Waiters(i))
    BY <1>1, ClientsAssumption, FS_Subset
  <1> QED
    BY <1>2, FS_CardinalityType

LEMMA NobodyWaits == Init => \A i : Cardinality(Waiters(i)) = 0
  <1> SUFFICES ASSUME Init, NEW i PROVE Cardinality(Waiters(i)) = 0
    OBVIOUS
  <1>1. Waiters(i) = {}
    BY DEF Init, Waiters
  <1> QED
    BY <1>1, FS_EmptySet

LEMMA FallbackInit == Init => FallbackInv
  <1> SUFFICES ASSUME Init PROVE FallbackInv
    OBVIOUS
  <1>1. FallbackType /\ DieTogether
    BY DEF Init, FallbackType, DieTogether, Where
  <1>2. RefCounted
    BY NobodyWaits DEF Init, RefCounted
  <1> QED
    BY <1>1, <1>2 DEF FallbackInv

(* What the move of one client does to the waiters of its process and of   *)
(* the others.                                                             *)
LEMMA Moved ==
    ASSUME pc \in [Clients -> Where], NEW c \in Clients, NEW to \in Where \ {"dead"},
           pc' = [pc EXCEPT ![c] = to], pc[c] # "dead", DieTogether
    PROVE  /\ pc' \in [Clients -> Where]
           /\ DieTogether'
           /\ \A i \in Instances : Alive(i)' => Alive(i)
           /\ \A i \in Instances \ {Home[c]} : Waiters(i)' = Waiters(i)
  <1>1. pc' \in [Clients -> Where]
    OBVIOUS
  <1>2. DieTogether'
    BY DEF DieTogether
  <1>3. \A i \in Instances : Alive(i)' => Alive(i)
    BY DEF Alive
  <1>4. \A i \in Instances \ {Home[c]} : Waiters(i)' = Waiters(i)
    BY DEF Waiters
  <1> QED
    BY <1>1, <1>2, <1>3, <1>4

LEMMA Enters ==
    ASSUME pc \in [Clients -> Where], NEW c \in Clients, NEW to \in Waiting,
           pc' = [pc EXCEPT ![c] = to], pc[c] \notin Waiting
    PROVE  Cardinality(Waiters(Home[c]))' = Cardinality(Waiters(Home[c])) + 1
  <1>1. Waiters(Home[c])' = Waiters(Home[c]) \cup {c} /\ c \notin Waiters(Home[c])
    BY DEF Waiters, Waiting
  <1> DEFINE W == Waiters(Home[c])
  <1>2. IsFiniteSet(W)
    BY WaitersFinite
  <1> HIDE DEF W
  <1>3. c \notin W => Cardinality(W \cup {c}) = Cardinality(W) + 1
    BY <1>2, FS_AddElement
  <1> QED
    BY <1>1, <1>3 DEF W

LEMMA Leaves ==
    ASSUME pc \in [Clients -> Where], NEW c \in Clients, NEW to \in Where \ Waiting,
           pc' = [pc EXCEPT ![c] = to], pc[c] \in Waiting
    PROVE  Cardinality(Waiters(Home[c]))' = Cardinality(Waiters(Home[c])) - 1
  <1>1. Waiters(Home[c])' = Waiters(Home[c]) \ {c} /\ c \in Waiters(Home[c])
    BY DEF Waiters, Waiting
  <1> DEFINE W == Waiters(Home[c])
  <1>2. IsFiniteSet(W)
    BY WaitersFinite
  <1> HIDE DEF W
  <1>3. c \in W => Cardinality(W \ {c}) = Cardinality(W) - 1
    BY <1>2, FS_RemoveElement
  <1> QED
    BY <1>1, <1>3 DEF W

LEMMA StaysOut ==
    ASSUME pc \in [Clients -> Where], NEW c \in Clients, NEW to \in Where \ Waiting,
           pc' = [pc EXCEPT ![c] = to], pc[c] \notin Waiting
    PROVE  Waiters(Home[c])' = Waiters(Home[c])
  BY DEF Waiters, Waiting

(* The three ways a step keeps the count: it does not touch the fallback,  *)
(* it changes one process in step with its waiters, it ends a process.     *)
LEMMA FallbackIdle ==
    ASSUME FallbackInv, NEW c \in Clients, NEW to \in Where \ (Waiting \cup {"dead"}),
           pc' = [pc EXCEPT ![c] = to], pc[c] \notin Waiting \cup {"dead"},
           UNCHANGED <<locked, refs>>
    PROVE  FallbackInv'
  <1>0. FallbackType /\ DieTogether /\ RefCounted
    BY DEF FallbackInv
  <1>1. pc' \in [Clients -> Where] /\ DieTogether' /\ \A i \in Instances : Alive(i)' => Alive(i)
    BY <1>0, Moved DEF FallbackType
  <1>2. \A i \in Instances : Waiters(i)' = Waiters(i)
    BY <1>0, Moved, StaysOut DEF FallbackType
  <1>3. RefCounted'
    BY <1>0, <1>1, <1>2 DEF RefCounted
  <1> QED
    BY <1>0, <1>1, <1>3 DEF FallbackInv, FallbackType

LEMMA FallbackMoves ==
    ASSUME FallbackInv, NEW c \in Clients, NEW to \in Where \ {"dead"},
           pc' = [pc EXCEPT ![c] = to], pc[c] # "dead",
           NEW n \in Nat, NEW l \in BOOLEAN,
           refs' = [refs EXCEPT ![Home[c]] = n],
           locked' = [locked EXCEPT ![Home[c]] = l],
           n = Cardinality(Waiters(Home[c]))' + IF l THEN 1 ELSE 0
    PROVE  FallbackInv'
  <1>0. FallbackType /\ DieTogether /\ RefCounted /\ Home[c] \in Instances
    BY HomeAssumption DEF FallbackInv
  <1>1. /\ pc' \in [Clients -> Where] /\ DieTogether'
        /\ \A i \in Instances : Alive(i)' => Alive(i)
        /\ \A i \in Instances \ {Home[c]} : Waiters(i)' = Waiters(i)
    BY <1>0, Moved DEF FallbackType
  <1>2. FallbackType'
    BY <1>0, <1>1 DEF FallbackType
  <1>3. ASSUME NEW i \in Instances, Alive(i)'
        PROVE  refs'[i] = Cardinality(Waiters(i))' + IF locked'[i] THEN 1 ELSE 0
    <2>1. CASE i = Home[c]
      BY <1>0, <2>1 DEF FallbackType
    <2>2. CASE i # Home[c]
      <3>1. Cardinality(Waiters(i))' = Cardinality(Waiters(i)) /\ Alive(i)
        BY <1>1, <1>3, <2>2
      <3>2. refs'[i] = refs[i] /\ locked'[i] = locked[i]
        BY <1>0, <2>2 DEF FallbackType
      <3> QED
        BY <1>0, <3>1, <3>2 DEF RefCounted
    <2> QED
      BY <2>1, <2>2
  <1>4. RefCounted'
    BY <1>3 DEF RefCounted
  <1> QED
    BY <1>1, <1>2, <1>4 DEF FallbackInv

LEMMA FallbackDies ==
    ASSUME FallbackInv, NEW j \in Instances, Die(j), UNCHANGED <<locked, refs>>
    PROVE  FallbackInv'
  <1>0. FallbackType /\ DieTogether /\ RefCounted
    BY DEF FallbackInv
  <1>1. FallbackType'
    BY <1>0 DEF FallbackType, Die, Where
  <1>2. DieTogether'
    BY <1>0 DEF DieTogether, Die
  <1>3. ASSUME NEW i \in Instances, Alive(i)'
        PROVE  Waiters(i)' = Waiters(i) /\ Alive(i)
    <2>1. i # j
      BY <1>3 DEF Alive, Die
    <2> QED
      BY <1>3, <2>1 DEF Alive, Waiters, Die
  <1>4. RefCounted'
    BY <1>0, <1>3 DEF RefCounted
  <1> QED
    BY <1>1, <1>2, <1>4 DEF FallbackInv

(* getLock of the fallback: one more waiter, one more reference.           *)
LEMMA GetLockKeeps ==
    ASSUME FallbackInv, NEW c \in Clients, NEW from \in Where \ (Waiting \cup {"dead"}),
           NEW to \in Waiting, GetLock(c, from, to), UNCHANGED locked
    PROVE  FallbackInv'
  <1> DEFINE i == Home[c]
             n == refs[i] + 1
             l == locked[i]
  <1>1. FallbackType /\ i \in Instances /\ c \in Clients
    BY HomeAssumption DEF FallbackInv
  <1>2. /\ pc[c] = from /\ pc' = [pc EXCEPT ![c] = to] /\ to \in Where \ {"dead"}
        /\ from \notin Waiting /\ from # "dead"
    BY DEF GetLock, Go, Waiting, Where
  <1>3. Alive(i)
    BY <1>2 DEF Alive
  <1>4. n = Cardinality(Waiters(i)) + 1 + IF l THEN 1 ELSE 0
    BY <1>1, <1>3, WaitersFinite DEF FallbackInv, RefCounted
  <1>5. Cardinality(Waiters(i))' = Cardinality(Waiters(i)) + 1
    BY <1>1, <1>2, Enters DEF FallbackType
  <1>6. n = Cardinality(Waiters(i))' + IF l THEN 1 ELSE 0
    BY <1>4, <1>5, WaitersFinite
  <1>7. n \in Nat /\ l \in BOOLEAN
    BY <1>1 DEF FallbackType
  <1>8. refs' = [refs EXCEPT ![i] = n] /\ locked' = [locked EXCEPT ![i] = l]
    BY <1>1 DEF GetLock, FallbackType
  <1> HIDE DEF n, l
  <1> QED
    BY <1>2, <1>6, <1>7, <1>8, FallbackMoves DEF i

(* A waiter gets the mutex: its reference becomes the holder's.            *)
LEMMA LocalAcquired ==
    ASSUME FallbackInv, NEW c \in Clients, pc[c] \in Waiting, ~locked[Home[c]],
           pc' = [pc EXCEPT ![c] = "local"],
           locked' = [locked EXCEPT ![Home[c]] = TRUE], UNCHANGED refs
    PROVE  FallbackInv'
  <1> DEFINE i == Home[c]
             n == refs[i]
  <1>1. FallbackType /\ i \in Instances
    BY HomeAssumption DEF FallbackInv
  <1>2. pc[c] # "dead" /\ "local" \in Where \ {"dead"} /\ "local" \in Where \ Waiting
    BY DEF Waiting, Where
  <1>3. Alive(i)
    BY <1>2 DEF Alive
  <1>4. n = Cardinality(Waiters(i))
    BY <1>1, <1>3, WaitersFinite DEF FallbackInv, RefCounted
  <1>5. Cardinality(Waiters(i))' = Cardinality(Waiters(i)) - 1
    BY <1>1, <1>2, Leaves DEF FallbackType
  <1>6. n = Cardinality(Waiters(i))' + IF TRUE THEN 1 ELSE 0
    BY <1>4, <1>5, WaitersFinite
  <1>7. n \in Nat
    BY <1>1 DEF FallbackType
  <1>8. refs' = [refs EXCEPT ![i] = n]
    BY <1>1 DEF FallbackType
  <1> HIDE DEF n
  <1> QED
    BY <1>2, <1>6, <1>7, <1>8, FallbackMoves DEF i

(* A TryLock that finds the mutex taken returns its reference.             *)
LEMMA LocalRefused ==
    ASSUME FallbackInv, NEW c \in Clients, pc[c] \in Waiting, locked[Home[c]],
           pc' = [pc EXCEPT ![c] = "idle"], UNCHANGED locked,
           refs' = [refs EXCEPT ![Home[c]] = @ - 1]
    PROVE  FallbackInv'
  <1> DEFINE i == Home[c]
             n == refs[i] - 1
  <1>1. FallbackType /\ i \in Instances
    BY HomeAssumption DEF FallbackInv
  <1>2. pc[c] # "dead" /\ "idle" \in Where \ {"dead"} /\ "idle" \in Where \ Waiting
    BY DEF Waiting, Where
  <1>3. Alive(i)
    BY <1>2 DEF Alive
  <1>4. refs[i] = Cardinality(Waiters(i)) + 1
    BY <1>1, <1>3, WaitersFinite DEF FallbackInv, RefCounted
  <1>5. Cardinality(Waiters(i))' = Cardinality(Waiters(i)) - 1
    BY <1>1, <1>2, Leaves DEF FallbackType
  <1>6. n = Cardinality(Waiters(i))' + IF TRUE THEN 1 ELSE 0
    BY <1>4, <1>5, WaitersFinite
  <1>7. n \in Nat
    BY <1>4, WaitersFinite
  <1>8. refs' = [refs EXCEPT ![i] = n] /\ locked' = [locked EXCEPT ![i] = TRUE]
    BY <1>1 DEF FallbackType
  <1> HIDE DEF n
  <1> QED
    BY <1>2, <1>6, <1>7, <1>8, FallbackMoves DEF i

(* Unlock of a locked mutex, whoever it was routed here for.               *)
LEMMA LocalReleased ==
    ASSUME FallbackInv, NEW c \in Clients, pc[c] = "localUnlock", locked[Home[c]],
           pc' = [pc EXCEPT ![c] = "idle"],
           locked' = [locked EXCEPT ![Home[c]] = FALSE],
           refs' = [refs EXCEPT ![Home[c]] = @ - 1]
    PROVE  FallbackInv'
  <1> DEFINE i == Home[c]
             n == refs[i] - 1
  <1>1. FallbackType /\ i \in Instances
    BY HomeAssumption DEF FallbackInv
  <1>2. /\ pc[c] # "dead" /\ pc[c] \notin Waiting
        /\ "idle" \in Where \ {"dead"} /\ "idle" \in Where \ Waiting
    BY DEF Waiting, Where
  <1>3. Alive(i)
    BY <1>2 DEF Alive
  <1>4. refs[i] = Cardinality(Waiters(i)) + 1
    BY <1>1, <1>3, WaitersFinite DEF FallbackInv, RefCounted
  <1>5. Waiters(i)' = Waiters(i)
    BY <1>1, <1>2, StaysOut DEF FallbackType
  <1>6. n = Cardinality(Waiters(i))' + IF FALSE THEN 1 ELSE 0
    BY <1>4, <1>5, WaitersFinite
  <1>7. n \in Nat
    BY <1>4, WaitersFinite
  <1>8. refs' = [refs EXCEPT ![i] = n]
    BY <1>1 DEF FallbackType
  <1> HIDE DEF n
  <1> QED
    BY <1>2, <1>6, <1>7, <1>8, FallbackMoves DEF i

LEMMA FallbackStep == FallbackInv /\ [Next]_vars => FallbackInv'
  <1> SUFFICES ASSUME FallbackInv, [Next]_vars PROVE FallbackInv'
    OBVIOUS
  <1> USE HomeAssumption
  <1>0. ASSUME UNCHANGED <<pc, locked, refs>> PROVE FallbackInv'
    <2>1. \A i \in Instances : Waiters(i)' = Waiters(i) /\ Alive(i)' = Alive(i)
      BY <1>0 DEF Waiters, Alive
    <2>2. RefCounted'
      BY <1>0, <2>1 DEF FallbackInv, RefCounted
    <2>3. FallbackType' /\ DieTogether'
      BY <1>0 DEF FallbackInv, FallbackType, DieTogether
    <2> QED
      BY <2>2, <2>3 DEF FallbackInv
  <1>1. ASSUME NEW c \in Clients, NEW redis \in {"lock", "try"}, NEW fallback \in Waiting,
               Begin(c, redis, fallback)
        PROVE  FallbackInv'
    <2>1. CASE Go(c, "idle", redis) /\ UNCHANGED refs
      BY <1>1, <2>1, FallbackIdle DEF Begin, Go, Where, Waiting
    <2>2. CASE GetLock(c, "idle", fallback)
      BY <1>1, <2>2, GetLockKeeps DEF Begin, Where, Waiting
    <2> QED
      BY <1>1, <2>1, <2>2 DEF Begin
  <1>2. ASSUME NEW c \in Clients, NEW from \in {"lock", "try"}, NEW fallback \in Waiting,
               Attempt(c, from, fallback)
        PROVE  FallbackInv'
    <2>1. CASE GetLock(c, from, fallback)
      BY <1>2, <2>1, GetLockKeeps DEF Attempt, Where, Waiting
    <2>2. CASE Go(c, from, "idle") /\ UNCHANGED refs
      BY <1>2, <2>2, FallbackIdle DEF Attempt, Go, Where, Waiting
    <2>3. CASE Go(c, from, "got") /\ UNCHANGED refs
      BY <1>2, <2>3, FallbackIdle DEF Attempt, Go, Where, Waiting
    <2>4. CASE Go(c, from, from) /\ UNCHANGED refs
      BY <1>2, <2>4, FallbackIdle DEF Attempt, Go, Where, Waiting
    <2> QED
      BY <1>2, <2>1, <2>2, <2>3, <2>4 DEF Attempt, LockContext, NotAcquired, Refused
  <1>3. ASSUME NEW c \in Clients, Store(c) \/ RedisUnlock(c) PROVE FallbackInv'
    BY <1>3, FallbackIdle DEF Store, RedisUnlock, Go, Where, Waiting
  <1>4. ASSUME NEW c \in Clients, LocalLock(c) \/ LocalTry(c) PROVE FallbackInv'
    BY <1>4, LocalAcquired, LocalRefused DEF LocalLock, LocalTry, Go, Waiting
  <1>5. ASSUME NEW c \in Clients, Unlock(c) PROVE FallbackInv'
    BY <1>5, FallbackIdle DEF Unlock, Holding, Go, Where, Waiting
  <1>6. ASSUME NEW c \in Clients, LocalUnlock(c) PROVE FallbackInv'
    <2>1. CASE refs[Home[c]] = 0
      BY <1>6, <2>1, FallbackIdle DEF LocalUnlock, Go, Where, Waiting
    <2>2. CASE refs[Home[c]] > 0 /\ locked[Home[c]]
      BY <1>6, <2>2, LocalReleased DEF LocalUnlock, Go, FallbackInv, FallbackType
    <2>3. CASE Die(Home[c]) /\ UNCHANGED <<locked, refs>>
      BY <2>3, FallbackDies
    <2> QED
      BY <1>6, <2>1, <2>2, <2>3 DEF LocalUnlock
  <1>7. ASSUME NEW i \in Instances, Crash(i) PROVE FallbackInv'
    BY <1>7, FallbackDies DEF Crash
  <1>8. CASE \/ \E c \in Clients : Extend(c)
             \/ \E i \in Instances : Cool(i)
             \/ Toggle \/ Expire \/ UNCHANGED vars
    BY <1>0, <1>8 DEF Extend, Cool, Toggle, Expire, vars
  <1>9. "localLock" \in Waiting /\ "localTry" \in Waiting
    BY DEF Waiting
  <1> QED
    BY <1>1, <1>2, <1>3, <1>4, <1>5, <1>6, <1>7, <1>8, <1>9
       DEF Next, Use, Lock, TryLock, LockAttempt, TryAttempt

(* In every mode, with the circuit opening and closing between the Lock    *)
(* and the Unlock of a client and Unlocks sent to the fallback for locks   *)
(* it never gave, the refCount of a live process is exactly its waiters    *)
(* and its holder: no keyLock leaves the map under a waiter, none stays.   *)
THEOREM ReferencesCounted == Spec => []RefCounted
  <1>1. FallbackInv => RefCounted
    BY DEF FallbackInv
  <1> QED
    BY <1>1, FallbackInit, FallbackStep, PTL DEF Spec

-----------------------------------------------------------------------------
(* The read-write lock.                                                    *)

LEMMA RWTypeInit == RWInit => RWTypeOK
  BY HomeAssumption, RWModeAssumption
     DEF RWInit, RWTypeOK, MaxAttempts, Owner, Entry, NoReaders, RWWhere

(* The commands of the lock keep their variables in their types.           *)
LEMMA ScriptType ==
    ASSUME RWTypeOK, NEW t, UnlockScript(t)
    PROVE  writer' \in Owner
  BY DEF RWTypeOK, UnlockScript, Owner

LEMMA SetType ==
    ASSUME RWTypeOK, NEW c \in Clients, SetNX(c)
    PROVE  writer' \in Owner /\ ahead' \subseteq Clients
  <1>1. Listed \in SUBSET Clients
    BY DEF Listed
  <1> QED
    BY <1>1 DEF RWTypeOK, SetNX, Owner

LEMMA AttemptsType == RWTypeOK => MaxAttempts \in Nat \ {0}
  BY RWModeAssumption DEF RWTypeOK, MaxAttempts

(* A mode is for ever.                                                     *)
LEMMA ModeStep ==
    [RWNext]_rwvars
        => rwmode' = rwmode /\ MaxAttempts' = MaxAttempts /\ (RWMayLapse' <=> RWMayLapse)
  BY DEF RWNext, rwvars, MaxAttempts, RWMayLapse

LEMMA PurgeType ==
    ASSUME RWTypeOK, NEW c \in Clients, Purge(c)
    PROVE  /\ readers' \in [Instances -> Entry]
           /\ snap' \in [Clients -> [Instances -> Entry]]
  BY DEF RWTypeOK, Purge, Entry, NoReaders

LEMMA GoType ==
    ASSUME RWTypeOK, NEW c \in Clients, NEW from, NEW to \in RWWhere, RWGo(c, from, to)
    PROVE  rwpc' \in [Clients -> RWWhere]
  BY DEF RWTypeOK, RWGo

LEMMA AgainType ==
    ASSUME RWTypeOK, NEW c \in Clients, NEW from, Again(c, from)
    PROVE  /\ rwpc' \in [Clients -> RWWhere]
           /\ attempt' \in [Clients -> 0..MaxAttempts - 1]
  <1>1. \A n \in 0..MaxAttempts - 1 : n + 1 < MaxAttempts => n + 1 \in 0..MaxAttempts - 1
    BY AttemptsType
  <1>2. 0 \in 0..MaxAttempts - 1
    BY AttemptsType
  <1>3. attempt[c] \in 0..MaxAttempts - 1
    BY DEF RWTypeOK
  <1>4. rwpc' \in [Clients -> RWWhere]
    BY GoType DEF Again, Return, RWWhere
  <1>5. CASE attempt' = [attempt EXCEPT ![c] = attempt[c] + 1] /\ attempt[c] + 1 < MaxAttempts
    BY <1>1, <1>3, <1>4, <1>5 DEF RWTypeOK
  <1>6. CASE attempt' = [attempt EXCEPT ![c] = 0]
    BY <1>2, <1>4, <1>6 DEF RWTypeOK
  <1> QED
    BY <1>5, <1>6 DEF Again, Return

LEMMA ReturnType ==
    ASSUME RWTypeOK, NEW c \in Clients, NEW from, NEW to \in {"idle", "writing"},
           Return(c, from, to)
    PROVE  /\ rwpc' \in [Clients -> RWWhere]
           /\ attempt' \in [Clients -> 0..MaxAttempts - 1]
  <1>1. 0 \in 0..MaxAttempts - 1
    BY AttemptsType
  <1>2. rwpc' \in [Clients -> RWWhere]
    BY GoType DEF Return, RWWhere, Writing
  <1> QED
    BY <1>1, <1>2 DEF RWTypeOK, Return

LEMMA RWTypeStep == RWTypeOK /\ [RWNext]_rwvars => RWTypeOK'
  <1> SUFFICES ASSUME RWTypeOK, [RWNext]_rwvars PROVE RWTypeOK'
    OBVIOUS
  <1>0. rwmode' = rwmode /\ MaxAttempts' = MaxAttempts
    BY ModeStep
  <1> USE HomeAssumption, <1>0
  <1>1. ASSUME NEW c \in Clients, RLock(c) \/ RWait(c) \/ WLock(c) PROVE RWTypeOK'
    BY <1>1, GoType DEF RWTypeOK, RLock, RWait, WLock, RWWhere
  <1>2. ASSUME NEW c \in Clients, RAdd(c) PROVE RWTypeOK'
    BY <1>2, GoType DEF RWTypeOK, RAdd, RWWhere, Entry
  <1>3. ASSUME NEW c \in Clients, RUnlock(c) PROVE RWTypeOK'
    BY <1>3, GoType DEF RWTypeOK, RUnlock, RWWhere, Entry
  <1>4. ASSUME NEW c \in Clients, WStore(c) PROVE RWTypeOK'
    BY <1>4, GoType DEF RWTypeOK, WStore, RWWhere, Writing, Owner
  <1>5. ASSUME NEW c \in Clients, Acquire(c) PROVE RWTypeOK'
    <2>1. CASE RWGo(c, "set", "store") /\ SetNX(c) /\ UNCHANGED attempt
      BY <1>5, <2>1, SetType, GoType DEF RWTypeOK, Acquire, RWWhere, Writing
    <2>2. CASE Again(c, "set") /\ UNCHANGED <<writer, ahead>>
      BY <1>5, <2>2, AgainType DEF RWTypeOK, Acquire
    <2>3. CASE SetNX(c) /\ Again(c, "set")
      BY <1>5, <2>3, SetType, AgainType DEF RWTypeOK, Acquire
    <2> QED
      BY <1>5, <2>1, <2>2, <2>3 DEF Acquire
  <1>6. ASSUME NEW c \in Clients, Scan(c) PROVE RWTypeOK'
    <2>1. CASE RWGo(c, "scan", "look") /\ snap' = [snap EXCEPT ![c] = readers]
               /\ UNCHANGED <<writer, tokens, attempt>>
      BY <1>6, <2>1, GoType DEF RWTypeOK, Scan, RWWhere, Writing
    <2>2. CASE /\ Again(c, "scan") /\ UnlockScript(c)
               /\ tokens' = [tokens EXCEPT ![Home[c]] = Nobody] /\ UNCHANGED snap
      BY <1>6, <2>2, AgainType, ScriptType DEF RWTypeOK, Scan, Owner
    <2> QED
      BY <1>6, <2>1, <2>2 DEF Scan
  <1>7. ASSUME NEW c \in Clients, Look(c) PROVE RWTypeOK'
    <2>1. readers' \in [Instances -> Entry] /\ snap' \in [Clients -> [Instances -> Entry]]
      BY <1>7, PurgeType DEF Look
    <2>2. CASE Return(c, "look", "writing") /\ UNCHANGED <<writer, tokens>>
      BY <1>7, <2>1, <2>2, ReturnType DEF RWTypeOK, Look
    <2>3. CASE RWGo(c, "look", "scan") /\ UNCHANGED <<writer, tokens, attempt>>
      BY <1>7, <2>1, <2>3, GoType DEF RWTypeOK, Look, RWWhere, Writing
    <2>4. CASE /\ Again(c, "look") \/ Return(c, "look", "idle")
               /\ UnlockScript(c) /\ tokens' = [tokens EXCEPT ![Home[c]] = Nobody]
      BY <1>7, <2>1, <2>4, AgainType, ReturnType, ScriptType DEF RWTypeOK, Look, Owner
    <2> QED
      BY <1>7, <2>2, <2>3, <2>4 DEF Look
  <1>8. ASSUME NEW c \in Clients, WUnlock(c) PROVE RWTypeOK'
    BY <1>8, ScriptType, GoType DEF RWTypeOK, WUnlock, Owner, RWWhere
  <1>9. ASSUME NEW c \in Clients, WTryLock(c) PROVE RWTypeOK'
    BY <1>9, SetType, GoType DEF RWTypeOK, WTryLock, RWWhere, Writing
  <1>10. ASSUME NEW c \in Clients, TryScan(c) PROVE RWTypeOK'
    BY <1>10, ScriptType, GoType DEF RWTypeOK, TryScan, RWWhere, Writing
  <1>11. ASSUME NEW c \in Clients, TryLook(c) PROVE RWTypeOK'
    <2>1. /\ readers' \in [Instances -> Entry] /\ snap' \in [Clients -> [Instances -> Entry]]
          /\ rwpc' \in [Clients -> RWWhere]
      BY <1>11, PurgeType, GoType DEF TryLook, RWWhere, Writing
    <2>2. writer' \in Owner /\ tokens' \in [Instances -> Owner]
      BY <1>11, ScriptType DEF RWTypeOK, TryLook, Owner
    <2> QED
      BY <1>11, <2>1, <2>2 DEF RWTypeOK, TryLook
  <1>12. CASE ExpireWriter
    BY <1>12 DEF RWTypeOK, ExpireWriter, Owner
  <1>13. ASSUME NEW i \in Instances, ExpireReader(i) PROVE RWTypeOK'
    BY <1>13 DEF RWTypeOK, ExpireReader, Entry
  <1>14. ASSUME NEW i \in Instances, RWCrash(i) PROVE RWTypeOK'
    <2>1. rwpc' \in [Clients -> RWWhere]
      BY <1>14 DEF RWTypeOK, RWCrash, RWWhere
    <2>2. tokens' \in [Instances -> Owner] /\ ahead' \subseteq Clients
      BY <1>14 DEF RWTypeOK, RWCrash, Owner
    <2> QED
      BY <1>14, <2>1, <2>2 DEF RWTypeOK, RWCrash
  <1>15. CASE UNCHANGED rwvars
    BY <1>15 DEF RWTypeOK, rwvars
  <1> QED
    BY <1>1, <1>2, <1>5, <1>6, <1>7, <1>8, <1>9, <1>10, <1>11, <1>12, <1>13, <1>15,
       <1>3, <1>4, <1>14
       DEF RWNext, RWBegin, RWStep, Finish

(* Every state of the lock is well typed; no Lock makes more than          *)
(* MaxAttempts attempts.                                                   *)
THEOREM RWTypeCorrect == RWSpec => []RWTypeOK
  BY RWTypeInit, RWTypeStep, PTL DEF RWSpec

-----------------------------------------------------------------------------
(* Between its SetNX and its Unlock a writer owns the key: nothing deletes *)
(* it but its own token.  This is the inductive form of WritersExclude.    *)
OwnsKey == \A c \in Clients : rwpc[c] \in Writing => writer = c

LEMMA OwnsStep ==
    ASSUME ~RWMayLapse, RWTypeOK, OwnsKey, [RWNext]_rwvars
    PROVE  OwnsKey'
  <1>1. ASSUME NEW c \in Clients,
               RLock(c) \/ RWait(c) \/ RAdd(c) \/ RUnlock(c) \/ WLock(c)
        PROVE  OwnsKey'
    BY <1>1 DEF RWTypeOK, OwnsKey, RLock, RWait, RAdd, RUnlock, WLock, RWGo, Writing
  <1>2. ASSUME NEW c \in Clients, WStore(c) PROVE OwnsKey'
    BY <1>2 DEF RWTypeOK, OwnsKey, WStore, RWGo, Writing
  <1>3. ASSUME NEW c \in Clients, Acquire(c) PROVE OwnsKey'
    <2>1. CASE RWGo(c, "set", "store") /\ SetNX(c)
      BY <2>1, NobodyAssumption DEF RWTypeOK, OwnsKey, SetNX, RWGo
    <2>2. CASE Again(c, "set") /\ UNCHANGED writer
      BY <2>2 DEF RWTypeOK, OwnsKey, Again, Return, RWGo, Writing
    <2>3. CASE SetNX(c) /\ Again(c, "set")
      BY <2>3, NobodyAssumption DEF RWTypeOK, OwnsKey, SetNX, Again, Return, RWGo, Writing
    <2> QED
      BY <1>3, <2>1, <2>2, <2>3 DEF Acquire
  <1>4. ASSUME NEW c \in Clients, Scan(c) PROVE OwnsKey'
    <2>1. CASE RWGo(c, "scan", "look") /\ UNCHANGED writer
      BY <2>1 DEF RWTypeOK, OwnsKey, RWGo, Writing
    <2>2. CASE Again(c, "scan") /\ UnlockScript(c)
      BY <2>2 DEF RWTypeOK, OwnsKey, UnlockScript, Again, Return, RWGo, Writing
    <2> QED
      BY <1>4, <2>1, <2>2 DEF Scan
  <1>5. ASSUME NEW c \in Clients, Look(c) PROVE OwnsKey'
    <2>1. CASE (Return(c, "look", "writing") \/ RWGo(c, "look", "scan")) /\ UNCHANGED writer
      BY <2>1 DEF RWTypeOK, OwnsKey, Return, RWGo, Writing
    <2>2. CASE (Again(c, "look") \/ Return(c, "look", "idle")) /\ UnlockScript(c)
      BY <2>2 DEF RWTypeOK, OwnsKey, UnlockScript, Again, Return, RWGo, Writing
    <2> QED
      BY <1>5, <2>1, <2>2 DEF Look
  <1>6. ASSUME NEW c \in Clients, WUnlock(c) PROVE OwnsKey'
    <2>1. writer = c /\ \A d \in Clients \ {c} : rwpc[d] \notin Writing
      BY <1>6 DEF OwnsKey, WUnlock, RWGo, Writing
    <2> QED
      BY <1>6, <2>1 DEF RWTypeOK, OwnsKey, WUnlock, RWGo, Writing
  <1>7. ASSUME NEW c \in Clients, WTryLock(c) PROVE OwnsKey'
    BY <1>7, NobodyAssumption DEF RWTypeOK, OwnsKey, WTryLock, SetNX, RWGo, Writing
  <1>8. ASSUME NEW c \in Clients, TryScan(c) \/ TryLook(c) PROVE OwnsKey'
    BY <1>8 DEF RWTypeOK, OwnsKey, TryScan, TryLook, UnlockScript, RWGo, Writing
  <1>9. CASE ExpireWriter
    BY <1>9 DEF OwnsKey, ExpireWriter
  <1>10. ASSUME NEW i \in Instances, ExpireReader(i) \/ RWCrash(i) PROVE OwnsKey'
    BY <1>10 DEF RWTypeOK, OwnsKey, ExpireReader, RWCrash, Writing
  <1>11. CASE UNCHANGED rwvars
    BY <1>11 DEF OwnsKey, rwvars
  <1> QED
    BY <1>1, <1>2, <1>3, <1>4, <1>5, <1>6, <1>7, <1>8, <1>9, <1>10, <1>11
       DEF RWNext, RWBegin, RWStep, Finish

(* For any number of processes and clients, and although Redis commands    *)
(* fail and processes die, two clients never write at once as long as no   *)
(* TTL runs out under its holder.                                          *)
THEOREM WritersAreExclusive == RWSpec => []WritersExclude
  <1>1. RWInit => OwnsKey
    BY DEF RWInit, OwnsKey, Writing
  <1>2. (~RWMayLapse => OwnsKey) => WritersExclude
    BY DEF OwnsKey, WritersExclude, Writing
  <1>3. ~RWMayLapse /\ RWTypeOK /\ OwnsKey /\ [RWNext]_rwvars => OwnsKey'
    BY OwnsStep
  <1>4. (~RWMayLapse => OwnsKey) /\ RWTypeOK /\ [RWNext]_rwvars => (~RWMayLapse => OwnsKey)'
    BY <1>3, ModeStep
  <1> QED
    BY <1>1, <1>2, <1>4, RWTypeCorrect, PTL DEF RWSpec

-----------------------------------------------------------------------------
(* An instance stores the tokens of its own clients only.                  *)
OwnTokens ==
    \A i \in Instances : tokens[i] # Nobody => tokens[i] \in Clients /\ Home[tokens[i]] = i

LEMMA TokensStep ==
    ASSUME RWTypeOK, OwnTokens, [RWNext]_rwvars
    PROVE  OwnTokens'
  <1> USE HomeAssumption
  <1>1. ASSUME NEW c \in Clients, UNCHANGED tokens \/ tokens' = [tokens EXCEPT ![Home[c]] = Nobody]
                                    \/ tokens' = [tokens EXCEPT ![Home[c]] = c]
        PROVE  OwnTokens'
    BY <1>1, ZenonT(60) DEF RWTypeOK, OwnTokens
  <1>2. ASSUME NEW c \in Clients, RWBegin(c) \/ RWStep(c) \/ Finish(c) PROVE OwnTokens'
    BY <1>1, <1>2 DEF RWBegin, RLock, WLock, WTryLock, RWStep, RWait, RAdd, Acquire, WStore, Scan,
       Look, TryScan, TryLook, Finish, RUnlock, WUnlock
  <1>3. CASE ExpireWriter \/ UNCHANGED rwvars
    BY <1>3 DEF OwnTokens, ExpireWriter, rwvars
  <1>4. ASSUME NEW i \in Instances, ExpireReader(i) \/ RWCrash(i) PROVE OwnTokens'
    BY <1>4 DEF RWTypeOK, OwnTokens, ExpireReader, RWCrash
  <1> QED
    BY <1>2, <1>3, <1>4 DEF RWNext

(* Deletions of the writer key, by the action that makes them.             *)
LEMMA ForeignStep ==
    ASSUME RWTypeOK, OwnTokens, RWNext, NEW c \in Clients, writer = c, writer' # c
    PROVE  rwpc' = rwpc \/ \E d \in Clients : Home[d] = Home[c] /\ rwpc'[d] # rwpc[d]
  <1>1. ASSUME NEW d \in Clients, UnlockScript(d) PROVE d = c
    BY <1>1 DEF UnlockScript
  <1>2. ASSUME NEW d \in Clients, NEW from, NEW to, RWGo(d, from, to), from # to
        PROVE  rwpc'[d] # rwpc[d]
    BY <1>2 DEF RWTypeOK, RWGo
  <1>3. ASSUME NEW d \in Clients,
               RLock(d) \/ WLock(d) \/ RWait(d) \/ RAdd(d) \/ RUnlock(d) \/ WStore(d)
        PROVE  FALSE
    BY <1>3 DEF RLock, WLock, RWait, RAdd, RUnlock, WStore
  <1>4. ASSUME NEW d \in Clients, WTryLock(d) \/ Acquire(d) PROVE FALSE
    BY <1>4, NobodyAssumption DEF WTryLock, Acquire, SetNX
  <1>5. ASSUME NEW d \in Clients, Scan(d) PROVE d = c /\ rwpc'[d] # rwpc[d]
    BY <1>1, <1>2, <1>5 DEF Scan, Again, Return
  <1>6. ASSUME NEW d \in Clients, Look(d) PROVE d = c /\ rwpc'[d] # rwpc[d]
    BY <1>1, <1>2, <1>6 DEF Look, Again, Return
  <1>7. ASSUME NEW d \in Clients, TryScan(d) \/ TryLook(d) PROVE d = c /\ rwpc'[d] # rwpc[d]
    BY <1>1, <1>2, <1>7 DEF TryScan, TryLook
  <1>8. ASSUME NEW d \in Clients, WUnlock(d) PROVE Home[d] = Home[c] /\ rwpc'[d] # rwpc[d]
    BY <1>2, <1>8, HomeAssumption DEF WUnlock, UnlockScript, OwnTokens
  <1>9. ASSUME ExpireWriter \/ \E i \in Instances : ExpireReader(i) \/ RWCrash(i)
        PROVE  rwpc' = rwpc
    BY <1>9 DEF ExpireWriter, ExpireReader, RWCrash
  <1> QED
    BY <1>3, <1>4, <1>5, <1>6, <1>7, <1>8, <1>9 DEF RWNext, RWBegin, RWStep, Finish

(* Even when TTLs run out under their holders, commands fail and processes *)
(* die, no call of a process ever removes the writer key of another one.   *)
THEOREM NoForeignUnlocks == RWSpec => NoForeignUnlock
  <1>1. RWInit => OwnTokens
    BY DEF RWInit, OwnTokens
  <1>2. RWTypeOK /\ OwnTokens /\ [RWNext]_rwvars => OwnTokens'
    BY TokensStep
  <1>3. RWTypeOK /\ OwnTokens /\ [RWNext]_rwvars =>
            [\A c \in Clients : writer = c /\ writer' # c
                => rwpc' = rwpc
                   \/ \E d \in Clients : Home[d] = Home[c] /\ rwpc'[d] # rwpc[d]]_rwvars
    BY ForeignStep
  <1> QED
    BY <1>1, <1>2, <1>3, RWTypeCorrect, PTL DEF RWSpec, NoForeignUnlock

-----------------------------------------------------------------------------
(* What a writer waits for.  The readers ahead of the key are still inside *)
(* and listed: nothing expires, purges or overwrites their entries.  So    *)
(* every look taken after the key was set shows them, and none is left     *)
(* when a look shows nobody.                                               *)
StillListed == \A d \in ahead : rwpc[d] = "reading" /\ readers[Home[d]] = "active"

Seen(c) == \A d \in ahead : snap[c][Home[d]] = "active"

LooksShow == \A c \in Clients : rwpc[c] \in {"look", "tryLook"} => Seen(c)

AheadInv ==
    /\ StillListed
    /\ LooksShow
    /\ \A c \in Clients : rwpc[c] = "writing" => ahead = {}

(* Whoever sets the key finds no writer at work.                           *)
LEMMA SetWhenFree ==
    ASSUME RWTypeOK, OwnsKey, NEW c \in Clients, SetNX(c)
    PROVE  /\ \A d \in Clients : rwpc[d] \notin Writing
           /\ \A d \in ahead' : rwpc[d] = "reading" /\ readers[Home[d]] = "active"
           /\ ahead' \subseteq Clients
  BY NobodyAssumption DEF OwnsKey, SetNX, Listed

LEMMA SetKeeps ==
    ASSUME RWTypeOK, OwnsKey, AheadInv, NEW c \in Clients, SetNX(c), rwpc[c] # "reading",
           NEW to \in RWWhere \ {"look", "tryLook", "writing"},
           rwpc' = [rwpc EXCEPT ![c] = to], UNCHANGED <<readers, snap>>
    PROVE  AheadInv'
  <1>1. StillListed'
    BY SetWhenFree DEF RWTypeOK, StillListed
  <1>2. \A d \in Clients : rwpc'[d] \notin {"look", "tryLook", "writing"}
    BY SetWhenFree DEF RWTypeOK, Writing
  <1> QED
    BY <1>1, <1>2 DEF AheadInv, LooksShow

(* Steps of a client that is not reading and that leave readers and looks  *)
(* alone.                                                                  *)
LEMMA AheadIdle ==
    ASSUME RWTypeOK, AheadInv, NEW c \in Clients, rwpc[c] # "reading",
           NEW to \in RWWhere \ {"look", "tryLook", "writing"},
           rwpc' = [rwpc EXCEPT ![c] = to], UNCHANGED <<snap, ahead>>,
           \A d \in ahead : readers'[Home[d]] = "active"
    PROVE  AheadInv'
  <1>1. StillListed'
    BY DEF RWTypeOK, AheadInv, StillListed
  <1>2. LooksShow'
    BY DEF RWTypeOK, AheadInv, LooksShow, Seen
  <1>3. \A d \in Clients : rwpc'[d] = "writing" => ahead' = {}
    BY DEF RWTypeOK, AheadInv
  <1> QED
    BY <1>1, <1>2, <1>3 DEF AheadInv

(* A purge removes what its look showed as expired: nobody ahead.          *)
LEMMA PurgeKeeps ==
    ASSUME RWTypeOK, AheadInv, NEW c \in Clients, Purge(c), rwpc[c] \in {"look", "tryLook"}
    PROVE  /\ \A d \in ahead : readers'[Home[d]] = "active"
           /\ NoneActive(c) => ahead = {}
  <1>1. Seen(c)
    BY DEF AheadInv, LooksShow
  <1>2. \A d \in ahead : Home[d] \in Instances
    BY HomeAssumption DEF RWTypeOK
  <1>3. \A d \in ahead : readers'[Home[d]] = readers[Home[d]]
    BY <1>1, <1>2 DEF Purge, Seen
  <1>4. NoneActive(c) => ahead = {}
    BY <1>1, <1>2 DEF NoneActive, Seen
  <1> QED
    BY <1>3, <1>4 DEF AheadInv, StillListed

LEMMA AheadPurged ==
    ASSUME RWTypeOK, AheadInv, NEW c \in Clients, Purge(c), rwpc[c] \in {"look", "tryLook"},
           NEW to \in RWWhere \ {"look", "tryLook"},
           to = "writing" => NoneActive(c),
           rwpc' = [rwpc EXCEPT ![c] = to], UNCHANGED ahead
    PROVE  AheadInv'
  <1>1. StillListed'
    BY PurgeKeeps DEF RWTypeOK, AheadInv, StillListed
  <1>2. LooksShow'
    BY DEF RWTypeOK, AheadInv, LooksShow, Seen, Purge
  <1>3. \A d \in Clients : rwpc'[d] = "writing" => ahead' = {}
    BY PurgeKeeps DEF RWTypeOK, AheadInv
  <1> QED
    BY <1>1, <1>2, <1>3 DEF AheadInv

LEMMA AgainMoves ==
    ASSUME NEW c, NEW from, Again(c, from)
    PROVE  \E to \in {"set", "idle"} : rwpc[c] = from /\ rwpc' = [rwpc EXCEPT ![c] = to]
  BY DEF Again, Return, RWGo

LEMMA AheadStep ==
    ASSUME ~RWMayLapse, RWTypeOK, OwnsKey, AheadInv, [RWNext]_rwvars
    PROVE  AheadInv'
  <1> USE HomeAssumption
  <1>0. \A d \in ahead : readers[Home[d]] = "active" /\ d \in Clients /\ Home[d] \in Instances
    BY DEF AheadInv, StillListed, RWTypeOK
  <1>1. ASSUME NEW c \in Clients, RLock(c) \/ RWait(c) \/ WLock(c) \/ WStore(c) PROVE AheadInv'
    BY <1>0, <1>1, AheadIdle DEF RLock, RWait, WLock, WStore, RWGo, RWWhere, Writing
  <1>2. ASSUME NEW c \in Clients, RAdd(c) PROVE AheadInv'
    <2>1. \A d \in ahead : readers'[Home[d]] = "active"
      BY <1>0, <1>2 DEF RAdd, RWTypeOK
    <2> QED
      BY <1>2, <2>1, AheadIdle DEF RAdd, RWGo, RWWhere, Writing
  <1>3. ASSUME NEW c \in Clients, RUnlock(c) PROVE AheadInv'
    <2>1. ahead' \subseteq ahead /\ \A d \in ahead' : Home[d] # Home[c] /\ d # c
      BY <1>3 DEF RUnlock
    <2>2. StillListed'
      BY <1>0, <1>3, <2>1 DEF RUnlock, RWGo, AheadInv, StillListed, RWTypeOK
    <2>3. LooksShow'
      BY <1>3, <2>1 DEF RUnlock, RWGo, AheadInv, LooksShow, Seen, RWTypeOK
    <2>4. \A d \in Clients : rwpc'[d] = "writing" => ahead' = {}
      BY <1>3, <2>1 DEF RUnlock, RWGo, AheadInv, RWTypeOK
    <2> QED
      BY <2>2, <2>3, <2>4 DEF AheadInv
  <1>4. ASSUME NEW c \in Clients, Acquire(c) PROVE AheadInv'
    <2>1. CASE RWGo(c, "set", "store") /\ SetNX(c)
      BY <1>4, <2>1, SetKeeps DEF Acquire, RWGo, RWWhere, Writing
    <2>2. CASE Again(c, "set") /\ UNCHANGED <<writer, ahead>>
      BY <1>0, <1>4, <2>2, AgainMoves, AheadIdle DEF Acquire, RWWhere, Writing
    <2>3. CASE SetNX(c) /\ Again(c, "set")
      BY <1>4, <2>3, AgainMoves, SetKeeps DEF Acquire, RWWhere, Writing
    <2> QED
      BY <1>4, <2>1, <2>2, <2>3 DEF Acquire
  <1>5. ASSUME NEW c \in Clients, NEW from, NEW to, RWGo(c, from, to),
               <<from, to>> \in {<<"scan", "look">>, <<"tryScan", "tryLook">>},
               snap' = [snap EXCEPT ![c] = readers], UNCHANGED <<readers, ahead>>
        PROVE  AheadInv'
    <2>1. StillListed'
      BY <1>5 DEF RWGo, AheadInv, StillListed, RWTypeOK
    <2>2. LooksShow'
      BY <1>0, <1>5 DEF RWGo, AheadInv, LooksShow, Seen, RWTypeOK
    <2>3. \A d \in Clients : rwpc'[d] = "writing" => ahead' = {}
      BY <1>5 DEF RWGo, AheadInv, RWTypeOK
    <2> QED
      BY <2>1, <2>2, <2>3 DEF AheadInv
  <1>6. ASSUME NEW c \in Clients, Scan(c) PROVE AheadInv'
    <2>1. CASE Again(c, "scan") /\ UNCHANGED snap
      BY <1>0, <1>6, <2>1, AgainMoves, AheadIdle DEF Scan, RWWhere, Writing
    <2> QED
      BY <1>5, <1>6, <2>1 DEF Scan
  <1>7. ASSUME NEW c \in Clients, TryScan(c) PROVE AheadInv'
    <2>1. CASE RWGo(c, "tryScan", "idle") /\ UNCHANGED snap
      BY <1>0, <1>7, <2>1, AheadIdle DEF TryScan, RWGo, RWWhere, Writing
    <2> QED
      BY <1>5, <1>7, <2>1 DEF TryScan
  <1>8. ASSUME NEW c \in Clients, Look(c) PROVE AheadInv'
    <2>1. CASE NoneActive(c) /\ Return(c, "look", "writing")
      BY <1>8, <2>1, AheadPurged DEF Look, Return, RWGo, RWWhere, Writing
    <2>2. CASE RWGo(c, "look", "scan") \/ Return(c, "look", "idle")
      BY <1>8, <2>2, AheadPurged DEF Look, Return, RWGo, RWWhere, Writing
    <2>3. CASE Again(c, "look")
      BY <1>8, <2>3, AgainMoves, AheadPurged DEF Look, RWWhere, Writing
    <2> QED
      BY <1>8, <2>1, <2>2, <2>3 DEF Look
  <1>9. ASSUME NEW c \in Clients, TryLook(c) PROVE AheadInv'
    BY <1>9, AheadPurged DEF TryLook, RWGo, RWWhere, Writing
  <1>10. ASSUME NEW c \in Clients, WTryLock(c) PROVE AheadInv'
    <2>1. CASE RWGo(c, "idle", "tryScan")
      BY <1>10, <2>1, SetKeeps DEF WTryLock, RWGo, RWWhere, Writing
    <2>2. CASE UNCHANGED rwpc /\ rwpc[c] = "idle"
      <3>1. rwpc' = [rwpc EXCEPT ![c] = "idle"]
        BY <2>2 DEF RWTypeOK
      <3> QED
        BY <1>10, <2>2, <3>1, SetKeeps DEF WTryLock, RWWhere
    <2> QED
      BY <1>10, <2>1, <2>2 DEF WTryLock
  <1>11. ASSUME NEW c \in Clients, WUnlock(c) PROVE AheadInv'
    BY <1>0, <1>11, AheadIdle DEF WUnlock, RWGo, RWWhere
  <1>12. CASE ExpireWriter \/ UNCHANGED rwvars
    BY <1>12 DEF ExpireWriter, rwvars, AheadInv, StillListed, LooksShow, Seen
  <1>13. ASSUME NEW i \in Instances, ExpireReader(i) PROVE AheadInv'
    <2>1. \A d \in ahead : Home[d] # i
      BY <1>0, <1>13 DEF ExpireReader, AheadInv, StillListed
    <2>2. StillListed'
      BY <1>0, <1>13, <2>1 DEF ExpireReader, AheadInv, StillListed, RWTypeOK
    <2> QED
      BY <1>13, <2>2 DEF ExpireReader, AheadInv, LooksShow, Seen
  <1>14. ASSUME NEW i \in Instances, RWCrash(i) PROVE AheadInv'
    <2>1. ahead' \subseteq ahead /\ \A d \in ahead' : Home[d] # i
      BY <1>14 DEF RWCrash
    <2>2. StillListed'
      BY <1>0, <1>14, <2>1 DEF RWCrash, AheadInv, StillListed, RWTypeOK
    <2>3. LooksShow'
      BY <1>14, <2>1 DEF RWCrash, AheadInv, LooksShow, Seen, RWTypeOK
    <2>4. \A d \in Clients : rwpc'[d] = "writing" => ahead' = {}
      BY <1>14, <2>1 DEF RWCrash, AheadInv, RWTypeOK
    <2> QED
      BY <2>2, <2>3, <2>4 DEF AheadInv
  <1> QED
    BY <1>1, <1>2, <1>3, <1>4, <1>6, <1>7, <1>8, <1>9, <1>10, <1>11, <1>12, <1>13, <1>14
       DEF RWNext, RWBegin, RWStep, Finish

(* For any number of processes and clients, and although Redis commands    *)
(* fail and processes die: as long as no TTL runs out under its holder, a  *)
(* writer is never let in past a reader that was inside and listed when    *)
(* the writer set its key, whatever its looks purge and however the other  *)
(* readers come and go meanwhile.                                          *)
THEOREM WritersWait == RWSpec => []WaitsForReaders
  <1> DEFINE WInv == OwnsKey /\ AheadInv
  <1>1. RWInit => WInv
    BY DEF RWInit, OwnsKey, AheadInv, StillListed, LooksShow, Seen, Writing
  <1>2. (~RWMayLapse => WInv) => WaitsForReaders
    BY DEF AheadInv, WaitsForReaders
  <1>3. ~RWMayLapse /\ RWTypeOK /\ WInv /\ [RWNext]_rwvars => WInv'
    BY OwnsStep, AheadStep
  <1>4. (~RWMayLapse => WInv) /\ RWTypeOK /\ [RWNext]_rwvars => (~RWMayLapse => WInv)'
    BY <1>3, ModeStep
  <1> QED
    BY <1>1, <1>2, <1>4, RWTypeCorrect, PTL DEF RWSpec
=============================================================================
