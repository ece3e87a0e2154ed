----------------------------- MODULE RedisLock -----------------------------
(***************************************************************************)
(* The exclusive distributed lock, for one lock key: the Redis locker of   *)
(* pkg/lock/redis/locker.go, the circuit breaker it asks before every      *)
(* operation (pkg/circuitbreaker) and the process-local mutex it falls     *)
(* back to in degraded mode (pkg/lock/local/locker.go).                    *)
(*                                                                         *)
(* A client is a goroutine that locks and unlocks; Home is its process.    *)
(* The Redis nodes and their quorum are one register.                      *)
(***************************************************************************)
EXTENDS Lockers

CONSTANTS
    Threshold,      \* failures that open the circuit
    Modes           \* configurations and circumstances the lockers may run in

ASSUME ThresholdAssumption == Threshold \in Nat \ {0}

(* degraded: allowDegradedMode; redis: it is up, was down at the start, or *)
(* comes and goes; lapse: a TTL may run out under its live holder; crash:  *)
(* a process may die.  Without Redis only degraded mode starts.            *)
Mode == [degraded : BOOLEAN, redis : {"up", "down", "flaky"}, lapse : BOOLEAN,
         crash : BOOLEAN]
ASSUME ModeAssumption ==
    Modes \subseteq Mode /\ \A m \in Modes : m.redis = "down" => m.degraded

VARIABLES
    mode,       \* the mode of this behaviour
    up,         \* Redis answers
    key,        \* the Redis key: the client whose token it holds
    mutexes,    \* mutexes[key] of each instance: the client that stored it
    fails,      \* failureCount of each circuit breaker, capped at Threshold
    circuit,    \* its State
    locked,     \* the fallback keyLock of each instance
    refs,       \* and its refCount; it is in the map while this is not 0
    pc          \* where a client is

vars == <<mode, up, key, mutexes, fails, circuit, locked, refs, pc>>

Degraded == mode.degraded
Redis == mode.redis
MayLapse == mode.lapse
MayCrash == mode.crash

Where == {"idle", "lock", "try", "got", "redis", "localLock", "localTry", "local",
          "unlock", "localUnlock", "dead"}

(* Every variable stays within its type.                                   *)
TypeOK ==
    /\ mode \in Modes
    /\ up \in BOOLEAN
    /\ key \in Owner
    /\ mutexes \in [Instances -> Owner]
    /\ fails \in [Instances -> 0..Threshold]
    /\ circuit \in [Instances -> {"closed", "open", "half"}]
    /\ locked \in [Instances -> BOOLEAN]
    /\ refs \in [Instances -> Nat]
    /\ pc \in [Clients -> Where]

(* NewLocker: without a quorum of nodes the circuit is forced open.        *)
Init ==
    /\ mode \in Modes
    /\ up = (Redis # "down")
    /\ key = Nobody
    /\ mutexes = [i \in Instances |-> Nobody]
    /\ fails = [i \in Instances |-> IF Redis = "down" THEN Threshold ELSE 0]
    /\ circuit = [i \in Instances |-> IF Redis = "down" THEN "open" ELSE "closed"]
    /\ locked = [i \in Instances |-> FALSE]
    /\ refs = [i \in Instances |-> 0]
    /\ pc = [c \in Clients |-> "idle"]

Go(c, from, to) == pc[c] = from /\ pc' = [pc EXCEPT ![c] = to]

-----------------------------------------------------------------------------
(* The circuit breaker.                                                    *)

(* AllowRequest: half-open lets one request through and opens again.       *)
Allowed(i) == circuit[i] # "open"
Ask(i) == circuit' = [circuit EXCEPT ![i] = IF @ = "half" THEN "open" ELSE @]

RecordSuccess(i) ==
    /\ fails' = [fails EXCEPT ![i] = 0]
    /\ circuit' = [circuit EXCEPT ![i] = "closed"]

(* RecordFailure, and the AllowRequest that follows it at once.            *)
RecordFailure(i) ==
    /\ fails' = [fails EXCEPT ![i] = IF @ < Threshold THEN @ + 1 ELSE @]
    /\ circuit' = [circuit EXCEPT ![i] = IF fails[i] + 1 >= Threshold THEN "open" ELSE @]

(* The circuit has been open for its timeout.                              *)
Cool(i) ==
    /\ circuit[i] = "open"
    /\ circuit' = [circuit EXCEPT ![i] = "half"]
    /\ UNCHANGED <<up, key, mutexes, fails, locked, refs, pc>>

-----------------------------------------------------------------------------
(* Acquiring.                                                              *)

(* The fallback: getLock.                                                  *)
GetLock(c, from, to) ==
    /\ Go(c, from, to)
    /\ refs' = [refs EXCEPT ![Home[c]] = @ + 1]

(* Lock and TryLock ask the circuit breaker first.                         *)
Begin(c, redis, fallback) ==
    /\ Ask(Home[c])
    /\ \/ Allowed(Home[c]) /\ Go(c, "idle", redis) /\ UNCHANGED refs
       \/ ~Allowed(Home[c]) /\ Degraded /\ GetLock(c, "idle", fallback)
    /\ UNCHANGED <<up, key, mutexes, fails, locked>>

Lock(c) == Begin(c, "lock", "localLock")
TryLock(c) == Begin(c, "try", "localTry")

(* Mutant: SET instead of SET NX.                                          *)
LockContextPlain(c, from) ==
    /\ up /\ key' = c
    /\ Go(c, from, "got")

(* redsync's LockContext with one try.                                     *)
LockContext(c, from) ==
    /\ up /\ key = Nobody /\ key' = c
    /\ Go(c, from, "got")

(* Lock gives up or TryLock returns without the key: it is taken, the      *)
(* caller is gone, or this locker started without a quorum, which closed   *)
(* its Redis clients for good.  The retries before it change nothing.      *)
NotAcquired(c, from) == Go(c, from, "idle") /\ UNCHANGED key

(* A connection error; the command may have been executed.  The failure    *)
(* that opens the circuit sends the client to the fallback. Lock tries     *)
(* again when another node said that the lock is taken.                    *)
Refused(c, from, fallback) ==
    /\ ~up /\ Redis = "flaky"
    /\ key' = key \/ (key = Nobody /\ key' = c)
    /\ RecordFailure(Home[c])
    /\ IF circuit'[Home[c]] = "open" /\ Degraded
       THEN GetLock(c, from, fallback)
       ELSE /\ Go(c, from, "idle") \/ (from = "lock" /\ Go(c, from, from))
            /\ UNCHANGED refs

Attempt(c, from, fallback) ==
    /\ \/ (LockContext(c, from) \/ NotAcquired(c, from)) /\ UNCHANGED <<fails, circuit, refs>>
       \/ Refused(c, from, fallback)
    /\ UNCHANGED <<up, mutexes, locked>>

LockAttempt(c) == Attempt(c, "lock", "localLock")
TryAttempt(c) == Attempt(c, "try", "localTry")

Store(c) ==
    /\ Go(c, "got", "redis")
    /\ mutexes' = [mutexes EXCEPT ![Home[c]] = c]
    /\ RecordSuccess(Home[c])
    /\ UNCHANGED <<up, key, locked, refs>>

LocalLock(c) ==
    /\ ~locked[Home[c]] /\ locked' = [locked EXCEPT ![Home[c]] = TRUE]
    /\ Go(c, "localLock", "local")
    /\ UNCHANGED <<up, key, mutexes, fails, circuit, refs>>

(* Mutant: a failed TryLock keeps its reference.                           *)
LocalTryKeepsRef(c) ==
    /\ \/ /\ ~locked[Home[c]] /\ locked' = [locked EXCEPT ![Home[c]] = TRUE]
          /\ Go(c, "localTry", "local")
       \/ locked[Home[c]] /\ Go(c, "localTry", "idle") /\ UNCHANGED locked
    /\ UNCHANGED <<up, key, mutexes, fails, circuit, refs>>

LocalTry(c) ==
    /\ \/ /\ ~locked[Home[c]] /\ locked' = [locked EXCEPT ![Home[c]] = TRUE]
          /\ Go(c, "localTry", "local") /\ UNCHANGED refs
       \/ /\ locked[Home[c]] /\ Go(c, "localTry", "idle")
          /\ refs' = [refs EXCEPT ![Home[c]] = @ - 1] /\ UNCHANGED locked
    /\ UNCHANGED <<up, key, mutexes, fails, circuit>>

-----------------------------------------------------------------------------
(* Holding and releasing.                                                  *)

Holding(c) == pc[c] \in {"redis", "local"}

(* The refresher's Extend: its only effect but the TTL is on the circuit.  *)
Extend(c) ==
    /\ Holding(c) /\ circuit[Home[c]] = "half" /\ Ask(Home[c])
    /\ UNCHANGED <<up, key, mutexes, fails, locked, refs, pc>>

(* Unlock routes by the circuit of the moment, not by how it was locked.   *)
Unlock(c) ==
    /\ Holding(c) /\ Ask(Home[c])
    /\ IF ~Allowed(Home[c]) /\ Degraded THEN Go(c, pc[c], "localUnlock")
                                        ELSE Go(c, pc[c], "unlock")
    /\ UNCHANGED <<up, key, mutexes, fails, locked, refs>>

(* The stored mutex is dropped whether or not Redis answers.               *)
RedisUnlock(c) ==
    /\ Go(c, "unlock", "idle")
    /\ mutexes' = [mutexes EXCEPT ![Home[c]] = Nobody]
    /\ key' = IF up /\ key = mutexes[Home[c]] THEN Nobody ELSE key
    /\ UNCHANGED <<up, fails, circuit, locked, refs>>

(* The end of a process.                                                   *)
Die(i) == pc' = [c \in Clients |-> IF Home[c] = i THEN "dead" ELSE pc[c]]

(* local.Unlock: an unknown key is an error, an unlocked keyLock that      *)
(* somebody refers to is a fatal error of the runtime.                     *)
LocalUnlock(c) ==
    /\ pc[c] = "localUnlock"
    /\ \/ refs[Home[c]] = 0 /\ Go(c, "localUnlock", "idle") /\ UNCHANGED <<locked, refs>>
       \/ /\ refs[Home[c]] > 0 /\ locked[Home[c]] /\ Go(c, "localUnlock", "idle")
          /\ locked' = [locked EXCEPT ![Home[c]] = FALSE]
          /\ refs' = [refs EXCEPT ![Home[c]] = @ - 1]
       \/ /\ refs[Home[c]] > 0 /\ ~locked[Home[c]] /\ Die(Home[c])
          /\ UNCHANGED <<locked, refs>>
    /\ UNCHANGED <<up, key, mutexes, fails, circuit>>

-----------------------------------------------------------------------------
(* Redis, TTLs and the death of a process.                                 *)

Toggle ==
    /\ Redis = "flaky" /\ up' = ~up
    /\ UNCHANGED <<key, mutexes, fails, circuit, locked, refs, pc>>

Expire ==
    /\ key # Nobody
    /\ MayLapse \/ pc[key] \notin {"got", "redis", "unlock", "localUnlock"}
    /\ key' = Nobody
    /\ UNCHANGED <<up, mutexes, fails, circuit, locked, refs, pc>>

Crash(i) ==
    /\ MayCrash /\ \E c \in Clients : Home[c] = i /\ pc[c] # "dead"
    /\ Die(i)
    /\ UNCHANGED <<up, key, mutexes, fails, circuit, locked, refs>>

Use(c) == Lock(c) \/ TryLock(c) \/ LockAttempt(c) \/ TryAttempt(c) \/ Store(c)
          \/ LocalLock(c) \/ LocalTry(c) \/ Extend(c) \/ Unlock(c)
          \/ RedisUnlock(c) \/ LocalUnlock(c)

Next ==
    /\ \/ \E c \in Clients : Use(c)
       \/ \E i \in Instances : Cool(i) \/ Crash(i)
       \/ Toggle \/ Expire
    /\ UNCHANGED mode

Spec == Init /\ [][Next]_vars

-----------------------------------------------------------------------------
Strict == ~Degraded /\ ~MayLapse

(* Without degraded mode, and while no TTL runs out under its holder, one  *)
(* client of the cluster holds the lock (Lock, TryLock, Unlock).           *)
Exclusive == Strict => \A c, d \in Clients : Holding(c) /\ Holding(d) => c = d

(* Under the same conditions what a client holds in Redis is what its      *)
(* instance will release (Lock's Store against Unlock's Load).             *)
HolderCanUnlock == Strict => \A c \in Clients : pc[c] = "redis" => mutexes[Home[c]] = c

ForeignRelease == \E c \in Clients : pc[c] = "redis" /\ key = c /\ key' # c /\ pc' # pc

(* Under the same conditions the key of a client that holds the lock is    *)
(* not removed by the Unlock of another client.                            *)
NoForeignRelease == [][Strict => ~ForeignRelease]_vars

(* In every mode the circuit is closed exactly while failures are below    *)
(* the threshold (RecordFailure, RecordSuccess, AllowRequest).             *)
CircuitCounts == \A i \in Instances : circuit[i] = "closed" <=> fails[i] < Threshold

Waiters(i) == {c \in Clients : Home[c] = i /\ pc[c] \in {"localLock", "localTry"}}
Alive(i) == \E c \in Clients : Home[c] = i /\ pc[c] # "dead"

(* In every mode the fallback's refCount is its waiters and its holder,    *)
(* whatever Unlocks were sent to it: its keyLock leaves the map exactly    *)
(* when nobody uses it and is never replaced under a waiter.               *)
RefCounted ==
    \A i \in Instances :
        Alive(i) => refs[i] = Cardinality(Waiters(i)) + IF locked[i] THEN 1 ELSE 0
=============================================================================
