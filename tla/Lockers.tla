------------------------------ MODULE Lockers -------------------------------
(***************************************************************************)
(* What the exclusive lock (RedisLock) and the read-write lock (RWLock) of *)
(* pkg/lock have in common: processes, the goroutines in them that use a   *)
(* lock, and who may own a key.                                            *)
(***************************************************************************)
EXTENDS Naturals, FiniteSets

CONSTANTS
    Instances,      \* processes
    Clients,        \* goroutines that use the lock
    Home            \* the process of each goroutine

ASSUME HomeAssumption == Home \in [Clients -> Instances]
ASSUME ClientsAssumption == IsFiniteSet(Clients)

Nobody == "nobody"
ASSUME NobodyAssumption == Nobody \notin Clients

Owner == Clients \cup {Nobody}
=============================================================================
