---------------------------- MODULE MCRedisLock ----------------------------
(* Instances of RedisLock for TLC.                                         *)
EXTENDS RedisLock, TLC

CONSTANTS c1, c2, c3, i1, i2

(* Two clients on the first process, which are interchangeable.            *)
Paired == c1 :> i1 @@ c2 :> i1 @@ c3 :> i2
PairSymmetry == Permutations({c1, c2})

Of(d, r, l, c) == [degraded |-> d, redis |-> r, lapse |-> l, crash |-> c]

(* Redis comes and goes: degraded mode off, with crashes, or on, with      *)
(* lapses; and lockers that started without it.                            *)
AllModes == {Of(FALSE, "flaky", FALSE, TRUE), Of(TRUE, "flaky", TRUE, FALSE),
             Of(TRUE, "down", FALSE, TRUE)}
=============================================================================
