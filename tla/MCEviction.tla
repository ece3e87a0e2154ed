---------------------------- MODULE MCEviction -----------------------------
(* Instances of Eviction for TLC.                                          *)
EXTENDS Eviction, TLC

CONSTANTS a, b, c, n1, n2, t1, t2, t3, t4, t5

(* Two narinfos share a NAR, a third has its own.                          *)
Shared == a :> n1 @@ b :> n1 @@ c :> n2
Sizes == n1 :> 2 @@ n2 :> 3
AllLoaded == a :> 1 @@ b :> 2 @@ c :> 3

(* c refers to a; the names are long enough to be cut.                     *)
Refs == a :> {} @@ b :> {} @@ c :> {a}
LongNames == [i \in {a, b, c} |-> 60]

Calls(k1, k2, k3, k4, k5) == t1 :> k1 @@ t2 :> k2 @@ t3 :> k3 @@ t4 :> k4 @@ t5 :> k5
Of(kinds, items, plain, cap, faults) ==
    [kind |-> kinds, item |-> items, plain |-> plain, cap |-> cap, fail |-> faults,
     crash |-> faults]

(* Uploads, downloads and deletions; the same with uploads only; pins that *)
(* come and go, two rows at a time; and failures with a Compression:none   *)
(* NAR.                                                                    *)
AllScenarios ==
    {Of(Calls("push", "fetch", "drop", "info", "touch"), Calls(a, c, c, b, b), {}, 10, FALSE),
     Of(Calls("push", "push", "drop", "info", "touch"), Calls(a, c, c, b, b), {}, 10, FALSE),
     Of(Calls("pin", "pin", "unpin", "touch", "info"), Calls(a, c, a, b, b), {}, 2, FALSE),
     Of(Calls("push", "drop", "fetch", "pin", "info"), Calls(a, c, c, c, b), {n2}, 10, TRUE)}
=============================================================================
