--------------------------- MODULE MCCoordination ---------------------------
(* Instances of Coordination for TLC.                                      *)
EXTENDS Coordination, TLC

CONSTANTS r1, r2, r3, i1, i2, i3

(* A request on each of three instances, or two on the first of two.       *)
Spread == r1 :> i1 @@ r2 :> i2 @@ r3 :> i3
Paired == r1 :> i1 @@ r2 :> i1 @@ r3 :> i2

(* Requests and their instances are interchangeable when spread.           *)
SpreadSymmetry ==
    {[x \in {r1, r2, r3, i1, i2, i3} |->
        IF x \in {r1, r2, r3} THEN p[x]
        ELSE Spread[p[CHOOSE r \in {r1, r2, r3} : Spread[r] = x]]] :
            p \in Permutations({r1, r2, r3})}

Flags == {"staging", "eager", "pipe", "narinfo", "fail", "crash", "lapse", "slow", "cancel"}
Of(on, callers) == [f \in Flags |-> f \in on] @@ [callers |-> callers]

(* Two instances with staging, when services fail, when instances die and  *)
(* callers go away, and with eager chunking when a producer is slow;       *)
(* eager chunking on the simple path, when services fail, and on the pipe  *)
(* path, when services fail or instances die, with two requests on one     *)
(* instance; and narinfo downloads.                                        *)
AllModes ==
    {Of({"staging", "fail"}, {r1, r3}),
     Of({"staging", "crash", "cancel"}, {r1, r3}),
     Of({"staging", "eager", "slow"}, {r1, r3}),
     Of({"eager", "fail"}, {r1, r2, r3}),
     Of({"pipe", "fail"}, {r1, r2, r3}),
     Of({"pipe", "crash"}, {r1, r2, r3}),
     Of({"narinfo", "crash", "lapse", "cancel"}, {r1, r3})}

CrashMode == {Of({"staging", "pipe", "crash"}, {r1, r3})}
Calmest == {Of({"staging"}, {r1, r2, r3})}
=============================================================================
