------------------------------ MODULE MCRWLock ------------------------------
(* Instances of RWLock for TLC.                                            *)
EXTENDS RWLock, TLC

CONSTANTS c1, c2, c3, i1, i2

(* Two clients on the first process, or one on each.                       *)
Paired == c1 :> i1 @@ c2 :> i1 @@ c3 :> i2
Alone == c1 :> i1 @@ c2 :> i2

Of(l, f, c, n) == [lapse |-> l, fail |-> f, crash |-> c, attempts |-> n]

(* Processes that die, commands that fail, and TTLs that lapse.            *)
AllModes == {Of(FALSE, FALSE, TRUE, 2), Of(FALSE, TRUE, FALSE, 2), Of(TRUE, FALSE, FALSE, 1)}
Quiet == {Of(FALSE, FALSE, FALSE, 2)}
=============================================================================
