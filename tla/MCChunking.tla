----------------------------- MODULE MCChunking -----------------------------
(***************************************************************************)
(* Instances of Chunking for TLC: n1 has two chunks, of which n2 shares    *)
(* one.                                                                    *)
(***************************************************************************)
EXTENDS Chunking, TLC

CONSTANTS n1, n2, x, y, z, t1, t2, t3

MCContent == n1 :> <<x, y>> @@ n2 :> <<y>>
MCCut == n1 :> <<z>> @@ n2 :> <<z>>
MCRank == <<n2, "none">> :> 1 @@ <<n2, "old">> :> 2 @@ <<n1, "old">> :> 3 @@ <<n1, "none">> :> 4

(* Calls of kinds a, b and c for n1, whose body is compressed for a        *)
(* migration; n1 is found as f1, n2 as f2.                                 *)
Calls(a, b, c, f1, f2) ==
    LET kind == t1 :> a @@ t2 :> b @@ t3 :> c
    IN  [kind |-> kind, nar |-> [t \in {t1, t2, t3} |-> n1],
         form |-> [t \in {t1, t2, t3} |-> IF kind[t] = "migrate" THEN "old" ELSE "none"],
         find |-> n1 :> f1 @@ n2 :> f2,
         sized |-> {}, lazy |-> FALSE, force |-> FALSE, cut |-> FALSE, garbled |-> FALSE,
         sweep |-> FALSE, lru |-> FALSE, gone |-> FALSE, fail |-> FALSE, crash |-> FALSE,
         lapse |-> FALSE]

(* Two stores of one NAR and a client, whose instances die.                *)
Stores == [Calls("store", "store", "read", "row", "row") EXCEPT !.crash = TRUE]

(* The recovery of what a dead store left behind, beside a client, passes  *)
(* a row that stays as it is.                                              *)
Recovering == [Calls("store", "expire", "read", "row", "row") EXCEPT
                    !.crash = TRUE, !.sweep = TRUE]

(* A migration, a second one after a crash, and a client.                  *)
Migrations == [Calls("migrate", "migrate", "read", "whole", "chunked") EXCEPT !.crash = TRUE]

(* Lazy chunking, with the delayed deletion of the compressed file.        *)
LazyMigration == [Calls("migrate", "expire", "read", "whole", "chunked") EXCEPT
                    !.lazy = TRUE, !.crash = TRUE]

(* Back to a whole file and to chunks again.                               *)
Dechunking == [Calls("dechunk", "store", "read", "chunked", "chunked") EXCEPT
                    !.force = TRUE, !.crash = TRUE]
Purging == [Calls("purge", "store", "dechunk", "chunked", "chunked") EXCEPT !.crash = TRUE]

(* The eviction during a store, beside a client or a de-chunking of the    *)
(* other NAR.                                                              *)
Evicting == {[Calls("store", k, "expire", "row", "chunked") EXCEPT
                    !.lru = TRUE, !.nar[t2] = IF k = "read" THEN n1 ELSE n2] :
                k \in {"read", "dechunk"}}

(* Every service fails now and then.                                       *)
Failing == {[Calls("migrate", "migrate", "dechunk", "whole", "nothing") EXCEPT
                    !.fail = TRUE, !.force = TRUE],
            [Calls("dechunk", "purge", "store", "chunked", "nothing") EXCEPT
                    !.fail = TRUE, !.force = TRUE],
            [Calls("migrate", "expire", "read", "whole", "nothing") EXCEPT
                    !.fail = TRUE, !.lazy = TRUE, !.lru = TRUE],
            [Calls("store", "expire", "expire", "row", "row") EXCEPT
                    !.fail = TRUE, !.sweep = TRUE, !.crash = TRUE]}

(* Locks run out under two calls for n1; n2 shares a chunk with it.        *)
Lapsing == {[Calls("migrate", "migrate", "read", "whole", "chunked") EXCEPT
                    !.lapse = TRUE, !.nar[t3] = n2],
            [Calls("dechunk", "store", "read", "chunked", "chunked") EXCEPT
                    !.lapse = TRUE, !.force = TRUE, !.nar[t3] = n2],
            [Calls("store", "store", "expire", "row", "chunked") EXCEPT
                    !.lapse = TRUE, !.sweep = TRUE]}

(* Bodies that cannot be read or end too early, and narinfos that are gone *)
(* from upstream.                                                          *)
Garbled == [Calls("store", "store", "expire", "row", "nothing") EXCEPT
                    !.garbled = TRUE, !.cut = TRUE, !.sized = {t1}, !.sweep = TRUE, !.gone = TRUE]

MCScenarios == {Stores, Recovering, Migrations, LazyMigration, Dechunking, Purging, Garbled}
                 \cup Evicting \cup Failing \cup Lapsing

(* Stores that know the NarSize, of a body that may end too early.         *)
RetryScenarios == {[Calls("store", "store", "read", "row", "nothing") EXCEPT
                        !.cut = TRUE, !.sized = {t1, t2, t3}]}
=============================================================================
