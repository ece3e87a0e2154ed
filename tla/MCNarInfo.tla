----------------------------- MODULE MCNarInfo -----------------------------
(* Instances of NarInfo for TLC.                                           *)
EXTENDS NarInfo, TLC

CONSTANTS t1, t2, t3, i1, i2, a, b

(* The first two tasks run on one instance, the third on the other.        *)
Paired == t1 :> i1 @@ t2 :> i1 @@ t3 :> i2

Base == [kind |-> [t \in Tasks |-> "idle"], item |-> [t \in Tasks |-> a],
         legacy |-> None, row |-> None, stored |-> {}, upstream |-> None,
         bare |-> {}, cdc |-> FALSE, fail |-> FALSE, lapse |-> FALSE]
Calls(x, y, z) == [Base EXCEPT !.kind = t1 :> x @@ t2 :> y @@ t3 :> z]

(* A legacy narinfo is read, migrated, uploaded, deleted and evicted.      *)
Legacy(s) == [s EXCEPT !.legacy = a, !.stored = {a}]
Migrations ==
    {[Legacy(Calls("get", "get", "cli")) EXCEPT !.row = r, !.lapse = TRUE] : r \in {None, Stub}}
    \cup {[Legacy(Calls("get", "put", "cli")) EXCEPT !.row = Stub, !.item = [t \in Tasks |-> b],
                                                    !.stored = {a, b}],
          [Legacy(Calls("get", "ask", "put")) EXCEPT !.fail = TRUE],
          [Legacy(Calls("get", "delete", "evict")) EXCEPT !.row = Stub],
          [Legacy(Calls("delete", "evict", "cli")) EXCEPT !.row = a, !.fail = TRUE],
          [Calls("get", "ask", "cli") EXCEPT !.legacy = Bad, !.row = Stub],
          [Calls("get", "ask", "idle") EXCEPT !.legacy = Bad, !.row = a, !.stored = {a}, !.fail = TRUE],
          [Calls("get", "put", "evict") EXCEPT !.legacy = Bad, !.row = a, !.stored = {a}],
          [Legacy(Calls("get", "cli", "evict")) EXCEPT !.row = a]}

(* Uploads of a narinfo without FileHash and of its NAR, and their readers.*)
Uploads ==
    {[Calls("put", "send", "ask") EXCEPT !.bare = {a}],
     [Calls("put", "send", "delete") EXCEPT !.bare = {a}],
     [Calls("put", "send", "delete") EXCEPT !.bare = {a}, !.fail = TRUE],
     [Calls("put", "send", "put") EXCEPT !.bare = {a, b}, !.item = t1 :> a @@ t2 :> a @@ t3 :> b]}

(* Pulls: of a path nobody has, with failures, and of one whose NAR is     *)
(* missing.                                                                *)
Pulls ==
    {[Calls("get", "get", "get") EXCEPT !.upstream = a, !.cdc = c] : c \in BOOLEAN}
    \cup {[Calls("get", "idle", "get") EXCEPT !.upstream = u, !.fail = TRUE] : u \in {a, None}}
    \cup {[Calls("get", "put", "send") EXCEPT !.upstream = b, !.row = a],
          [Calls("get", "evict", "ask") EXCEPT !.upstream = a, !.row = a]}

All == Migrations \cup Uploads \cup Pulls

(* One narinfo without FileSize and its NAR.                               *)
OneUpload == {[Calls("put", "send", "idle") EXCEPT !.bare = {a}]}

(* A legacy narinfo without its NAR, which upstream has.                   *)
Orphan == {[Calls("get", "get", "idle") EXCEPT !.legacy = a, !.upstream = a]}
=============================================================================
