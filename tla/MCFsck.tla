------------------------------- MODULE MCFsck -------------------------------
(***************************************************************************)
(* Instances of Fsck for TLC: n1 has two chunks, of which n2 shares one;   *)
(* z is nobody's.                                                          *)
(***************************************************************************)
EXTENDS Fsck, TLC

CONSTANTS n1, n2, x, y, z

MCContent == n1 :> {x, y} @@ n2 :> {y}

Empty == [e \in {} |-> e]
RowOf(t) == [id |-> 0, total |-> t, started |-> FALSE, flag |-> "no", verified |-> FALSE,
             body |-> "right"]

(* How a NAR is stored: its rows, its narinfo, whether they are linked,    *)
(* its whole file and the links of its chunks.                             *)
Part(rows, ni, join, file, chunks) ==
    [rows |-> rows, info |-> ni, join |-> join, file |-> file, chunks |-> chunks]
Nix(u) == [url |-> u, hash |-> TRUE]

Nothing(n) == Part(Empty, Empty, FALSE, {}, {})
Whole(n) == Part(<<n, "xz">> :> RowOf(0), n :> Nix("xz"), TRUE, {<<n, "xz">>}, {})
Missing(n) == [Whole(n) EXCEPT !.file = {}]
NoInfo(n) == [Whole(n) EXCEPT !.info = Empty, !.join = FALSE]
NoRow(n) == [Whole(n) EXCEPT !.rows = Empty, !.join = FALSE]
FileOnly(n) == [NoRow(n) EXCEPT !.info = Empty]
Chunked(n) == Part(Plain(n) :> RowOf(Cardinality(MCContent[n])), n :> Nix("none"), TRUE, {},
                   MCContent[n])
Apart(n) == [Chunked(n) EXCEPT !.join = FALSE]
ChunkedOnly(n) == [Chunked(n) EXCEPT !.info = Empty, !.join = FALSE]
Short(n) == [Chunked(n) EXCEPT !.rows[Plain(n)].body = "short"]
Wrong(n) == [Chunked(n) EXCEPT !.rows[Plain(n)].body = "wrong"]
ApartWrong(n) == [Wrong(n) EXCEPT !.join = FALSE]
Renamed(n) == [Chunked(n) EXCEPT !.info[n].url = "xz"]
Nameless(n) == [Chunked(n) EXCEPT !.info[n].hash = FALSE]
Flagged(n) == [Apart(n) EXCEPT !.rows[Plain(n)].flag = "aged"]
Residue(n) == [Nameless(n) EXCEPT !.rows[Plain(n)].flag = "aged"]
Dechunked(n) == Part(Plain(n) :> RowOf(0), n :> Nix("none"), TRUE, {Plain(n)}, MCContent[n])

(* Two rows of one NAR, the linked one without its file; a file left       *)
(* beside a chunked NAR whose content is wrong and whose link is gone.     *)
Twins(n) == [Missing(n) EXCEPT !.rows = @ @@ Plain(n) :> RowOf(Cardinality(MCContent[n])),
                               !.chunks = MCContent[n]]
Leftover(n) == [ApartWrong(n) EXCEPT !.file = {Plain(n)}]

Repairing == [repair |-> TRUE, dry |-> FALSE, content |-> TRUE, since |-> FALSE]
Asking == [repair |-> FALSE, dry |-> FALSE, content |-> FALSE, since |-> TRUE]
Looking == [repair |-> TRUE, dry |-> TRUE, content |-> FALSE, since |-> FALSE]

Scene(a, b) ==
    LET p == n1 :> a @@ n2 :> b
        linked == a.chunks \cup b.chunks
    IN  [nf |-> a.rows @@ b.rows, info |-> a.info @@ b.info,
         joined |-> {r \in DOMAIN (a.rows @@ b.rows) :
                        /\ p[r[1]].join
                        /\ r[2] = p[r[1]].info[r[1]].url \/ <<r[1], "xz">> \notin DOMAIN p[r[1]].rows},
         whole |-> a.file \cup b.file,
         clinks |-> UNION {{Plain(n)} \X p[n].chunks : n \in {n1, n2}},
         chunkRows |-> linked,
         blob |-> [c \in {x, y, z} |-> IF c \in linked THEN "good" ELSE "absent"],
         opts |-> {Repairing}, runs |-> 2, live |-> [n \in {n1, n2} |-> "none"],
         fail |-> FALSE, enabled |-> TRUE]

Damages(n) == {Missing(n), NoInfo(n), NoRow(n), FileOnly(n), Apart(n), ChunkedOnly(n), Short(n),
               Wrong(n), ApartWrong(n), Renamed(n), Flagged(n), Residue(n), Dechunked(n)}

(* Two NARs, damaged in any two ways, or one of them intact.               *)
Damaged == {Scene(a, b) : a \in Damages(n1) \cup {Chunked(n1)},
                          b \in Damages(n2) \cup {Chunked(n2), Whole(n2)}}
(* Chunks lost or rotten, shared or not; chunks without a link or a row.   *)
Rotten == {[Scene(a, Chunked(n2)) EXCEPT !.blob[c] = v] :
              a \in {Chunked(n1), Short(n1), Apart(n1), Residue(n1)}, c \in {x, y},
              v \in {"absent", "bad"}}
Stray == {[Scene(a, Whole(n2)) EXCEPT !.blob[z] = "good", !.chunkRows = @ \cup w] :
             a \in {Dechunked(n1), Chunked(n1)}, w \in {{}, {z}}}
(* After CDC was disabled: chunk rows, or chunked rows, are left.          *)
Drained == [Scene(Whole(n1), Whole(n2)) EXCEPT
                !.blob[z] = "good", !.chunkRows = {z}, !.enabled = FALSE]
Draining == {[Scene(a, Chunked(n2)) EXCEPT !.enabled = FALSE] :
                a \in {Renamed(n1), Missing(n1), Dechunked(n1)}}
(* Deletions that fail and runs that are stopped, before one that is not.  *)
Failing == {[Scene(a, b) EXCEPT !.fail = TRUE] :
               a \in {NoRow(n1), Missing(n1), Short(n1), Apart(n1)},
               b \in {Residue(n2), Nameless(n2), Renamed(n2), ChunkedOnly(n2)}}
(* A row without a NarHash is flagged, and purged by a later run.          *)
Patient == [Scene(Nameless(n1), Chunked(n2)) EXCEPT !.runs = 4]

(* The server at work on one NAR, or on both, during a run.                *)
Beside(s, k1, k2) == [s EXCEPT !.live = n1 :> k1 @@ n2 :> k2, !.runs = 1]
Busy == {Beside(Scene(a, Nothing(n2)), "none", k) :
            a \in Damages(n1) \cup {Chunked(n1), Whole(n1)}, k \in {"pull", "upload", "chunk"}}
        \cup {Beside(Scene(a, Chunked(n2)), k, "none") :
                 a \in {Nothing(n1), Missing(n1), Short(n1), Residue(n1)},
                 k \in {"pull", "chunk"}}
        \cup {Beside(Scene(Missing(n1), Whole(n2)), "none", "evict"),
              Beside(Scene(Nothing(n1), Nothing(n2)), "chunk", "chunk")}

        (* A chunk that two NARs share is lost, and put again for one.     *)
        \cup {Beside([Scene(Chunked(n1), Nothing(n2)) EXCEPT !.blob[y] = "absent"], "none", "chunk")}

(* Interactive runs that skip what was verified lately, and --dry-run.     *)
Others == {[Scene(a, Chunked(n2)) EXCEPT !.opts = {Asking, Looking}] :
              a \in {Missing(n1), Renamed(n1), Residue(n1)}}

Pairs == {Scene(Twins(n1), Chunked(n2)), Scene(Leftover(n1), Chunked(n2))}

MCScenarios == Damaged \cup Pairs \cup Rotten \cup Stray \cup {Drained, Patient} \cup Draining
               \cup Failing \cup Busy \cup Others
DrainedScenarios == {Drained}
=============================================================================
