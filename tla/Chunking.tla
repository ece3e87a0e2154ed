------------------------------ MODULE Chunking ------------------------------
(***************************************************************************)
(* The life of content-defined chunks (CDC) in pkg/cache/cache.go: a NAR   *)
(* is chunked under its migration lock (storeNarWithCDC, PutNar and        *)
(* MigrateNarToChunks), streamed while or after it is chunked, taken back  *)
(* to a whole file (MigrateChunksToNar), purged, evicted, and cleaned up   *)
(* after attempts that died (runCDCLazyRecovery) or files that were        *)
(* replaced (runCDCDeletedCleanup).                                        *)
(*                                                                         *)
(* A NAR has a nar_files row of compression none, which the chunks belong  *)
(* to, and possibly the one of the compressed file it came from ("old").   *)
(* A transaction is one step; so is the put or deletion of an object.      *)
(***************************************************************************)
EXTENDS Naturals, Sequences, FiniteSets

CONSTANTS
    Nars,           \* NAR hashes
    Chunks,         \* chunk hashes
    Content,        \* the chunks of each NAR
    Cut,            \* what a body that ends too early is chunked into
    Rank,           \* the ids of the nar_files rows
    Tasks,          \* calls
    MaxBatch,       \* cdcMaxBatchSize
    SweepBatch,     \* batchSize of the recovery
    Scenarios       \* the calls made, the state they find, what may go wrong

Forms == {"old", "none"}
Row == Nars \X Forms
Kinds == {"store", "migrate", "dechunk", "purge", "expire", "read"}

ASSUME ContentAssumption == /\ Nars # {}
                            /\ Content \in [Nars -> Seq(Chunks)]
                            /\ Cut \in [Nars -> Seq(Chunks)]
                            /\ \A n \in Nars : Len(Content[n]) > 0
ASSUME RankAssumption == /\ Rank \in [Row -> Nat \ {0}]
                         /\ \A q, r \in Row : Rank[q] = Rank[r] => q = r
ASSUME BatchAssumption == MaxBatch \in Nat \ {0} /\ SweepBatch \in Nat \ {0}

Nobody == "nobody"
Sweeper == "sweeper"
Evictor == "evictor"
ASSUME AgentAssumption == {Nobody, Sweeper, Evictor} \cap Tasks = {}
Agents == Tasks \cup {Sweeper, Evictor}

(* kind, nar and form: each call, its NAR and the compression of the body  *)
(* it brings; find: how each NAR is stored at the start; sized: the stores *)
(* that know the NarSize; lazy: lazy chunking; force: de-chunking reclaims *)
(* at once; cut: a body may end too early; garbled: reading one may fail;  *)
(* sweep and lru: the periodic jobs run; gone: narinfos may be gone from   *)
(* upstream; fail and crash: services fail, instances die; lapse: locks    *)
(* run out under calls at work.                                            *)
Scenario ==
    [kind : [Tasks -> Kinds], nar : [Tasks -> Nars], form : [Tasks -> Forms],
     find : [Nars -> {"nothing", "row", "whole", "chunked"}],
     sized : SUBSET Tasks, lazy : BOOLEAN, force : BOOLEAN, cut : BOOLEAN,
     garbled : BOOLEAN, sweep : BOOLEAN, lru : BOOLEAN, gone : BOOLEAN,
     fail : BOOLEAN, crash : BOOLEAN, lapse : BOOLEAN]
ASSUME ScenarioAssumption == Scenarios \subseteq Scenario

VARIABLES
    scenario,   \* the scenario of this behaviour
    lock,       \* the migration lock of each hash
    rows,       \* the nar_files table
    total,      \* total_chunks of the none row: 0 until it is complete
    started,    \* the none rows with chunking_started_at
    links,      \* nar_file_chunks: <<nar, chunk_index, chunk>>
    chunkRows,  \* the chunks table
    url,        \* the narinfo of each NAR: what its URL names
    linked,     \* narinfo_nar_files: the rows its narinfo is linked to
    objects,    \* the chunk store
    whole,      \* the NAR store: whole files
    pc,         \* where each agent is
    nar,        \* the NAR it works on
    body,       \* the chunks its chunker will yield
    at, base,   \* chunks put into the store; chunkCount: those recorded
    mine,       \* the id it keeps of the none row is still that of a row
    todo,       \* chunk rows it will delete if they are orphaned
    dead,       \* chunk objects it will delete
    files,      \* whole files it will delete
    want, got,  \* a reader: chunks it has listed; those it has streamed
    seen,       \* ... totalChunks, once known
    sweep,      \* rows the recovery has fetched, and whether they were started
    victim,     \* the row it is about to collect
    cursor,     \* cdc_lazy_recovery_cursor
    lapsed      \* NARs whose lock has run out under a call that kept it alive

tables == <<rows, total, started, links, chunkRows, url, linked>>
stores == <<objects, whole>>
chunker == <<body, at, base>>
cleanup == <<todo, dead, files>>
reader == <<want, got, seen>>
scan == <<nar, sweep, victim, cursor>>
vars == <<scenario, lock, tables, stores, pc, mine, chunker, cleanup, reader, scan, lapsed>>

Kind(t) == scenario.kind[t]
Form(t) == scenario.form[t]
Lazy == scenario.lazy
MayFail == scenario.fail

Plain(n) == <<n, "none">>
LinksOf(n) == {l \in links : l[1] = n}
ChunksOf(n) == {l[3] : l \in LinksOf(n)}
(* Mutant: the clean-up trusts the list it was given.                      *)
OrphanUnchecked(c) == c \in Chunks

Orphan(c) == \A l \in links : l[3] # c
Whole(n) == {<<n, i, Content[n][i]>> : i \in 1..Len(Content[n])}

(* A request for none is also served from a compressed file.               *)
HasNarInStore(r) == r \in whole \/ (r[2] = "none" /\ \E f \in Forms : <<r[1], f>> \in whole)
Bodies(n) == {Content[n]} \cup (IF scenario.cut THEN {Cut[n]} ELSE {})

Ended == {"done", "busy", "eof", "broken", "dead"}
Steps == {"idle", "check", "open", "reclaim", "dropRow", "dropObject", "chunk", "mark",
          "relink", "abort", "tidy", "unlink", "release", "finish", "fix", "probe", "init", "list", "fetch",
          "poll", "row", "put", "flip", "purge", "have", "file", "expireRow", "expireFile",
          "rows", "backing", "drop", "collect", "clear", "evict"}

TableType ==
    /\ rows \subseteq Row /\ linked \subseteq Row
    /\ total \in [Nars -> Nat] /\ started \subseteq Nars
    /\ links \subseteq Nars \X (Nat \ {0}) \X Chunks /\ chunkRows \subseteq Chunks
    /\ url \in [Nars -> Forms \cup {"absent"}]
    /\ objects \subseteq Chunks /\ whole \subseteq Row

AgentType ==
    /\ lock \in [Nars -> Agents \cup {Nobody}]
    /\ pc \in [Agents -> Steps \cup Ended] /\ nar \in [Agents -> Nars]
    /\ body \in [Agents -> Seq(Chunks)]
    /\ at \in [Agents -> Nat] /\ base \in [Agents -> Nat]
    /\ \A a \in Agents : base[a] <= at[a] /\ at[a] <= Len(body[a])
    /\ mine \in [Agents -> BOOLEAN]
    /\ todo \in [Agents -> SUBSET Chunks] /\ dead \in [Agents -> SUBSET Chunks]
    /\ files \in [Agents -> SUBSET Row]

ReadType ==
    /\ want \in [Agents -> Seq(Chunks)] /\ got \in [Agents -> Seq(Chunks)]
    /\ seen \in [Agents -> Nat]
    /\ sweep \subseteq Row \X BOOLEAN /\ victim \subseteq Row /\ cursor \in Nat

(* The tables, the stores and every agent are well typed; a chunker never  *)
(* records more than it has put, nor puts more than its body.              *)
TypeOK == scenario \in Scenarios /\ TableType /\ AgentType /\ ReadType /\ lapsed \subseteq Nars

Found(s, how) == {n \in Nars : s.find[n] = how}

Init ==
    /\ scenario \in Scenarios
    /\ lock = [n \in Nars |-> Nobody]
    /\ LET placed == Found(scenario, "row")
           kept == Found(scenario, "whole")
           chunked == Found(scenario, "chunked")
       IN  /\ rows = {Plain(n) : n \in placed \cup chunked} \cup {<<n, "old">> : n \in kept}
           /\ linked = rows
           /\ url = [n \in Nars |-> IF n \in kept THEN "old"
                                    ELSE IF n \in placed \cup chunked THEN "none" ELSE "absent"]
           /\ total = [n \in Nars |-> IF n \in chunked THEN Len(Content[n]) ELSE 0]
           /\ links = UNION {Whole(n) : n \in chunked}
           /\ chunkRows = {l[3] : l \in links}
           /\ objects = chunkRows
           /\ whole = {<<n, "old">> : n \in kept}
    /\ started = {}
    /\ pc = [a \in Agents |-> "idle"]
    /\ nar = [a \in Agents |-> IF a \in Tasks THEN scenario.nar[a] ELSE CHOOSE n \in Nars : TRUE]
    /\ body = [a \in Agents |-> <<>>]
    /\ at = [a \in Agents |-> 0] /\ base = at
    /\ mine = [a \in Agents |-> FALSE]
    /\ todo = [a \in Agents |-> {}] /\ dead = todo /\ files = todo
    /\ want = body /\ got = body /\ seen = at
    /\ sweep = {} /\ victim = {} /\ cursor = 0 /\ lapsed = {}

-----------------------------------------------------------------------------
Go(a, s) == pc' = [pc EXCEPT ![a] = s]

TryLock(a, n, held, busy) ==
    \/ lock[n] = Nobody /\ lock' = [lock EXCEPT ![n] = a] /\ Go(a, held)
    \/ (lock[n] # Nobody \/ MayFail) /\ Go(a, busy) /\ UNCHANGED lock

(* The rows R go, and with them, by cascade, their links and those of the  *)
(* narinfos; an id somebody kept of them names no row any more, and the    *)
(* recovery finds no row under those it has listed.                        *)
DeleteRows(R) ==
    LET N == {n \in Nars : Plain(n) \in R}
    IN  /\ rows' = rows \ R
        /\ links' = {l \in links : l[1] \notin N}
        /\ total' = [n \in Nars |-> IF n \in N THEN 0 ELSE total[n]]
        /\ started' = started \ N
        /\ mine' = [a \in Agents |-> mine[a] /\ nar[a] \notin N]
        /\ sweep' = {q \in sweep : q[1] \notin R} /\ victim' = victim \ R

(* Chunk rows that are deleted are in nobody's list any more: a new row    *)
(* for the same chunk has another id.                                      *)
Forget(C) == [a \in Agents |-> todo[a] \ C]

FirstStep == [store |-> "open", migrate |-> "check", dechunk |-> "probe", purge |-> "probe"]
AfterChunks(t) == IF Kind(t) = "migrate" THEN "tidy" ELSE "finish"

(* withNarMigrationLock, and the same at the head of the migrations.       *)
Begin(t) ==
    /\ pc[t] = "idle" /\ Kind(t) \in DOMAIN FirstStep
    /\ TryLock(t, nar[t], FirstStep[Kind(t)], "busy")
    /\ UNCHANGED <<tables, stores, mine, chunker, cleanup, reader, scan>>

(* MigrateNarToChunks: chunked already, or the whole file is fetched.      *)
Check(t) ==
    /\ pc[t] = "check"
    /\ \/ total[nar[t]] > 0 /\ Go(t, IF Form(t) = "old" THEN "tidy" ELSE "release")
       \/ total[nar[t]] = 0 /\ <<nar[t], Form(t)>> \in whole /\ Go(t, "open")
       \/ /\ total[nar[t]] = 0 /\ (<<nar[t], Form(t)>> \notin whole \/ MayFail)
          /\ Go(t, "release")
    /\ UNCHANGED <<lock, tables, stores, mine, chunker, cleanup, reader, scan>>

(* What clearStaleCDCChunkingLockWithEntTx takes away from a row whose     *)
(* chunking was started.                                                   *)
ClearStale(a, n) ==
    /\ links' = IF n \in started THEN links \ LinksOf(n) ELSE links
    /\ todo' = [todo EXCEPT ![a] = IF n \in started THEN ChunksOf(n) ELSE {}]

(* findOrCreateNarFileForCDC.                                              *)
FindOrCreate(t) ==
    LET n == nar[t] IN
    /\ pc[t] = "open"
    /\ \/ /\ total[n] > 0 /\ Go(t, AfterChunks(t))
          /\ UNCHANGED <<tables, mine, chunker, todo>>
       \/ /\ MayFail /\ Go(t, "release")
          /\ UNCHANGED <<tables, mine, chunker, todo>>
       \/ /\ total[n] = 0
          /\ rows' = rows \cup {Plain(n)} /\ started' = started \cup {n}
          /\ ClearStale(t, n)
          /\ \E b \in Bodies(n) : body' = [body EXCEPT ![t] = b]
          /\ at' = [at EXCEPT ![t] = 0] /\ base' = [base EXCEPT ![t] = 0]
          /\ mine' = [mine EXCEPT ![t] = TRUE]
          /\ Go(t, IF todo'[t] = {} THEN "chunk" ELSE "reclaim")
          /\ UNCHANGED <<total, chunkRows, url, linked>>
    /\ UNCHANGED <<lock, stores, dead, files, reader, scan>>

(* cleanupStaleLockChunks: which of the chunks are orphaned ...            *)
Reclaim(a) ==
    /\ pc[a] = "reclaim"
    /\ \/ todo' = [todo EXCEPT ![a] = {c \in todo[a] : Orphan(c)}]
       \/ MayFail /\ todo' = [todo EXCEPT ![a] = {}]
    /\ Go(a, "dropRow")
    /\ UNCHANGED <<lock, tables, stores, mine, chunker, dead, files, reader, scan>>

(* ... the row of one of them, unless it was linked again ...              *)
DropRow(a) ==
    /\ pc[a] = "dropRow"
    /\ \E c \in todo[a] :
        \/ /\ Orphan(c)
           /\ chunkRows' = chunkRows \ {c} /\ todo' = Forget({c})
           /\ dead' = [dead EXCEPT ![a] = {c}]
           /\ Go(a, "dropObject")
        \/ /\ ~Orphan(c) \/ MayFail
           /\ todo' = [todo EXCEPT ![a] = @ \ {c}]
           /\ UNCHANGED <<chunkRows, dead, pc>>
    /\ UNCHANGED <<lock, rows, total, started, links, url, linked, stores, mine, chunker, files,
                   reader, scan>>

(* ... and its object.                                                     *)
DropObject(a) ==
    /\ pc[a] = "dropObject"
    /\ \/ objects' = objects \ dead[a]
       \/ MayFail /\ UNCHANGED objects
    /\ dead' = [dead EXCEPT ![a] = {}] /\ Go(a, "dropRow")
    /\ UNCHANGED <<lock, tables, whole, mine, chunker, todo, files, reader, scan>>

Reclaimed(a) ==
    /\ pc[a] = "dropRow" /\ todo[a] = {}
    /\ Go(a, IF a \in Tasks /\ Kind(a) \in {"store", "migrate"} THEN "chunk"
             ELSE "release")
    /\ UNCHANGED <<lock, tables, stores, mine, chunker, cleanup, reader, scan>>

-----------------------------------------------------------------------------
(* storeNarWithCDCFromReader: the next chunk goes to the store.            *)
PutChunk(t) ==
    /\ pc[t] = "chunk" /\ at[t] < Len(body[t]) /\ at[t] - base[t] < MaxBatch
    /\ \/ /\ objects' = objects \cup {body[t][at[t] + 1]}
          /\ at' = [at EXCEPT ![t] = @ + 1]
          /\ UNCHANGED pc
       \/ MayFail /\ Go(t, "abort") /\ UNCHANGED <<objects, at>>
    /\ UNCHANGED <<lock, tables, whole, mine, body, base, cleanup, reader, scan>>

(* Mutant: the index starts again with each batch.                         *)
BatchRestarts(t) == {<<nar[t], i - base[t], body[t][i]>> : i \in base[t] + 1..at[t]}
Batch(t) == {<<nar[t], i, body[t][i]>> : i \in base[t] + 1..at[t]}

(* recordChunkBatch: an index that has a link keeps it.                    *)
RecordChunkBatch(t) ==
    /\ pc[t] = "chunk" /\ base[t] < at[t]
    /\ \/ /\ mine[t]
          /\ chunkRows' = chunkRows \cup {l[3] : l \in Batch(t)}
          /\ links' = links \cup {l \in Batch(t) : \A k \in LinksOf(l[1]) : k[2] # l[2]}
          /\ base' = [base EXCEPT ![t] = at[t]]
          /\ UNCHANGED pc
       \/ (~mine[t] \/ MayFail) /\ Go(t, "abort") /\ UNCHANGED <<chunkRows, links, base>>
    /\ UNCHANGED <<lock, rows, total, started, url, linked, stores, mine, body, at, cleanup,
                   reader, scan>>

(* The chunker fails: its error is taken from errChan, or the closed       *)
(* chunksChan is taken for the end of the body.                            *)
ReadError(t) ==
    /\ scenario.garbled
    /\ pc[t] = "chunk" /\ at[t] < Len(body[t]) /\ at[t] - base[t] < MaxBatch
    /\ \/ Go(t, "abort") /\ UNCHANGED body
       \/ body' = [body EXCEPT ![t] = SubSeq(@, 1, at[t])] /\ UNCHANGED pc
    /\ UNCHANGED <<lock, tables, stores, mine, at, base, cleanup, reader, scan>>

(* The end of the body: its size is compared with the NarSize, if known.   *)
EndOfBody(t) ==
    /\ pc[t] = "chunk" /\ at[t] = Len(body[t]) /\ base[t] = at[t]
    /\ Go(t, IF t \in scenario.sized /\ body[t] # Content[nar[t]] THEN "abort" ELSE "mark")
    /\ UNCHANGED <<lock, tables, stores, mine, chunker, cleanup, reader, scan>>

MarkComplete(t) ==
    /\ pc[t] = "mark"
    /\ \/ /\ mine[t]
          /\ total' = [total EXCEPT ![nar[t]] = base[t]] /\ started' = started \ {nar[t]}
          /\ Go(t, IF Form(t) = "old" /\ ~Lazy THEN "relink" ELSE AfterChunks(t))
       \/ (~mine[t] \/ MayFail) /\ Go(t, "abort") /\ UNCHANGED <<total, started>>
    /\ UNCHANGED <<lock, rows, links, chunkRows, url, linked, stores, mine, chunker, cleanup,
                   reader, scan>>

(* RelinkAndCleanup: the old row goes and the narinfo is linked to the new *)
(* one; when that fails it is only logged.                                 *)
Relink(t) ==
    LET n == nar[t]
        relinked == IF url[n] = "old" THEN {Plain(n)} ELSE {}
    IN  /\ pc[t] = "relink"
        /\ \/ /\ mine[t] \/ relinked = {}
              /\ rows' = rows \ {<<n, "old">>}
              /\ linked' = (linked \ {<<n, "old">>}) \cup relinked
           \/ /\ (~mine[t] /\ relinked # {}) \/ MayFail
              /\ UNCHANGED <<rows, linked>>
        /\ Go(t, AfterChunks(t))
        /\ UNCHANGED <<lock, total, started, links, chunkRows, url, stores, mine, chunker,
                       cleanup, reader, scan>>

(* Mutant: the caller goes on as if the chunking had succeeded.            *)
AbortGoesOn(t) ==
    /\ pc[t] = "abort"
    /\ started' = IF mine[t] THEN started \ {nar[t]} ELSE started
    /\ Go(t, AfterChunks(t))
    /\ UNCHANGED <<lock, rows, total, links, chunkRows, url, linked, stores, mine, chunker,
                   cleanup, reader, scan>>

(* The deferred clearing of chunking_started_at; the links stay.           *)
Abort(t) ==
    /\ pc[t] = "abort"
    /\ \/ started' = IF mine[t] THEN started \ {nar[t]} ELSE started
       \/ MayFail /\ UNCHANGED started
    /\ Go(t, "release")
    /\ UNCHANGED <<lock, rows, total, links, chunkRows, url, linked, stores, mine, chunker,
                   cleanup, reader, scan>>

(* migrateNarToChunksCleanup: the narinfo's URL, ...                       *)
Tidy(t) ==
    /\ pc[t] = "tidy"
    /\ \/ url' = [url EXCEPT ![nar[t]] = IF @ = Form(t) THEN "none" ELSE @]
       \/ MayFail /\ UNCHANGED url
    /\ Go(t, IF Lazy THEN "release" ELSE "unlink")
    /\ UNCHANGED <<lock, rows, total, started, links, chunkRows, linked, stores, mine, chunker,
                   cleanup, reader, scan>>

(* ... and the whole file; if that is not there, or its deletion fails,    *)
(* the zstd variant, which is what a none NAR is kept as.                  *)
Unlink(t) ==
    /\ pc[t] = "unlink"
    /\ \/ <<nar[t], Form(t)>> \in whole /\ whole' = whole \ {<<nar[t], Form(t)>>}
       \/ /\ <<nar[t], Form(t)>> \notin whole \/ MayFail
          /\ whole' = whole \ {Plain(nar[t])}
       \/ MayFail /\ UNCHANGED whole
    /\ Go(t, "release")
    /\ UNCHANGED <<lock, tables, objects, mine, chunker, cleanup, reader, scan>>

(* Unlock, of a lock that is still its own.                                *)
Release(a) ==
    /\ pc[a] \in {"release", "finish"}
    /\ \/ lock' = [lock EXCEPT ![nar[a]] = IF @ = a THEN Nobody ELSE @]
       \/ MayFail /\ UNCHANGED lock
    /\ Go(a, IF a = Sweeper THEN "rows" ELSE IF pc[a] = "finish" THEN "fix" ELSE "done")
    /\ UNCHANGED <<tables, stores, mine, chunker, cleanup, reader, scan>>

(* checkAndFixNarInfosForNar, after a NAR was stored: the narinfo that     *)
(* names it is linked to the row.                                          *)
FixNarInfos(t) ==
    LET n == nar[t] IN
    /\ pc[t] = "fix" /\ Go(t, "done")
    /\ \/ linked' = linked \cup (IF url[n] = "none" THEN {Plain(n)} \cap rows ELSE {})
       \/ MayFail /\ UNCHANGED linked
    /\ UNCHANGED <<lock, rows, total, started, links, chunkRows, url, stores, mine, chunker,
                   cleanup, reader, scan>>

-----------------------------------------------------------------------------
(* getNarFromChunks and its streams, of a client and of MigrateChunksToNar *)
ReadEnds(t) == IF Kind(t) = "read" THEN "eof" ELSE "put"
ReadFails(t) == IF Kind(t) = "read" THEN "broken" ELSE "release"

(* serveNarFromStorageViaPipe: the whole file, or the chunks.              *)
Look(t) ==
    /\ pc[t] = "idle" /\ Kind(t) = "read"
    /\ Go(t, IF HasNarInStore(Plain(nar[t])) THEN "have" ELSE "init")
    /\ UNCHANGED <<lock, tables, stores, mine, chunker, cleanup, reader, scan>>

Route(t) ==
    /\ pc[t] = "have"
    /\ Go(t, IF total[nar[t]] > 0 THEN "init" ELSE "file")
    /\ UNCHANGED <<lock, tables, stores, mine, chunker, cleanup, reader, scan>>

GetNarFromStore(t) ==
    /\ pc[t] = "file"
    /\ IF HasNarInStore(Plain(nar[t]))
       THEN got' = [got EXCEPT ![t] = Content[nar[t]]] /\ Go(t, "eof")
       ELSE Go(t, "init") /\ UNCHANGED got
    /\ UNCHANGED <<lock, tables, stores, mine, chunker, cleanup, want, seen, scan>>

(* getNarFromChunks.init: the row, and as many links as it says.           *)
ReadInit(t) ==
    LET n == nar[t] IN
    /\ pc[t] = "init"
    /\ \/ /\ Plain(n) \in rows /\ total[n] \in {0, Cardinality(LinksOf(n))}
          /\ seen' = [seen EXCEPT ![t] = total[n]]
          /\ mine' = [mine EXCEPT ![t] = TRUE]
          /\ Go(t, IF total[n] > 0 THEN "list" ELSE "poll")
       \/ /\ Plain(n) \notin rows \/ total[n] \notin {0, Cardinality(LinksOf(n))} \/ MayFail
          /\ Go(t, ReadFails(t))
          /\ UNCHANGED <<seen, mine>>
    /\ UNCHANGED <<lock, tables, stores, chunker, cleanup, want, got, scan>>

(* The chunks from an index on, in the order of their index.               *)
Listing(t, from) ==
    LET S == {l \in links : mine[t] /\ l[1] = nar[t] /\ l[2] > from}
    IN  [k \in 1..Cardinality(S) |->
            (CHOOSE l \in S : Cardinality({m \in S : m[2] <= l[2]}) = k)[3]]

(* streamCompleteChunks.                                                   *)
ListChunks(t) ==
    LET list == Listing(t, 0) IN
    /\ pc[t] = "list"
    /\ IF Len(list) = seen[t]
       THEN want' = [want EXCEPT ![t] = list] /\ Go(t, "fetch")
       ELSE Go(t, ReadFails(t)) /\ UNCHANGED want
    /\ UNCHANGED <<lock, tables, stores, mine, chunker, cleanup, got, seen, scan>>

(* The next chunk that was listed; after the last one a stream that knows  *)
(* how many there are may be at its end.  The client may leave.            *)
Fetch(t) ==
    /\ pc[t] = "fetch"
    /\ \/ /\ Head(want[t]) \in objects
          /\ got' = [got EXCEPT ![t] = Append(@, Head(want[t]))]
          /\ want' = [want EXCEPT ![t] = Tail(@)]
          /\ IF want'[t] # <<>> THEN UNCHANGED pc
             ELSE Go(t, IF seen[t] > 0 /\ Len(got'[t]) >= seen[t] THEN ReadEnds(t) ELSE "poll")
       \/ Go(t, ReadFails(t)) /\ UNCHANGED <<want, got>>
    /\ UNCHANGED <<lock, tables, stores, mine, chunker, cleanup, seen, scan>>

(* streamProgressiveChunks: what has been linked meanwhile, ...            *)
Poll(t) ==
    LET list == Listing(t, Len(got[t])) IN
    /\ pc[t] = "poll"
    /\ want' = [want EXCEPT ![t] = list]
    /\ Go(t, IF list = <<>> THEN "row" ELSE "fetch")
    /\ UNCHANGED <<lock, tables, stores, mine, chunker, cleanup, got, seen, scan>>

(* Mutant: a chunking that is no longer in progress is taken for complete. *)
PollRowEnds(t) ==
    /\ pc[t] = "row"
    /\ Go(t, IF mine[t] /\ nar[t] \in started THEN "poll" ELSE ReadEnds(t))
    /\ UNCHANGED <<lock, tables, stores, mine, chunker, cleanup, reader, scan>>

(* ... or else whether the chunking goes on, is complete or was aborted,   *)
(* or has been waited for too long, or the client left.                    *)
PollRow(t) ==
    LET n == nar[t] IN
    /\ pc[t] = "row"
    /\ \/ /\ mine[t] /\ total[n] > 0
          /\ seen' = [seen EXCEPT ![t] = total[n]]
          /\ Go(t, IF Len(got[t]) >= total[n] THEN ReadEnds(t) ELSE "poll")
       \/ mine[t] /\ total[n] = 0 /\ n \in started /\ Go(t, "poll") /\ UNCHANGED seen
       \/ Go(t, ReadFails(t)) /\ UNCHANGED seen
    /\ UNCHANGED <<lock, tables, stores, mine, chunker, cleanup, want, got, scan>>

-----------------------------------------------------------------------------
(* MigrateChunksToNar and PurgeChunkedNar: is there anything chunked, and, *)
(* to de-chunk it, a narinfo to verify it against?  The purge lists the    *)
(* chunks.                                                                 *)
Probe(t) ==
    LET n == nar[t]
        purge == Kind(t) = "purge"
        chunked == total[n] > 0 /\ (purge \/ url[n] # "absent")
    IN  /\ pc[t] = "probe"
        /\ mine' = [mine EXCEPT ![t] = chunked]
        /\ todo' = [todo EXCEPT ![t] = IF purge /\ chunked THEN ChunksOf(n) ELSE {}]
        /\ Go(t, IF ~chunked THEN "release" ELSE IF purge THEN "purge" ELSE "init")
        /\ UNCHANGED <<lock, tables, stores, chunker, dead, files, reader, scan>>

(* What was read back is verified and written as a whole file.             *)
PutWhole(t) ==
    /\ pc[t] = "put"
    /\ \/ /\ got[t] = Content[nar[t]]
          /\ whole' = whole \cup {Plain(nar[t])} /\ Go(t, "flip")
       \/ /\ got[t] # Content[nar[t]] \/ MayFail
          /\ Go(t, "release") /\ UNCHANGED whole
    /\ UNCHANGED <<lock, tables, objects, mine, chunker, cleanup, reader, scan>>

(* MigrateChunksToNar.flip.                                                *)
Flip(t) ==
    LET n == nar[t] IN
    /\ pc[t] = "flip"
    /\ \/ /\ mine[t]
          /\ links' = links \ LinksOf(n)
          /\ total' = [total EXCEPT ![n] = 0] /\ started' = started \ {n}
          /\ url' = [url EXCEPT ![n] = IF @ = "absent" THEN @ ELSE "none"]
          /\ todo' = [todo EXCEPT ![t] = IF scenario.force THEN ChunksOf(n) ELSE {}]
          /\ Go(t, IF scenario.force THEN "reclaim" ELSE "release")
       \/ /\ ~mine[t] \/ MayFail
          /\ Go(t, "release") /\ UNCHANGED <<links, total, started, url, todo>>
    /\ UNCHANGED <<lock, rows, chunkRows, linked, stores, mine, chunker, dead, files, reader,
                   scan>>

(* PurgeChunkedNar: links and row, if it is still there, in one            *)
(* transaction; then the chunks that were listed.                          *)
Purge(t) ==
    LET row == IF mine[t] THEN {Plain(nar[t])} ELSE {} IN
    /\ pc[t] = "purge"
    /\ \/ /\ DeleteRows(row) /\ linked' = linked \ row
          /\ Go(t, "reclaim") /\ UNCHANGED todo
       \/ /\ MayFail /\ Go(t, "release") /\ todo' = [todo EXCEPT ![t] = {}]
          /\ UNCHANGED <<rows, total, started, links, linked, mine, sweep, victim>>
    /\ UNCHANGED <<lock, chunkRows, url, stores, chunker, dead, files, reader, nar, cursor>>

(* runCDCDeletedCleanup: the compressed file of a chunked NAR, its row ... *)
Expire(t) ==
    /\ pc[t] = "idle" /\ Kind(t) = "expire"
    /\ total[nar[t]] > 0 /\ <<nar[t], "old">> \in rows
    /\ Go(t, "expireRow")
    /\ UNCHANGED <<lock, tables, stores, mine, chunker, cleanup, reader, scan>>

ExpireRow(t) ==
    /\ pc[t] = "expireRow"
    /\ \/ /\ rows' = rows \ {<<nar[t], "old">>} /\ linked' = linked \ {<<nar[t], "old">>}
          /\ Go(t, "expireFile")
       \/ MayFail /\ Go(t, "done") /\ UNCHANGED <<rows, linked>>
    /\ UNCHANGED <<lock, total, started, links, chunkRows, url, stores, mine, chunker, cleanup,
                   reader, scan>>

(* ... and then the file.                                                  *)
ExpireFile(t) ==
    /\ pc[t] = "expireFile"
    /\ \/ whole' = whole \ {<<nar[t], "old">>}
       \/ MayFail /\ UNCHANGED whole
    /\ Go(t, "done")
    /\ UNCHANGED <<lock, tables, objects, mine, chunker, cleanup, reader, scan>>

-----------------------------------------------------------------------------
(* runCDCLazyRecovery: the next rows that are not chunked, by their id,    *)
(* but for young ones whose chunking was not started; the cursor is saved  *)
(* before they are looked at.                                              *)
Begun(r) == r[2] = "none" /\ r[1] \in started
Unchunked(from, young) ==
    {r \in rows : /\ Rank[r] > from /\ (r[2] = "none" => total[r[1]] = 0)
                  /\ r \in young => Begun(r)}
Lowest(S) == {r \in S : Cardinality({q \in S : Rank[q] < Rank[r]}) < SweepBatch}
Last(S) == CHOOSE x \in {Rank[r] : r \in S} : \A r \in S : Rank[r] <= x

(* Mutant: the cursor does not wrap around after the last rows.            *)
CursorStays(found) == IF found = {} THEN cursor ELSE Last(found)

NextCursor(found) == IF Cardinality(found) < SweepBatch THEN 0 ELSE Last(found)

LoadRecoveryCursor == {cursor} \cup (IF MayFail THEN {0} ELSE {})
SaveRecoveryCursor(id) == cursor' = id \/ (MayFail /\ UNCHANGED cursor)

SweepScan ==
    /\ scenario.sweep /\ pc[Sweeper] = "idle"
    /\ \E from \in LoadRecoveryCursor, young \in SUBSET rows :
        LET found == Lowest(Unchunked(from, young)) IN
        /\ sweep' = {<<r, Begun(r)>> : r \in found}
        /\ SaveRecoveryCursor(NextCursor(found))
        /\ IF found = {} THEN UNCHANGED pc ELSE Go(Sweeper, "rows")
    /\ UNCHANGED <<lock, tables, stores, mine, chunker, cleanup, reader, nar, victim>>

Candidate == CHOOSE q \in sweep : \A p \in sweep : Rank[q[1]] <= Rank[p[1]]

(* recoverStaleCDCChunkingLock: a row whose chunking was started is left   *)
(* to whoever holds its lock; ...                                          *)
SweepLock ==
    LET n == Candidate[1][1] IN
    /\ pc[Sweeper] = "rows" /\ sweep # {} /\ Candidate[2]
    /\ \/ /\ lock[n] = Nobody /\ lock' = [lock EXCEPT ![n] = Sweeper]
          /\ nar' = [nar EXCEPT ![Sweeper] = n] /\ mine' = [mine EXCEPT ![Sweeper] = TRUE]
          /\ sweep' = sweep \ {Candidate} /\ Go(Sweeper, "clear")
       \/ /\ lock[n] # Nobody /\ sweep' = sweep \ {Candidate}
          /\ UNCHANGED <<lock, pc, nar, mine>>
       \/ MayFail /\ sweep' = {} /\ UNCHANGED <<lock, pc, nar, mine>>
    /\ UNCHANGED <<tables, stores, chunker, cleanup, reader, victim, cursor>>

(* ... what is there when it holds the lock counts.                        *)
SweepClear ==
    LET n == nar[Sweeper] IN
    /\ pc[Sweeper] = "clear"
    /\ \/ /\ mine[Sweeper] /\ n \in started
          /\ ClearStale(Sweeper, n) /\ started' = started \ {n} /\ Go(Sweeper, "reclaim")
          /\ UNCHANGED sweep
       \/ /\ ~(mine[Sweeper] /\ n \in started)
          /\ Go(Sweeper, "release") /\ UNCHANGED <<links, todo, started, sweep>>
       \/ /\ MayFail /\ sweep' = {}
          /\ Go(Sweeper, "release") /\ UNCHANGED <<links, todo, started>>
    /\ UNCHANGED <<lock, rows, total, chunkRows, url, linked, stores, mine, chunker, dead, files,
                   reader, nar, victim, cursor>>

(* A row that was not started is left alone when there is a whole file: a  *)
(* migrate call may chunk it.  A look that fails finds none.               *)
SweepRow ==
    /\ pc[Sweeper] = "rows" /\ sweep # {} /\ ~Candidate[2]
    /\ sweep' = sweep \ {Candidate}
    /\ \/ HasNarInStore(Candidate[1]) /\ UNCHANGED <<victim, pc>>
       \/ /\ ~HasNarInStore(Candidate[1]) \/ MayFail
          /\ victim' = {Candidate[1]} /\ Go(Sweeper, "backing")
    /\ UNCHANGED <<lock, tables, stores, mine, chunker, cleanup, reader, nar, cursor>>

(* gcOrSkipBackingLessNarFile: without a narinfo the row goes; else only   *)
(* when the narinfo is gone from every upstream.                           *)
SweepQuery ==
    /\ pc[Sweeper] = "backing"
    /\ \/ victim \cap linked = {} /\ Go(Sweeper, "drop")
       \/ victim \cap linked # {} /\ scenario.gone /\ Go(Sweeper, "collect")
       \/ (victim \cap linked # {} \/ MayFail) /\ Go(Sweeper, "rows")
    /\ UNCHANGED <<lock, tables, stores, mine, chunker, cleanup, reader, scan>>

(* The row goes, even if a narinfo was linked to it meanwhile; of one that *)
(* was queried the narinfo goes too, unless it is linked to another.       *)
SweepDelete ==
    /\ pc[Sweeper] \in {"drop", "collect"} /\ Go(Sweeper, "rows")
    /\ \/ /\ DeleteRows(victim) /\ linked' = linked \ victim
          /\ url' = [n \in Nars |->
                        IF /\ pc[Sweeper] = "collect" /\ \E f \in Forms : <<n, f>> \in victim
                           /\ \A f \in Forms : <<n, f>> \notin linked'
                        THEN "absent" ELSE url[n]]
       \/ MayFail /\ UNCHANGED <<rows, total, started, links, mine, sweep, victim, linked, url>>
    /\ UNCHANGED <<lock, chunkRows, stores, chunker, cleanup, reader, nar, cursor>>

SweepEnd ==
    /\ pc[Sweeper] = "rows" /\ sweep = {} /\ Go(Sweeper, "idle")
    /\ UNCHANGED <<lock, tables, stores, mine, chunker, cleanup, reader, scan>>

(* The transaction of runLRU: narinfos go, the rows nobody is linked to    *)
(* any more, and the chunks no row is linked to.                           *)
RunLRU ==
    /\ scenario.lru /\ pc[Evictor] = "idle"
    /\ \E E \in SUBSET {n \in Nars : url[n] # "absent"} :
        /\ {n \in Nars : url[n] # "absent"} # {}
        /\ url' = [n \in Nars |-> IF n \in E THEN "absent" ELSE url[n]]
        /\ linked' = {r \in linked : r[1] \notin E}
    /\ DeleteRows(rows \ linked')
    /\ chunkRows' = {c \in chunkRows : \E l \in links' : l[3] = c}
    /\ todo' = Forget(chunkRows \ chunkRows')
    /\ dead' = [dead EXCEPT ![Evictor] = chunkRows \ chunkRows']
    /\ files' = [files EXCEPT ![Evictor] = rows \ rows']
    /\ Go(Evictor, "evict")
    /\ UNCHANGED <<lock, stores, chunker, reader, nar, cursor>>

(* parallelDeleteFromStores.                                               *)
DeleteFromStores ==
    /\ pc[Evictor] = "evict"
    /\ \/ /\ \E c \in dead[Evictor] : /\ dead' = [dead EXCEPT ![Evictor] = @ \ {c}]
                                      /\ (objects' = objects \ {c}
                                            \/ (MayFail /\ UNCHANGED objects))
          /\ UNCHANGED <<whole, files, pc>>
       \/ /\ \E r \in files[Evictor] : /\ files' = [files EXCEPT ![Evictor] = @ \ {r}]
                                       /\ (whole' = whole \ {r}
                                             \/ (MayFail /\ UNCHANGED whole))
          /\ UNCHANGED <<objects, dead, pc>>
       \/ /\ dead[Evictor] = {} /\ files[Evictor] = {} /\ Go(Evictor, "idle")
          /\ UNCHANGED <<stores, dead, files>>
    /\ UNCHANGED <<lock, tables, mine, chunker, todo, reader, scan>>

-----------------------------------------------------------------------------
(* The instance of a call dies.                                            *)
Crash(t) ==
    /\ scenario.crash /\ pc[t] \notin Ended \cup {"idle"} /\ Go(t, "dead")
    /\ UNCHANGED <<lock, tables, stores, mine, chunker, cleanup, reader, scan>>

(* lock.StartRefresher: the calls that try to keep their lock alive while  *)
(* they work under it; PurgeChunkedNar does not.                           *)
Refreshed(a) ==
    \/ a = Sweeper /\ pc[a] \notin {"idle", "rows", "backing", "drop", "collect"}
    \/ a \in Tasks /\ Kind(a) \in {"store", "migrate", "dechunk"}
          /\ pc[a] \notin Ended \cup {"idle", "fix"}

(* The other locks expire: of instances that died, of calls that could not *)
(* release theirs, and of a purge that takes long.                         *)
ExpireLock(n) ==
    /\ lock[n] # Nobody /\ ~Refreshed(lock[n])
    /\ lock' = [lock EXCEPT ![n] = Nobody]
    /\ UNCHANGED <<tables, stores, pc, mine, chunker, cleanup, reader, scan>>

(* A call goes on when its lock was not extended in time: the refresher    *)
(* only logs it, and its next try comes after the TTL.                     *)
LapseLock(n) ==
    /\ scenario.lapse /\ lock[n] # Nobody /\ Refreshed(lock[n])
    /\ lock' = [lock EXCEPT ![n] = Nobody] /\ lapsed' = lapsed \cup {n}
    /\ UNCHANGED <<tables, stores, pc, mine, chunker, cleanup, reader, scan>>

Store(t) == FindOrCreate(t) \/ PutChunk(t) \/ RecordChunkBatch(t) \/ ReadError(t) \/ EndOfBody(t)
            \/ MarkComplete(t) \/ Relink(t) \/ Abort(t) \/ FixNarInfos(t)
Migrate(t) == Check(t) \/ Tidy(t) \/ Unlink(t)
Dechunk(t) == Probe(t) \/ PutWhole(t) \/ Flip(t) \/ Purge(t)
Read(t) == \/ Look(t) \/ Route(t) \/ GetNarFromStore(t) \/ ReadInit(t) \/ ListChunks(t)
           \/ Fetch(t) \/ Poll(t) \/ PollRow(t)
DeletedCleanup(t) == Expire(t) \/ ExpireRow(t) \/ ExpireFile(t)
Clean(a) == Reclaim(a) \/ DropRow(a) \/ DropObject(a) \/ Reclaimed(a) \/ Release(a)
Call(t) == Begin(t) \/ Store(t) \/ Migrate(t) \/ Dechunk(t) \/ Read(t) \/ DeletedCleanup(t) \/ Clean(t)
Collect == SweepRow \/ SweepQuery \/ SweepDelete
Recovery == SweepScan \/ SweepLock \/ SweepClear \/ Collect \/ SweepEnd \/ Clean(Sweeper)
LRU == RunLRU \/ DeleteFromStores

Work ==
    \/ Recovery \/ LRU
    \/ \E t \in Tasks : Call(t) \/ Crash(t)
    \/ \E n \in Nars : ExpireLock(n)

Next ==
    /\ (Work /\ UNCHANGED lapsed) \/ \E n \in Nars : LapseLock(n)
    /\ UNCHANGED scenario

Spec == Init /\ [][Next]_vars

(* The goroutines of live instances run, the recovery is a cron job, and   *)
(* locks expire.  Calls need not be made.                                  *)
FairSpec ==
    /\ Spec
    /\ WF_vars(Recovery /\ UNCHANGED <<scenario, lapsed>>)
    /\ \A t \in Tasks : WF_vars(pc[t] # "idle" /\ Call(t) /\ UNCHANGED <<scenario, lapsed>>)
    /\ \A n \in Nars : WF_vars(ExpireLock(n) /\ UNCHANGED <<scenario, lapsed>>)

-----------------------------------------------------------------------------
(* Every body that is chunked is the whole NAR.                            *)
Sound == ~scenario.cut /\ ~scenario.garbled

(* A row that is marked complete is linked to exactly the chunks of its    *)
(* NAR, through concurrent and crashed attempts, de-chunking, purges,      *)
(* evictions and failing services (MarkComplete,                           *)
(* clearStaleCDCChunkingLockWithEntTx), as long as nobody's lock on this   *)
(* NAR has run out under its work: then two attempts may mix (section 3 of *)
(* the README).                                                            *)
CompleteMeansWhole ==
    Sound => \A n \in Nars \ lapsed :
        total[n] > 0 => LinksOf(n) = Whole(n) /\ total[n] = Len(Content[n])

(* A client whose stream ends without an error got the whole NAR, although *)
(* it may have followed the chunking, or the row may have gone             *)
(* (streamCompleteChunks, streamProgressiveChunks); as above.              *)
BodyWhole ==
    Sound => \A t \in Tasks :
        pc[t] = "eof" /\ nar[t] \notin lapsed => got[t] = Content[nar[t]]

(* Nothing is removed on purpose, of two NARs that share a chunk only one  *)
(* is worked on, and no lock on the NAR has run out under its work.        *)
Busy(n) == \E t \in Tasks : scenario.nar[t] = n
Kept(n) ==
    /\ Sound /\ ~scenario.lru /\ ~scenario.gone /\ n \notin lapsed
    /\ \A t \in Tasks : Kind(t) # "purge"
    /\ \A m \in Nars \ {n} : Busy(m) /\ Busy(n)
          => \A k \in Whole(m), l \in Whole(n) : k[3] # l[3]
Servable(n) == total[n] > 0 /\ LinksOf(n) = Whole(n) /\ ChunksOf(n) \subseteq objects

(* A NAR that was stored can be served at any time during its migration to *)
(* chunks or back, whichever instance dies or service fails, but for the   *)
(* extension of its own lock: as a whole file or from chunks that are all  *)
(* there (MigrateNarToChunks, MigrateChunksToNar).                         *)
NeverLost ==
    \A n \in Nars : Kept(n) /\ ~scenario.sweep /\ scenario.find[n] \in {"whole", "chunked"}
        => HasNarInStore(Plain(n)) \/ Servable(n)

(* A complete NAR has the objects of its chunks, however stale attempts    *)
(* are cleaned up (cleanupStaleLockChunks).                                *)
Backed == \A n \in Nars : Kept(n) /\ total[n] > 0 => ChunksOf(n) \subseteq objects

(* An attempt that died does not stay in progress: the recovery reaches    *)
(* its row although others before it stay as they are (cursor and wrap of  *)
(* runCDCLazyRecovery).                                                    *)
Recovered ==
    scenario.sweep /\ ~MayFail => \A n \in Nars : (n \in started) ~> (n \notin started)

(* When every store knows the NarSize, nothing but the whole NAR is        *)
(* committed (the size check of storeNarWithCDCFromReader). Not so in the  *)
(* code after a refused attempt: see section 3 of the README.              *)
CommitsVerified ==
    scenario.sized = Tasks => \A n \in Nars : total[n] > 0 => LinksOf(n) = Whole(n)
=============================================================================
