------------------------------ MODULE Eviction ------------------------------
(***************************************************************************)
(* LRU eviction and pinned closures of pkg/cache/cache.go, beside the      *)
(* operations that fill the cache: uploads (PutNar, PutNarInfo), downloads *)
(* (storeNarFromTempFile, storeInDatabase), DeleteNar and the pin calls.   *)
(*                                                                         *)
(* The database is shared by all instances: the narinfo rows with their    *)
(* last_accessed_at, the nar_files rows, their bytes_stored_at marker and  *)
(* the pinned roots. A transaction is one step. The NAR store is a set     *)
(* of objects <<nar, variant>>: "own" is the object named after the NAR's  *)
(* compression, "zst" the one that holds a Compression:none NAR that was   *)
(* downloaded. CDC is off: the chunk phase of the eviction is left out.    *)
(***************************************************************************)
EXTENDS Integers, FiniteSets, Functions

CONSTANTS
    Infos,          \* narinfo hashes
    Nars,           \* NAR hashes
    NarOf,          \* the NAR a narinfo links to: several may share one
    Size,           \* nar_files.file_size
    RefsOf,         \* the references of a narinfo
    RefChars,       \* the length of a narinfo's name in a reference
    Loaded,         \* the narinfos cached at the start: last_accessed_at, or 0
    Tasks,          \* calls of clients
    MaxSize,        \* c.maxSize
    MaxDepth,       \* the level cap of the closure traversal
    Scenarios       \* what clients do and what may go wrong

Kinds == {"push", "fetch", "info", "drop", "touch", "pin", "unpin"}

ASSUME LinkAssumption == NarOf \in [Infos -> Nars] /\ Size \in [Nars -> Nat]
ASSUME RefAssumption == /\ RefsOf \in [Infos -> SUBSET Infos]
                        /\ RefChars \in [Infos -> Nat]
ASSUME LoadedAssumption ==
    /\ IsFiniteSet(Infos)
    /\ Loaded \in [Infos -> 0..Cardinality(Infos)]
    /\ \A i, j \in Infos : i # j /\ Loaded[i] > 0 => Loaded[i] # Loaded[j]
ASSUME BoundAssumption == MaxSize \in Nat /\ MaxDepth \in Nat

(* kind and item: each call and the narinfo it is for; plain: the NARs     *)
(* with Compression: none; cap: the row cap of the candidate query; fail:  *)
(* the store and the clients may fail; crash: the evicting instance may    *)
(* die.                                                                    *)
Scenario == [kind : [Tasks -> Kinds], item : [Tasks -> Infos], plain : SUBSET Nars,
             cap : Nat \ {0}, fail : BOOLEAN, crash : BOOLEAN]
ASSUME ScenarioAssumption == Scenarios \subseteq Scenario

VARIABLES
    scenario,   \* the scenario of this behaviour
    accessed,   \* the narinfos table: last_accessed_at of a row, 0 without one
    clock,      \* the last last_accessed_at given
    rows,       \* the nar_files table
    marked,     \* the rows with bytes_stored_at
    files,      \* the NAR store
    pins,       \* the pinned_closures table
    pc,         \* the progress of each task
    lru,        \* the eviction run: its step, the hashes it keeps, what is left to delete
    early       \* history: the roots pinned since before the run began

vars == <<scenario, accessed, clock, rows, marked, files, pins, pc, lru, early>>

Kind == scenario.kind
Item == scenario.item
Plain == scenario.plain
MaxFetchRows == scenario.cap
MayFail == scenario.fail
MayCrash == scenario.crash

Here == {i \in Infos : accessed[i] > 0}
Nar(t) == NarOf[Item[t]]
Own(n) == <<n, "own">>
Variants(n) == IF n \in Plain THEN {<<n, "zst">>, Own(n)} ELSE {Own(n)}

Idle == [step |-> "idle", keep |-> {}, queue |-> {}]

(* What storeNarFromTempFile and PutNar write.                             *)
Object(t) == IF Kind[t] = "fetch" /\ Nar(t) \in Plain THEN <<Nar(t), "zst">>
             ELSE Own(Nar(t))

(* The downloaded closure a server starts with.                            *)
Init ==
    /\ scenario \in Scenarios
    /\ accessed = Loaded
    /\ clock = Cardinality(Infos)
    /\ rows = {NarOf[i] : i \in {j \in Infos : Loaded[j] > 0}}
    /\ marked = rows
    /\ files = {IF n \in Plain THEN <<n, "zst">> ELSE Own(n) : n \in rows}
    /\ pins = {}
    /\ pc = [t \in Tasks |-> "new"]
    /\ lru = Idle
    /\ early = {}

Go(t, to) == pc' = [pc EXCEPT ![t] = to]
At(t, kinds, at) == Kind[t] \in kinds /\ pc[t] = at
Client == UNCHANGED <<lru, early>>
StoreOnly == UNCHANGED <<accessed, clock, rows, marked, pins>>
TablesOnly == UNCHANGED <<files, pins>>

-----------------------------------------------------------------------------
(* Presence: statNarInStore, narFileBytesStored, and the answers of        *)
(* getNarInfoFromDatabase on the two paths.                                *)
InStore(n) == Variants(n) \cap files # {}
PresentForUpload(i) == i \in Here /\ (InStore(NarOf[i]) \/ NarOf[i] \in marked)

(* SetLastAccessedAt, which a row that was touched a moment ago is spared. *)
SetLastAccessed(i) == clock' = clock + 1 /\ accessed' = [accessed EXCEPT ![i] = clock + 1]
MaybeTouch(i) == \/ i \in Here /\ SetLastAccessed(i)
                 \/ UNCHANGED <<accessed, clock>>

(* storeInDatabase: the row, its nar_files row and their link.             *)
StoreInDatabase(i) ==
    /\ IF i \in Here THEN UNCHANGED <<accessed, clock>> ELSE SetLastAccessed(i)
    /\ rows' = rows \cup {NarOf[i]}
    /\ UNCHANGED marked

-----------------------------------------------------------------------------
(* nix copy: ask the upload path for the narinfo first.                    *)
UploadCheck(t) ==
    /\ At(t, {"push"}, "new")
    /\ MaybeTouch(Item[t])
    /\ Go(t, IF PresentForUpload(Item[t]) THEN "done" ELSE "store")
    /\ UNCHANGED <<rows, marked>> /\ TablesOnly /\ Client

(* GetNar: a miss starts a download.                                       *)
FetchCheck(t) ==
    /\ At(t, {"fetch"}, "new")
    /\ Go(t, IF InStore(Nar(t)) THEN "done" ELSE "store")
    /\ StoreOnly /\ UNCHANGED files /\ Client

(* narStore.PutNar.                                                        *)
StorePutNar(t) ==
    /\ pc[t] = "store"
    /\ files' = files \cup {Object(t)}
    /\ Go(t, IF Object(t) \in files THEN "exists" ELSE "record")
    /\ StoreOnly /\ Client

(* ErrAlreadyExists: the size is asked of the object that is there.        *)
StoreGetNar(t) ==
    /\ pc[t] = "exists"
    /\ Go(t, IF Object(t) \in files THEN "record" ELSE "failed")
    /\ StoreOnly /\ UNCHANGED files /\ Client

EnsureNarFileRecord(t) ==
    /\ pc[t] = "record"
    /\ rows' = rows \cup {Nar(t)}
    /\ marked' = marked \cup {Nar(t)}
    /\ Go(t, IF Kind[t] = "push" THEN "publish" ELSE "done")
    /\ UNCHANGED <<accessed, clock>> /\ TablesOnly /\ Client

(* PutNarInfo after the NAR, or pullNarInfo beside its download.           *)
PutNarInfo(t) ==
    /\ At(t, {"push"}, "publish") \/ At(t, {"info"}, "new")
    /\ StoreInDatabase(Item[t])
    /\ Go(t, "done")
    /\ TablesOnly /\ Client

(* Any call fails before its effect: the store, the database or the client.*)
Fail(t) ==
    /\ MayFail
    /\ pc[t] \in {"store", "exists", "record", "publish"}
    /\ Go(t, "failed")
    /\ StoreOnly /\ UNCHANGED files /\ Client

-----------------------------------------------------------------------------
(* DeleteNar: every variant of the object, then the marker.                *)
DeleteNar(t) ==
    /\ At(t, {"drop"}, "new")
    /\ files' = files \ Variants(Nar(t))
    /\ Go(t, IF InStore(Nar(t)) THEN "clear" ELSE "failed")
    /\ StoreOnly /\ Client

(* A variant that cannot be deleted ends the call; one may be gone by then.*)
DeleteNarFails(t) ==
    /\ MayFail
    /\ At(t, {"drop"}, "new")
    /\ \E gone \in {{}, Variants(Nar(t)) \ {Own(Nar(t))}} : files' = files \ gone
    /\ Go(t, "failed")
    /\ StoreOnly /\ Client

ClearBytesStored(t) ==
    /\ pc[t] = "clear"
    /\ marked' = marked \ {Nar(t)}
    /\ Go(t, "done")
    /\ UNCHANGED <<accessed, clock, rows>> /\ TablesOnly /\ Client

(* GetNarInfo touches the row it reads.                                    *)
Touch(t) ==
    /\ At(t, {"touch"}, "new")
    /\ MaybeTouch(Item[t])
    /\ Go(t, "done")
    /\ UNCHANGED <<rows, marked>> /\ TablesOnly /\ Client

(* PinClosure: the narinfo is looked up, then the root is inserted.        *)
PinCheck(t) ==
    /\ At(t, {"pin"}, "new")
    /\ Go(t, IF Item[t] \in Here THEN "pin" ELSE "failed")
    /\ StoreOnly /\ UNCHANGED files /\ Client

PinInsert(t) ==
    /\ pc[t] = "pin"
    /\ pins' = pins \cup {Item[t]}
    /\ Go(t, "done")
    /\ UNCHANGED <<accessed, clock, rows, marked, files>> /\ Client

UnpinClosure(t) ==
    /\ At(t, {"unpin"}, "new")
    /\ pins' = pins \ {Item[t]}
    /\ early' = early \ {Item[t]}
    /\ Go(t, "done")
    /\ UNCHANGED <<accessed, clock, rows, marked, files, lru>>

-----------------------------------------------------------------------------
(* GetPinnedClosureHashes. A narinfo hash has 32 characters; the first 52  *)
(* of a reference are a hash and part of a name, which no narinfo has.     *)
HashChars == 32
NarInfoHashLength == 52
RefHash(i) ==
    IF RefChars[i] < NarInfoHashLength THEN {}
    ELSE IF HashChars = NarInfoHashLength THEN {i} ELSE {<<"cut", i>>}

Level(S) == UNION {UNION {RefHash(r) : r \in RefsOf[i]} : i \in S \cap Here}

Referenced ==
    LET P[d \in 0..MaxDepth] == IF d = 0 THEN {} ELSE P[d - 1] \cup Level(pins \cup P[d - 1])
    IN  P[MaxDepth]

(* Mutant: the roots themselves are not in the set.                        *)
GetReferencesOnly == Referenced

GetPinnedClosureHashes == pins \cup Referenced

(* narInfoFileSize of some narinfos: a shared NAR counts for each of them. *)
SizeOf(S) == FoldFunction(+, 0, [i \in S |-> Size[NarOf[i]]])

(* totalNarFileSize, and calculateCleanupSize.                             *)
TotalSize == FoldFunction(+, 0, [n \in rows |-> Size[n]])
CleanupSize == IF TotalSize <= MaxSize THEN 0 ELSE TotalSize - MaxSize

-----------------------------------------------------------------------------
(* The narinfos of a set that are as cold as i or colder.                  *)
UpTo(i, S) == {j \in S : accessed[j] <= accessed[i]}

(* Mutants: the hottest first, and no exception for the first one.         *)
CandidatesHottest ==
    {i \in Here : SizeOf({j \in Here : accessed[j] >= accessed[i]}) <= 2 * CleanupSize}
CandidatesFitting == {i \in Here : SizeOf(UpTo(i, Here)) <= 2 * CleanupSize}

(* deleteLRURecordsFromDB. The candidates are the coldest narinfos, up to  *)
(* the first that does not fit into twice the cleanup size; the very first *)
(* one is taken in any case.                                               *)
Candidates ==
    {i \in Here :
        /\ Cardinality(UpTo(i, Here)) <= MaxFetchRows
        /\ \A j \in UpTo(i, Here) : \/ UpTo(j, Here) = {j}
                                    \/ SizeOf(UpTo(j, Here)) <= 2 * CleanupSize}

(* The loop passes over what is kept, and stops behind i when it has       *)
(* enough and is not at the end of the candidates.                         *)
Loose == Candidates \ lru.keep
StopsAt(i) == /\ SizeOf(UpTo(i, Loose)) >= CleanupSize
              /\ Cardinality(UpTo(i, Loose)) < Cardinality(Candidates) - 1
Evicted == {i \in Loose : \A j \in Loose : accessed[j] < accessed[i] => ~StopsAt(j)}

(* Mutant: the rows of the evicted, shared or not.                         *)
OrphansOfEvicted(rest) == rows \cap {NarOf[i] : i \in Here \ rest}

(* The nar_files rows that no narinfo links any more.                      *)
Orphans(rest) == rows \ {NarOf[i] : i \in rest}

(* The pinned closures are read before the transaction.                    *)
StartLRU ==
    /\ lru.step = "idle"
    /\ lru' = [step |-> "evict", keep |-> GetPinnedClosureHashes, queue |-> {}]
    /\ early' = pins
    /\ UNCHANGED <<accessed, clock, rows, marked, files, pins, pc>>

DeleteRows(S) == accessed' = [i \in Infos |-> IF i \in S THEN 0 ELSE accessed[i]]

(* Mutant: the orphans are listed before the narinfos are deleted.         *)
LRUListsFirst ==
    /\ lru.step = "evict"
    /\ CleanupSize > 0 /\ Here # {}
    /\ DeleteRows(Evicted)
    /\ rows' = rows \ Orphans(Here \ Evicted)
    /\ marked' = marked \ Orphans(Here \ Evicted)
    /\ lru' = [lru EXCEPT !.step = "delete", !.queue = Orphans(Here)]
    /\ UNCHANGED <<clock, pc, early>> /\ TablesOnly

LRUTransaction ==
    /\ lru.step = "evict"
    /\ CleanupSize > 0 /\ Here # {}
    /\ DeleteRows(Evicted)
    /\ LET gone == Orphans(Here \ Evicted)
       IN  /\ rows' = rows \ gone
           /\ marked' = marked \ gone
           /\ lru' = [lru EXCEPT !.step = "delete", !.queue = gone]
    /\ UNCHANGED <<clock, pc, early>> /\ TablesOnly

(* Nothing to clean up, or no narinfo to clean up with.                    *)
NothingToEvict ==
    /\ lru.step = "evict"
    /\ CleanupSize = 0 \/ Here = {}
    /\ lru' = Idle
    /\ UNCHANGED <<accessed, clock, rows, marked, files, pins, pc, early>>

(* parallelDeleteFromStores: the object named after the row's compression. *)
DeleteFromStore(n) ==
    /\ n \in lru.queue
    /\ files' = files \ {Own(n)}
    /\ lru' = [lru EXCEPT !.queue = @ \ {n}]
    /\ UNCHANGED <<pc, early>> /\ StoreOnly

(* A failed deletion is only logged.                                       *)
DeleteFromStoreFails(n) ==
    /\ MayFail
    /\ n \in lru.queue
    /\ lru' = [lru EXCEPT !.queue = @ \ {n}]
    /\ UNCHANGED <<pc, early, files>> /\ StoreOnly

EndLRU ==
    /\ lru.step = "delete" /\ lru.queue = {}
    /\ lru' = Idle
    /\ UNCHANGED <<accessed, clock, rows, marked, files, pins, pc, early>>

(* The evicting instance dies; another takes the lock when it has expired. *)
CrashLRU ==
    /\ MayCrash
    /\ lru.step # "idle"
    /\ lru' = Idle
    /\ UNCHANGED <<accessed, clock, rows, marked, files, pins, pc, early>>

-----------------------------------------------------------------------------
RunLRU ==
    \/ StartLRU
    \/ LRUTransaction
    \/ NothingToEvict
    \/ \E n \in Nars : DeleteFromStore(n) \/ DeleteFromStoreFails(n)
    \/ EndLRU

Serve(t) ==
    \/ UploadCheck(t)
    \/ FetchCheck(t)
    \/ StorePutNar(t)
    \/ StoreGetNar(t)
    \/ EnsureNarFileRecord(t)
    \/ PutNarInfo(t)
    \/ DeleteNar(t)
    \/ ClearBytesStored(t)
    \/ Touch(t)
    \/ PinCheck(t)
    \/ PinInsert(t)
    \/ UnpinClosure(t)

Next ==
    /\ \/ RunLRU
       \/ CrashLRU
       \/ \E t \in Tasks : Serve(t) \/ Fail(t) \/ DeleteNarFails(t)
    /\ UNCHANGED scenario

Spec == Init /\ [][Next]_vars

(* The cron job runs again and again, and a call that can go on does.      *)
FairSpec ==
    /\ Spec
    /\ WF_vars(RunLRU /\ UNCHANGED scenario)
    /\ \A t \in Tasks : WF_vars(Serve(t) /\ UNCHANGED scenario)

-----------------------------------------------------------------------------
(* The tables and the store hold what they are declared to hold.           *)
TypeOK ==
    /\ scenario \in Scenarios
    /\ accessed \in [Infos -> Nat] /\ clock \in Nat
    /\ rows \subseteq Nars /\ marked \subseteq rows
    /\ files \subseteq Nars \X {"own", "zst"}
    /\ pins \subseteq Infos /\ early \subseteq Infos
    /\ pc \in [Tasks -> {"new", "store", "exists", "record", "publish",
                         "clear", "pin", "done", "failed"}]
    /\ lru = [step |-> lru.step, keep |-> lru.keep, queue |-> lru.queue]
    /\ lru.step \in {"idle", "evict", "delete"} /\ lru.queue \subseteq Nars

(* A narinfo never loses its nar_files row, whoever else links that NAR is *)
(* evicted: only rows without a link are deleted (deleteLRURecordsFromDB). *)
LinkedRowKept == \A i \in Here : NarOf[i] \in rows

(* Nothing in the NAR store is out of sight: an object has its row, is     *)
(* about to be deleted by the run that removed the row, or is being        *)
(* recorded by the call that wrote it.  That is so where nothing fails and *)
(* no NAR is stored under another name than its row's.                     *)
Faultless == ~MayFail /\ ~MayCrash /\ Plain = {}
BytesAccounted ==
    Faultless => \A f \in files :
        \/ f[1] \in rows
        \/ f = Own(f[1]) /\ f[1] \in lru.queue
        \/ \E t \in Tasks : pc[t] \in {"exists", "record"} /\ Object(t) = f

Leaves(i) == i \in Here /\ accessed'[i] = 0
Stays(i) == i \in Here /\ accessed'[i] > 0

(* A root that was pinned before the eviction began and has not been       *)
(* unpinned since is not evicted.                                          *)
EarlyPinsKept == [][\A i \in early : ~Leaves(i)]_vars

(* What is evicted was colder than everything that stays and could have    *)
(* been evicted, although the pinned ones are passed over.                 *)
ColdestFirst ==
    [][\A i, j \in Infos :
            Leaves(i) /\ Stays(j) /\ j \notin lru.keep => accessed[i] < accessed[j]]_vars

(* The scheduled eviction bounds the cache (runLRU): when clients are done *)
(* with it, it comes down to its maximal size and stays there, if nothing  *)
(* fails, nothing is pinned and no NAR comes without its narinfo.          *)
Reclaimable == /\ ~MayFail /\ ~MayCrash
               /\ \A t \in Tasks : Kind[t] \notin {"pin", "fetch"}
Bounded == Reclaimable => <>[](TotalSize <= MaxSize)
=============================================================================
