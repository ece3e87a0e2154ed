-------------------------------- MODULE Fsck --------------------------------
(***************************************************************************)
(* ncps fsck (pkg/ncps/fsck.go and fsck_chunked_residue.go): a run scans   *)
(* the database and the stores for inconsistencies, re-verifies what it    *)
(* suspects, lets the janitor reconcile chunked residue, and repairs, each *)
(* item re-verified again before it is touched. It takes no lock but the   *)
(* one of a purge, so the server goes on pulling, uploading, chunking and  *)
(* evicting between any two of its steps.                                  *)
(*                                                                         *)
(* Phases 1 and 2 only read (but for verified_at), and one check of theirs *)
(* is one step. In phase 3 the re-verification of an item and the deletion *)
(* that follows are two.                                                   *)
(***************************************************************************)
EXTENDS Integers, Sequences, FiniteSets, Functions

CONSTANTS
    Nars,           \* NAR hashes; each has at most one narinfo
    Chunks,         \* chunk hashes
    Content,        \* the chunks of each NAR
    Scenarios       \* the state found, the runs made, the calls beside them

Forms == {"xz", "none"}
Key == Nars \X Forms                        \* of a nar_files row or a file
Plain(n) == <<n, "none">>

Checks == <<"1a", "1b", "1c", "1d", "1e", "1f", "1g", "1h", "1i", "1j">>
Repairs == <<"1a", "1b", "1c", "1d", "1e", "1f", "1g", "1i", "1j", "1h">>
CheckIds == {Checks[i] : i \in DOMAIN Checks}
ChunkedRepairs == {"1f", "1g", "1i", "1j"}

NarFile == [id : Nat, total : Nat, started : BOOLEAN, flag : {"no", "young", "aged"},
            verified : BOOLEAN, body : {"right", "short", "wrong"}]
NarInfo == [url : Forms, hash : BOOLEAN]
Options == [repair : BOOLEAN, dry : BOOLEAN, content : BOOLEAN, since : BOOLEAN]
Jobs == {"none", "pull", "upload", "chunk", "evict"}

ASSUME ChunksAssumption == IsFiniteSet(Chunks)
ASSUME ContentAssumption == Content \in [Nars -> (SUBSET Chunks) \ {{}}]
ASSUME ScenarioAssumption ==
    \A s \in Scenarios :
        /\ s.opts \subseteq Options /\ s.runs \in Nat
        /\ s.live \in [Nars -> Jobs] /\ s.fail \in BOOLEAN /\ s.enabled \in BOOLEAN
        /\ DOMAIN s.nf \subseteq Key /\ s.nf \in [DOMAIN s.nf -> NarFile]
        /\ DOMAIN s.info \subseteq Nars /\ s.info \in [DOMAIN s.info -> NarInfo]
        /\ s.joined \subseteq DOMAIN s.nf /\ \A r \in s.joined : r[1] \in DOMAIN s.info
        /\ s.whole \subseteq Key /\ s.chunkRows \subseteq Chunks
        /\ s.clinks \subseteq (DOMAIN s.nf) \X s.chunkRows
        /\ s.blob \in [Chunks -> {"absent", "good", "bad"}]

VARIABLES
    scenario,
    nf, info,       \* the nar_files and narinfos tables
    joined,         \* narinfo_nar_files: rows linked to the narinfo of their NAR
    chunkRows,      \* the chunks table
    clinks,         \* nar_file_chunks: <<row, chunk>>
    whole,          \* the NAR store
    blob,           \* the chunk store
    job,            \* the step of the server's call for each NAR
    opt, cdc,       \* the options of the run; cdcMode
    pc, at,         \* the phase and the check of it
    all,            \* allNarFiles, as 1c has read them
    sus,            \* suspects, then results: per check
    residue,        \* recoverableChunkedNarFiles and reclaimableChunkedResidue
    todo, item,     \* what a loop has left; the item it has re-verified
    known,          \* existingOrphanIDs
    runs,           \* runs started
    touched,        \* NARs the server has worked on since the run began
    calm,           \* nothing else happened, and nothing failed, in this run
    quiet           \* complete repairs in a row that were calm

tables == <<nf, info, joined, chunkRows, clinks>>
stores == <<whole, blob>>
data == <<tables, stores>>
loop == <<todo, item, known>>
found == <<all, sus, residue>>
fsck == <<opt, cdc, pc, at, found, loop, runs, touched, calm, quiet>>
vars == <<scenario, data, job, fsck>>

Snap(r) == [key |-> r, rec |-> nf[r]]
Snaps == {Snap(r) : r \in DOMAIN nf}
(* The row a snapshot was taken of is still there: ids are not reused.     *)
Same(s) == s.key \in DOMAIN nf /\ nf[s.key].id = s.rec.id
Linked(n) == \E r \in joined : r[1] = n
Unlinked == {n \in DOMAIN info : ~Linked(n)}
ChunksOf(r) == {c \in Chunks : <<r, c>> \in clinks}
OrphanChunks == {c \in chunkRows : \A l \in clinks : l[2] # c}

(* chunksForNarFile: by the id of the row.                                 *)
ChunksForNarFile(s) == IF Same(s) THEN ChunksOf(s.key) ELSE {}
IsNarFileChunkBroken(s) ==
    \/ Cardinality(ChunksForNarFile(s)) # s.rec.total
    \/ \E c \in ChunksForNarFile(s) : blob[c] = "absent"
Unreadable(s) == \E c \in ChunksForNarFile(s) : blob[c] = "absent"
IsNarFileContentCorrupt(s) == \E c \in ChunksForNarFile(s) : blob[c] = "bad"
(* Mutant: the chunks are hashed one by one, not the NAR they make.        *)
HashUnassembled(s) == Same(s) /\ s.key \in joined /\ IsNarFileContentCorrupt(s)

IsNarFileHashMismatched(s) ==
    /\ Same(s) /\ s.key \in joined /\ info[s.key[1]].hash
    /\ nf[s.key].body # "right" \/ IsNarFileContentCorrupt(s)
SizeMismatch(s) == /\ Same(s) /\ s.key \in joined
                   /\ nf[s.key].total > 0 /\ nf[s.key].body = "short"

ShouldCheckNar(s) == ~opt.since \/ ~s.rec.verified
Eligible == {s \in all : s.rec.total > 0 /\ ShouldCheckNar(s)}

(***************************************************************************)
(* Phases 1 and 2.                                                         *)
(***************************************************************************)
WholeFileRows(rows) == {s \in rows : s.rec.total <= 0 /\ ShouldCheckNar(s)}

Found(k) ==
    CASE k = "1a" -> {[nar |-> n, url |-> info[n].url] : n \in Unlinked}
      [] k = "1b" -> {Snap(r) : r \in DOMAIN nf \ joined}
      [] k = "1c" -> {s \in WholeFileRows(Snaps) : s.key \notin whole}
      [] k = "1d" -> whole \ DOMAIN nf
      [] k = "1e" -> OrphanChunks
      [] k = "1f" -> {s \in Eligible : IsNarFileChunkBroken(s)}
      [] k = "1g" -> {s \in Eligible : SizeMismatch(s)}
      [] k = "1h" -> {c \in Chunks : blob[c] # "absent"} \ chunkRows
      [] k = "1i" -> {s \in Eligible \ sus["1f"] : IsNarFileContentCorrupt(s)}
      [] k = "1j" -> {s \in Eligible \ (sus["1f"] \cup sus["1i"]) : IsNarFileHashMismatched(s)}

(* Re-verification of one item, in phase 2 and before it is repaired.      *)
Confirmed(k, x) ==
    CASE k = "1a" -> ~Linked(x.nar)
      [] k = "1b" -> x.key \notin joined
      [] k = "1c" -> x.key \notin whole
      [] k = "1d" -> x \notin DOMAIN nf
      [] k = "1e" -> x \in OrphanChunks
      [] k = "1f" -> IsNarFileChunkBroken(x)
      [] k = "1g" -> SizeMismatch(x)
      [] k = "1h" -> x \notin chunkRows
      [] k = "1i" -> IsNarFileContentCorrupt(x)
      [] k = "1j" -> IsNarFileHashMismatched(x)

(* Rows whose verified_at a check sets: 1c those it has found, 1g those    *)
(* that passed it and 1f.                                                  *)
VerifiedBy(k) ==
    CASE k = "1c" -> {s \in WholeFileRows(Snaps) : s.key \in whole}
      [] k = "1g" -> {s \in Eligible \ (sus["1f"] \cup Found("1g")) : Same(s)}
      [] OTHER -> {}

LastCheck == IF ~cdc THEN 4 ELSE IF ~opt.content THEN 8 ELSE 10
(* The content checks read every chunk: one that is gone ends the run.     *)
ContentCheck(k) == k \in {"1i", "1j"}

NoSuspects == [k \in CheckIds |-> {}]

(* detectFsckCDCMode, of the configuration and the tables.                 *)
(* Mutant: chunk rows alone do not enable the chunk checks.                *)
DetectFromRows == scenario.enabled \/ \E r \in DOMAIN nf : nf[r].total > 0

DetectFsckCDCMode == \/ scenario.enabled
                     \/ \E r \in DOMAIN nf : nf[r].total > 0
                     \/ chunkRows # {}

Start(o) ==
    /\ pc = "idle" /\ runs < scenario.runs
    /\ opt' = o /\ cdc' = DetectFsckCDCMode
    /\ pc' = "scan" /\ at' = 1 /\ runs' = runs + 1
    /\ sus' = NoSuspects /\ residue' = {} /\ all' = {}
    /\ touched' = {n \in Nars : job[n] \notin {"off", "done"}}
    /\ calm' = (touched' = {})
    /\ UNCHANGED <<scenario, data, job, loop, quiet>>

(* collectFsckSuspects: one check of phase 1.                              *)
Scan ==
    LET k == Checks[at] IN
    /\ pc = "scan"
    /\ ContentCheck(k) => \A s \in Eligible \ sus["1f"] :
                              ~Unreadable(s) \/ IsNarFileContentCorrupt(s)
    /\ sus' = [sus EXCEPT ![k] = Found(k)]
    /\ all' = IF k = "1c" THEN Snaps ELSE all
    /\ nf' = [r \in DOMAIN nf |->
                 IF \E s \in VerifiedBy(k) : s.key = r
                 THEN [nf[r] EXCEPT !.verified = TRUE] ELSE nf[r]]
    /\ IF at < LastCheck THEN at' = at + 1 /\ pc' = pc ELSE at' = 1 /\ pc' = "verify"
    /\ UNCHANGED <<scenario, info, joined, chunkRows, clinks, stores, job, opt, cdc, residue,
                   loop, runs, touched, calm, quiet>>

(* reVerifyFsckSuspects: one category of phase 2.                          *)
ReVerify ==
    LET k == Checks[at] IN
    /\ pc = "verify"
    /\ ContentCheck(k) => \A s \in sus[k] : ~Unreadable(s) \/ IsNarFileContentCorrupt(s)
    /\ sus' = [sus EXCEPT ![k] = {x \in @ : Confirmed(k, x)}]
    /\ IF at < LastCheck THEN at' = at + 1 /\ pc' = pc
       ELSE at' = 1 /\ pc' = IF cdc THEN "classify" ELSE "decide"
    /\ UNCHANGED <<scenario, data, job, opt, cdc, all, residue, loop, runs, touched, calm, quiet>>

(***************************************************************************)
(* Chunked residue. LinkedNarinfoNarHash looks for a NarHash in the linked *)
(* narinfo, then in any that names the NAR by its URL.                     *)
(***************************************************************************)
Resolvable(s) == LET n == s.key[1] IN n \in DOMAIN info /\ info[n].hash
UrlInconsistent(s) == info[s.key[1]].url # "none"

(* decideChunkedResidue: of the row as the page query read it. The server  *)
(* clears chunking_started_at in the statement that sets total_chunks, so  *)
(* that no row read here has an old one: the TTL it is compared with is    *)
(* left out.                                                               *)
DecideChunkedResidue(s) ==
    IF s.rec.started THEN "skip"
    ELSE IF Resolvable(s)
         THEN IF UrlInconsistent(s) THEN "normalize"
              ELSE IF s.rec.flag # "no" THEN "clearFlag" ELSE "skip"
         ELSE CASE s.rec.flag = "no" -> "setFlag"
                [] s.rec.flag = "aged" -> "reclaim"
                [] OTHER -> "skip"             \* young
ChunkedRows == {s \in Snaps : s.rec.total > 0 /\ s.key[2] = "none"}

(* collectChunkedResidueSuspects: read only.                               *)
Classify ==
    /\ pc = "classify"
    /\ residue' = {s \in ChunkedRows : DecideChunkedResidue(s) \in {"reclaim", "normalize"}}
    /\ pc' = IF opt.repair THEN "janitor" ELSE "decide"
    /\ todo' = IF opt.repair THEN ChunkedRows ELSE {}
    /\ UNCHANGED <<scenario, data, job, opt, cdc, at, all, sus, item, known, runs, touched,
                   calm, quiet>>

(* reconcileChunkedResidue: the next row, and what is decided of it.       *)
JanitorVisit(s) ==
    /\ pc = "janitor" /\ s \in todo
    /\ todo' = todo \ {s} /\ item' = s
    /\ pc' = IF DecideChunkedResidue(s) = "skip" THEN "janitor" ELSE DecideChunkedResidue(s)
    /\ UNCHANGED <<scenario, data, job, opt, cdc, at, found, known, runs, touched, calm, quiet>>

JanitorEnd ==
    /\ pc = "janitor" /\ todo = {}
    /\ pc' = IF opt.repair THEN "decide" ELSE "begin"
    /\ UNCHANGED <<scenario, data, job, opt, cdc, at, found, loop, runs, touched, calm, quiet>>

(* NormalizeChunkedNarInfoURL: refused while CDC is disabled; the row that *)
(* has the URL now, and every narinfo of the NAR.                          *)
Normalize ==
    LET r == item.key
        n == r[1]
    IN  /\ pc = "normalize"
        /\ pc' = IF scenario.enabled /\ item.rec.flag # "no" THEN "clearFlag" ELSE "janitor"
        /\ IF scenario.enabled /\ r \in DOMAIN nf /\ n \in DOMAIN info
           THEN info' = [info EXCEPT ![n].url = "none"] /\ joined' = joined \cup {r}
           ELSE UNCHANGED <<info, joined>>
        /\ UNCHANGED <<scenario, nf, chunkRows, clinks, stores, job, opt, cdc, at, found, loop,
                       runs, touched, calm, quiet>>

Flag ==
    /\ pc \in {"clearFlag", "setFlag"} /\ pc' = "janitor"
    /\ nf' = IF Same(item)
             THEN [nf EXCEPT ![item.key].flag = IF pc = "setFlag" THEN "young" ELSE "no"]
             ELSE nf
    /\ UNCHANGED <<scenario, info, joined, chunkRows, clinks, stores, job, opt, cdc, at, found,
                   loop, runs, touched, calm, quiet>>

WithoutRows(S) ==
    /\ nf' = Restrict(nf, DOMAIN nf \ S)
    /\ joined' = joined \ S
    /\ clinks' = {l \in clinks : l[1] \notin S}
WithoutChunkRows(S) ==
    /\ chunkRows' = chunkRows \ S
    /\ clinks' = {l \in clinks : l[2] \notin S}
WithoutInfo(n) ==
    /\ info' = Restrict(info, DOMAIN info \ {n})
    /\ joined' = {r \in joined : r[1] # n}

(* PurgeChunkedNar: refused while CDC is disabled or the NAR is locked;    *)
(* whatever row has the URL now goes with its links, and its chunks are    *)
(* the ones to reclaim. The narinfo stays.                                 *)
Locked(n) == job[n] \in {"put", "record", "mark"}
PurgeRow ==
    LET r == item.key IN
    /\ pc = "reclaim"
    /\ IF ~scenario.enabled \/ Locked(r[1]) \/ r \notin DOMAIN nf \/ nf[r].total = 0
       THEN pc' = "janitor" /\ UNCHANGED <<nf, joined, clinks, known>>
       ELSE /\ WithoutRows({r}) /\ pc' = "orphans"
            /\ known' = {c \in ChunksOf(r) : \A l \in clinks' : l[2] # c}
    /\ UNCHANGED <<scenario, info, chunkRows, stores, job, opt, cdc, at, found, todo, item, runs,
                   touched, calm, quiet>>

(* cleanupStaleLockChunks: a row is deleted only while nothing links it,   *)
(* its blob after it.                                                      *)
PurgeChunkRow(c) ==
    /\ pc = "orphans" /\ c \in known
    /\ known' = known \ {c}
    /\ IF c \in OrphanChunks
       THEN chunkRows' = chunkRows \ {c} /\ pc' = "orphanBlob" /\ item' = c
       ELSE UNCHANGED <<chunkRows, pc, item>>
    /\ UNCHANGED <<scenario, nf, info, joined, clinks, stores, job, opt, cdc, at, found, todo,
                   runs, touched, calm, quiet>>

PurgeChunkBlob ==
    /\ pc = "orphanBlob" /\ pc' = "orphans"
    /\ blob' = [blob EXCEPT ![item] = "absent"]
    /\ UNCHANGED <<scenario, tables, whole, job, opt, cdc, at, found, loop, runs, touched, calm,
                   quiet>>

PurgeEnd ==
    /\ pc = "orphans" /\ known = {} /\ pc' = "janitor"
    /\ UNCHANGED <<scenario, data, job, opt, cdc, at, found, loop, runs, touched, calm, quiet>>

(***************************************************************************)
(* What the command decides, and the end of a run.                         *)
(***************************************************************************)
(* totalIssues() = 0; links to chunks of whole files are not counted.      *)
NoIssues == residue = {} /\ \A k \in CheckIds : sus[k] = {}
Full(o) == o.repair /\ ~o.dry /\ o.content /\ ~o.since

Finish ==
    /\ pc' = "idle"
    /\ quiet' = IF ~calm \/ ~Full(opt) THEN 0 ELSE IF quiet < 2 THEN quiet + 1 ELSE 2

(* Nothing to do, --dry-run, or no consent.                                *)
Report ==
    /\ pc = "decide"
    /\ NoIssues \/ opt.dry \/ ~opt.repair
    /\ Finish
    /\ UNCHANGED <<scenario, data, job, opt, cdc, at, found, loop, runs, touched, calm>>

(* --repair, after the janitor; or the prompt is answered with yes, and    *)
(* the janitor comes first.                                                *)
Proceed ==
    /\ pc = "decide" /\ ~NoIssues /\ ~opt.dry
    /\ pc' = IF cdc /\ ~opt.repair THEN "janitor" ELSE "begin"
    /\ todo' = IF cdc /\ ~opt.repair THEN ChunkedRows ELSE {}
    /\ UNCHANGED <<scenario, data, job, opt, cdc, at, found, item, known, runs, touched, calm,
                   quiet>>

(***************************************************************************)
(* Phase 3, repairFsckIssues: one category after the other.                *)
(***************************************************************************)
Category == Repairs[at]
LastRepair == IF cdc THEN 10 ELSE 4

(* Go on with the next category; after the last, with the stale links.     *)
NextCategory ==
    IF at < LastRepair THEN at' = at + 1 /\ pc' = "begin" /\ UNCHANGED quiet
    ELSE /\ at' = 1
         /\ IF cdc THEN pc' = "links" /\ UNCHANGED quiet ELSE Finish

Skipped(k) == (ContentCheck(k) /\ ~opt.content) \/ (k = "1g" /\ sus[k] = {})
(* These two are re-verified all at once, when their turn comes.           *)
AtOnce(k) == k \in {"1e", "1g"}

BeginRepair ==
    /\ pc = "begin"
    /\ IF Skipped(Category) THEN NextCategory /\ UNCHANGED <<todo, known>>
       ELSE /\ pc' = "repair" /\ known' = Unlinked
            /\ todo' = IF AtOnce(Category) THEN {x \in sus[Category] : Confirmed(Category, x)}
                       ELSE sus[Category]
            /\ UNCHANGED <<at, quiet>>
    /\ UNCHANGED <<scenario, data, job, opt, cdc, found, item, runs, touched, calm>>

(* relinkNarInfoToBackingNarFile: the row the URL names, or else another   *)
(* one of the NAR.                                                         *)
(* Mutant: an unlinked narinfo is deleted.                                 *)
NoBacking(x) == {}

Backing(x) == LET own == {s \in Snaps : s.key = <<x.nar, x.url>>} IN
              IF own # {} THEN own ELSE {s \in Snaps : s.key[1] = x.nar}

Pick(x) ==
    LET k == Category IN
    /\ pc = "repair" /\ x \in todo
    /\ ContentCheck(k) => ~Unreadable(x) \/ IsNarFileContentCorrupt(x)
    /\ todo' = todo \ {x}
    /\ IF AtOnce(k) \/ Confirmed(k, x)
       THEN pc' = "act" /\ item' = IF k = "1a" THEN [nar |-> x.nar, row |-> Backing(x)] ELSE x
       ELSE UNCHANGED <<pc, item>>
    /\ UNCHANGED <<scenario, data, job, opt, cdc, at, found, known, runs, touched, calm, quiet>>

(* The link is refused when the narinfo or the row is gone.                *)
CanRelink(x) == x.nar \in DOMAIN info /\ \A s \in x.row : Same(s)

Act ==
    LET k == Category IN
    /\ pc = "act" /\ pc' = "repair"
    /\ CASE k = "1a" /\ item.row # {} ->
              /\ CanRelink(item)
              /\ joined' = joined \cup {s.key : s \in item.row}
              /\ UNCHANGED <<nf, info, chunkRows, clinks, stores>>
         [] k = "1a" /\ item.row = {} ->
              WithoutInfo(item.nar) /\ UNCHANGED <<nf, chunkRows, clinks, stores>>
         [] k \in {"1b", "1c"} \cup ChunkedRepairs ->
              WithoutRows({item.key}) /\ UNCHANGED <<info, chunkRows, stores>>
         [] k = "1d" -> whole' = whole \ {item} /\ UNCHANGED <<tables, blob>>
         [] k = "1e" -> WithoutChunkRows({item}) /\ UNCHANGED <<nf, info, joined, stores>>
         [] k = "1h" -> blob' = [blob EXCEPT ![item] = "absent"] /\ UNCHANGED <<tables, whole>>
    /\ UNCHANGED <<scenario, job, opt, cdc, at, found, loop, runs, touched, calm, quiet>>

(* A deletion or update that fails is logged, and the loop goes on.        *)
Slip ==
    /\ scenario.fail /\ calm' = FALSE
    /\ \/ /\ pc = "act" /\ (Category = "1a" => item.row = {})
          /\ pc' = "repair" /\ UNCHANGED <<todo, item, known>>
       \/ /\ pc = "infos" /\ UNCHANGED <<pc, item, known>>
          /\ \E n \in todo : todo' = todo \ {n}
       \/ /\ pc = "chunks" /\ pc' = "chunkRow" /\ UNCHANGED known
          /\ \E c \in todo : todo' = todo \ {c} /\ item' = c
       \/ /\ pc = "chunkRow" /\ pc' = "chunks" /\ UNCHANGED <<todo, item, known>>
       \/ /\ pc \in {"normalize", "clearFlag", "setFlag", "reclaim"} /\ pc' = "janitor"
          /\ UNCHANGED <<todo, item, known>>
       \/ /\ pc = "orphans" /\ UNCHANGED <<pc, todo, item>>
          /\ \E c \in known : known' = known \ {c}
       \/ /\ pc = "orphanBlob" /\ pc' = "orphans" /\ UNCHANGED <<todo, item, known>>
    /\ UNCHANGED <<scenario, data, job, opt, cdc, at, found, runs, touched, quiet>>

(* Narinfos that lost their last row to the deletions: not those that were *)
(* unlinked before them.                                                   *)
NewOrphans == Unlinked \ known

ItemsEnd ==
    /\ pc = "repair" /\ todo = {}
    /\ IF Category \in {"1c"} \cup ChunkedRepairs
       THEN pc' = "infos" /\ todo' = NewOrphans /\ UNCHANGED <<at, quiet>>
       ELSE NextCategory /\ UNCHANGED todo
    /\ UNCHANGED <<scenario, data, job, opt, cdc, found, item, known, runs, touched, calm>>

DropInfo(n) ==
    /\ pc = "infos" /\ n \in todo /\ todo' = todo \ {n}
    /\ WithoutInfo(n)
    /\ UNCHANGED <<scenario, nf, chunkRows, clinks, stores, job, opt, cdc, pc, at, found, item,
                   known, runs, touched, calm, quiet>>

InfosEnd ==
    /\ pc = "infos" /\ todo = {}
    /\ IF Category \in ChunkedRepairs
       THEN pc' = "chunks" /\ todo' = OrphanChunks /\ UNCHANGED <<at, quiet>>
       ELSE NextCategory /\ UNCHANGED todo
    /\ UNCHANGED <<scenario, data, job, opt, cdc, found, item, known, runs, touched, calm>>

(* Chunks nothing links any more: the blob, then the row.                  *)
DropBlob(c) ==
    /\ pc = "chunks" /\ c \in todo /\ todo' = todo \ {c}
    /\ blob' = [blob EXCEPT ![c] = "absent"]
    /\ item' = c /\ pc' = "chunkRow"
    /\ UNCHANGED <<scenario, tables, whole, job, opt, cdc, at, found, known, runs, touched, calm,
                   quiet>>

DropChunkRow ==
    /\ pc = "chunkRow" /\ pc' = "chunks"
    /\ WithoutChunkRows({item})
    /\ UNCHANGED <<scenario, nf, info, joined, stores, job, opt, cdc, at, found, loop, runs,
                   touched, calm, quiet>>

ChunksEnd ==
    /\ pc = "chunks" /\ todo = {}
    /\ NextCategory
    /\ UNCHANGED <<scenario, data, job, opt, cdc, found, loop, runs, touched, calm>>

(* reclaimStaleChunkLinks: the links of rows that are not chunked go in    *)
(* one statement, then page after page of the chunks left without any.     *)
Stale == {l \in clinks : nf[l[1]].total <= 0 /\ ~nf[l[1]].started}

StaleLinks ==
    /\ pc = "links"
    /\ clinks' = clinks \ Stale
    /\ pc' = IF Stale = {} THEN "desync" ELSE "page"
    /\ UNCHANGED <<scenario, nf, info, joined, chunkRows, stores, job, opt, cdc, at, found, loop,
                   runs, touched, calm, quiet>>

Page ==
    /\ pc = "page"
    /\ todo' = OrphanChunks /\ known' = OrphanChunks
    /\ pc' = IF OrphanChunks = {} THEN "desync" ELSE "stranded"
    /\ UNCHANGED <<scenario, data, job, opt, cdc, at, found, item, runs, touched, calm, quiet>>

StrandedBlob(c) ==
    /\ pc = "stranded" /\ c \in todo /\ todo' = todo \ {c}
    /\ blob' = [blob EXCEPT ![c] = "absent"]
    /\ UNCHANGED <<scenario, tables, whole, job, opt, cdc, pc, at, found, item, known, runs,
                   touched, calm, quiet>>

(* Mutant: the rows of a page are left to a later run.                     *)
StrandedRowsKept ==
    /\ pc = "stranded" /\ todo = {} /\ pc' = "page"
    /\ UNCHANGED <<scenario, data, job, opt, cdc, at, found, loop, runs, touched, calm, quiet>>

StrandedRows ==
    /\ pc = "stranded" /\ todo = {} /\ pc' = "page"
    /\ WithoutChunkRows(known)
    /\ UNCHANGED <<scenario, nf, info, joined, stores, job, opt, cdc, at, found, loop, runs,
                   touched, calm, quiet>>

(* repairNarInfoCompressionDesync: a narinfo that advertises xz, whose NAR *)
(* is linked and stored, but not as xz.                                    *)
Desynced(n) == /\ info[n].url = "xz" /\ Plain(n) \in joined
               /\ <<n, "xz">> \notin DOMAIN nf
Desync ==
    /\ pc = "desync"
    /\ info' = [n \in DOMAIN info |->
                   IF Desynced(n) THEN [info[n] EXCEPT !.url = "none"] ELSE info[n]]
    /\ Finish
    /\ UNCHANGED <<scenario, nf, joined, chunkRows, clinks, stores, job, opt, cdc, at, found,
                   loop, runs, touched, calm>>

(* A query fails, a chunk cannot be read, a link is refused, or the run is *)
(* stopped: it ends where it is.                                           *)
CannotGoOn ==
    \/ pc = "scan" /\ ContentCheck(Checks[at])
         /\ \E s \in Eligible \ sus["1f"] : Unreadable(s)
    \/ pc = "verify" /\ ContentCheck(Checks[at]) /\ \E s \in sus[Checks[at]] : Unreadable(s)
    \/ pc = "repair" /\ ContentCheck(Category) /\ \E s \in todo : Unreadable(s)
    \/ pc = "act" /\ Category = "1a" /\ item.row # {} /\ ~CanRelink(item)

Abort ==
    /\ pc # "idle" /\ (scenario.fail \/ CannotGoOn)
    /\ pc' = "idle" /\ quiet' = 0
    /\ UNCHANGED <<scenario, data, job, opt, cdc, at, found, loop, runs, touched, calm>>

(***************************************************************************)
(* The server beside the run: one call for a NAR.                          *)
(***************************************************************************)
NewRow == [id |-> 1, total |-> 0, started |-> FALSE, flag |-> "no", verified |-> FALSE,
           body |-> "right"]
AddRow(r) == nf' = IF r \in DOMAIN nf THEN nf ELSE [q \in DOMAIN nf \cup {r} |->
                                                      IF q = r THEN NewRow ELSE nf[q]]
(* storeInDatabase: the narinfo, the row and their link, in a transaction. *)
StoreInDatabase(n, form) ==
    /\ info' = [m \in DOMAIN info \cup {n} |->
                   IF m = n THEN [url |-> form, hash |-> TRUE] ELSE info[m]]
    /\ AddRow(<<n, form>>)
    /\ joined' = joined \cup {<<n, form>>}
    /\ UNCHANGED <<chunkRows, clinks, stores>>

Live(n, kind, from, to) ==
    /\ scenario.live[n] = kind /\ job[n] = from /\ job' = [job EXCEPT ![n] = to]
    /\ touched' = touched \cup {n} /\ calm' = FALSE /\ quiet' = 0
    /\ UNCHANGED <<scenario, opt, cdc, pc, at, found, loop, runs>>

(* A pull: the narinfo is stored while its NAR is still being downloaded.  *)
PullRow(n) == Live(n, "pull", "off", "file") /\ StoreInDatabase(n, "xz")
PullFile(n) == /\ Live(n, "pull", "file", "done")
               /\ whole' = whole \cup {<<n, "xz">>} /\ UNCHANGED <<tables, blob>>

(* An upload: PutNar's file and row, then PutNarInfo.                      *)
UploadFile(n) == /\ Live(n, "upload", "off", "row")
                 /\ whole' = whole \cup {<<n, "xz">>} /\ UNCHANGED <<tables, blob>>
UploadRow(n) == /\ Live(n, "upload", "row", "info") /\ AddRow(<<n, "xz">>)
                /\ UNCHANGED <<info, joined, chunkRows, clinks, stores>>
UploadInfo(n) == Live(n, "upload", "info", "done") /\ StoreInDatabase(n, "xz")

(* A pull that is chunked as it arrives: under the migration lock the row  *)
(* is marked, the chunks are put into the store (one that is there is      *)
(* kept), recorded, and the row completed; a row that is complete is left  *)
(* as it is. What a dead attempt left is Chunking's subject. A purge does  *)
(* not refresh its lock, so a chunking may begin while one still deletes   *)
(* chunks.                                                                 *)
ChunkPull(n) == Live(n, "chunk", "off", "start") /\ StoreInDatabase(n, "none")
ChunkStart(n) ==
    LET r == Plain(n) IN
    /\ \/ /\ r \in DOMAIN nf /\ nf[r].total > 0
          /\ Live(n, "chunk", "start", "done") /\ UNCHANGED nf
       \/ /\ ~(r \in DOMAIN nf /\ nf[r].total > 0)
          /\ Live(n, "chunk", "start", "put")
          /\ nf' = [q \in DOMAIN nf \cup {r} |->
                       IF q # r THEN nf[q]
                       ELSE [(IF r \in DOMAIN nf THEN nf[r] ELSE NewRow) EXCEPT !.started = TRUE]]
    /\ UNCHANGED <<info, joined, chunkRows, clinks, stores>>
ChunkPut(n) ==
    /\ Live(n, "chunk", "put", "record")
    /\ blob' = [c \in Chunks |-> IF c \in Content[n] /\ blob[c] = "absent" THEN "good" ELSE blob[c]]
    /\ UNCHANGED <<tables, whole>>
ChunkRecord(n) ==
    /\ \/ /\ Plain(n) \in DOMAIN nf /\ Live(n, "chunk", "record", "mark")
          /\ chunkRows' = chunkRows \cup Content[n]
          /\ clinks' = clinks \cup {<<Plain(n), c>> : c \in Content[n]}
       \/ /\ Plain(n) \notin DOMAIN nf /\ Live(n, "chunk", "record", "done")
          /\ UNCHANGED <<chunkRows, clinks>>
    /\ UNCHANGED <<nf, info, joined, stores>>
ChunkMark(n) ==
    /\ Live(n, "chunk", "mark", "done")
    /\ nf' = IF Plain(n) \notin DOMAIN nf THEN nf
             ELSE [nf EXCEPT ![Plain(n)].total = Cardinality(Content[n]),
                             ![Plain(n)].started = FALSE]
    /\ UNCHANGED <<info, joined, chunkRows, clinks, stores>>

(* An eviction of a NAR stored whole: the rows, then the file.             *)
EvictRows(n) ==
    /\ Live(n, "evict", "off", "file")
    /\ info' = Restrict(info, DOMAIN info \ {n})
    /\ WithoutRows({r \in DOMAIN nf : r[1] = n})
    /\ UNCHANGED <<chunkRows, stores>>
EvictFile(n) == /\ Live(n, "evict", "file", "done")
                /\ whole' = {r \in whole : r[1] # n} /\ UNCHANGED <<tables, blob>>

(* Time passes between two runs: flags outlive the grace window, and       *)
(* verifications the --verified-since one.                                 *)
Age ==
    /\ pc = "idle" /\ quiet' = 0
    /\ \E r \in DOMAIN nf : nf[r].flag = "young" \/ nf[r].verified
    /\ nf' = [r \in DOMAIN nf |->
                 [nf[r] EXCEPT !.verified = FALSE,
                               !.flag = IF @ = "young" THEN "aged" ELSE @]]
    /\ UNCHANGED <<scenario, info, joined, chunkRows, clinks, stores, job, opt, cdc, pc, at, found,
                   loop, runs, touched, calm>>

Init ==
    /\ scenario \in Scenarios
    /\ nf = scenario.nf /\ info = scenario.info /\ joined = scenario.joined
    /\ chunkRows = scenario.chunkRows /\ clinks = scenario.clinks
    /\ whole = scenario.whole /\ blob = scenario.blob
    /\ job = [n \in Nars |-> IF scenario.live[n] = "none" THEN "done" ELSE "off"]
    /\ opt \in scenario.opts /\ cdc = FALSE /\ pc = "idle" /\ at = 1
    /\ all = {} /\ sus = NoSuspects /\ residue = {}
    /\ todo = {} /\ item = {} /\ known = {}
    /\ runs = 0 /\ touched = {} /\ calm = FALSE /\ quiet = 0

Janitor ==
    \/ Classify \/ JanitorEnd \/ Normalize \/ Flag \/ PurgeRow \/ PurgeChunkBlob \/ PurgeEnd
    \/ \E s \in todo : JanitorVisit(s)
    \/ \E c \in Chunks : PurgeChunkRow(c)

Repair ==
    \/ BeginRepair \/ Act \/ Slip \/ ItemsEnd \/ InfosEnd \/ DropChunkRow \/ ChunksEnd
    \/ StaleLinks \/ Page \/ StrandedRows \/ Desync
    \/ \E x \in todo : Pick(x)
    \/ \E n \in Nars : DropInfo(n)
    \/ \E c \in Chunks : DropBlob(c) \/ StrandedBlob(c)

Run == Scan \/ ReVerify \/ Janitor \/ Report \/ Proceed \/ Repair \/ Abort

Server ==
    \E n \in Nars :
        \/ PullRow(n) \/ PullFile(n) \/ UploadFile(n) \/ UploadRow(n) \/ UploadInfo(n)
        \/ ChunkPull(n) \/ ChunkStart(n) \/ ChunkPut(n) \/ ChunkRecord(n) \/ ChunkMark(n)
        \/ EvictRows(n) \/ EvictFile(n)

Next == (\E o \in scenario.opts : Start(o)) \/ Run \/ Server \/ Age

Spec == Init /\ [][Next]_vars

(* The command runs to its end.                                            *)
FairSpec == Spec /\ WF_vars(Run)

(***************************************************************************)
(* Properties.                                                             *)
(***************************************************************************)
Present(r) ==
    IF nf[r].total > 0
    THEN /\ Cardinality(ChunksOf(r)) = nf[r].total
         /\ \A c \in ChunksOf(r) : blob[c] = "good"
    ELSE r \in whole
Verifiable(n) == n \in DOMAIN info /\ info[n].hash
(* What a narinfo is served from: a row linked to it, or else the only row *)
(* of its NAR, now and when the run read them, which the run will link.    *)
Backs(r) == \/ r \in joined
            \/ \A q \in DOMAIN nf \cup {s.key : s \in all} : q[1] = r[1] => q = r
Servable(n) ==
    /\ Verifiable(n)
    /\ \E r \in DOMAIN nf : r[1] = n /\ Backs(r) /\ Present(r) /\ nf[r].body = "right"
(* The server has worked, since the run began, neither on the NAR nor on   *)
(* one it shares chunks with.                                              *)
Alone(n) ==
    /\ n \notin touched
    /\ \A l \in clinks : l[1][1] = n => \A t \in touched : l[2] \notin Content[t]

(* No step of a run takes away a NAR that can be served: its narinfo, with *)
(* a NarHash, and a row whose file or chunks are there and right, unless   *)
(* the server is at work on that NAR or on chunks of it, or has been since *)
(* the run began. This is what the re-verifications of fsck.go, its        *)
(* relinking and its checks for shared chunks are for.                     *)
StableKept == [][Run => \A n \in Nars : Alone(n) /\ Servable(n) => Servable(n)']_vars

(* After a complete run with --repair and --verify-content, with nothing   *)
(* else going on and nothing failing, every row that repairFsckIssues has  *)
(* left has its file or its chunks; after a second one (the first may have *)
(* had to link the row to its narinfo) the chunks are also the right ones. *)
Repaired ==
    pc = "idle" =>
        /\ quiet >= 1 => \A r \in DOMAIN nf : Present(r)
        /\ quiet >= 2 => \A r \in DOMAIN nf :
                             nf[r].total > 0 /\ Verifiable(r[1]) => nf[r].body = "right"

(* After two such runs nothing is left that belongs to nothing: narinfos   *)
(* and rows without each other, files without a row (but the one beside a  *)
(* chunked NAR that this very run has deleted for its content), chunks     *)
(* without a link and, where the run looked at the chunk store, blobs      *)
(* without a row. The sections of repairFsckIssues leave garbage to each   *)
(* other, and to the next run.                                             *)
Clean ==
    pc = "idle" /\ quiet >= 2 =>
        /\ Unlinked = {} /\ DOMAIN nf = joined
        /\ whole \subseteq DOMAIN nf \cup {s.key : s \in sus["1g"] \cup sus["1j"]}
        /\ OrphanChunks = {}
        /\ cdc => \A c \in Chunks \ chunkRows : blob[c] = "absent"

(* Every run comes to its end: reclaimStaleChunkLinks pages through the    *)
(* stranded chunks until a query finds none.                               *)
RunEnds == (pc # "idle") ~> (pc = "idle")

(* "the orphaned chunk DB rows and their backing storage files are         *)
(* reclaimed" (openspec/specs/fsck/spec.md, for a database where only      *)
(* chunk rows are left of CDC): no blob without a row outlives two runs.   *)
(* Not so in the code (README, section 3).                                 *)
ResidueReclaimed ==
    pc = "idle" /\ quiet >= 2 => \A c \in Chunks \ chunkRows : blob[c] = "absent"
=============================================================================
