------------------------------- MODULE NarInfo -------------------------------
(***************************************************************************)
(* The life of one narinfo in pkg/cache/cache.go: GetNarInfo on the        *)
(* substituter path ("get") and on the upload path ("ask"), the pull from  *)
(* upstream, PutNarInfo and PutNar, DeleteNarInfo, the eviction of its     *)
(* row, the migration of a legacy narinfo object to the database, in the   *)
(* background of a get and by the migrate-narinfo command ("cli").         *)
(*                                                                         *)
(* A version is what some source knows of the store path: its fields and   *)
(* the NAR its URL names. Versions of one path (two compressions, two      *)
(* builds) name different NARs. The database and the stores are shared by  *)
(* all instances; a transaction is one step.                               *)
(***************************************************************************)
EXTENDS Naturals, FiniteSets

CONSTANTS
    Versions,       \* the narinfos sources may hold for the path
    Tasks,          \* calls of clients and runs of commands
    Instances,      \* the ncps servers
    Home,           \* the instance a task runs on
    None, Stub,     \* no narinfo; a row without URL, left by an older ncps
    Bad,            \* a legacy narinfo whose URL does not parse
    Guess,          \* the NarSize, recorded for a NAR file of unknown size
    Retries,        \* migrationRetryAttempts
    Scenarios       \* what is there, what clients do and what may go wrong

Kinds == {"get", "ask", "put", "send", "delete", "evict", "cli", "idle"}
Scenario == [kind : [Tasks -> Kinds], item : [Tasks -> Versions],
             legacy : Versions \cup {None, Bad}, row : Versions \cup {None, Stub},
             stored : SUBSET Versions, upstream : Versions \cup {None},
             bare : SUBSET Versions, cdc : BOOLEAN, fail : BOOLEAN, lapse : BOOLEAN]

ASSUME HomeAssumption == Home \in [Tasks -> Instances]
ASSUME RetryAssumption == Retries \in Nat \ {0}
ASSUME MarkAssumption == /\ {None, Stub, Bad, Guess} \cap Versions = {}
                         /\ Stub # None /\ Bad # None /\ Guess # None /\ None \notin Instances
ASSUME ScenarioAssumption == Scenarios \subseteq Scenario

(* The goroutines: the task itself, the migration it starts, the pull of   *)
(* an instance, and the fix at the end of the download of a NAR.           *)
Self(t) == <<"task", t>>
Mig(t) == <<"mig", t>>
Pull(i) == <<"pull", i>>
Fetched(v) == <<"nar", v>>
Procs == {Self(t) : t \in Tasks} \cup {Mig(t) : t \in Tasks}
         \cup {Pull(i) : i \in Instances} \cup {Fetched(v) : v \in Versions}

VARIABLES
    scenario,   \* the scenario of this behaviour
    row,        \* the narinfos row: the version it holds
    fileHash,   \* its file_hash: the version whose NAR file has it
    fileSize,   \* its file_size, likewise, or the guess
    links,      \* narinfo_nar_files: the NARs the row is linked to
    narFiles,   \* the nar_files table
    marked,     \* the nar_files rows with bytes_stored_at
    bytes,      \* the NARs that are in the store, whole or in chunks
    obj,        \* the legacy narinfo object in the store
    migLock,    \* migrationLockKey: the process that holds it
    putLock,    \* narInfoLockKey: the task that writes under it
    pullLock,   \* narInfoJobKey: the task that holds the download lock
    narJob,     \* the downloads of NARs: the instance and its step
    p,          \* each process: where it is and what it has read
    asked,      \* history: the narinfo was deleted, evicted or purged
    steady      \* history: the gets during which it was there, servable, and no NAR went

vars == <<scenario, row, fileHash, fileSize, links, narFiles, marked, bytes, obj, migLock,
          putLock, pullLock, narJob, p, asked, steady>>
db == <<row, fileHash, fileSize, links, narFiles, marked>>
file == <<fileHash, fileSize>>
locks == <<migLock, putLock, pullLock>>

Kind(t) == scenario.kind[t]
Item(t) == scenario.item[t]
MayFail == scenario.fail

NoJob == [by |-> None, step |-> "none"]
Steps == {"off", "new", "done", "db", "stat", "jobs", "recheck", "look", "read", "check", "job",
          "start", "purge", "purge obj", "purge nars", "waitmig", "waitput", "coord", "wait",
          "finish", "fetch", "nar", "sign", "store", "clean", "fix", "record", "row", "object",
          "nars", "wipe", "try", "double", "insert", "remove",
          "query", "link", "present", "measure", "resize", "sum", "rehash"}
Local == [pc : Steps, site : {"first", "retry", "again", "pull"},
          ni : Versions \cup {None, Bad}, tries : 1..Retries,
          bare : BOOLEAN, size : Versions \cup {None, Guess}, inStore : BOOLEAN, orphans : SUBSET Versions,
          res : {"", "ok", "notfound", "error"}]
At(pc) == [pc |-> pc, site |-> "first", ni |-> None, tries |-> Retries,
           bare |-> FALSE, size |-> None, inStore |-> FALSE, orphans |-> {}, res |-> ""]

(* The FileHash and FileSize a source gives: those of the NAR file or none.*)
Stated(v) == IF v \in Versions \ scenario.bare THEN v ELSE None

Init ==
    /\ scenario \in Scenarios
    /\ row = scenario.row
    /\ fileHash = Stated(row) /\ fileSize = Stated(row)
    /\ narFiles = scenario.stored \cup ({row} \cap Versions)
    /\ links = {row} \cap Versions
    /\ marked = scenario.stored
    /\ bytes = scenario.stored
    /\ obj = scenario.legacy
    /\ migLock = None /\ putLock = None /\ pullLock = None
    /\ narJob = [v \in Versions |-> NoJob]
    /\ p = [x \in Procs |-> At(IF \E t \in Tasks : x = Self(t) /\ Kind(t) # "idle"
                               THEN "new" ELSE "off")]
    /\ asked = FALSE
    /\ steady = {}

-----------------------------------------------------------------------------
(* Steps of a process.                                                     *)
Move(x, to) == p' = [p EXCEPT ![x].pc = to]
End(x, res) == p' = [p EXCEPT ![x].pc = "done", ![x].res = res]
Call(x, site) == p' = [p EXCEPT ![x].pc = "db", ![x].site = site]
Is(t, kinds, pc) == Kind(t) \in kinds /\ p[Self(t)].pc = pc

(* What the database and the stores say of the narinfo.                    *)
HeldRow == row \in Versions
Servable == \/ row \in bytes
            \/ row \notin Versions /\ obj \in bytes
Held == HeldRow \/ obj \in Versions

(* What getNarInfoFromDatabase finds when nothing moves meanwhile: the     *)
(* checkAsset of prePullNarInfo.                                           *)
InDatabase == HeldRow /\ \/ row \in bytes
                         \/ narJob[row].by # None
                         \/ scenario.cdc /\ row \in narFiles
Present == InDatabase \/ obj # None

(* storeInDatabase: a row with a URL is kept as it is, the rest is added.  *)
UpsertNarInfo(v) ==
    /\ row' = IF HeldRow THEN row ELSE v
    /\ fileHash' = IF HeldRow THEN fileHash ELSE Stated(v)
    /\ fileSize' = IF HeldRow THEN fileSize ELSE Stated(v)
StoreInDatabase(v) ==
    /\ UpsertNarInfo(v)
    /\ narFiles' = narFiles \cup {v}
    /\ links' = links \cup {v}
    /\ UNCHANGED marked

(* The row goes, and its links with it.                                    *)
RowGoes == row' = None /\ links' = {} /\ fileHash' = None /\ fileSize' = None

(* nar_files.file_size: PutNar and a download record the size of the file, *)
(* a narinfo without FileSize its NarSize.                                 *)
Recorded(v) == IF v \in marked \/ v \notin scenario.bare THEN v ELSE Guess

-----------------------------------------------------------------------------
(* getNarInfoFromDatabase, from one of four places.                        *)

(* What the caller does with the answer: "ok", "notfound", "purged" (a     *)
(* row without its NAR) or "error".                                        *)
Miss(x) == IF x \in {Self(t) : t \in {u \in Tasks : Kind(u) = "ask"}}
           THEN End(x, "notfound") ELSE Move(x, "coord")
Answer(x, r) ==
    LET site == p[x].site IN
    CASE site = "pull" -> Move(x, IF r = "ok" THEN "finish" ELSE "fetch")
      [] site = "first" /\ r \in {"notfound", "purged"} -> Move(x, "look")
      [] site = "retry" /\ r = "notfound" /\ p[x].tries > 1 ->
            p' = [p EXCEPT ![x].pc = "db", ![x].tries = @ - 1]
      [] OTHER -> End(x, IF r = "ok" \/ (r = "error" /\ site # "retry") THEN r ELSE "notfound")

(* The history of each step.                                               *)
Track == /\ UNCHANGED scenario
         /\ steady' = IF Servable' /\ bytes \subseteq bytes' THEN steady ELSE {}
Quiet == UNCHANGED asked /\ Track
Still == UNCHANGED <<db, bytes, obj, locks, narJob>> /\ Quiet

(* populateNarInfoFromDatabase: no row and a row without URL are the same. *)
DbRead(x) ==
    /\ p[x].pc = "db"
    /\ \/ HeldRow /\ p' = [p EXCEPT ![x].pc = "stat", ![x].ni = row]
       \/ ~HeldRow /\ Answer(x, "notfound")
       \/ MayFail /\ Answer(x, "error")
    /\ Still

(* The NAR is in the store or in chunks; the upload path also trusts the   *)
(* bytes_stored_at marker.                                                 *)
Upload(x) == \E t \in Tasks : x = Self(t) /\ Kind(t) = "ask"
DbStat(x) ==
    /\ p[x].pc = "stat"
    /\ \/ IF p[x].ni \in bytes \/ (Upload(x) /\ p[x].ni \in marked)
          THEN Answer(x, "ok") ELSE Move(x, "jobs")
       \/ MayFail /\ Answer(x, "error")
    /\ Still

(* hasUpstreamJob, isRemoteDownloadInProgress.                             *)
DbJobs(x) ==
    /\ p[x].pc = "jobs"
    /\ IF narJob[p[x].ni].by # None THEN Answer(x, "ok") ELSE Move(x, "recheck")
    /\ Still

(* The second look: at the store, where an ambiguous error keeps the       *)
(* narinfo, at the chunks, where it does not, and with CDC at the row of a *)
(* NAR that may be being chunked.                                          *)
DbRecheck(x) ==
    /\ p[x].pc = "recheck"
    /\ \/ p[x].ni \in bytes /\ Answer(x, "ok")
       \/ MayFail /\ \E r \in {"ok", "error"} : Answer(x, r)
       \/ /\ p[x].ni \notin bytes
          /\ Answer(x, IF scenario.cdc /\ p[x].ni \in narFiles THEN "ok" ELSE "purged")
    /\ Still

-----------------------------------------------------------------------------
(* GetNarInfo.                                                             *)
GetNarInfo(t) ==
    /\ Is(t, {"get", "ask"}, "new")
    /\ Call(Self(t), "first")
    /\ steady' = IF Servable THEN steady \cup {t} ELSE steady
    /\ UNCHANGED <<scenario, db, bytes, obj, locks, narJob, asked>>

(* narInfoStore.HasNarInfo.                                                *)
HasNarInfo(t) ==
    /\ Is(t, {"get", "ask"}, "look")
    /\ IF obj # None THEN Move(Self(t), "read") ELSE Miss(Self(t))
    /\ Still

(* Mutant: an object that is gone is a 404, whoever removed it.            *)
ReadObjectOnce(t) ==
    /\ Is(t, {"get", "ask"}, "read")
    /\ \/ obj = None /\ End(Self(t), "notfound")
       \/ obj = Bad /\ Move(Self(t), "purge")
       \/ obj \in Versions /\ p' = [p EXCEPT ![Self(t)].pc = "check", ![Self(t)].ni = obj]
    /\ Still

(* getNarInfoFromStore: the object may be gone by now, its URL may not     *)
(* parse.                                                                  *)
ReadObject(t) ==
    /\ Is(t, {"get", "ask"}, "read")
    /\ \/ obj = None /\ Move(Self(t), "waitmig")
       \/ obj = Bad /\ Move(Self(t), "purge")
       \/ obj \in Versions /\ p' = [p EXCEPT ![Self(t)].pc = "check", ![Self(t)].ni = obj]
       \/ MayFail /\ End(Self(t), "error")
    /\ Still

(* Is its NAR there? An ambiguous error of the store answers with the      *)
(* narinfo, one of the database fails.                                     *)
CheckObject(t) ==
    LET v == p[Self(t)].ni IN
    /\ Is(t, {"get", "ask"}, "check")
    /\ \/ /\ v \in bytes \/ (Upload(Self(t)) /\ v \in marked)
          /\ Move(Self(t), "start")
       \/ /\ v \notin bytes /\ ~(Upload(Self(t)) /\ v \in marked)
          /\ Move(Self(t), "job")
       \/ MayFail /\ \E res \in {"ok", "error"} : End(Self(t), res)
    /\ Still

(* hasUpstreamJob, of this instance only.                                  *)
CheckJob(t) ==
    /\ Is(t, {"get", "ask"}, "job")
    /\ IF narJob[p[Self(t)].ni].by = Home[t] THEN Move(Self(t), "start") ELSE Miss(Self(t))
    /\ Still

(* The transaction that starts the migration of a row without URL.         *)
StartMigration(t) ==
    /\ Is(t, {"get", "ask"}, "start")
    /\ \/ /\ p' = [p EXCEPT ![Self(t)].pc = "done", ![Self(t)].res = "ok",
                           ![Mig(t)] = IF HeldRow THEN @
                                       ELSE [At("try") EXCEPT !.ni = p[Self(t)].ni]]
       \/ MayFail /\ End(Self(t), "error")
    /\ Still

(* purgeNarInfo: the row and the NARs only it was linked to, then the      *)
(* object and the row again, then the bytes. An error ends it, and the get *)
(* goes on as if it had not.                                               *)
PurgeRows(t) ==
    /\ Is(t, {"get", "ask"}, "purge")
    /\ \/ /\ RowGoes
          /\ narFiles' = narFiles \ links /\ marked' = marked \ links
          /\ p' = [p EXCEPT ![Self(t)].pc = "purge obj", ![Self(t)].orphans = links]
          /\ asked' = TRUE
       \/ MayFail /\ Miss(Self(t)) /\ UNCHANGED <<db, asked>>
    /\ UNCHANGED <<bytes, obj, locks, narJob>> /\ Track
PurgeObject(t) ==
    /\ Is(t, {"get", "ask"}, "purge obj")
    /\ \/ /\ RowGoes
          /\ obj' = None
          /\ Move(Self(t), "purge nars")
       \/ MayFail /\ Miss(Self(t)) /\ UNCHANGED <<row, links, file, obj>>
    /\ UNCHANGED <<narFiles, marked, bytes, locks, narJob, asked>> /\ Track
PurgeBytes(t) ==
    /\ Is(t, {"get", "ask"}, "purge nars")
    /\ bytes' = bytes \ p[Self(t)].orphans \/ (MayFail /\ UNCHANGED bytes)
    /\ Miss(Self(t))
    /\ UNCHANGED <<db, obj, locks, narJob>> /\ Quiet

(* handleStorageFetchError: wait for a migration and for a PutNarInfo,     *)
(* then look in the database again, a bounded number of times.             *)
WaitMigration(t) ==
    /\ Is(t, {"get", "ask"}, "waitmig")
    /\ migLock = None /\ Move(Self(t), "waitput")
    /\ Still
WaitPut(t) ==
    /\ Is(t, {"get", "ask"}, "waitput")
    /\ putLock = None /\ Call(Self(t), "retry")
    /\ Still
WaitFails(t) ==
    /\ Is(t, {"get", "ask"}, "waitmig") \/ Is(t, {"get", "ask"}, "waitput")
    /\ MayFail /\ End(Self(t), "error")
    /\ Still

-----------------------------------------------------------------------------
(* prePullNarInfo: join the pull of this instance, or take the download    *)
(* lock and, unless the narinfo is there by now, start one.                *)
Pulling(i) == p[Pull(i)].pc # "off"
JoinPull(t) ==
    /\ Is(t, {"get"}, "coord")
    /\ Pulling(Home[t])
    /\ Move(Self(t), "wait")
    /\ Still
FoundMeanwhile(t) ==
    /\ Is(t, {"get"}, "coord")
    /\ ~Pulling(Home[t]) /\ Present
    /\ Call(Self(t), "again")
    /\ Still
StartPull(t) ==
    /\ Is(t, {"get"}, "coord")
    /\ ~Pulling(Home[t]) /\ ~Present /\ pullLock = None
    /\ pullLock' = Self(t)
    /\ p' = [p EXCEPT ![Self(t)].pc = "wait", ![Pull(Home[t])] = At("waitmig")]
    /\ UNCHANGED <<db, bytes, obj, migLock, putLock, narJob>> /\ Quiet

(* The caller goes away: the pull goes on, without the lock.               *)
Cancel(t) ==
    /\ Is(t, {"get"}, "wait") /\ MayFail
    /\ End(Self(t), "error")
    /\ pullLock' = IF pullLock = Self(t) THEN None ELSE pullLock
    /\ UNCHANGED <<db, bytes, obj, migLock, putLock, narJob>> /\ Quiet

(* The end of pullNarInfo: the waiters read the database again, or fail.   *)
EndPull(i, err) ==
    LET waiting == {Self(t) : t \in {u \in Tasks : Home[u] = i /\ Is(u, {"get"}, "wait")}} IN
    /\ p' = [x \in Procs |->
                IF x = Pull(i) THEN At("off")
                ELSE IF x \notin waiting THEN p[x]
                ELSE IF err # "" THEN [p[x] EXCEPT !.pc = "done", !.res = err]
                ELSE [p[x] EXCEPT !.pc = "db", !.site = "again"]]
    /\ pullLock' = IF pullLock \in waiting THEN None ELSE pullLock

-----------------------------------------------------------------------------
(* pullNarInfo.                                                            *)
PullWaitMigration(i) ==
    /\ p[Pull(i)].pc = "waitmig"
    /\ migLock = None /\ Move(Pull(i), "waitput")
    /\ Still
PullWaitPut(i) ==
    /\ p[Pull(i)].pc = "waitput"
    /\ putLock = None /\ Call(Pull(i), "pull")
    /\ Still
PullWaitFails(i) ==
    /\ p[Pull(i)].pc \in {"waitmig", "waitput"} /\ MayFail
    /\ EndPull(i, "error")
    /\ UNCHANGED <<db, bytes, obj, migLock, putLock, narJob>> /\ Quiet
PullFinish(i) ==
    /\ p[Pull(i)].pc = "finish"
    /\ EndPull(i, "")
    /\ UNCHANGED <<db, bytes, obj, migLock, putLock, narJob>> /\ Quiet

(* getNarInfoFromUpstream.                                                 *)
PullFetch(i) ==
    /\ p[Pull(i)].pc = "fetch"
    /\ \/ /\ scenario.upstream # None
          /\ p' = [p EXCEPT ![Pull(i)].pc = "nar", ![Pull(i)].ni = scenario.upstream]
          /\ UNCHANGED pullLock
       \/ scenario.upstream = None /\ EndPull(i, "notfound")
       \/ MayFail /\ \E err \in {"notfound", "error"} : EndPull(i, err)
    /\ UNCHANGED <<db, bytes, obj, migLock, putLock, narJob>> /\ Quiet

(* prePullNar: the NAR is fetched in the background, unless it is there or *)
(* someone fetches it.                                                     *)
PullNar(i) ==
    LET v == p[Pull(i)].ni IN
    /\ p[Pull(i)].pc = "nar"
    /\ narJob' = IF v \in bytes \/ narJob[v].by # None THEN narJob
                 ELSE [narJob EXCEPT ![v] = [by |-> i, step |-> "run"]]
    /\ Move(Pull(i), "sign")
    /\ UNCHANGED <<db, bytes, obj, locks>> /\ Quiet

(* signNarInfo, whose error is not reported to the waiters.                *)
PullSign(i) ==
    /\ p[Pull(i)].pc = "sign"
    /\ \/ Move(Pull(i), "store") /\ UNCHANGED pullLock
       \/ MayFail /\ EndPull(i, "")
    /\ UNCHANGED <<db, bytes, obj, migLock, putLock, narJob>> /\ Quiet
PullStore(i) ==
    /\ p[Pull(i)].pc = "store"
    /\ \/ StoreInDatabase(p[Pull(i)].ni) /\ EndPull(i, "")
       \/ MayFail /\ EndPull(i, "error") /\ UNCHANGED db
    /\ UNCHANGED <<bytes, obj, migLock, putLock, narJob>> /\ Quiet

(* The download of a NAR: its bytes, its nar_files row, the narinfos that  *)
(* name it, and the end of the job. It may fail before each; an error of   *)
(* the last is only logged.                                                *)
NarStep(v, to) == narJob' = [narJob EXCEPT ![v].step = to]
NarStored(v) ==
    /\ narJob[v].step = "run"
    /\ bytes' = bytes \cup {v}
    /\ NarStep(v, "record")
    /\ UNCHANGED <<db, obj, locks, p>> /\ Quiet
NarRecorded(v) ==
    /\ narJob[v].step = "record"
    /\ \/ /\ narFiles' = narFiles \cup {v} /\ marked' = marked \cup {v}
          /\ NarStep(v, "fix")
          /\ p' = [p EXCEPT ![Fetched(v)] = [At("query") EXCEPT !.ni = v]]
       \/ /\ MayFail /\ UNCHANGED <<narFiles, marked, p>>
          /\ narJob' = [narJob EXCEPT ![v] = NoJob]
    /\ UNCHANGED <<row, file, links, bytes, obj, locks>> /\ Quiet
NarFixed(v) ==
    /\ narJob[v].step = "fix" /\ p[Fetched(v)].pc = "done"
    /\ narJob' = [narJob EXCEPT ![v] = NoJob]
    /\ p' = [p EXCEPT ![Fetched(v)] = At("off")]
    /\ UNCHANGED <<db, bytes, obj, locks>> /\ Quiet
NarFailed(v) ==
    /\ narJob[v].step = "run" /\ MayFail
    /\ narJob' = [narJob EXCEPT ![v] = NoJob]
    /\ UNCHANGED <<db, bytes, obj, locks, p>> /\ Quiet

-----------------------------------------------------------------------------
(* Mutants: an upload that cannot store keeps its lock, and one that does  *)
(* not look for the NAR once it has stored.                                *)
PutStoreKeepsLock(t) ==
    /\ Is(t, {"put"}, "store")
    /\ \/ StoreInDatabase(Item(t)) /\ Move(Self(t), "clean")
       \/ MayFail /\ End(Self(t), "error") /\ UNCHANGED db
    /\ UNCHANGED <<bytes, obj, locks, narJob>> /\ Quiet
PutCleanOnly(t) ==
    /\ Is(t, {"put"}, "clean")
    /\ obj' = None
    /\ putLock' = None
    /\ End(Self(t), "ok")
    /\ UNCHANGED <<db, bytes, migLock, pullLock, narJob>> /\ Quiet

(* PutNarInfo, under the write lock of the narinfo: parse and check, store *)
(* and remove the legacy object; then CheckAndFixNarInfo.                  *)
PutBegin(t) ==
    /\ Is(t, {"put"}, "new") /\ putLock = None
    /\ \/ putLock' = t /\ Move(Self(t), "store")
       \/ MayFail /\ End(Self(t), "error") /\ UNCHANGED putLock
    /\ UNCHANGED <<db, bytes, obj, migLock, pullLock, narJob>> /\ Quiet
PutStore(t) ==
    /\ Is(t, {"put"}, "store")
    /\ \/ StoreInDatabase(Item(t)) /\ Move(Self(t), "clean") /\ UNCHANGED putLock
       \/ MayFail /\ End(Self(t), "error") /\ putLock' = None /\ UNCHANGED db
    /\ UNCHANGED <<bytes, obj, migLock, pullLock, narJob>> /\ Quiet
PutClean(t) ==
    /\ Is(t, {"put"}, "clean")
    /\ obj' = None \/ (MayFail /\ UNCHANGED obj)
    /\ putLock' = None
    /\ Move(Self(t), "fix")
    /\ UNCHANGED <<db, bytes, migLock, pullLock, narJob>> /\ Quiet

(* PutNar: the bytes, the nar_files row, the narinfos that name it.        *)
SendStore(t) ==
    /\ Is(t, {"send"}, "new")
    /\ \/ bytes' = bytes \cup {Item(t)} /\ Move(Self(t), "record")
       \/ MayFail /\ End(Self(t), "error") /\ UNCHANGED bytes
    /\ UNCHANGED <<db, obj, locks, narJob>> /\ Quiet
SendRecord(t) ==
    /\ Is(t, {"send"}, "record")
    /\ \/ /\ narFiles' = narFiles \cup {Item(t)} /\ marked' = marked \cup {Item(t)}
          /\ p' = [p EXCEPT ![Self(t)].pc = "query", ![Self(t)].ni = Item(t)]
       \/ MayFail /\ End(Self(t), "error") /\ UNCHANGED <<narFiles, marked>>
    /\ UNCHANGED <<row, file, links, bytes, obj, locks, narJob>> /\ Quiet

-----------------------------------------------------------------------------
(* checkAndFixNarInfosForNar, of an upload or a download: the narinfos     *)
(* whose URL names the NAR are linked to its row, then fixed. An error of  *)
(* the fix ends it and is only logged.                                     *)
FixQuery(x) ==
    /\ p[x].pc = "query"
    /\ \/ row = p[x].ni /\ Move(x, "link")
       \/ (row # p[x].ni \/ MayFail) /\ End(x, "ok")
    /\ Still
FixLink(x) ==
    /\ p[x].pc = "link"
    /\ \/ /\ links' = IF row = p[x].ni THEN links \cup ({row} \cap narFiles) ELSE links
          /\ Move(x, "fix")
       \/ MayFail /\ UNCHANGED links /\ \E to \in {"fix", "done"} :
                     p' = [p EXCEPT ![x].pc = to, ![x].res = IF to = "done" THEN "ok" ELSE @]
    /\ UNCHANGED <<row, file, narFiles, marked, bytes, obj, locks, narJob>> /\ Quiet

(* CheckAndFixNarInfo: read the row, look for the NAR, read its recorded   *)
(* size, and write size and hash, each in a transaction of its own, to     *)
(* the row that is then there. (In the CDC mode narinfos are made          *)
(* Compression: none and have neither.)                                    *)
FixRead(x) ==
    /\ p[x].pc = "fix"
    /\ \/ /\ HeldRow /\ ~scenario.cdc
          /\ p' = [p EXCEPT ![x].pc = "present", ![x].ni = row,
                           ![x].bare = (fileHash = None), ![x].size = fileSize]
       \/ (~HeldRow \/ scenario.cdc \/ MayFail) /\ End(x, "ok")
    /\ Still
FixPresent(x) ==
    /\ p[x].pc = "present"
    /\ \/ p[x].ni \in bytes /\ Move(x, "measure")
       \/ (p[x].ni \notin bytes \/ MayFail) /\ End(x, "ok")
    /\ Still
FixMeasure(x) ==
    LET size == Recorded(p[x].ni) IN
    /\ p[x].pc = "measure"
    /\ \/ /\ p[x].ni \in narFiles
          /\ p' = [p EXCEPT ![x].pc = IF size # p[x].size THEN "resize" ELSE "sum",
                           ![x].size = size]
       \/ (p[x].ni \notin narFiles \/ MayFail) /\ End(x, "ok")
    /\ Still
FixSize(x) ==
    /\ p[x].pc = "resize"
    /\ \/ fileSize' = (IF row = None THEN None ELSE p[x].size) /\ Move(x, "sum")
       \/ MayFail /\ End(x, "ok") /\ UNCHANGED fileSize
    /\ UNCHANGED <<row, fileHash, links, narFiles, marked, bytes, obj, locks, narJob>> /\ Quiet
FixSum(x) ==
    /\ p[x].pc = "sum"
    /\ \/ p[x].bare /\ p[x].ni \in bytes /\ Move(x, "rehash")
       \/ (~p[x].bare \/ p[x].ni \notin bytes \/ MayFail) /\ End(x, "ok")
    /\ Still
FixHash(x) ==
    /\ p[x].pc = "rehash"
    /\ fileHash' = (IF row = None THEN None ELSE p[x].ni) \/ (MayFail /\ UNCHANGED fileHash)
    /\ End(x, "ok")
    /\ UNCHANGED <<row, fileSize, links, narFiles, marked, bytes, obj, locks, narJob>> /\ Quiet

-----------------------------------------------------------------------------

(* deleteNarInfoFromStore: look in the store, look in the database, delete *)
(* what was seen.                                                          *)
DeleteLook(t) ==
    /\ Is(t, {"delete"}, "new")
    /\ p' = [p EXCEPT ![Self(t)].pc = "row", ![Self(t)].inStore = (obj # None)]
    /\ Still
DeleteRow(t) ==
    /\ Is(t, {"delete"}, "row")
    /\ \/ /\ RowGoes
          /\ asked' = TRUE
          /\ IF p[Self(t)].inStore THEN Move(Self(t), "object")
             ELSE End(Self(t), IF row = None THEN "notfound" ELSE "ok")
       \/ MayFail /\ End(Self(t), "error") /\ UNCHANGED <<row, links, file, asked>>
    /\ UNCHANGED <<narFiles, marked, bytes, obj, locks, narJob>> /\ Track
DeleteObject(t) ==
    /\ Is(t, {"delete"}, "object")
    /\ \/ obj' = None /\ End(Self(t), IF obj = None THEN "error" ELSE "ok")
       \/ MayFail /\ End(Self(t), "error") /\ UNCHANGED obj
    /\ UNCHANGED <<db, bytes, locks, narJob>> /\ Quiet

(* RunLRU: the row and its orphaned NARs in a transaction, then the bytes. *)
EvictRows(t) ==
    /\ Is(t, {"evict"}, "new") /\ row # None
    /\ RowGoes
    /\ narFiles' = narFiles \ links /\ marked' = marked \ links
    /\ p' = [p EXCEPT ![Self(t)].pc = "nars", ![Self(t)].orphans = links]
    /\ asked' = TRUE
    /\ UNCHANGED <<bytes, obj, locks, narJob>> /\ Track
EvictBytes(t) ==
    /\ Is(t, {"evict"}, "nars")
    /\ bytes' = bytes \ p[Self(t)].orphans \/ (MayFail /\ UNCHANGED bytes)
    /\ End(Self(t), "ok")
    /\ UNCHANGED <<db, obj, locks, narJob>> /\ Quiet

-----------------------------------------------------------------------------
(* migrate-narinfo: the rows are listed first; a row without URL is        *)
(* migrated from its object, the object of a row with one is removed.      *)
CliList(t) ==
    /\ Is(t, {"cli"}, "new")
    /\ \/ row = Stub /\ Move(Self(t), "fetch")
       \/ HeldRow /\ Move(Self(t), "wipe")
       \/ row = None /\ End(Self(t), "ok")
    /\ Still
CliRead(t) ==
    /\ Is(t, {"cli"}, "fetch")
    /\ \/ obj # None /\ p' = [p EXCEPT ![Self(t)].pc = "try", ![Self(t)].ni = obj]
       \/ (obj = None \/ MayFail) /\ End(Self(t), "error")
    /\ Still
CliWipe(t) ==
    /\ Is(t, {"cli"}, "wipe")
    /\ obj' = None \/ (MayFail /\ UNCHANGED obj)
    /\ End(Self(t), "ok")
    /\ UNCHANGED <<db, bytes, locks, narJob>> /\ Quiet

(* MigrateNarInfo, by the command or in the background of a get: TryLock,  *)
(* look again, store, remove the object, unlock. Who waits for a migration *)
(* takes its lock too, for a moment in which the TryLock of another fails. *)
AwaitsMigration == \E x \in Procs : p[x].pc = "waitmig"
Release(x) == migLock' = IF migLock = x THEN None ELSE migLock
MigTryLock(x) ==
    /\ p[x].pc = "try"
    /\ \/ migLock = None /\ migLock' = x /\ Move(x, "double")
       \/ (migLock # None \/ AwaitsMigration) /\ End(x, "ok") /\ UNCHANGED migLock
       \/ MayFail /\ End(x, "error") /\ UNCHANGED migLock
    /\ UNCHANGED <<db, bytes, obj, putLock, pullLock, narJob>> /\ Quiet
(* Mutant: the object is removed before the row is stored.                 *)
MigRemovesFirst(x) ==
    /\ p[x].pc = "double"
    /\ IF HeldRow THEN End(x, "ok") /\ Release(x) /\ UNCHANGED obj
       ELSE Move(x, "insert") /\ obj' = None /\ UNCHANGED migLock
    /\ UNCHANGED <<db, bytes, putLock, pullLock, narJob>> /\ Quiet

(* An error of the second look does not stop the migration.                *)
MigDoubleCheck(x) ==
    /\ p[x].pc = "double"
    /\ \/ HeldRow /\ End(x, "ok") /\ Release(x)
       \/ (~HeldRow \/ MayFail) /\ Move(x, "insert") /\ UNCHANGED migLock
    /\ UNCHANGED <<db, bytes, obj, putLock, pullLock, narJob>> /\ Quiet
MigStore(x) ==
    /\ p[x].pc = "insert"
    /\ \/ /\ p[x].ni # Bad
          /\ StoreInDatabase(p[x].ni) /\ Move(x, "remove") /\ UNCHANGED migLock
       \/ /\ p[x].ni = Bad \/ MayFail
          /\ End(x, "error") /\ Release(x) /\ UNCHANGED db
    /\ UNCHANGED <<bytes, obj, putLock, pullLock, narJob>> /\ Quiet
MigRemove(x) ==
    /\ p[x].pc = "remove"
    /\ obj' = None \/ (MayFail /\ UNCHANGED obj)
    /\ End(x, "ok") /\ Release(x)
    /\ UNCHANGED <<db, bytes, putLock, pullLock, narJob>> /\ Quiet

(* The ten seconds of the migration lock pass.                             *)
MigLockLapse ==
    /\ scenario.lapse /\ migLock # None
    /\ migLock' = None
    /\ UNCHANGED <<db, bytes, obj, putLock, pullLock, narJob, p>> /\ Quiet

-----------------------------------------------------------------------------
Reader(x) == DbRead(x) \/ DbStat(x) \/ DbJobs(x) \/ DbRecheck(x)
Getter(t) ==
    \/ GetNarInfo(t) \/ HasNarInfo(t) \/ ReadObject(t) \/ CheckObject(t) \/ CheckJob(t)
    \/ StartMigration(t) \/ PurgeRows(t) \/ PurgeObject(t) \/ PurgeBytes(t)
    \/ WaitMigration(t) \/ WaitPut(t) \/ JoinPull(t) \/ FoundMeanwhile(t) \/ StartPull(t)
Puller(i) ==
    \/ PullWaitMigration(i) \/ PullWaitPut(i) \/ PullFinish(i) \/ PullFetch(i)
    \/ PullNar(i) \/ PullSign(i) \/ PullStore(i)
Download(v) == NarStored(v) \/ NarRecorded(v) \/ NarFixed(v) \/ NarFailed(v)
Writer(t) ==
    \/ PutBegin(t) \/ PutStore(t) \/ PutClean(t) \/ SendStore(t) \/ SendRecord(t)
    \/ DeleteLook(t) \/ DeleteRow(t) \/ DeleteObject(t)
    \/ CliList(t) \/ CliRead(t) \/ CliWipe(t)
Fixer(x) ==
    \/ FixQuery(x) \/ FixLink(x) \/ FixRead(x) \/ FixPresent(x) \/ FixMeasure(x)
    \/ FixSize(x) \/ FixSum(x) \/ FixHash(x)
Evict(t) == EvictRows(t) \/ EvictBytes(t)
Migrator(x) == MigTryLock(x) \/ MigDoubleCheck(x) \/ MigStore(x) \/ MigRemove(x)

Next ==
    \/ \E x \in Procs : Reader(x) \/ Migrator(x) \/ Fixer(x)
    \/ \E t \in Tasks : Getter(t) \/ WaitFails(t) \/ Cancel(t) \/ Writer(t) \/ Evict(t)
    \/ \E i \in Instances : Puller(i) \/ PullWaitFails(i)
    \/ \E v \in Versions : Download(v)
    \/ MigLockLapse

Spec == Init /\ [][Next]_vars

(* Goroutines are scheduled and the lockers grant a free lock; nothing     *)
(* makes the eviction run, a caller go away or the wait for a lock fail.   *)
FairSpec ==
    /\ Spec
    /\ \A t \in Tasks : /\ WF_vars(\/ Getter(t) \/ Writer(t) \/ Reader(Self(t))
                                    \/ Migrator(Self(t)) \/ Fixer(Self(t)))
                         /\ WF_vars(EvictBytes(t)) /\ WF_vars(Migrator(Mig(t)))
    /\ \A i \in Instances : WF_vars(Puller(i) \/ Reader(Pull(i)))
    /\ \A v \in Versions : WF_vars(Download(v) \/ Fixer(Fetched(v)))

-----------------------------------------------------------------------------
(* The values of the state, and of the goroutines' locals.                 *)
TypeOK ==
    /\ scenario \in Scenarios
    /\ row \in Versions \cup {None, Stub} /\ obj \in Versions \cup {None, Bad}
    /\ fileHash \in Versions \cup {None} /\ fileSize \in Versions \cup {None, Guess}
    /\ asked \in BOOLEAN
    /\ links \subseteq narFiles /\ marked \subseteq narFiles /\ narFiles \subseteq Versions
    /\ bytes \subseteq Versions
    /\ migLock \in Procs \cup {None} /\ putLock \in Tasks \cup {None}
    /\ pullLock \in Procs \cup {None}
    /\ narJob \in [Versions -> [by : Instances \cup {None},
                                 step : {"none", "run", "record", "fix"}]]
    /\ p \in [Procs -> Local]
    /\ steady \subseteq Tasks

(* A narinfo the cache has is somewhere at every moment of its migration:  *)
(* it leaves the store only once its row has a URL, whatever gets, puts    *)
(* and migrations run beside each other and wherever one fails, until a    *)
(* client deletes it or the eviction takes it.                             *)
NeverDropped == [][Held /\ ~asked' => Held']_vars

(* A substituter's get does not answer 404 for a narinfo that was there    *)
(* with its NAR from its first step to its last, although the migration    *)
(* moves it from the store to the database between two of its lookups. (A  *)
(* database error in the retry of handleStorageFetchError does answer 404, *)
(* and so may a get during which the NAR of one version is evicted while   *)
(* another version comes and goes.)                                        *)
PresentServed ==
    \A t \in Tasks : Is(t, {"get"}, "done") /\ t \in steady /\ ~MayFail
                        => p[Self(t)].res = "ok"

(* Once calls that met no error are over, a narinfo whose NAR is stored    *)
(* has a FileHash, also when its source had none: the NAR's upload fixes   *)
(* the narinfos it finds and the narinfo's upload fixes itself, and        *)
(* whichever ends last sees the other, although each reads the row, the    *)
(* store and the nar_files row and writes in steps of its own. It is that  *)
(* of its own NAR file as long as nobody removed the row: a fix writes to  *)
(* the row that is there when it is done. (What is pulled or migrated      *)
(* without a FileHash is not always fixed.)                                *)
Over == /\ \A x \in Procs : p[x].pc \in {"off", "done"}
        /\ \A v \in Versions : narJob[v] = NoJob
BareUploads == {scenario.row, scenario.legacy, scenario.upstream} \cap scenario.bare = {}
Backfilled ==
    Over /\ ~MayFail /\ ~scenario.cdc /\ BareUploads /\ row \in bytes \cap narFiles
        => fileHash # None /\ (fileHash = row \/ asked)

(* The comment of CheckAndFixNarInfo: it "ensures its FileSize matches the *)
(* actual NAR size". Not so when a narinfo and its NAR are uploaded beside *)
(* each other: the fix of the narinfo's upload may read the NarSize that   *)
(* stands for the size until the NAR is recorded and write it after the    *)
(* fix of the NAR's upload wrote the size of the file.                     *)
SizeMatches ==
    Over /\ ~MayFail /\ ~asked /\ row \in bytes => fileSize = row

(* Every call returns, whoever it waits for: a pull whose signing failed   *)
(* or whose caller went away, a migration that lost its lock, an upload.   *)
CallsEnd == \A t \in Tasks : Kind(t) \notin {"idle", "evict"} ~> p[Self(t)].pc = "done"

(* The comments of getNarInfoFromStore: a legacy narinfo without its NAR   *)
(* becomes a re-fetch from upstream. When no service fails, no get answers *)
(* 404 for what upstream has. Not so in the code (README, section 3).      *)
FetchedUpstream ==
    \A t \in Tasks : Is(t, {"get"}, "done") /\ scenario.upstream # None
                        => p[Self(t)].res # "notfound"
=============================================================================
