----------------------------- MODULE NarDownload -----------------------------
(***************************************************************************)
(* One in-flight NAR download of one ncps instance: the downloadState that *)
(* pullNarIntoStore fills, the clients that stream the temp file while it  *)
(* grows (GetNar), the CDC goroutine that chunks it, and the cleanup       *)
(* goroutine that removes it (pkg/cache/cache.go).                         *)
(*                                                                         *)
(* ds.mu serialises the fields of the downloadState; ds.cond is a          *)
(* sync.Cond: Broadcast moves whoever is waiting at that instant, and has  *)
(* no memory.  Every critical section under ds.mu is one step; a Broadcast *)
(* made after the unlock is a step of its own.                             *)
(***************************************************************************)
EXTENDS Naturals, FiniteSets

CONSTANTS
    Clients,          \* GetNar callers
    Configs,          \* configurations a download may run under
    MinBody, MaxBody, \* bounds on the number of reads of the upstream body
    UpstreamMayFail,  \* the upstream may fail or reset the body
    StoreMayFail,     \* the NAR store or the chunk store may fail
    ClientMayCancel   \* a client may go away

ASSUME BodyAssumption == MinBody \in Nat /\ MaxBody \in Nat /\ MinBody <= MaxBody

(* cdc/lazy: the CDC configuration; down: the compression of downloadURL   *)
(* (preferredUpstreamURL if there is one); narinfo: the caller passed a    *)
(* narinfo with a NarSize; req: what the clients asked for.                *)
Config == [cdc : BOOLEAN, lazy : BOOLEAN, down : {"none", "xz"},
           narinfo : BOOLEAN, req : {"none", "xz"}]

ASSUME ConfigAssumption == Configs \subseteq Config

Cdc == "cdc"                     \* the CDC goroutine, as a member of ds.wg
ASSUME CdcAssumption == Cdc \notin Clients

VARIABLES
    cfg,            \* the configuration of this download
    dl,             \* program counter of pullNarIntoStore
    body,           \* what is left of the upstream response body
    bytesWritten, finalSize, downloadError, closed,   \* ds, under ds.mu
    start, stored, done,                              \* ds channels closed?
    job,            \* is ds in c.upstreamJobs?
    cleanupWg, cdcWg, wg,     \* ds wait groups (wg as the set of its members)
    temp,           \* the temp file: "none", "present" or "removed"
    cleaner,        \* program counter of the cleanup goroutine
    cdc, cdcPos,    \* program counter and read offset of the CDC goroutine
    content,        \* the NAR is in the NAR store or in the chunk store
    pc,             \* program counter of each client
    sent,           \* bytesSent of each client
    snap,           \* [toRead, complete] a client read under ds.mu
    cancelled,      \* ctx.Done() of each client
    watcher         \* the goroutine that broadcasts when a client's ctx ends

dsVars == <<bytesWritten, finalSize, downloadError, closed>>
chanVars == <<start, stored, done>>
wgVars == <<cleanupWg, cdcWg, wg>>
cdcVars == <<cdc, cdcPos>>
clientVars == <<sent, snap, cancelled, watcher>>
vars == <<cfg, dl, body, dsVars, chanVars, job, wgVars, temp, cleaner, cdcVars,
          content, pc, clientVars>>

-----------------------------------------------------------------------------
(* The three ways through pullNarIntoStore.                                *)
Pipe(c)  == c.cdc /\ ~c.lazy /\ c.down # "none" /\ c.narinfo
Eager(c) == c.cdc /\ ~c.lazy /\ ~Pipe(c)
Whole(c) == ~Pipe(c) /\ ~Eager(c)

(* The compression of the temp file: the pipe path decompresses.           *)
TempComp == IF Pipe(cfg) THEN "none" ELSE cfg.down

(* ds.cond.Broadcast(): wakes the clients that are waiting now.            *)
Broadcast == pc' = [c \in Clients |-> IF pc[c] = "wait" THEN "woken" ELSE pc[c]]
WakeCdc == cdc' = IF cdc = "wait" THEN "read" ELSE cdc

ClientPc == {"idle", "coord", "open", "check", "waitStart", "getErr", "loop",
             "wait", "woken", "copy", "storeWait", "eof", "short", "error",
             "notFound", "storage"}
Ended == {"eof", "short", "error", "notFound", "storage"}

DownloadType ==
    /\ cfg \in Configs
    /\ dl \in {"fetch", "create", "read", "wrote", "final", "store", "stored",
               "defer", "close", "lastBroadcast", "end"}
    /\ body \in 0..MaxBody /\ bytesWritten \in Nat /\ finalSize \in Nat
    /\ downloadError \in BOOLEAN /\ closed \in BOOLEAN
    /\ start \in BOOLEAN /\ stored \in BOOLEAN /\ done \in BOOLEAN
    /\ content \in BOOLEAN

JobType ==
    /\ job \in BOOLEAN /\ cleanupWg \in BOOLEAN /\ cdcWg \in BOOLEAN
    /\ wg \subseteq Clients \cup {Cdc}
    /\ temp \in {"none", "present", "removed"}
    /\ cleaner \in {"off", "waitDl", "waitCdc", "close", "waitWg", "end"}
    /\ cdc \in {"off", "lock", "read", "wait", "release", "finish",
                "close", "broadcast", "end"}
    /\ cdcPos \in Nat

ClientType ==
    /\ pc \in [Clients -> ClientPc]
    /\ sent \in [Clients -> Nat]
    /\ snap \in [Clients -> [toRead : Nat, complete : BOOLEAN]]
    /\ cancelled \in [Clients -> BOOLEAN]
    /\ watcher \in [Clients -> {"off", "armed", "end"}]

(* Every variable stays within its type; bytesSent never runs ahead of     *)
(* bytesWritten, which would make the amount to copy negative.             *)
TypeOK == DownloadType /\ JobType /\ ClientType

Init ==
    /\ cfg \in Configs
    /\ dl = "fetch" /\ body = 0
    /\ bytesWritten = 0 /\ finalSize = 0 /\ downloadError = FALSE /\ closed = FALSE
    /\ start = FALSE /\ stored = FALSE /\ done = FALSE
    /\ job = TRUE
    /\ cleanupWg = TRUE /\ cdcWg = FALSE /\ wg = {}
    /\ temp = "none" /\ cleaner = "off"
    /\ cdc = "off" /\ cdcPos = 0
    /\ content = FALSE
    /\ pc = [c \in Clients |-> "idle"]
    /\ sent = [c \in Clients |-> 0]
    /\ snap = [c \in Clients |-> [toRead |-> 0, complete |-> FALSE]]
    /\ cancelled = [c \in Clients |-> FALSE]
    /\ watcher = [c \in Clients |-> "off"]

-----------------------------------------------------------------------------
(* pullNarIntoStore.                                                       *)

(* getNarFromUpstream answers: the cleanup goroutine is started.           *)
FetchOK ==
    /\ dl = "fetch" /\ dl' = "create"
    /\ body' \in MinBody..MaxBody
    /\ cleaner' = "waitDl"
    /\ UNCHANGED <<cfg, dsVars, chanVars, job, wgVars, temp, cdcVars, content,
                   pc, clientVars>>

(* getNarFromUpstream fails: ds.setError and return.                       *)
FetchFail ==
    /\ UpstreamMayFail
    /\ dl = "fetch" /\ dl' = "defer"
    /\ downloadError' = TRUE
    /\ UNCHANGED <<cfg, body, bytesWritten, finalSize, closed, chanVars, job,
                   wgVars, temp, cleaner, cdcVars, content, pc, clientVars>>

(* createTempNarFile, then ds.start; on the pipe path the CDC goroutine is *)
(* started here, before a byte is written, and keeps the job alive.        *)
CreateTemp ==
    /\ dl = "create" /\ dl' = "read"
    /\ temp' = "present" /\ start' = TRUE
    /\ IF Pipe(cfg)
       THEN cdcWg' = TRUE /\ wg' = wg \cup {Cdc} /\ cdc' = "lock"
       ELSE UNCHANGED <<cdcWg, wg, cdc>>
    /\ UNCHANGED <<cfg, body, dsVars, stored, done, job, cleanupWg, cleaner,
                   cdcPos, content, pc, clientVars>>

(* createTempNarFile fails: ds.setError and return.                        *)
CreateTempFail ==
    /\ StoreMayFail
    /\ dl = "create" /\ dl' = "defer"
    /\ downloadError' = TRUE
    /\ UNCHANGED <<cfg, body, bytesWritten, finalSize, closed, chanVars, job,
                   wgVars, temp, cleaner, cdcVars, content, pc, clientVars>>

(* streamReaderToFile: one Read, Write and bytesWritten update under mu.   *)
WriteChunk ==
    /\ dl = "read" /\ body > 0
    /\ body' = body - 1
    /\ bytesWritten' = bytesWritten + 1
    /\ dl' = "wrote"
    /\ UNCHANGED <<cfg, finalSize, downloadError, closed, chanVars, job, wgVars,
                   temp, cleaner, cdcVars, content, pc, clientVars>>

(* ds.cond.Broadcast() after a chunk.                                      *)
BroadcastChunk ==
    /\ dl = "wrote" /\ dl' = "read"
    /\ Broadcast /\ WakeCdc
    /\ UNCHANGED <<cfg, body, dsVars, chanVars, job, wgVars, temp, cleaner,
                   cdcPos, content, clientVars>>

(* Mutant: the asset is announced as stored when its last byte is written. *)
WriteEOFAsStored ==
    /\ dl = "read" /\ body = 0
    /\ finalSize' = bytesWritten /\ stored' = TRUE
    /\ dl' = "final"
    /\ UNCHANGED <<cfg, body, bytesWritten, downloadError, closed, start, done,
                   job, wgVars, temp, cleaner, cdcVars, content, pc, clientVars>>

(* The body ends: finalSize = bytesWritten.  A decompressor never accepts  *)
(* an empty stream, so on the pipe path there is at least one byte.        *)
WriteEOF ==
    /\ dl = "read" /\ body = 0
    /\ Pipe(cfg) => bytesWritten > 0
    /\ finalSize' = bytesWritten
    /\ dl' = "final"
    /\ UNCHANGED <<cfg, body, bytesWritten, downloadError, closed, chanVars, job,
                   wgVars, temp, cleaner, cdcVars, content, pc, clientVars>>

(* The body fails in the middle (or the temp file cannot be written, or    *)
(* the decompressor rejects the stream): ds.setError and return.           *)
ReadFail ==
    /\ dl = "read"
    /\ UpstreamMayFail \/ (Pipe(cfg) /\ body = 0 /\ bytesWritten = 0)
    /\ downloadError' = TRUE
    /\ dl' = "defer"
    /\ UNCHANGED <<cfg, body, bytesWritten, finalSize, closed, chanVars, job,
                   wgVars, temp, cleaner, cdcVars, content, pc, clientVars>>

(* The broadcast of finalSize.  What follows depends on the path: the pipe *)
(* path is over, the eager path starts the CDC goroutine (keepJobAlive),   *)
(* the others store the whole file.                                        *)
BroadcastEOF ==
    /\ dl = "final"
    /\ Broadcast
    /\ IF Eager(cfg)
       THEN cdcWg' = TRUE /\ wg' = wg \cup {Cdc} /\ cdc' = "lock"
       ELSE WakeCdc /\ UNCHANGED <<cdcWg, wg>>
    /\ dl' = IF Whole(cfg) THEN "store" ELSE "defer"
    /\ UNCHANGED <<cfg, body, dsVars, chanVars, job, cleanupWg, temp, cleaner,
                   cdcPos, content, clientVars>>

(* storeNarFromTempFile.                                                   *)
StoreOK ==
    /\ dl = "store" /\ dl' = "stored"
    /\ content' = TRUE
    /\ UNCHANGED <<cfg, body, dsVars, chanVars, job, wgVars, temp, cleaner,
                   cdcVars, pc, clientVars>>

StoreFail ==
    /\ StoreMayFail
    /\ dl = "store" /\ dl' = "defer"
    /\ downloadError' = TRUE
    /\ UNCHANGED <<cfg, body, bytesWritten, finalSize, closed, chanVars, job,
                   wgVars, temp, cleaner, cdcVars, content, pc, clientVars>>

(* ds.stored is closed, the narinfos fixed, and the function returns.      *)
SignalStored ==
    /\ dl = "stored" /\ dl' = "defer"
    /\ stored' = TRUE
    /\ UNCHANGED <<cfg, body, dsVars, start, done, job, wgVars, temp, cleaner,
                   cdcVars, content, pc, clientVars>>

KeepJobAlive == cdc # "off"

(* The deferred function: unless the CDC goroutine took the job over, the  *)
(* job is removed under upstreamJobsMu ...                                 *)
RemoveJob ==
    /\ dl = "defer" /\ dl' = "close"
    /\ job' = (job /\ KeepJobAlive)
    /\ UNCHANGED <<cfg, body, dsVars, chanVars, wgVars, temp, cleaner, cdcVars,
                   content, pc, clientVars>>

(* ... and ds.done closed after ds.start.                                  *)
CloseDone ==
    /\ dl = "close" /\ dl' = "lastBroadcast"
    /\ start' = TRUE
    /\ done' = (done \/ ~KeepJobAlive)
    /\ UNCHANGED <<cfg, body, dsVars, stored, job, wgVars, temp, cleaner, cdcVars,
                   content, pc, clientVars>>

(* The final broadcast, and cleanupWg.Done() (deferred first, runs last).  *)
LastBroadcast ==
    /\ dl = "lastBroadcast" /\ dl' = "end"
    /\ Broadcast /\ WakeCdc
    /\ cleanupWg' = FALSE
    /\ UNCHANGED <<cfg, body, dsVars, chanVars, job, cdcWg, wg, temp, cleaner,
                   cdcPos, content, clientVars>>

-----------------------------------------------------------------------------
(* The CDC goroutine.                                                      *)

(* withNarMigrationLock: the lock is taken and the nar_file row is ready   *)
(* (onNarFileReady closes ds.stored).                                      *)
CdcReady ==
    /\ cdc = "lock" /\ cdc' = "read"
    /\ stored' = TRUE
    /\ UNCHANGED <<cfg, dl, body, dsVars, start, done, job, wgVars, temp, cleaner,
                   cdcPos, content, pc, clientVars>>

(* Another instance holds the migration lock (ErrMigrationInProgress):     *)
(* reported, but no error of the download.                                 *)
CdcSkip ==
    /\ StoreMayFail
    /\ cdc = "lock" /\ cdc' = "release"
    /\ UNCHANGED <<cfg, dl, body, dsVars, chanVars, job, wgVars, temp, cleaner,
                   cdcPos, content, pc, clientVars>>

(* Any other failure of the chunking: reportBackgroundCDCError.            *)
CdcFail ==
    /\ StoreMayFail
    /\ cdc \in {"lock", "read"} /\ cdc' = "release"
    /\ downloadError' = TRUE
    /\ UNCHANGED <<cfg, dl, body, bytesWritten, finalSize, closed, chanVars, job,
                   wgVars, temp, cleaner, cdcPos, content, pc, clientVars>>

(* fileAvailableReader.Read on the pipe path: sleep while there is nothing *)
(* to read, the body is not over and the download has not failed ...       *)
CdcWait ==
    /\ Pipe(cfg) /\ cdc = "read" /\ cdc' = "wait"
    /\ cdcPos >= bytesWritten /\ finalSize = 0 /\ ~downloadError
    /\ UNCHANGED <<cfg, dl, body, dsVars, chanVars, job, wgVars, temp, cleaner,
                   cdcPos, content, pc, clientVars>>

(* ... give up when it has ...                                             *)
CdcAbort ==
    /\ Pipe(cfg) /\ cdc = "read" /\ cdc' = "release"
    /\ downloadError
    /\ UNCHANGED <<cfg, dl, body, dsVars, chanVars, job, wgVars, temp, cleaner,
                   cdcPos, content, pc, clientVars>>

(* ... or read what is there.  On the eager path the temp file is complete *)
(* and read directly, whatever ds says.                                    *)
CdcRead ==
    /\ cdc = "read" /\ cdcPos < bytesWritten
    /\ Pipe(cfg) => ~downloadError
    /\ cdcPos' = bytesWritten
    /\ UNCHANGED <<cfg, dl, body, dsVars, chanVars, job, wgVars, temp, cleaner,
                   cdc, content, pc, clientVars>>

(* io.EOF: the last chunk is stored.                                       *)
CdcChunked ==
    /\ cdc = "read" /\ cdc' = "release"
    /\ cdcPos >= bytesWritten
    /\ Pipe(cfg) => finalSize # 0 /\ ~downloadError
    /\ content' = TRUE
    /\ UNCHANGED <<cfg, dl, body, dsVars, chanVars, job, wgVars, temp, cleaner,
                   cdcPos, pc, clientVars>>

(* Mutant: cdcWg.Done() is forgotten.                                      *)
CdcReleaseReaderOnly ==
    /\ cdc = "release" /\ cdc' = "finish"
    /\ wg' = wg \ {Cdc}
    /\ UNCHANGED <<cfg, dl, body, dsVars, chanVars, job, cleanupWg, cdcWg, temp,
                   cleaner, cdcPos, content, pc, clientVars>>

(* ds.wg.Done() and ds.cdcWg.Done().                                       *)
CdcRelease ==
    /\ cdc = "release" /\ cdc' = "finish"
    /\ wg' = wg \ {Cdc} /\ cdcWg' = FALSE
    /\ UNCHANGED <<cfg, dl, body, dsVars, chanVars, job, cleanupWg, temp, cleaner,
                   cdcPos, content, pc, clientVars>>

(* The job is removed, then ds.done closed, then the broadcast.            *)
CdcRemoveJob ==
    /\ cdc = "finish" /\ cdc' = "close"
    /\ job' = FALSE
    /\ UNCHANGED <<cfg, dl, body, dsVars, chanVars, wgVars, temp, cleaner,
                   cdcPos, content, pc, clientVars>>

CdcCloseDone ==
    /\ cdc = "close" /\ cdc' = "broadcast"
    /\ done' = TRUE
    /\ UNCHANGED <<cfg, dl, body, dsVars, start, stored, job, wgVars, temp, cleaner,
                   cdcPos, content, pc, clientVars>>

CdcBroadcast ==
    /\ cdc = "broadcast" /\ cdc' = "end"
    /\ Broadcast
    /\ UNCHANGED <<cfg, dl, body, dsVars, chanVars, job, wgVars, temp, cleaner,
                   cdcPos, content, clientVars>>

-----------------------------------------------------------------------------
(* The cleanup goroutine: cleanupWg.Wait, cdcWg.Wait, closed, wg.Wait,     *)
(* os.Remove.                                                              *)
CleanerWaitDownload ==
    /\ cleaner = "waitDl" /\ ~cleanupWg
    /\ cleaner' = "waitCdc"
    /\ UNCHANGED <<cfg, dl, body, dsVars, chanVars, job, wgVars, temp, cdcVars,
                   content, pc, clientVars>>

CleanerWaitCdc ==
    /\ cleaner = "waitCdc" /\ ~cdcWg
    /\ cleaner' = "close"
    /\ UNCHANGED <<cfg, dl, body, dsVars, chanVars, job, wgVars, temp, cdcVars,
                   content, pc, clientVars>>

CleanerClose ==
    /\ cleaner = "close" /\ cleaner' = "waitWg"
    /\ closed' = TRUE
    /\ UNCHANGED <<cfg, dl, body, bytesWritten, finalSize, downloadError,
                   chanVars, job, wgVars, temp, cdcVars, content, pc, clientVars>>

CleanerRemove ==
    /\ cleaner = "waitWg" /\ wg = {}
    /\ cleaner' = "end"
    /\ temp' = IF temp = "present" THEN "removed" ELSE temp
    /\ UNCHANGED <<cfg, dl, body, dsVars, chanVars, job, wgVars, cdcVars, content,
                   pc, clientVars>>

-----------------------------------------------------------------------------
(* A client: GetNar, from the moment it finds the job.                     *)

Go(c, from, to) == pc[c] = from /\ pc' = [pc EXCEPT ![c] = to]

(* coordinateDownload finds ds in c.upstreamJobs.                          *)
JoinJob(c) ==
    /\ job /\ Go(c, "idle", "coord")
    /\ UNCHANGED <<cfg, dl, body, dsVars, chanVars, job, wgVars, temp, cleaner,
                   cdcVars, content, clientVars>>

(* ... and waits for ds.start, ds.done or the caller's context.            *)
Coordinate(c) ==
    /\ start \/ done \/ cancelled[c]
    /\ Go(c, "coord", "open")
    /\ UNCHANGED <<cfg, dl, body, dsVars, chanVars, job, wgVars, temp, cleaner,
                   cdcVars, content, clientVars>>

(* Mutant: ds.closed is not tested.                                        *)
JoinReadersUnchecked(c) ==
    /\ Go(c, "open", "check") /\ wg' = wg \cup {c}
    /\ UNCHANGED <<cfg, dl, body, dsVars, chanVars, job, cleanupWg, cdcWg, temp,
                   cleaner, cdcVars, content, clientVars>>

(* Under ds.mu: canStream = !ds.closed, ds.wg.Add(1).                      *)
JoinReaders(c) ==
    /\ IF closed THEN Go(c, "open", "storage") /\ UNCHANGED wg
                 ELSE Go(c, "open", "check") /\ wg' = wg \cup {c}
    /\ UNCHANGED <<cfg, dl, body, dsVars, chanVars, job, cleanupWg, cdcWg, temp,
                   cleaner, cdcVars, content, clientVars>>

(* HasNarInStore: a whole file in the store is served from there.          *)
CheckStore(c) ==
    /\ IF Whole(cfg) /\ content
       THEN Go(c, "check", "storage") /\ wg' = wg \ {c}
       ELSE Go(c, "check", "waitStart") /\ UNCHANGED wg
    /\ UNCHANGED <<cfg, dl, body, dsVars, chanVars, job, cleanupWg, cdcWg, temp,
                   cleaner, cdcVars, content, clientVars>>

(* select on ds.start and ctx.Done().                                      *)
AwaitStart(c) ==
    /\ \/ start /\ Go(c, "waitStart", "getErr") /\ UNCHANGED wg
       \/ cancelled[c] /\ Go(c, "waitStart", "error") /\ wg' = wg \ {c}
    /\ UNCHANGED <<cfg, dl, body, dsVars, chanVars, job, cleanupWg, cdcWg, temp,
                   cleaner, cdcVars, content, clientVars>>

(* ds.getError, compressedRequestNeedsUpstreamFallback, and the start of   *)
(* the streaming goroutine with its watcher.                               *)
NeedsFallback == cfg.req # "none" /\ cfg.req # TempComp

CheckError(c) ==
    /\ \/ downloadError /\ Go(c, "getErr", "error")
       \/ ~downloadError /\ NeedsFallback /\ Go(c, "getErr", "notFound")
       \/ ~downloadError /\ ~NeedsFallback /\ Go(c, "getErr", "loop")
    /\ wg' = IF downloadError \/ NeedsFallback THEN wg \ {c} ELSE wg
    /\ watcher' = IF downloadError \/ NeedsFallback THEN watcher
                  ELSE [watcher EXCEPT ![c] = "armed"]
    /\ UNCHANGED <<cfg, dl, body, dsVars, chanVars, job, cleanupWg, cdcWg, temp,
                   cleaner, cdcVars, content, sent, snap, cancelled>>

NothingToSend(c) == sent[c] >= bytesWritten /\ finalSize = 0

(* The top of the streaming loop, under ds.mu: wait on the condition, or   *)
(* take a snapshot and copy.                                               *)
StreamLoop(c) ==
    /\ \/ NothingToSend(c) /\ Go(c, "loop", "wait") /\ UNCHANGED snap
       \/ /\ ~NothingToSend(c)
          /\ Go(c, "loop", "copy")
          /\ snap' = [snap EXCEPT ![c] = [toRead |-> bytesWritten - sent[c],
                                          complete |-> finalSize # 0]]
    /\ UNCHANGED <<cfg, dl, body, dsVars, chanVars, job, wgVars, temp, cleaner,
                   cdcVars, content, sent, cancelled, watcher>>

Finish(c, from, outcome) ==
    /\ Go(c, from, outcome)
    /\ wg' = wg \ {c}
    /\ watcher' = [watcher EXCEPT ![c] = "end"]

(* Back from cond.Wait() with ds.mu held: leave on an error or when the    *)
(* client is gone (the deferred writer.Close() ends the body), else test   *)
(* the condition again.                                                    *)
StreamWoken(c) ==
    /\ IF downloadError \/ cancelled[c]
       THEN Finish(c, "woken", "short")
       ELSE Go(c, "woken", "loop") /\ UNCHANGED <<wg, watcher>>
    /\ UNCHANGED <<cfg, dl, body, dsVars, chanVars, job, cleanupWg, cdcWg, temp,
                   cleaner, cdcVars, content, sent, snap, cancelled>>

(* Mutant: isDownloadComplete is not tested.                               *)
StreamCopyIncomplete(c) ==
    /\ sent' = [sent EXCEPT ![c] = @ + snap[c].toRead]
    /\ IF sent'[c] >= finalSize
       THEN Go(c, "copy", "storeWait") ELSE Go(c, "copy", "loop")
    /\ UNCHANGED <<cfg, dl, body, dsVars, chanVars, job, wgVars, temp, cleaner,
                   cdcVars, content, snap, cancelled, watcher>>

(* io.Copy of what was available, without the lock.                        *)
StreamCopy(c) ==
    /\ sent' = [sent EXCEPT ![c] = @ + snap[c].toRead]
    /\ IF snap[c].complete /\ sent[c] + snap[c].toRead >= finalSize
       THEN Go(c, "copy", "storeWait") ELSE Go(c, "copy", "loop")
    /\ UNCHANGED <<cfg, dl, body, dsVars, chanVars, job, wgVars, temp, cleaner,
                   cdcVars, content, snap, cancelled, watcher>>

(* The client closed its end of the pipe: io.Copy fails.                   *)
StreamCopyFail(c) ==
    /\ cancelled[c] /\ snap[c].toRead > 0
    /\ Finish(c, "copy", "short")
    /\ UNCHANGED <<cfg, dl, body, dsVars, chanVars, job, cleanupWg, cdcWg, temp,
                   cleaner, cdcVars, content, sent, snap, cancelled>>

(* Mutant: only ds.stored and the context end the wait.                    *)
StreamEndStored(c) ==
    /\ stored \/ cancelled[c]
    /\ Finish(c, "storeWait", "eof")
    /\ UNCHANGED <<cfg, dl, body, dsVars, chanVars, job, cleanupWg, cdcWg, temp,
                   cleaner, cdcVars, content, sent, snap, cancelled>>

(* select on ds.stored, ds.done and ctx.Done() before the pipe is closed.  *)
StreamEnd(c) ==
    /\ stored \/ done \/ cancelled[c]
    /\ Finish(c, "storeWait", "eof")
    /\ UNCHANGED <<cfg, dl, body, dsVars, chanVars, job, cleanupWg, cdcWg, temp,
                   cleaner, cdcVars, content, sent, snap, cancelled>>

(* The watcher goroutine: one Broadcast when the context ends.             *)
Watch(c) ==
    /\ watcher[c] = "armed" /\ cancelled[c]
    /\ watcher' = [watcher EXCEPT ![c] = "end"]
    /\ Broadcast /\ WakeCdc
    /\ UNCHANGED <<cfg, dl, body, dsVars, chanVars, job, wgVars, temp, cleaner,
                   cdcPos, content, sent, snap, cancelled>>

(* The client goes away.                                                   *)
Cancel(c) ==
    /\ ClientMayCancel /\ ~cancelled[c]
    /\ pc[c] \notin Ended \cup {"idle"}
    /\ cancelled' = [cancelled EXCEPT ![c] = TRUE]
    /\ UNCHANGED <<cfg, dl, body, dsVars, chanVars, job, wgVars, temp, cleaner,
                   cdcVars, content, pc, sent, snap, watcher>>

-----------------------------------------------------------------------------
Download ==
    \/ FetchOK \/ FetchFail \/ CreateTemp \/ CreateTempFail \/ WriteChunk \/ BroadcastChunk
    \/ WriteEOF \/ ReadFail \/ BroadcastEOF \/ StoreOK \/ StoreFail
    \/ SignalStored \/ RemoveJob \/ CloseDone \/ LastBroadcast

Chunking == \/ CdcReady \/ CdcSkip \/ CdcFail \/ CdcWait \/ CdcAbort \/ CdcRead
            \/ CdcChunked \/ CdcRelease \/ CdcRemoveJob \/ CdcCloseDone \/ CdcBroadcast

Cleanup == \/ CleanerWaitDownload \/ CleanerWaitCdc \/ CleanerClose
           \/ CleanerRemove

Stream(c) == \/ Coordinate(c) \/ JoinReaders(c) \/ CheckStore(c) \/ AwaitStart(c)
             \/ CheckError(c) \/ StreamLoop(c) \/ StreamWoken(c) \/ StreamCopy(c)
             \/ StreamCopyFail(c) \/ StreamEnd(c)

Next ==
    \/ Download \/ Chunking \/ Cleanup
    \/ \E c \in Clients : JoinJob(c) \/ Stream(c) \/ Watch(c) \/ Cancel(c)

Spec == Init /\ [][Next]_vars

(* The goroutines of the instance are scheduled; whether clients come and  *)
(* go is up to them.                                                       *)
ClientFairness == \A c \in Clients : WF_vars(Stream(c)) /\ WF_vars(Watch(c))
FairSpec == /\ Spec /\ ClientFairness
            /\ WF_vars(Download) /\ WF_vars(Chunking) /\ WF_vars(Cleanup)

-----------------------------------------------------------------------------
(* Safety.                                                                 *)

(* A streaming client, and the CDC goroutine, never lose the temp file     *)
(* under their feet: it is removed only once the download has returned,    *)
(* chunking is over and every reader has left ds.wg.                       *)
TempFileHeld ==
    /\ \A c \in Clients : pc[c] \in {"loop", "wait", "woken", "copy"}
                             => temp = "present"
    /\ cdc \in {"lock", "read", "wait"} => temp = "present"
    /\ dl \in {"read", "wrote", "final", "store"} => temp = "present"

(* A body that ends after the storage wait is the whole NAR: every byte    *)
(* that the upstream sent, and none is sent twice.                         *)
CompleteBody ==
    \A c \in Clients :
        /\ sent[c] <= bytesWritten
        /\ pc[c] \in {"storeWait", "eof"} =>
              body = 0 /\ sent[c] = bytesWritten /\ finalSize = bytesWritten

(* A client that read a whole body and did not go away finds the NAR in    *)
(* the store afterwards, unless the download failed.                       *)
StoredBeforeEOF ==
    \A c \in Clients :
        (Whole(cfg) /\ pc[c] = "eof" /\ ~cancelled[c] /\ ~downloadError)
            => content

(* ds.done is the end of the job: whichever of the two goroutines closes   *)
(* it, the job has left upstreamJobs, so nobody joins a finished download. *)
DoneMeansNoJob == done => ~job

(* Liveness.                                                               *)

(* Once the body is complete every client that joined gets its end.        *)
EOFEndsStreams ==
    \A c \in Clients : (finalSize # 0 /\ pc[c] # "idle") ~> (pc[c] \in Ended)

(* A finished download eventually gives its temp file back.                *)
TempReclaimed == done ~> (temp # "present")

(* When the download fails, the clients that stream it are let go. Not so  *)
(* in the code: a client can miss the last broadcast (README, section 3).  *)
FailureEndsStreams ==
    \A c \in Clients : (downloadError /\ pc[c] # "idle") ~> (pc[c] \in Ended)
==============================================================================
