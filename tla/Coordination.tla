---------------------------- MODULE Coordination ----------------------------
(***************************************************************************)
(* How the instances of a cluster agree on who downloads one asset:        *)
(* coordinateDownload and pollForDownloadOrTakeOver (pkg/cache/cache.go)   *)
(* around a distributed lock with a TTL, and the in-flight staging that    *)
(* lets the others serve it meanwhile (inflight_staging.go, _reader, _gc). *)
(*                                                                         *)
(* One asset.  A request that starts a download gives its name to the      *)
(* downloadState; the download itself is reduced to the parts it has read. *)
(***************************************************************************)
EXTENDS Naturals, FiniteSets

CONSTANTS
    Instances,        \* ncps processes that share the lock and the stores
    Requests,         \* GetNar (or GetNarInfo) calls
    Home,             \* the instance of each request
    Parts,            \* staging parts in the whole body
    MaxTicks,         \* maxStagingWaitTicks
    Modes             \* configurations and circumstances the cluster may run in

ASSUME HomeAssumption == Home \in [Requests -> Instances]
ASSUME PartsAssumption == Parts \in Nat \ {0} /\ MaxTicks \in Nat

Nobody == "nobody"
ASSUME NobodyAssumption == Nobody \notin Requests
Owner == Requests \cup {Nobody}

(* staging: in-flight staging is enabled; eager: eager chunking, servable  *)
(* before it is finished; pipe: ... of a compressed NAR, chunked while it  *)
(* is read; narinfo: waitForStorage, the lock goes when the caller does;   *)
(* fail: upstream, stores and lock service may fail, and an upload may     *)
(* hold the migration lock; crash: an instance may die; lapse: the locks   *)
(* of a live holder may expire; slow: a part may take longer than          *)
(* stagingOrphanAge; cancel: a caller may go away; callers: the requests   *)
(* that are made.                                                          *)
Mode == [staging : BOOLEAN, eager : BOOLEAN, pipe : BOOLEAN, narinfo : BOOLEAN,
         fail : BOOLEAN, crash : BOOLEAN, lapse : BOOLEAN, slow : BOOLEAN,
         cancel : BOOLEAN, callers : SUBSET Requests]
ASSUME ModeAssumption == Modes \subseteq Mode

VARIABLES
    mode,       \* the mode of this behaviour
    alive,      \* the instances that run
    lock,       \* the holder's token in the lock service
    mutex,      \* Locker.mutexes of each instance: the token it would unlock
    jobs,       \* c.upstreamJobs of each instance
    dl,         \* the job a request started: where pullNarIntoStore is
    cdc,        \* ... where its CDC goroutine is
    got,        \* ... how many parts its temp file holds
    failed,     \* ... ds.downloadError
    dsDone,     \* ... ds.done is closed
    asset,      \* the finished asset is in the shared store
    chunker,    \* holder of the per-hash migration lock
    row,        \* the staging_state record
    part,       \* the staging part-objects
    prod,       \* the staging producer of a job
    pidx,       \* ... the next part it writes
    reclaim,    \* ... and the reclaim it schedules at its end
    sweeper,    \* the periodic sweep
    pc,         \* program counter of a request
    ds,         \* the downloadState a request got
    took,       \* tookOverDownload
    seen,       \* servable, as checkAsset saw it
    ticks,      \* stagingWaitTicks
    releasing,  \* requests whose background goroutine will unlock
    idx, intact,\* stagingPartReader: next part; were all parts read whole?
    cancelled   \* requests whose caller is gone

lockVars == <<lock, mutex>>
dlVars == <<dl, cdc, got, failed, dsDone>>
storeVars == <<asset, chunker>>
stageVars == <<row, part>>
prodVars == <<prod, pidx, reclaim, sweeper>>
pollVars == <<took, seen, ticks>>
readVars == <<idx, intact>>
vars == <<mode, alive, lockVars, jobs, dlVars, storeVars, stageVars, prodVars, pc, ds,
          pollVars, releasing, readVars, cancelled>>

Staging == mode.staging
EagerCDC == mode.eager \/ mode.pipe
Pipe == mode.pipe
WaitForStorage == mode.narinfo
MayFail == mode.fail
MayCrash == mode.crash
MayLapse == mode.lapse
Slow == mode.slow
MayCancel == mode.cancel

NoRow == [status |-> "none", parts |-> 0]
NoParts == [i \in 0..Parts - 1 |-> "absent"]
Active == {"fetch", "run", "store"}
Done == {"storage", "local", "miss", "gone", "eof", "broken", "dead"}

LockType ==
    /\ alive \subseteq Instances
    /\ lock \in Owner /\ mutex \in [Instances -> Owner]
    /\ jobs \in [Instances -> Owner]

JobType ==
    /\ dl \in [Requests -> Active \cup {"off", "end"}]
    /\ cdc \in [Requests -> {"off", "lock", "chunk", "end"}]
    /\ got \in [Requests -> 0..Parts]
    /\ failed \in [Requests -> BOOLEAN] /\ dsDone \in [Requests -> BOOLEAN]
    /\ asset \in BOOLEAN /\ chunker \in Owner

StageType ==
    /\ row \in [status : {"none", "requested", "staging", "complete"}, parts : 0..Parts]
    /\ part \in [0..Parts - 1 -> {"absent", "short", "full"}]
    /\ prod \in [Requests -> {"off", "wait", "open", "read", "put", "putShort",
                              "advance", "advanceShort", "complete", "end"}]
    /\ pidx \in [Requests -> 0..Parts]
    /\ reclaim \in [Requests -> {"off", "grace", "row", "end"}]
    /\ sweeper \in {"idle", "row"}

RequestType ==
    /\ pc \in [Requests -> {"idle", "coord", "join", "lock", "poll", "try", "ready",
                            "own", "reset", "check", "start", "await", "tail"} \cup Done]
    /\ ds \in [Requests -> Owner]
    /\ took \in [Requests -> BOOLEAN] /\ seen \in [Requests -> BOOLEAN]
    /\ ticks \in [Requests -> 0..MaxTicks]
    /\ releasing \subseteq Requests
    /\ idx \in [Requests -> 0..Parts] /\ intact \in [Requests -> BOOLEAN]
    /\ cancelled \subseteq Requests

(* Every variable stays within its type; a part index never runs past the  *)
(* body.                                                                   *)
TypeOK == mode \in Modes /\ LockType /\ JobType /\ StageType /\ RequestType

Init ==
    /\ mode \in Modes
    /\ alive = Instances
    /\ lock = Nobody /\ mutex = [i \in Instances |-> Nobody]
    /\ jobs = [i \in Instances |-> Nobody]
    /\ dl = [r \in Requests |-> "off"] /\ got = [r \in Requests |-> 0]
    /\ cdc = [r \in Requests |-> "off"]
    /\ failed = [r \in Requests |-> FALSE] /\ dsDone = [r \in Requests |-> FALSE]
    /\ asset = FALSE /\ chunker = Nobody
    /\ row = NoRow /\ part = NoParts
    /\ prod = [r \in Requests |-> "off"] /\ pidx = [r \in Requests |-> 0]
    /\ reclaim = [r \in Requests |-> "off"] /\ sweeper = "idle"
    /\ pc = [r \in Requests |-> "idle"] /\ ds = [r \in Requests |-> Nobody]
    /\ took = [r \in Requests |-> FALSE] /\ seen = [r \in Requests |-> FALSE]
    /\ ticks = [r \in Requests |-> 0]
    /\ releasing = {}
    /\ idx = [r \in Requests |-> 0] /\ intact = [r \in Requests |-> TRUE]
    /\ cancelled = {}

Up(r) == Home[r] \in alive
Go(r, from, to) == Up(r) /\ pc[r] = from /\ pc' = [pc EXCEPT ![r] = to]

(* markStagingRequested leaves an existing row alone.                      *)
MarkRequested(rw) ==
    IF rw.status = "none" THEN [status |-> "requested", parts |-> 0] ELSE rw

(* narServability: finished, or chunks of a chunker that holds its lock.   *)
Servable == asset \/ chunker # Nobody

(* The body is read, stored or chunked.                                    *)
AtWork(r) == dl[r] \in Active \/ cdc[r] \in {"lock", "chunk"}

(* On the pipe path a CDC goroutine that returns in the middle of the body *)
(* closes ds.done, while pullNarIntoStore goes on reading.                 *)
Stray(r) == dsDone[r] /\ dl[r] = "run"

-----------------------------------------------------------------------------
(* The distributed lock, as coordinateDownload uses it.                    *)

Acquire(r) ==
    /\ lock = Nobody
    /\ lock' = r /\ mutex' = [mutex EXCEPT ![Home[r]] = r]

(* Locker.Unlock(key): whatever mutex this instance has for the key.       *)
Unlock(i) ==
    /\ lock' = IF lock = mutex[i] THEN Nobody ELSE lock
    /\ mutex' = [mutex EXCEPT ![i] = Nobody]

(* The TTL of a dead holder runs out; that of a live one only if its       *)
(* refresher fails to extend it.                                           *)
Expire ==
    /\ lock # Nobody
    /\ MayLapse \/ ~Up(lock)
    /\ lock' = Nobody
    /\ UNCHANGED <<alive, mutex, jobs, dlVars, storeVars, stageVars, prodVars, pc,
                   ds, pollVars, releasing, readVars, cancelled>>

ExpireChunker ==
    /\ chunker # Nobody
    /\ MayLapse \/ ~Up(chunker)
    /\ chunker' = Nobody
    /\ UNCHANGED <<alive, lockVars, jobs, dlVars, asset, stageVars, prodVars, pc,
                   ds, pollVars, releasing, readVars, cancelled>>

-----------------------------------------------------------------------------
(* A request.                                                              *)

(* GetNar: serve what is finished; a NAR that is being chunked elsewhere   *)
(* is served from its chunks unless staging is to be engaged.              *)
Arrive(r) ==
    /\ r \in mode.callers
    /\ IF asset \/ (Servable /\ ~Staging /\ jobs[Home[r]] = Nobody)
       THEN Go(r, "idle", "storage") ELSE Go(r, "idle", "coord")
    /\ UNCHANGED <<alive, lockVars, jobs, dlVars, storeVars, stageVars, prodVars,
                   ds, pollVars, releasing, readVars, cancelled>>

(* The local job is looked up before the lock is asked for.                *)
LocalJob(r) ==
    /\ IF jobs[Home[r]] # Nobody THEN Go(r, "coord", "join") ELSE Go(r, "coord", "lock")
    /\ ds' = [ds EXCEPT ![r] = jobs[Home[r]]]
    /\ UNCHANGED <<alive, lockVars, jobs, dlVars, storeVars, stageVars, prodVars,
                   pollVars, releasing, readVars, cancelled>>

(* ds.start (ds.stored when waiting for storage), ds.done or the caller.   *)
Reached(r) ==
    \/ dsDone[ds[r]] \/ r \in cancelled
    \/ ~WaitForStorage /\ dl[ds[r]] # "fetch"

Join(r) ==
    /\ pc[r] = "join" /\ Reached(r) /\ Go(r, "join", "local")
    /\ UNCHANGED <<alive, lockVars, jobs, dlVars, storeVars, stageVars, prodVars,
                   ds, pollVars, releasing, readVars, cancelled>>

LockOK(r) ==
    /\ Go(r, "lock", "own") /\ Acquire(r)
    /\ UNCHANGED <<alive, jobs, dlVars, storeVars, stageVars, prodVars, ds,
                   pollVars, releasing, readVars, cancelled>>

(* Lock gives up, on a held lock or on an error of the lock service:       *)
(* markStagingRequested and poll.                                          *)
LockFail(r) ==
    /\ lock # Nobody \/ MayFail
    /\ Go(r, "lock", "poll")
    /\ row' = IF Staging THEN MarkRequested(row) ELSE row
    /\ UNCHANGED <<alive, lockVars, jobs, dlVars, storeVars, part, prodVars, ds,
                   pollVars, releasing, readVars, cancelled>>

(* A tick: checkAsset.                                                     *)
Tick(r) ==
    /\ IF asset THEN Go(r, "poll", "storage") ELSE Go(r, "poll", "try")
    /\ seen' = [seen EXCEPT ![r] = Servable]
    /\ UNCHANGED <<alive, lockVars, jobs, dlVars, storeVars, stageVars, prodVars,
                   ds, took, ticks, releasing, readVars, cancelled>>

TryLockOK(r) ==
    /\ Go(r, "try", "own") /\ Acquire(r)
    /\ took' = [took EXCEPT ![r] = TRUE]
    /\ UNCHANGED <<alive, jobs, dlVars, storeVars, stageVars, prodVars, ds, seen,
                   ticks, releasing, readVars, cancelled>>

TryLockFail(r) ==
    /\ lock # Nobody \/ MayFail
    /\ Go(r, "try", "ready")
    /\ UNCHANGED <<alive, lockVars, jobs, dlVars, storeVars, stageVars, prodVars,
                   ds, pollVars, releasing, readVars, cancelled>>

(* stagingServeReady, else progressive chunks once the ticks are used up.  *)
Ready(r) ==
    /\ \/ Staging /\ row.parts > 0 /\ Go(r, "ready", "tail") /\ UNCHANGED ticks
       \/ /\ ~(Staging /\ row.parts > 0)
          /\ IF ~seen[r] THEN Go(r, "ready", "poll") /\ UNCHANGED ticks
             ELSE IF Staging /\ ticks[r] < MaxTicks
             THEN Go(r, "ready", "poll") /\ ticks' = [ticks EXCEPT ![r] = @ + 1]
             ELSE Go(r, "ready", "storage") /\ UNCHANGED ticks
    /\ UNCHANGED <<alive, lockVars, jobs, dlVars, storeVars, stageVars, prodVars,
                   ds, took, seen, releasing, readVars, cancelled>>

(* The deadline of the poll loop: a miss, or the caller's own end.         *)
GiveUp(r) ==
    /\ IF r \in cancelled THEN Go(r, "poll", "gone") ELSE Go(r, "poll", "miss")
    /\ UNCHANGED <<alive, lockVars, jobs, dlVars, storeVars, stageVars, prodVars,
                   ds, pollVars, releasing, readVars, cancelled>>

(* resetStagingForTakeover, in two steps: the parts, then the row.  When   *)
(* the parts cannot be deleted the row is left as it is.                   *)
DropParts(r) ==
    /\ \/ took[r] /\ Staging /\ Go(r, "own", "reset") /\ part' = NoParts
       \/ took[r] /\ Staging /\ MayFail /\ Go(r, "own", "check") /\ UNCHANGED part
       \/ ~(took[r] /\ Staging) /\ Go(r, "own", "check") /\ UNCHANGED part
    /\ UNCHANGED <<alive, lockVars, jobs, dlVars, storeVars, row, prodVars, ds,
                   pollVars, releasing, readVars, cancelled>>

ResetRow(r) ==
    /\ Go(r, "reset", "check")
    /\ row' = IF row.status = "none" THEN row ELSE [status |-> "requested", parts |-> 0]
    /\ UNCHANGED <<alive, lockVars, jobs, dlVars, storeVars, part, prodVars, ds,
                   pollVars, releasing, readVars, cancelled>>

(* Mutant: no second look under the lock.                                  *)
CheckAssetSkipped(r) ==
    /\ Go(r, "check", "start")
    /\ UNCHANGED <<alive, lockVars, jobs, dlVars, storeVars, stageVars, prodVars, ds,
                   pollVars, releasing, readVars, cancelled>>

(* The second look, under the lock.                                        *)
CheckAsset(r) ==
    /\ \/ Servable /\ Go(r, "check", "storage") /\ Unlock(Home[r])
       \/ ~Servable /\ Go(r, "check", "start") /\ UNCHANGED lockVars
    /\ UNCHANGED <<alive, jobs, dlVars, storeVars, stageVars, prodVars, ds,
                   pollVars, releasing, readVars, cancelled>>

StartJob(r) ==
    /\ Go(r, "start", "await")
    /\ IF jobs[Home[r]] = Nobody
       THEN /\ jobs' = [jobs EXCEPT ![Home[r]] = r]
            /\ ds' = [ds EXCEPT ![r] = r]
            /\ dl' = [dl EXCEPT ![r] = "fetch"]
            /\ prod' = [prod EXCEPT ![r] = IF Staging THEN "wait" ELSE "off"]
       ELSE /\ ds' = [ds EXCEPT ![r] = jobs[Home[r]]]
            /\ UNCHANGED <<jobs, dl, prod>>
    /\ UNCHANGED <<alive, lockVars, cdc, got, failed, dsDone, storeVars, stageVars, pidx,
                   reclaim, sweeper, pollVars, releasing, readVars, cancelled>>

(* Mutant: the lock is released as soon as the body is read.                *)
ReleaseOnStored(r) ==
    /\ r \in releasing /\ Up(r) /\ dl[ds[r]] \in {"store", "end"}
    /\ Unlock(Home[r])
    /\ releasing' = releasing \ {r}
    /\ UNCHANGED <<alive, jobs, dlVars, storeVars, stageVars, prodVars, pc, ds,
                   pollVars, readVars, cancelled>>

(* The caller is served; the lock is released at once, or by a background  *)
(* goroutine on ds.done.                                                   *)
Await(r) ==
    /\ pc[r] = "await" /\ Reached(r) /\ Go(r, "await", "local")
    /\ IF WaitForStorage THEN Unlock(Home[r]) /\ UNCHANGED releasing
       ELSE releasing' = releasing \cup {r} /\ UNCHANGED lockVars
    /\ UNCHANGED <<alive, jobs, dlVars, storeVars, stageVars, prodVars, ds,
                   pollVars, readVars, cancelled>>

Release(r) ==
    /\ r \in releasing /\ Up(r) /\ dsDone[ds[r]]
    /\ Unlock(Home[r])
    /\ releasing' = releasing \ {r}
    /\ UNCHANGED <<alive, jobs, dlVars, storeVars, stageVars, prodVars, pc, ds,
                   pollVars, readVars, cancelled>>

(* stagingPartReader.openPart: the next part, the end, or an error when    *)
(* the row is gone.                                                        *)
Tail(r) ==
    /\ pc[r] = "tail"
    /\ \/ row.status = "none" /\ Go(r, "tail", "broken") /\ UNCHANGED readVars
       \/ /\ idx[r] < row.parts /\ part[idx[r]] # "absent"
          /\ idx' = [idx EXCEPT ![r] = @ + 1]
          /\ intact' = [intact EXCEPT ![r] = @ /\ part[idx[r]] = "full"]
          /\ Up(r) /\ UNCHANGED pc
       \/ /\ idx[r] >= row.parts /\ row.status = "complete"
          /\ Go(r, "tail", "eof") /\ UNCHANGED readVars
    /\ UNCHANGED <<alive, lockVars, jobs, dlVars, storeVars, stageVars, prodVars,
                   ds, pollVars, releasing, cancelled>>

(* Mutant: no bound on the wait for a part.                                *)
StallNever(r) == FALSE /\ pc[r] = "tail" /\ UNCHANGED vars

(* maxWait without the next part.                                          *)
Stall(r) ==
    /\ row.status # "none"
    /\ ~(idx[r] < row.parts /\ part[idx[r]] # "absent")
    /\ ~(idx[r] >= row.parts /\ row.status = "complete")
    /\ Go(r, "tail", "broken")
    /\ UNCHANGED <<alive, lockVars, jobs, dlVars, storeVars, stageVars, prodVars,
                   ds, pollVars, releasing, readVars, cancelled>>

(* The caller is gone: Read returns the context's error.                   *)
TailGone(r) ==
    /\ r \in cancelled /\ Go(r, "tail", "gone")
    /\ UNCHANGED <<alive, lockVars, jobs, dlVars, storeVars, stageVars, prodVars,
                   ds, pollVars, releasing, readVars, cancelled>>

Cancel(r) ==
    /\ MayCancel /\ pc[r] \notin Done \cup {"idle"}
    /\ cancelled' = cancelled \cup {r}
    /\ UNCHANGED <<alive, lockVars, jobs, dlVars, storeVars, stageVars, prodVars,
                   pc, ds, pollVars, releasing, readVars>>

-----------------------------------------------------------------------------
(* The download a request started (NarDownload has it in full).            *)

Step(r, from, to) == Up(r) /\ dl[r] = from /\ dl' = [dl EXCEPT ![r] = to]

(* The job leaves upstreamJobs and ds.done is closed.                      *)
EndJob(r) ==
    /\ jobs' = [jobs EXCEPT ![Home[r]] = Nobody]
    /\ dsDone' = [dsDone EXCEPT ![r] = TRUE]

(* The temp file is there; on the pipe path the CDC goroutine is started.  *)
DownloadStart(r) ==
    /\ Step(r, "fetch", "run")
    /\ cdc' = IF Pipe THEN [cdc EXCEPT ![r] = "lock"] ELSE cdc
    /\ UNCHANGED <<alive, lockVars, jobs, got, failed, dsDone, storeVars, stageVars,
                   prodVars, pc, ds, pollVars, releasing, readVars, cancelled>>

DownloadPart(r) ==
    /\ got[r] < Parts /\ Step(r, "run", "run")
    /\ got' = [got EXCEPT ![r] = @ + 1]
    /\ UNCHANGED <<alive, lockVars, jobs, cdc, failed, dsDone, storeVars, stageVars,
                   prodVars, pc, ds, pollVars, releasing, readVars, cancelled>>

(* The body is complete: it is stored, or left to the CDC goroutine, which *)
(* on the simple path is only started now.                                 *)
DownloadEOF(r) ==
    /\ got[r] = Parts /\ Step(r, "run", IF EagerCDC THEN "end" ELSE "store")
    /\ cdc' = IF EagerCDC /\ ~Pipe THEN [cdc EXCEPT ![r] = "lock"] ELSE cdc
    /\ UNCHANGED <<alive, lockVars, jobs, got, failed, dsDone, storeVars, stageVars,
                   prodVars, pc, ds, pollVars, releasing, readVars, cancelled>>

(* The upstream or the body fails: on the pipe path the job is left to the *)
(* CDC goroutine, whose reader will see the error.                         *)
DownloadFail(r) ==
    /\ MayFail
    /\ \/ Step(r, "fetch", "end") /\ EndJob(r)
       \/ /\ Step(r, "run", "end")
          /\ IF Pipe THEN UNCHANGED <<jobs, dsDone>> ELSE EndJob(r)
    /\ failed' = [failed EXCEPT ![r] = TRUE]
    /\ UNCHANGED <<alive, lockVars, cdc, got, storeVars, stageVars, prodVars, pc, ds,
                   pollVars, releasing, readVars, cancelled>>

(* storeNarFromTempFile, or its failure.                                   *)
StoreWhole(r) ==
    /\ Step(r, "store", "end") /\ EndJob(r)
    /\ \/ asset' = TRUE /\ UNCHANGED failed
       \/ MayFail /\ failed' = [failed EXCEPT ![r] = TRUE] /\ UNCHANGED asset
    /\ UNCHANGED <<alive, lockVars, cdc, got, chunker, stageVars, prodVars, pc, ds,
                   pollVars, releasing, readVars, cancelled>>

(* The CDC goroutine takes the migration lock of the hash: TryLock.        *)
ChunkStart(r) ==
    /\ Up(r) /\ cdc[r] = "lock" /\ chunker = Nobody
    /\ chunker' = r /\ cdc' = [cdc EXCEPT ![r] = "chunk"]
    /\ UNCHANGED <<alive, lockVars, jobs, dl, got, failed, dsDone, asset, stageVars,
                   prodVars, pc, ds, pollVars, releasing, readVars, cancelled>>

(* The CDC goroutine returns, wherever pullNarIntoStore is: the migration  *)
(* lock is free and its defer ends the job.                                *)
ChunkEnd(r, from) ==
    /\ Up(r) /\ cdc[r] = from /\ cdc' = [cdc EXCEPT ![r] = "end"]
    /\ chunker' = IF chunker = r THEN Nobody ELSE chunker
    /\ EndJob(r)

(* ErrMigrationInProgress: no error of the download.                       *)
ChunkSkip(r) ==
    /\ chunker # Nobody \/ MayFail
    /\ ChunkEnd(r, "lock")
    /\ UNCHANGED <<alive, lockVars, dl, got, failed, asset, stageVars, prodVars, pc, ds,
                   pollVars, releasing, readVars, cancelled>>

(* The chunking fails: of itself, or on the pipe path because its reader   *)
(* sees that the download has.                                             *)
ChunkFail(r) ==
    /\ \/ MayFail /\ (ChunkEnd(r, "lock") \/ ChunkEnd(r, "chunk"))
       \/ Pipe /\ failed[r] /\ ChunkEnd(r, "chunk")
    /\ failed' = [failed EXCEPT ![r] = TRUE]
    /\ UNCHANGED <<alive, lockVars, dl, got, asset, stageVars, prodVars, pc, ds,
                   pollVars, releasing, readVars, cancelled>>

(* The reader is at the end of the whole body, the last chunk is stored.   *)
ChunkOK(r) ==
    /\ dl[r] = "end" /\ (Pipe => ~failed[r])
    /\ ChunkEnd(r, "chunk")
    /\ asset' = TRUE
    /\ UNCHANGED <<alive, lockVars, dl, got, failed, stageVars, prodVars, pc, ds,
                   pollVars, releasing, readVars, cancelled>>

-----------------------------------------------------------------------------
(* The staging producer of a job (stageInflightNar).                       *)

Produce(r, from, to) == Up(r) /\ prod[r] = from /\ prod' = [prod EXCEPT ![r] = to]

(* waitForStagingRequest: a row in "requested", looked for until ds.done   *)
(* and once more then.                                                     *)
ProdWait(r) ==
    /\ \/ row.status = "requested" /\ Produce(r, "wait", "open")
       \/ dsDone[r] /\ row.status # "requested" /\ Produce(r, "wait", "end")
    /\ UNCHANGED <<alive, lockVars, jobs, dlVars, storeVars, stageVars, pidx, reclaim,
                   sweeper, pc, ds, pollVars, releasing, readVars, cancelled>>

(* ds.start, the download error, and os.Open of the temp file, which may   *)
(* be gone once the download is over: then there is nothing to stage.      *)
ProdOpen(r) ==
    /\ dl[r] # "fetch"
    /\ \/ failed[r] /\ Produce(r, "open", "end") /\ UNCHANGED reclaim
       \/ ~failed[r] /\ Produce(r, "open", "read") /\ UNCHANGED reclaim
       \/ /\ ~failed[r] /\ dsDone[r] /\ dl[r] = "end" /\ Produce(r, "open", "end")
          /\ reclaim' = [reclaim EXCEPT ![r] = "grace"]
    /\ UNCHANGED <<alive, lockVars, jobs, dlVars, storeVars, stageVars, pidx, sweeper,
                   pc, ds, pollVars, releasing, readVars, cancelled>>

(* io.ReadFull of the next part.  The last part is short, so it is known   *)
(* to be the last only when finalSize is set; a download that fails in the *)
(* middle of a part leaves what was read of it in the buffer.              *)
ProdRead(r) ==
    /\ \/ /\ ~failed[r] /\ got[r] > pidx[r]
          /\ pidx[r] + 1 = Parts => dl[r] # "run"
          /\ Produce(r, "read", "put")
       \/ failed[r] /\ Produce(r, "read", "end")
       \/ failed[r] /\ pidx[r] < Parts /\ Produce(r, "read", "putShort")
    /\ UNCHANGED <<alive, lockVars, jobs, dlVars, storeVars, stageVars, pidx, reclaim,
                   sweeper, pc, ds, pollVars, releasing, readVars, cancelled>>

ProdPut(r) ==
    /\ \/ Produce(r, "put", "advance") /\ part' = [part EXCEPT ![pidx[r]] = "full"]
       \/ Produce(r, "putShort", "advanceShort") /\ part' = [part EXCEPT ![pidx[r]] = "short"]
       \/ /\ MayFail /\ UNCHANGED part
          /\ Produce(r, "put", "end") \/ Produce(r, "putShort", "end")
    /\ UNCHANGED <<alive, lockVars, jobs, dlVars, storeVars, row, pidx, reclaim,
                   sweeper, pc, ds, pollVars, releasing, readVars, cancelled>>

(* advanceStagingParts fails when the row is gone.                         *)
ProdAdvance(r) ==
    /\ \/ /\ row.status = "none"
          /\ Produce(r, "advance", "end") \/ Produce(r, "advanceShort", "end")
          /\ UNCHANGED <<row, pidx>>
       \/ /\ row.status # "none"
          /\ \/ Produce(r, "advance", IF pidx[r] + 1 = Parts THEN "complete" ELSE "read")
             \/ Produce(r, "advanceShort", "end")
          /\ row' = [status |-> "staging", parts |-> pidx[r] + 1]
          /\ pidx' = [pidx EXCEPT ![r] = @ + 1]
    /\ UNCHANGED <<alive, lockVars, jobs, dlVars, storeVars, part, reclaim, sweeper,
                   pc, ds, pollVars, releasing, readVars, cancelled>>

(* markStagingComplete, then scheduleStagingReclaim.                       *)
ProdComplete(r) ==
    /\ Produce(r, "complete", "end")
    /\ row' = IF row.status = "none" THEN row ELSE [row EXCEPT !.status = "complete"]
    /\ reclaim' = IF row.status = "none" THEN reclaim
                  ELSE [reclaim EXCEPT ![r] = "grace"]
    /\ UNCHANGED <<alive, lockVars, jobs, dlVars, storeVars, part, pidx, sweeper, pc,
                   ds, pollVars, releasing, readVars, cancelled>>

(* reclaimStaging after the retention grace: the parts, then the row; a    *)
(* failure to delete the parts leaves both to the sweep.                   *)
Reclaim(r) ==
    /\ Up(r)
    /\ \/ /\ reclaim[r] = "grace" /\ reclaim' = [reclaim EXCEPT ![r] = "row"]
          /\ part' = NoParts /\ UNCHANGED row
       \/ /\ reclaim[r] = "row" /\ reclaim' = [reclaim EXCEPT ![r] = "end"]
          /\ row' = NoRow /\ UNCHANGED part
       \/ /\ MayFail /\ reclaim[r] = "grace" /\ reclaim' = [reclaim EXCEPT ![r] = "end"]
          /\ UNCHANGED stageVars
    /\ UNCHANGED <<alive, lockVars, jobs, dlVars, storeVars, prod, pidx, sweeper, pc,
                   ds, pollVars, releasing, readVars, cancelled>>

(* sweepStagingGC: completed staging past its grace, or a row whose        *)
(* updated_at is older than stagingOrphanAge: nobody is at work on it any  *)
(* more, or a slow download has not advanced it for so long.               *)
Orphaned == \A r \in Requests : Up(r) => /\ ~AtWork(r)
                                         /\ prod[r] \in {"off", "end"}
                                         /\ pc[r] \in Done \cup {"idle"}

(* Mutant: the swept row is reset, as on a takeover.                       *)
SweepReset ==
    /\ \/ /\ sweeper = "idle" /\ row.status # "none"
          /\ row.status = "complete" \/ Slow \/ Orphaned
          /\ sweeper' = "row" /\ part' = NoParts /\ UNCHANGED row
       \/ /\ sweeper = "row" /\ sweeper' = "idle" /\ UNCHANGED part
          /\ row' = [status |-> "requested", parts |-> 0]
    /\ UNCHANGED <<alive, lockVars, jobs, dlVars, storeVars, prod, pidx, reclaim, pc,
                   ds, pollVars, releasing, readVars, cancelled>>

Sweep ==
    /\ \/ /\ sweeper = "idle" /\ row.status # "none"
          /\ row.status = "complete" \/ Slow \/ Orphaned
          /\ sweeper' = "row" /\ part' = NoParts /\ UNCHANGED row
       \/ sweeper = "row" /\ sweeper' = "idle" /\ row' = NoRow /\ UNCHANGED part
    /\ UNCHANGED <<alive, lockVars, jobs, dlVars, storeVars, prod, pidx, reclaim, pc,
                   ds, pollVars, releasing, readVars, cancelled>>

-----------------------------------------------------------------------------
(* A process dies with everything it had in memory; one always remains.    *)
Crash(i) ==
    /\ MayCrash /\ i \in alive /\ alive # {i}
    /\ alive' = alive \ {i}
    /\ pc' = [r \in Requests |-> IF Home[r] = i THEN "dead" ELSE pc[r]]
    /\ jobs' = [jobs EXCEPT ![i] = Nobody]
    /\ mutex' = [mutex EXCEPT ![i] = Nobody]
    /\ releasing' = {r \in releasing : Home[r] # i}
    /\ UNCHANGED <<lock, dlVars, storeVars, stageVars, prodVars, ds, pollVars,
                   readVars, cancelled>>

Download(r) == \/ DownloadStart(r) \/ DownloadPart(r) \/ DownloadEOF(r)
               \/ DownloadFail(r) \/ StoreWhole(r)

Chunk(r) == ChunkStart(r) \/ ChunkSkip(r) \/ ChunkFail(r) \/ ChunkOK(r)

Stage(r) == \/ ProdWait(r) \/ ProdOpen(r) \/ ProdRead(r) \/ ProdPut(r)
            \/ ProdAdvance(r) \/ ProdComplete(r)

Proceed(r) == \/ LocalJob(r) \/ Join(r) \/ LockOK(r) \/ LockFail(r)
              \/ Tick(r) \/ TryLockOK(r) \/ TryLockFail(r) \/ Ready(r)
              \/ DropParts(r) \/ ResetRow(r) \/ CheckAsset(r) \/ StartJob(r)
              \/ Await(r) \/ Tail(r) \/ Stall(r) \/ TailGone(r)

Next ==
    /\ \/ Expire \/ ExpireChunker \/ Sweep
       \/ \E r \in Requests : \/ Arrive(r) \/ Proceed(r) \/ GiveUp(r) \/ Release(r)
                              \/ Cancel(r) \/ Download(r) \/ Chunk(r) \/ Stage(r)
                              \/ Reclaim(r)
       \/ \E i \in Instances : Crash(i)
    /\ UNCHANGED mode

Spec == Init /\ [][Next]_vars

(* The goroutines of a live instance run, the deadline of the poll loop    *)
(* expires, a dead holder's lock expires, the sweep runs.                  *)
FairSpec ==
    /\ Spec
    /\ WF_vars(Expire /\ UNCHANGED mode)
    /\ WF_vars(ExpireChunker /\ UNCHANGED mode)
    /\ WF_vars(Sweep /\ UNCHANGED mode)
    /\ \A r \in Requests : /\ WF_vars(Proceed(r) /\ UNCHANGED mode)
                           /\ SF_vars(GiveUp(r) /\ UNCHANGED mode)
                           /\ WF_vars(Release(r) /\ UNCHANGED mode)
                           /\ WF_vars(Download(r) /\ UNCHANGED mode)
                           /\ WF_vars(Chunk(r) /\ UNCHANGED mode)
                           /\ WF_vars(Stage(r) /\ UNCHANGED mode)
                           /\ WF_vars(Reclaim(r) /\ UNCHANGED mode)

-----------------------------------------------------------------------------
(* NAR downloads, whose lock no live holder loses.                         *)
Strict == ~MayLapse /\ ~WaitForStorage

(* A live NAR download runs under the lock: the request that started it    *)
(* still holds it, through reading, storing and chunking, however the      *)
(* callers come and go and whoever crashes (coordinateDownload).  The one  *)
(* exception is the code's: the body of a pipe download whose chunker gave *)
(* up is read on without the lock, and that takes a failure.               *)
LockCoversDownload ==
    Strict => \A r \in Requests :
        Up(r) /\ AtWork(r) => lock = r \/ (Stray(r) /\ Pipe /\ MayFail)

(* At most one instance of the cluster downloads the NAR at a time, such   *)
(* stray bodies aside.                                                     *)
OneDownload ==
    Strict => \A r, q \in Requests :
        Up(r) /\ Up(q) /\ AtWork(r) /\ AtWork(q) /\ ~Stray(r) /\ ~Stray(q) => r = q

(* An instance never runs two downloads of the asset, whatever becomes of  *)
(* the lock: the job map is looked at again under its mutex.  Stray bodies *)
(* aside: they have left the map.                                          *)
OneJobPerInstance ==
    \A r, q \in Requests :
        /\ Home[r] = Home[q] /\ Up(r)
        /\ AtWork(r) /\ AtWork(q) /\ ~Stray(r) /\ ~Stray(q)
        => r = q

(* No download is started once the asset is there: the second look under   *)
(* the lock cannot be overtaken.                                           *)
NoRedundantDownload ==
    [][\A r \in Requests : Strict /\ dl[r] = "off" /\ dl'[r] = "fetch" => ~asset]_vars

(* A body served from staging that ends without an error is the whole NAR. *)
(* Not so in the code: see section 3 of the README.                        *)
StagedBodyComplete ==
    \A r \in Requests : pc[r] = "eof" => idx[r] = Parts /\ intact[r]

(* Where locks do not lapse, nothing fails and slow staging is left alone  *)
(* every call comes to its end.                                            *)
Calm == Strict /\ ~MayFail /\ ~Slow

(* Every request of an instance that stays up gets an answer.              *)
EveryRequestEnds ==
    Calm => \A r \in Requests : (pc[r] = "coord") ~> (pc[r] \in Done)

(* Nothing is left behind by an instance that dies or by any early return: *)
(* the lock is freed, and the staging row goes.                            *)
NothingLeftBehind ==
    Calm => /\ (lock # Nobody) ~> (lock = Nobody)
            /\ (row.status # "none") ~> (row.status = "none")
=============================================================================
