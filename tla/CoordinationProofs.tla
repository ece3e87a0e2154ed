------------------------ MODULE CoordinationProofs ------------------------
(***************************************************************************)
(* Proofs about Coordination, for every cluster, number of requests and    *)
(* length of the body, with crashes, failures, cancellations and staging:  *)
(* the types, one job per instance, and, while no lock of a live holder    *)
(* lapses, mutual exclusion of NAR downloads across the cluster.           *)
(***************************************************************************)
EXTENDS Coordination, TLAPS

USE DEF lockVars, dlVars, storeVars, stageVars, prodVars, pollVars, readVars

(* The mode of a behaviour never changes.                                  *)
LEMMA ModeStays == [Next]_vars => UNCHANGED mode
BY DEF Next, vars

-----------------------------------------------------------------------------
(* What the steps leave alone.                                             *)

(* The lock and the job maps.                                              *)
LEMMA LockFrame ==
    ASSUME \/ ExpireChunker \/ Sweep
           \/ \E r \in Requests :
                \/ Arrive(r) \/ LocalJob(r) \/ Join(r) \/ LockFail(r) \/ Tick(r)
                \/ TryLockFail(r) \/ Ready(r) \/ DropParts(r) \/ ResetRow(r) \/ Tail(r)
                \/ Stall(r) \/ TailGone(r) \/ GiveUp(r) \/ Cancel(r) \/ DownloadStart(r)
                \/ DownloadPart(r) \/ DownloadEOF(r) \/ ChunkStart(r) \/ Stage(r) \/ Reclaim(r)
    PROVE  UNCHANGED <<alive, lock, mutex, jobs>>
BY DEF Arrive, LocalJob, Join, LockFail, Tick, TryLockFail, Ready, DropParts, ResetRow, Tail,
       Stall, TailGone, GiveUp, Cancel, DownloadStart, DownloadPart, DownloadEOF, ChunkStart,
       Stage, ProdWait, ProdOpen, ProdRead, ProdPut, ProdAdvance, ProdComplete, Reclaim,
       ExpireChunker, Sweep

(* The downloads and the asset.                                            *)
LEMMA JobFrame ==
    ASSUME \/ Expire \/ Sweep
           \/ \E i \in Instances : Crash(i)
           \/ \E r \in Requests :
                \/ Arrive(r) \/ (Proceed(r) /\ ~StartJob(r)) \/ GiveUp(r) \/ Release(r)
                \/ Cancel(r) \/ Stage(r) \/ Reclaim(r)
    PROVE  UNCHANGED <<dl, cdc, got, failed, dsDone, asset, chunker>>
BY DEF Arrive, Proceed, LocalJob, Join, LockOK, LockFail, Tick, TryLockOK, TryLockFail, Ready,
       DropParts, ResetRow, CheckAsset, Await, Tail, Stall, TailGone, GiveUp, Release, Cancel,
       Stage, ProdWait, ProdOpen, ProdRead, ProdPut, ProdAdvance, ProdComplete, Reclaim,
       Expire, Sweep, Crash

(* Staging.                                                                *)
LEMMA StageFrame ==
    ASSUME \/ Expire \/ ExpireChunker
           \/ \E i \in Instances : Crash(i)
           \/ \E r \in Requests :
                \/ Arrive(r) \/ GiveUp(r) \/ Release(r) \/ Cancel(r) \/ Download(r) \/ Chunk(r)
                \/ Proceed(r) /\ ~LockFail(r) /\ ~DropParts(r) /\ ~ResetRow(r) /\ ~StartJob(r)
    PROVE  UNCHANGED <<row, part, prod, pidx, reclaim, sweeper>>
BY DEF Arrive, GiveUp, Release, Cancel, Download, DownloadStart, DownloadPart, DownloadEOF,
       DownloadFail, StoreWhole, Chunk, ChunkStart, ChunkSkip, ChunkFail, ChunkOK, Proceed, LocalJob, Join, LockOK, Tick, TryLockOK,
       TryLockFail, Ready, CheckAsset, Await, Tail, Stall, TailGone, Expire, ExpireChunker, Crash

(* The requests.                                                           *)
LEMMA RequestFrame ==
    ASSUME \/ Expire \/ ExpireChunker \/ Sweep
           \/ \E r \in Requests : Download(r) \/ Chunk(r) \/ Stage(r) \/ Reclaim(r)
    PROVE  UNCHANGED <<pc, ds, took, seen, ticks, releasing, idx, intact, cancelled>>
BY DEF Download, DownloadStart, DownloadPart, DownloadEOF, DownloadFail, StoreWhole,
       Chunk, ChunkStart, ChunkSkip, ChunkFail, ChunkOK, Stage, ProdWait, ProdOpen, ProdRead, ProdPut, ProdAdvance, ProdComplete, Reclaim,
       Expire, ExpireChunker, Sweep

-----------------------------------------------------------------------------
(* Types.                                                                  *)

(* What the producer writes next lies within the body.                     *)
ProdProgress ==
    \A r \in Requests :
        prod[r] \in {"put", "putShort", "advance", "advanceShort"} => pidx[r] < Parts

TypeInv == TypeOK /\ ProdProgress

(* The first states are well typed.                                        *)
LEMMA InitType == Init => TypeInv
<1> SUFFICES ASSUME Init PROVE TypeInv
  OBVIOUS
<1>1. mode \in Modes /\ LockType
  BY DEF Init, LockType, Owner
<1>2. JobType
  <2>1. 0 \in 0..Parts
    BY PartsAssumption
  <2> QED BY <2>1 DEF Init, JobType, Owner, Active
<1>3. StageType
  BY PartsAssumption DEF Init, StageType, NoRow, NoParts
<1>4. RequestType
  BY PartsAssumption DEF Init, RequestType, Owner, Done
<1>5. ProdProgress
  BY DEF Init, ProdProgress
<1> QED BY <1>1, <1>2, <1>3, <1>4, <1>5 DEF TypeInv, TypeOK

LEMMA LockTypeStep == TypeInv /\ [Next]_vars => LockType'
<1> SUFFICES ASSUME TypeInv, [Next]_vars PROVE LockType'
  OBVIOUS
<1> USE HomeAssumption DEF TypeInv, TypeOK, LockType, Owner
<1>1. CASE Expire
  BY <1>1 DEF Expire
<1>2. ASSUME NEW r \in Requests, LockOK(r) \/ TryLockOK(r) PROVE LockType'
  BY <1>2 DEF LockOK, TryLockOK, Acquire
<1>3. ASSUME NEW r \in Requests, CheckAsset(r) \/ Await(r) \/ Release(r) PROVE LockType'
  BY <1>3 DEF CheckAsset, Await, Release, Unlock
<1>4. ASSUME NEW r \in Requests,
             \/ StartJob(r) \/ DownloadFail(r) \/ StoreWhole(r) \/ ChunkSkip(r) \/ ChunkFail(r)
             \/ ChunkOK(r)
      PROVE  LockType'
  BY <1>4 DEF StartJob, DownloadFail, StoreWhole, ChunkSkip, ChunkFail, ChunkOK, ChunkEnd, EndJob
<1>5. ASSUME NEW i \in Instances, Crash(i) PROVE LockType'
  BY <1>5 DEF Crash
<1>6. CASE UNCHANGED <<alive, lock, mutex, jobs>>
  BY <1>6
<1> QED
  BY <1>1, <1>2, <1>3, <1>4, <1>5, <1>6, LockFrame
     DEF Next, Proceed, Download, Chunk, vars

LEMMA JobTypeStep == TypeInv /\ [Next]_vars => JobType'
<1> SUFFICES ASSUME TypeInv, [Next]_vars PROVE JobType'
  OBVIOUS
<1> USE PartsAssumption DEF TypeInv, TypeOK, JobType, Owner, Active
<1>1. CASE ExpireChunker
  BY <1>1 DEF ExpireChunker
<1>2. ASSUME NEW r \in Requests, StartJob(r) PROVE JobType'
  BY <1>2 DEF StartJob
<1>3. ASSUME NEW r \in Requests, DownloadStart(r) \/ DownloadPart(r) \/ DownloadEOF(r)
      PROVE  JobType'
  BY <1>3 DEF DownloadStart, DownloadPart, DownloadEOF, Step
<1>4. ASSUME NEW r \in Requests, DownloadFail(r) \/ StoreWhole(r) PROVE JobType'
  BY <1>4 DEF DownloadFail, StoreWhole, EndJob, Step
<1>6. ASSUME NEW r \in Requests, Chunk(r) PROVE JobType'
  BY <1>6 DEF Chunk, ChunkStart, ChunkSkip, ChunkFail, ChunkOK, ChunkEnd, EndJob
<1>5. CASE UNCHANGED <<dl, cdc, got, failed, dsDone, asset, chunker>>
  BY <1>5
<1> QED
  BY <1>1, <1>2, <1>3, <1>4, <1>5, <1>6, JobFrame DEF Next, Download, Proceed, vars

LEMMA StageTypeStep == TypeInv /\ [Next]_vars => StageType' /\ ProdProgress'
<1> SUFFICES ASSUME TypeInv, [Next]_vars PROVE StageType' /\ ProdProgress'
  OBVIOUS
<1> USE PartsAssumption DEF TypeInv, TypeOK, StageType, ProdProgress
<1>1. ASSUME NEW r \in Requests, LockFail(r) \/ ResetRow(r)
      PROVE  StageType' /\ ProdProgress'
  BY <1>1 DEF LockFail, ResetRow, MarkRequested
<1>2. ASSUME NEW r \in Requests, DropParts(r) \/ StartJob(r)
      PROVE  StageType' /\ ProdProgress'
  BY <1>2 DEF DropParts, StartJob, NoParts
<1>3. ASSUME NEW r \in Requests, ProdWait(r) \/ ProdOpen(r) \/ ProdComplete(r)
      PROVE  StageType' /\ ProdProgress'
  BY <1>3, SMTT(20) DEF ProdWait, ProdOpen, ProdComplete, Produce
<1>4. ASSUME NEW r \in Requests, ProdRead(r) \/ ProdPut(r)
      PROVE  StageType' /\ ProdProgress'
  <2>1. StageType'
    BY <1>4 DEF ProdRead, ProdPut, Produce
  <2>2. ProdProgress'
    BY <1>4 DEF ProdRead, ProdPut, Produce, JobType
  <2> QED BY <2>1, <2>2
<1>5. ASSUME NEW r \in Requests, ProdAdvance(r) PROVE StageType' /\ ProdProgress'
  <2>1. CASE UNCHANGED <<row, pidx>>
    BY <1>5, <2>1 DEF ProdAdvance, Produce
  <2>2. CASE /\ prod[r] \in {"advance", "advanceShort"}
             /\ \E s \in {"complete", "read", "end"} : prod' = [prod EXCEPT ![r] = s]
             /\ row' = [status |-> "staging", parts |-> pidx[r] + 1]
             /\ pidx' = [pidx EXCEPT ![r] = @ + 1]
    <3>1. pidx[r] + 1 \in 0..Parts
      BY <2>2
    <3>2. StageType'
      BY <1>5, <2>2, <3>1 DEF ProdAdvance
    <3>3. ProdProgress'
      BY <2>2
    <3> QED BY <3>2, <3>3
  <2> QED BY <1>5, <2>1, <2>2 DEF ProdAdvance, Produce
<1>6. ASSUME NEW r \in Requests, Reclaim(r) PROVE StageType' /\ ProdProgress'
  <2>1. \E s \in {"row", "end"} : reclaim' = [reclaim EXCEPT ![r] = s]
    BY <1>6 DEF Reclaim
  <2>2. row' \in [status : {"none", "requested", "staging", "complete"}, parts : 0..Parts]
    BY <1>6 DEF Reclaim, NoRow
  <2>3. part' \in [0..Parts - 1 -> {"absent", "short", "full"}]
    BY <1>6 DEF Reclaim, NoParts
  <2> QED BY <1>6, <2>1, <2>2, <2>3 DEF Reclaim
<1>7. CASE Sweep
  BY <1>7 DEF Sweep, NoRow, NoParts
<1>8. CASE UNCHANGED <<row, part, prod, pidx, reclaim, sweeper>>
  BY <1>8
<1> QED
  BY <1>1, <1>2, <1>3, <1>4, <1>5, <1>6, <1>7, <1>8, StageFrame
     DEF Next, Stage, Proceed, vars

LEMMA RequestTypeStep == TypeInv /\ [Next]_vars => RequestType'
<1> SUFFICES ASSUME TypeInv, [Next]_vars PROVE RequestType'
  OBVIOUS
<1> USE PartsAssumption DEF TypeInv, TypeOK, RequestType, Owner, Done, Go
<1>1. ASSUME NEW r \in Requests,
             \/ Arrive(r) \/ Join(r) \/ LockOK(r) \/ LockFail(r) \/ TryLockFail(r)
             \/ DropParts(r) \/ ResetRow(r) \/ CheckAsset(r) \/ Stall(r) \/ TailGone(r)
             \/ GiveUp(r)
      PROVE  RequestType'
  BY <1>1 DEF Arrive, Join, LockOK, LockFail, TryLockFail, DropParts, ResetRow, CheckAsset,
              Stall, TailGone, GiveUp
<1>2. ASSUME NEW r \in Requests, LocalJob(r) \/ StartJob(r) PROVE RequestType'
  BY <1>2, HomeAssumption DEF LocalJob, StartJob, LockType
<1>3. ASSUME NEW r \in Requests, Tick(r) \/ TryLockOK(r) \/ Ready(r) PROVE RequestType'
  <2>1. CASE Tick(r)
    <3>1. Servable \in BOOLEAN
      BY DEF Servable, JobType
    <3>2. seen' \in [Requests -> BOOLEAN]
      BY <2>1, <3>1 DEF Tick
    <3> QED BY <2>1, <3>2 DEF Tick
  <2>2. CASE TryLockOK(r)
    BY <2>2 DEF TryLockOK
  <2>3. CASE Ready(r)
    <3>1. ticks' \in [Requests -> 0..MaxTicks]
      BY <2>3 DEF Ready
    <3>2. \E to \in {"tail", "poll", "storage"} : pc' = [pc EXCEPT ![r] = to]
      BY <2>3 DEF Ready
    <3> QED BY <2>3, <3>1, <3>2 DEF Ready
  <2> QED BY <1>3, <2>1, <2>2, <2>3
<1>4. ASSUME NEW r \in Requests, Await(r) \/ Release(r) \/ Cancel(r) PROVE RequestType'
  BY <1>4 DEF Await, Release, Cancel
<1>5. ASSUME NEW r \in Requests, Tail(r) PROVE RequestType'
  <2>1. CASE UNCHANGED <<idx, intact>>
    BY <1>5, <2>1 DEF Tail
  <2>2. CASE /\ idx[r] < row.parts
             /\ idx' = [idx EXCEPT ![r] = @ + 1]
             /\ intact' = [intact EXCEPT ![r] = @ /\ part[idx[r]] = "full"]
             /\ UNCHANGED pc
    <3>1. idx[r] + 1 \in 0..Parts
      BY <2>2 DEF StageType
    <3>2. idx' \in [Requests -> 0..Parts]
      BY <2>2, <3>1
    <3>3. intact' \in [Requests -> BOOLEAN]
      BY <2>2
    <3> QED BY <1>5, <2>2, <3>2, <3>3 DEF Tail
  <2> QED BY <1>5, <2>1, <2>2 DEF Tail
<1>6. ASSUME NEW i \in Instances, Crash(i) PROVE RequestType'
  BY <1>6 DEF Crash
<1>7. CASE UNCHANGED <<pc, ds, took, seen, ticks, releasing, idx, intact, cancelled>>
  BY <1>7
<1> QED
  BY <1>1, <1>2, <1>3, <1>4, <1>5, <1>6, <1>7, RequestFrame DEF Next, Proceed, vars

(* A step keeps the types.                                                 *)
LEMMA TypeStep == TypeInv /\ [Next]_vars => TypeInv'
BY ModeStays, LockTypeStep, JobTypeStep, StageTypeStep, RequestTypeStep DEF TypeInv, TypeOK

(* TypeOK is an invariant: no step leaves the types, whatever fails.       *)
THEOREM TypeCorrect == Spec => []TypeOK
<1>1. TypeInv => TypeOK
  BY DEF TypeInv
<1> QED BY <1>1, InitType, TypeStep, PTL DEF Spec

-----------------------------------------------------------------------------
(* One job per instance, in every mode.                                    *)

(* A request starts one download, and then only waits for it.              *)
Started == \A r \in Requests : dl[r] # "off" => pc[r] \in {"await", "local", "dead"}

LEMMA StartedStep == TypeInv /\ Started /\ [Next]_vars => Started'
<1> SUFFICES ASSUME TypeInv, Started, [Next]_vars PROVE Started'
  OBVIOUS
<1> USE DEF TypeInv, TypeOK, JobType, RequestType, Started, Active, Done, Go
<1>1. ASSUME NEW r \in Requests,
             \/ Arrive(r) \/ LocalJob(r) \/ Join(r) \/ LockOK(r) \/ LockFail(r) \/ Tick(r)
             \/ TryLockOK(r) \/ TryLockFail(r)
      PROVE  Started'
  BY <1>1 DEF Arrive, LocalJob, Join, LockOK, LockFail, Tick, TryLockOK, TryLockFail, dlVars
<1>2. ASSUME NEW r \in Requests,
             \/ Ready(r) \/ DropParts(r) \/ ResetRow(r) \/ CheckAsset(r) \/ Await(r) \/ Tail(r)
             \/ Stall(r) \/ TailGone(r) \/ GiveUp(r)
      PROVE  Started'
  BY <1>2 DEF Ready, DropParts, ResetRow, CheckAsset, Await, Tail, Stall, TailGone, GiveUp, dlVars
<1>3. ASSUME NEW r \in Requests, StartJob(r) PROVE Started'
  BY <1>3 DEF StartJob
<1>4. ASSUME NEW r \in Requests, Download(r) PROVE Started'
  BY <1>4 DEF Download, DownloadStart, DownloadPart, DownloadEOF, DownloadFail, StoreWhole, Step
<1>5. ASSUME NEW r \in Requests, Chunk(r) PROVE UNCHANGED <<dl, pc>>
  BY <1>5 DEF Chunk, ChunkStart, ChunkSkip, ChunkFail, ChunkOK
<1>6. ASSUME NEW i \in Instances, Crash(i) PROVE Started'
  BY <1>6 DEF Crash
<1>7. ASSUME NEW r \in Requests, Release(r) \/ Cancel(r) \/ Stage(r) \/ Reclaim(r)
      PROVE  UNCHANGED <<dl, pc>>
  BY <1>7, JobFrame, RequestFrame DEF Release, Cancel
<1>8. CASE Expire \/ ExpireChunker \/ Sweep
  BY <1>8 DEF Expire, ExpireChunker, Sweep
<1>9. CASE UNCHANGED <<dl, pc>>
  BY <1>9
<1> QED
  BY <1>1, <1>2, <1>3, <1>4, <1>5, <1>6, <1>7, <1>8, <1>9 DEF Next, Proceed, vars

(* The two goroutines of a job hand it over: the CDC goroutine is started  *)
(* with the body on the pipe path and after it on the simple one, and once *)
(* ds.done is closed only a stray body is still read.                      *)
HandedOver ==
    \A r \in Requests :
        /\ dl[r] \in {"off", "fetch", "store"} => cdc[r] = "off" /\ ~dsDone[r]
        /\ dl[r] = "run" => (cdc[r] = "off" <=> ~Pipe)
        /\ dl[r] = "end" /\ cdc[r] = "off" => dsDone[r]
        /\ cdc[r] = "end" => dsDone[r]
        /\ dsDone[r] => cdc[r] \in {"off", "end"} /\ (dl[r] = "run" => Pipe)
        /\ failed[r] => MayFail

LEMMA HandOverStep == TypeInv /\ Started /\ HandedOver /\ [Next]_vars => HandedOver'
<1> SUFFICES ASSUME TypeInv, Started, HandedOver, [Next]_vars PROVE HandedOver'
  OBVIOUS
<1>0. Pipe' = Pipe /\ MayFail' = MayFail
  BY ModeStays DEF Pipe, MayFail
<1> USE <1>0 DEF TypeInv, TypeOK, JobType, HandedOver, Active
<1>1. ASSUME NEW r \in Requests, StartJob(r) PROVE HandedOver'
  <2>1. dl[r] = "off"
    BY <1>1 DEF StartJob, Go, Started
  <2> QED BY <1>1, <2>1 DEF StartJob
<1>2. ASSUME NEW r \in Requests, DownloadStart(r) \/ DownloadPart(r) PROVE HandedOver'
  BY <1>2 DEF DownloadStart, DownloadPart, Step
<1>3. ASSUME NEW r \in Requests, DownloadEOF(r) PROVE HandedOver'
  BY <1>3 DEF DownloadEOF, Step, EagerCDC, Pipe
<1>4. ASSUME NEW r \in Requests, DownloadFail(r) PROVE HandedOver'
  BY <1>4 DEF DownloadFail, EndJob, Step
<1>5. ASSUME NEW r \in Requests, StoreWhole(r) PROVE HandedOver'
  BY <1>5 DEF StoreWhole, EndJob, Step
<1>6. ASSUME NEW r \in Requests, ChunkStart(r) PROVE HandedOver'
  BY <1>6 DEF ChunkStart
<1>7. ASSUME NEW r \in Requests, ChunkSkip(r) \/ ChunkFail(r) \/ ChunkOK(r) PROVE HandedOver'
  BY <1>7 DEF ChunkSkip, ChunkFail, ChunkOK, ChunkEnd, EndJob
<1>8. CASE UNCHANGED <<dl, cdc, failed, dsDone>>
  BY <1>8
<1>9. CASE ExpireChunker
  BY <1>9 DEF ExpireChunker
<1> QED
  BY <1>1, <1>2, <1>3, <1>4, <1>5, <1>6, <1>7, <1>8, <1>9, JobFrame
     DEF Next, Proceed, Download, Chunk, vars

(* The job of a download that is not finished is the one upstreamJobs      *)
(* names.                                                                  *)
JobListed ==
    \A r \in Requests : Up(r) /\ AtWork(r) /\ ~dsDone[r] => jobs[Home[r]] = r

(* Jobs are started and ended under the mutex of the map.                  *)
LEMMA JobStep == TypeInv /\ HandedOver /\ JobListed /\ [Next]_vars => JobListed'
<1> SUFFICES ASSUME TypeInv, HandedOver, JobListed, [Next]_vars PROVE JobListed'
  OBVIOUS
<1> USE HomeAssumption, NobodyAssumption
    DEF TypeInv, TypeOK, LockType, JobType, JobListed, Up, AtWork, Active
<1>1. ASSUME NEW r \in Requests, StartJob(r) PROVE JobListed'
  BY <1>1 DEF StartJob
<1>2. ASSUME NEW r \in Requests, DownloadStart(r) \/ DownloadPart(r) \/ DownloadEOF(r)
      PROVE  JobListed'
  BY <1>2 DEF DownloadStart, DownloadPart, DownloadEOF, Step
<1>3. ASSUME NEW r \in Requests,
             \/ DownloadFail(r) \/ StoreWhole(r) \/ ChunkSkip(r) \/ ChunkFail(r) \/ ChunkOK(r)
      PROVE  JobListed'
  <2>1. CASE EndJob(r) /\ ~dsDone[r] /\ AtWork(r)
    <3>1. \A q \in Requests : q # r => UNCHANGED <<dl[q], cdc[q], dsDone[q]>>
      BY <1>3, <2>1 DEF DownloadFail, StoreWhole, ChunkSkip, ChunkFail, ChunkOK, ChunkEnd,
                        EndJob, Step
    <3>2. UNCHANGED alive
      BY <1>3 DEF DownloadFail, StoreWhole, ChunkSkip, ChunkFail, ChunkOK
    <3>3. Up(r)
      BY <1>3 DEF DownloadFail, StoreWhole, ChunkSkip, ChunkFail, ChunkOK, ChunkEnd, Step
    <3> QED BY <2>1, <3>1, <3>2, <3>3 DEF EndJob
  <2>2. CASE UNCHANGED <<jobs, dsDone, cdc, alive>> /\ dl' = [dl EXCEPT ![r] = "end"]
    BY <2>2
  <2>3. CASE DownloadFail(r) \/ StoreWhole(r)
    BY <2>1, <2>2, <2>3 DEF DownloadFail, StoreWhole, Step, HandedOver
  <2>4. CASE ChunkSkip(r) \/ ChunkFail(r) \/ ChunkOK(r)
    BY <2>1, <2>4 DEF ChunkSkip, ChunkFail, ChunkOK, ChunkEnd, HandedOver
  <2> QED BY <1>3, <2>3, <2>4
<1>4. ASSUME NEW i \in Instances, Crash(i) PROVE JobListed'
  BY <1>4 DEF Crash
<1>5. CASE UNCHANGED <<alive, jobs, dl, cdc, dsDone>>
  BY <1>5
<1>6. ASSUME NEW r \in Requests,
             \/ LockOK(r) \/ TryLockOK(r) \/ CheckAsset(r) \/ Await(r) \/ Release(r)
      PROVE  UNCHANGED <<alive, jobs, dl, cdc, dsDone>>
  BY <1>6 DEF LockOK, TryLockOK, CheckAsset, Await, Release
<1>7. CASE Expire \/ ExpireChunker
  BY <1>7 DEF Expire, ExpireChunker
<1>8. ASSUME NEW r \in Requests, ChunkStart(r) PROVE JobListed'
  BY <1>8 DEF ChunkStart
<1> QED
  BY <1>1, <1>2, <1>3, <1>4, <1>5, <1>6, <1>7, <1>8, LockFrame, JobFrame
     DEF Next, Proceed, Download, Chunk, vars

(* What holds of the jobs in every mode.                                   *)
JobInv == TypeInv /\ Started /\ HandedOver

LEMMA JobInvariant == Spec => []JobInv
<1>1. Init => JobInv
  BY InitType DEF Init, JobInv, Started, HandedOver
<1> QED BY <1>1, TypeStep, StartedStep, HandOverStep, PTL DEF Spec, JobInv

(* An instance never runs two downloads of the asset, even when locks      *)
(* lapse, callers take the lock with them, instances crash or chunkers     *)
(* give up; a body that is read on after its chunker gave up has no job.   *)
THEOREM OneJob == Spec => []OneJobPerInstance
<1>1. Init => JobListed
  BY DEF Init, JobListed, AtWork, Active
<1>2. JobInv /\ JobListed => OneJobPerInstance
  <2> SUFFICES ASSUME JobInv, JobListed, NEW r \in Requests, NEW q \in Requests,
                      Home[r] = Home[q], Up(r),
                      AtWork(r), AtWork(q), ~Stray(r), ~Stray(q)
               PROVE  r = q
    BY DEF OneJobPerInstance
  <2>1. ~dsDone[r] /\ ~dsDone[q]
    BY DEF JobInv, HandedOver, AtWork, Stray, Active, TypeInv, TypeOK, JobType
  <2> QED BY <2>1 DEF JobListed, Up
<1>3. JobInv /\ JobListed /\ [Next]_vars => JobListed'
  BY JobStep DEF JobInv
<1> QED BY <1>1, <1>2, <1>3, JobInvariant, PTL DEF Spec

-----------------------------------------------------------------------------
(* Mutual exclusion across the cluster.                                    *)

(* Between the acquisition of the lock and the end of the call, or of the  *)
(* goroutine that took it over, a request holds the lock.                  *)
Owning == {"own", "reset", "check", "start", "await"}
HolderHasLock ==
    \A r \in Requests : Up(r) /\ (pc[r] \in Owning \/ r \in releasing)
                            => lock = r /\ mutex[Home[r]] = r

(* A download that is not finished has its request waiting for it or the   *)
(* goroutine that will release the lock.                                   *)
DownloadHasHolder ==
    \A r \in Requests : Up(r) /\ AtWork(r) /\ ~dsDone[r]
                            => ds[r] = r /\ (pc[r] = "await" \/ r \in releasing)

(* The goroutine takes over when the call returns.                         *)
ReleaseAfterReturn == \A r \in releasing : pc[r] \in {"local", "dead"}

(* A request about to start a download has seen that there is none.        *)
StartUnseen == \A r \in Requests : Up(r) /\ pc[r] = "start" => ~asset

LockInv == HolderHasLock /\ DownloadHasHolder /\ ReleaseAfterReturn /\ StartUnseen

(* While no lock of a live holder lapses, a NAR download keeps it.         *)
LEMMA LockStep == Strict /\ JobInv /\ LockInv /\ [Next]_vars => LockInv'
<1> SUFFICES ASSUME Strict, JobInv, LockInv, [Next]_vars PROVE LockInv'
  OBVIOUS
<1> USE HomeAssumption, NobodyAssumption
    DEF JobInv, TypeInv, TypeOK, LockType, JobType, RequestType, LockInv, HolderHasLock,
        DownloadHasHolder, ReleaseAfterReturn, StartUnseen, Owning, Up, AtWork, Active, Done,
        Owner, Strict
<1>1. CASE Expire
  BY <1>1 DEF Expire
<1>2. ASSUME NEW r \in Requests, LockOK(r) \/ TryLockOK(r) PROVE LockInv'
  BY <1>2 DEF LockOK, TryLockOK, Acquire, Go
<1>3. ASSUME NEW r \in Requests, CheckAsset(r) PROVE LockInv'
  BY <1>3 DEF CheckAsset, Unlock, Go, Servable
<1>4. ASSUME NEW r \in Requests, StartJob(r) PROVE LockInv'
  BY <1>4 DEF StartJob, Go, HandedOver, Started
<1>5. ASSUME NEW r \in Requests, Await(r) PROVE LockInv'
  BY <1>5 DEF Await, Go
<1>6. ASSUME NEW r \in Requests, Release(r) PROVE LockInv'
  BY <1>6 DEF Release, Unlock
<1>7. ASSUME NEW r \in Requests, DownloadStart(r) \/ DownloadPart(r) \/ DownloadEOF(r)
      PROVE  LockInv'
  BY <1>7 DEF DownloadStart, DownloadPart, DownloadEOF, Step
<1>8. ASSUME NEW r \in Requests, DownloadFail(r) \/ ChunkStart(r) PROVE LockInv'
  BY <1>8 DEF DownloadFail, ChunkStart, EndJob, Step
<1>16. ASSUME NEW r \in Requests, StoreWhole(r) PROVE LockInv'
  BY <1>16 DEF StoreWhole, EndJob, Step, HandedOver
<1>17. ASSUME NEW r \in Requests, ChunkSkip(r) \/ ChunkFail(r) PROVE LockInv'
  BY <1>17 DEF ChunkSkip, ChunkFail, ChunkEnd, EndJob
<1>18. ASSUME NEW r \in Requests, ChunkOK(r) PROVE LockInv'
  BY <1>18 DEF ChunkOK, ChunkEnd, EndJob, HandedOver
<1>9. ASSUME NEW i \in Instances, Crash(i) PROVE LockInv'
  BY <1>9 DEF Crash
<1>10. ASSUME NEW r \in Requests, LocalJob(r) PROVE LockInv'
  BY <1>10 DEF LocalJob, Go
<1>11. ASSUME NEW r \in Requests,
              \/ Arrive(r) \/ Join(r) \/ LockFail(r) \/ Tick(r) \/ TryLockFail(r) \/ Ready(r)
              \/ Tail(r) \/ Stall(r) \/ TailGone(r) \/ GiveUp(r)
       PROVE  LockInv'
  BY <1>11 DEF Arrive, Join, LockFail, Tick, TryLockFail, Ready, Tail, Stall, TailGone,
               GiveUp, Go
<1>12. ASSUME NEW r \in Requests, DropParts(r) \/ ResetRow(r) PROVE LockInv'
  BY <1>12 DEF DropParts, ResetRow, Go
<1>13. CASE UNCHANGED <<alive, lock, mutex, dl, cdc, dsDone, asset, pc, ds, releasing>>
  BY <1>13
<1>14. ASSUME NEW r \in Requests, Cancel(r) \/ Stage(r) \/ Reclaim(r)
       PROVE  UNCHANGED <<alive, lock, mutex, dl, cdc, dsDone, asset, pc, ds, releasing>>
  BY <1>14, LockFrame, JobFrame, RequestFrame DEF Cancel
<1>15. CASE ExpireChunker \/ Sweep
  BY <1>15 DEF ExpireChunker, Sweep
<1> QED
  BY <1>1, <1>2, <1>3, <1>4, <1>5, <1>6, <1>7, <1>8, <1>9, <1>10, <1>11, <1>12, <1>13, <1>14,
     <1>15, <1>16, <1>17, <1>18 DEF Next, Proceed, Download, Chunk, vars

(* Whether the lock can be lost is settled by the mode.                    *)
LEMMA StrictStays == [Next]_vars => (Strict' <=> Strict)
BY ModeStays DEF Strict, MayLapse, WaitForStorage

(* Who is about to start a download, or is at it, has seen the migration   *)
(* lock of the hash free, and nobody but its own chunker takes it then: a  *)
(* chunker is not turned away unless something fails.                      *)
Looked(r) == Up(r) /\ (pc[r] = "start" \/ (AtWork(r) /\ ~dsDone[r]))
ChunkerInv ==
    /\ \A r \in Requests : Looked(r) => chunker = IF cdc[r] = "chunk" THEN r ELSE Nobody
    /\ \A r \in Requests : Stray(r) => MayFail

LEMMA ChunkerStep ==
    Strict /\ JobInv /\ LockInv /\ ChunkerInv /\ [Next]_vars => ChunkerInv'
<1> SUFFICES ASSUME Strict, JobInv, LockInv, ChunkerInv, [Next]_vars PROVE ChunkerInv'
  OBVIOUS
<1>0. Pipe' = Pipe /\ MayFail' = MayFail
  BY ModeStays DEF Pipe, MayFail
<1>a. \A r, q \in Requests : Looked(r) /\ Looked(q) => r = q
  BY DEF Looked, LockInv, HolderHasLock, DownloadHasHolder, Owning
<1> USE <1>0, <1>a, HomeAssumption, NobodyAssumption
    DEF JobInv, TypeInv, TypeOK, LockType, JobType, RequestType, ChunkerInv, Looked, Stray,
        Up, AtWork, Active
<1>1. ASSUME NEW r \in Requests, CheckAsset(r) PROVE ChunkerInv'
  BY <1>1 DEF CheckAsset, Go, Servable, Started, HandedOver
<1>2. ASSUME NEW r \in Requests, StartJob(r) PROVE ChunkerInv'
  BY <1>2 DEF StartJob, Go, HandedOver, Started
<1>3. ASSUME NEW r \in Requests, DownloadStart(r) \/ DownloadPart(r) \/ DownloadEOF(r)
      PROVE  ChunkerInv'
  BY <1>3 DEF DownloadStart, DownloadPart, DownloadEOF, Step, HandedOver
<1>4. ASSUME NEW r \in Requests, DownloadFail(r) \/ StoreWhole(r) PROVE ChunkerInv'
  BY <1>4 DEF DownloadFail, StoreWhole, EndJob, Step
<1>5. ASSUME NEW r \in Requests, ChunkStart(r) PROVE ChunkerInv'
  <2>1. Looked(r)
    BY <1>5 DEF ChunkStart, HandedOver
  <2> QED BY <1>5, <2>1 DEF ChunkStart
<1>6. ASSUME NEW r \in Requests, ChunkSkip(r) \/ ChunkFail(r) \/ ChunkOK(r) PROVE ChunkerInv'
  <2>1. Looked(r)
    BY <1>6 DEF ChunkSkip, ChunkFail, ChunkOK, ChunkEnd, HandedOver
  <2>2. dl[r] = "run" => MayFail
    BY <1>6, <2>1 DEF ChunkSkip, ChunkFail, ChunkOK, ChunkEnd, HandedOver
  <2>3. /\ UNCHANGED <<alive, pc, dl>> /\ dsDone' = [dsDone EXCEPT ![r] = TRUE]
        /\ cdc' = [cdc EXCEPT ![r] = "end"]
    BY <1>6 DEF ChunkSkip, ChunkFail, ChunkOK, ChunkEnd, EndJob
  <2>4. pc[r] # "start"
    BY <1>6 DEF ChunkSkip, ChunkFail, ChunkOK, ChunkEnd, HandedOver, Started
  <2> QED BY <2>1, <2>2, <2>3, <2>4
<1>7. ASSUME NEW i \in Instances, Crash(i) PROVE ChunkerInv'
  BY <1>7 DEF Crash
<1>8. CASE ExpireChunker
  <2>1. \A r \in Requests : ~Looked(r) \/ cdc[r] # "chunk"
    BY <1>8 DEF ExpireChunker, Strict
  <2> QED BY <1>8, <2>1 DEF ExpireChunker
<1>9. CASE Expire \/ Sweep
  BY <1>9 DEF Expire, Sweep
<1>10. ASSUME NEW r \in Requests,
              \/ Arrive(r) \/ LocalJob(r) \/ Join(r) \/ LockOK(r) \/ LockFail(r) \/ Tick(r)
              \/ TryLockOK(r) \/ TryLockFail(r) \/ Ready(r)
       PROVE  ChunkerInv'
  BY <1>10 DEF Arrive, LocalJob, Join, LockOK, LockFail, Tick, TryLockOK, TryLockFail, Ready, Go
<1>11. ASSUME NEW r \in Requests,
              \/ DropParts(r) \/ ResetRow(r) \/ Await(r) \/ Tail(r) \/ Stall(r) \/ TailGone(r)
              \/ GiveUp(r)
       PROVE  ChunkerInv'
  BY <1>11 DEF DropParts, ResetRow, Await, Tail, Stall, TailGone, GiveUp, Go
<1>12. CASE UNCHANGED <<alive, pc, dl, cdc, dsDone, chunker>>
  BY <1>12
<1>13. ASSUME NEW r \in Requests, Cancel(r) \/ Stage(r) \/ Reclaim(r) \/ Release(r)
       PROVE  UNCHANGED <<alive, pc, dl, cdc, dsDone, chunker>>
  BY <1>13, LockFrame, JobFrame, RequestFrame DEF Cancel, Release
<1> QED
  BY <1>1, <1>2, <1>3, <1>4, <1>5, <1>6, <1>7, <1>8, <1>9, <1>10, <1>11, <1>12, <1>13
     DEF Next, Proceed, Download, Chunk, vars

LEMMA LockInvariant == Spec => [](Strict => LockInv /\ ChunkerInv)
<1>1. Init => LockInv /\ ChunkerInv
  BY DEF Init, LockInv, HolderHasLock, DownloadHasHolder, ReleaseAfterReturn, ChunkerInv,
         StartUnseen, Owning, Active, AtWork, Looked, Stray
<1> QED BY <1>1, JobInvariant, LockStep, ChunkerStep, StrictStays, PTL DEF Spec

(* A NAR download that runs is covered by the lock of its request, and the *)
(* body is read without it only after a failed chunking on the pipe path.  *)
THEOREM LockCovers == Spec => []LockCoversDownload
<1>1. JobInv /\ (Strict => LockInv /\ ChunkerInv) => LockCoversDownload
  <2> SUFFICES ASSUME JobInv, Strict, LockInv, ChunkerInv,
                      NEW r \in Requests, Up(r), AtWork(r), lock # r
               PROVE  Stray(r) /\ Pipe /\ MayFail
    BY DEF LockCoversDownload
  <2>1. dsDone[r]
    BY DEF LockInv, HolderHasLock, DownloadHasHolder, Owning
  <2>2. dl[r] = "run" /\ Pipe
    BY <2>1 DEF JobInv, HandedOver, AtWork, Active, TypeInv, TypeOK, JobType
  <2> QED BY <2>1, <2>2 DEF Stray, ChunkerInv
<1> QED BY <1>1, JobInvariant, LockInvariant, PTL

(* At most one instance of the cluster downloads the NAR, stray bodies     *)
(* aside.                                                                  *)
THEOREM MutualExclusion == Spec => []OneDownload
<1>1. LockCoversDownload => OneDownload
  BY DEF LockCoversDownload, OneDownload
<1> QED BY <1>1, LockCovers, PTL

(* A started download was missing from the store.                          *)
OnlyWhenAbsent ==
    \A r \in Requests : Strict /\ dl[r] = "off" /\ dl'[r] = "fetch" => ~asset

(* Only StartJob starts a download, and it has looked under the lock.      *)
LEMMA StartStep == JobInv /\ (Strict => LockInv /\ ChunkerInv) /\ [Next]_vars => [OnlyWhenAbsent]_vars
<1> SUFFICES ASSUME JobInv, LockInv, [Next]_vars,
                    NEW q \in Requests, dl[q] = "off", dl'[q] = "fetch"
             PROVE  ~asset
  BY DEF OnlyWhenAbsent
<1> USE DEF JobInv, TypeInv, TypeOK, JobType, Active
<1>1. ASSUME NEW r \in Requests, StartJob(r) PROVE ~asset
  BY <1>1 DEF StartJob, Go, LockInv, StartUnseen
<1>2. ASSUME NEW r \in Requests, Download(r) \/ Chunk(r) PROVE FALSE
  BY <1>2 DEF Download, DownloadStart, DownloadPart, DownloadEOF, DownloadFail, StoreWhole,
              Chunk, ChunkStart, ChunkSkip, ChunkFail, ChunkOK, Step
<1>3. CASE UNCHANGED dl
  BY <1>3
<1>4. CASE ExpireChunker
  BY <1>4 DEF ExpireChunker
<1> QED
  BY <1>1, <1>2, <1>3, <1>4, JobFrame DEF Next, Proceed, vars

(* No download is started for a NAR that is already there: the second look *)
(* under the lock cannot be overtaken by another instance's store.         *)
THEOREM NothingDownloadedAgain == Spec => NoRedundantDownload
<1>1. Spec => [][OnlyWhenAbsent]_vars
  BY JobInvariant, LockInvariant, StartStep, PTL DEF Spec
<1> QED BY <1>1 DEF NoRedundantDownload, OnlyWhenAbsent
===========================================================================
