-------------------------- MODULE NarDownloadProofs --------------------------
(***************************************************************************)
(* Proofs about NarDownload, for any set of clients, any configurations    *)
(* and bodies of any length: the type invariant, that nobody loses the     *)
(* temp file (TempFileHeld), that a finished body is the whole NAR         *)
(* (CompleteBody) and already in the store (StoredBeforeEOF), and that     *)
(* ds.done is closed after the job is gone (DoneMeansNoJob).               *)
(***************************************************************************)
EXTENDS NarDownload, TLAPS

USE DEF dsVars, chanVars, wgVars, cdcVars, clientVars

Reading == {"loop", "wait", "woken", "copy"}
Joined == {"check", "waitStart", "getErr", "storeWait"} \cup Reading
Chunks == {"lock", "read", "wait"}
Writing == {"read", "wrote", "final", "store", "stored"}

(* The wait groups count what they should, and the cleanup goroutine has   *)
(* passed each of them only when it was empty for good.                    *)
WaitGroups ==
    /\ cleanupWg <=> dl # "end"
    /\ cleaner \notin {"off", "waitDl"} => dl = "end"
    /\ cdcWg <=> cdc \in Chunks \cup {"release"}
    /\ Cdc \in wg <=> cdcWg
    /\ cleaner \in {"close", "waitWg", "end"} => ~cdcWg
    /\ cleaner \in {"waitWg", "end"} => closed
    /\ cleaner = "end" => wg = {}
    /\ \A c \in Clients : pc[c] \in Joined => c \in wg

(* When the temp file exists.                                              *)
TempLife ==
    /\ dl \in {"fetch", "create"} => temp = "none" /\ ~start /\ cdc = "off"
    /\ dl \in Writing => temp = "present"
    /\ temp = "none" => ~start \/ downloadError
    /\ temp = "none" /\ dl \in {"defer", "close", "lastBroadcast", "end"} => downloadError
    /\ temp = "removed" => cleaner = "end"
    /\ cdc \in Chunks => temp = "present"
    /\ \A c \in Clients : pc[c] = "getErr" => start
    /\ \A c \in Clients : pc[c] \in Reading => temp = "present"

HeldInv == WaitGroups /\ TempLife

(* How far the download and each client are.                               *)
BodyProgress ==
    /\ dl = "fetch" => bytesWritten = 0
    /\ finalSize # 0 => /\ finalSize = bytesWritten /\ body = 0
                        /\ dl \notin {"fetch", "create", "read", "wrote"}

ClientProgress ==
    \A c \in Clients :
        /\ sent[c] <= bytesWritten
        /\ pc[c] = "copy" => /\ sent[c] + snap[c].toRead <= bytesWritten
                             /\ snap[c].complete =>
                                   /\ finalSize # 0
                                   /\ sent[c] + snap[c].toRead = bytesWritten
        /\ pc[c] \in {"storeWait", "eof"} =>
              finalSize # 0 /\ sent[c] = bytesWritten

Progress == BodyProgress /\ ClientProgress

(* On the whole-file paths, stored and done tell what the store holds.     *)
StoreOrder ==
    Whole(cfg) =>
        /\ cdc = "off"
        /\ stored => content
        /\ dl = "stored" => content
        /\ dl \in {"defer", "close", "lastBroadcast", "end"} => downloadError \/ content
        /\ done => dl \in {"lastBroadcast", "end"}
        /\ \A c \in Clients : pc[c] = "eof" /\ ~cancelled[c] => stored \/ done
-----------------------------------------------------------------------------
(* Types.                                                                  *)

LEMMA DownloadTypeStep == TypeOK /\ [Next]_vars => DownloadType'
<1> SUFFICES ASSUME TypeOK, [Next]_vars PROVE DownloadType'
  OBVIOUS
<1> USE BodyAssumption DEF TypeOK, DownloadType, JobType
<1>1. CASE FetchFail \/ CreateTemp \/ CreateTempFail
  BY <1>1 DEF FetchFail, CreateTemp, CreateTempFail
<1>8. CASE FetchOK
  <2>1. body' \in 0..MaxBody
    BY <1>8 DEF FetchOK
  <2> QED
    BY <1>8, <2>1 DEF FetchOK
<1>9. CASE WriteChunk
  <2>1. body' \in 0..MaxBody /\ bytesWritten' \in Nat
    BY <1>9 DEF WriteChunk
  <2> QED
    BY <1>9, <2>1 DEF WriteChunk
<1>2. CASE BroadcastChunk \/ WriteEOF \/ ReadFail \/ BroadcastEOF
  BY <1>2 DEF BroadcastChunk, WriteEOF, ReadFail, BroadcastEOF
<1>3. CASE StoreOK \/ StoreFail \/ SignalStored \/ RemoveJob \/ CloseDone \/ LastBroadcast
  BY <1>3 DEF StoreOK, StoreFail, SignalStored, RemoveJob, CloseDone, LastBroadcast, KeepJobAlive
<1>4. CASE Chunking
  BY <1>4 DEF Chunking, CdcReady, CdcSkip, CdcFail, CdcWait, CdcAbort, CdcRead,
              CdcChunked, CdcRelease, CdcRemoveJob, CdcCloseDone, CdcBroadcast
<1>5. CASE Cleanup
  BY <1>5 DEF Cleanup, CleanerWaitDownload, CleanerWaitCdc, CleanerClose, CleanerRemove
<1>6. ASSUME NEW c \in Clients, JoinJob(c) \/ Stream(c) \/ Watch(c) \/ Cancel(c)
      PROVE  UNCHANGED <<cfg, dl, body, dsVars, chanVars, content>>
  BY <1>6 DEF JoinJob, Stream, Watch, Cancel, Coordinate, JoinReaders, CheckStore, AwaitStart,
              CheckError, StreamLoop, StreamWoken, StreamCopy, StreamCopyFail, StreamEnd
<1>7. CASE UNCHANGED <<cfg, dl, body, dsVars, chanVars, content>>
  BY <1>7
<1> QED
  BY <1>1, <1>2, <1>3, <1>4, <1>5, <1>6, <1>7, <1>8, <1>9 DEF Next, Download, vars

LEMMA JobTypeStep == TypeOK /\ [Next]_vars => JobType'
<1> SUFFICES ASSUME TypeOK, [Next]_vars PROVE JobType'
  OBVIOUS
<1> USE DEF TypeOK, DownloadType, JobType
<1>1. CASE \/ FetchOK \/ FetchFail \/ CreateTempFail \/ WriteChunk \/ WriteEOF \/ ReadFail
           \/ StoreOK \/ StoreFail \/ SignalStored
  BY <1>1 DEF FetchOK, FetchFail, CreateTempFail, WriteChunk, WriteEOF, ReadFail, StoreOK,
              StoreFail, SignalStored
<1>2. CASE CreateTemp
  BY <1>2 DEF CreateTemp
<1>8. CASE BroadcastEOF
  BY <1>8 DEF BroadcastEOF, WakeCdc
<1>9. CASE BroadcastChunk \/ LastBroadcast
  BY <1>9, ZenonT(60) DEF BroadcastChunk, LastBroadcast, WakeCdc
<1>10. CASE RemoveJob \/ CloseDone
  <2>1. job' \in BOOLEAN
    BY <1>10, Zenon DEF RemoveJob, CloseDone
  <2> QED
    BY <1>10, <2>1 DEF RemoveJob, CloseDone
<1>3. CASE Chunking
  BY <1>3, ZenonT(60) DEF Chunking, CdcReady, CdcSkip, CdcFail, CdcWait, CdcAbort, CdcRead,
              CdcChunked, CdcRelease, CdcRemoveJob, CdcCloseDone, CdcBroadcast
<1>4. CASE Cleanup
  BY <1>4 DEF Cleanup, CleanerWaitDownload, CleanerWaitCdc, CleanerClose, CleanerRemove
<1>5. ASSUME NEW c \in Clients, JoinJob(c) \/ Watch(c) \/ Cancel(c) PROVE JobType'
  BY <1>5 DEF JoinJob, Watch, Cancel, WakeCdc
<1>6. ASSUME NEW c \in Clients, Stream(c) PROVE JobType'
  BY <1>6 DEF Stream, Coordinate, JoinReaders, CheckStore, AwaitStart, CheckError, StreamLoop,
              StreamWoken, StreamCopy, StreamCopyFail, StreamEnd, Finish
<1>7. CASE UNCHANGED vars
  BY <1>7 DEF vars
<1> QED
  BY <1>1, <1>2, <1>3, <1>4, <1>5, <1>6, <1>7, <1>8, <1>9, <1>10 DEF Next, Download

LEMMA ClientTypeStep == TypeOK /\ Progress /\ [Next]_vars => ClientType'
<1> SUFFICES ASSUME TypeOK, Progress, [Next]_vars PROVE ClientType'
  OBVIOUS
<1> USE DEF TypeOK, ClientType, ClientPc, Go
<1>1. CASE Broadcast /\ UNCHANGED <<sent, snap, cancelled>>
           /\ watcher' \in [Clients -> {"off", "armed", "end"}]
  BY <1>1 DEF Broadcast
<1>2. ASSUME NEW c \in Clients, Watch(c)
      PROVE  Broadcast /\ UNCHANGED <<sent, snap, cancelled>>
             /\ watcher' \in [Clients -> {"off", "armed", "end"}]
  BY <1>2 DEF Watch
<1>3. CASE BroadcastChunk \/ BroadcastEOF \/ LastBroadcast \/ CdcBroadcast
  BY <1>1, <1>3 DEF BroadcastChunk, BroadcastEOF, LastBroadcast, CdcBroadcast
<1>4. ASSUME NEW c \in Clients,
             JoinJob(c) \/ Coordinate(c) \/ JoinReaders(c) \/ CheckStore(c) \/ AwaitStart(c)
      PROVE  ClientType'
  BY <1>4 DEF JoinJob, Coordinate, JoinReaders, CheckStore, AwaitStart
<1>5. ASSUME NEW c \in Clients,
             CheckError(c) \/ StreamWoken(c) \/ StreamCopyFail(c) \/ StreamEnd(c) \/ Cancel(c)
      PROVE  ClientType'
  BY <1>5 DEF CheckError, StreamWoken, StreamCopyFail, StreamEnd, Finish, Cancel
<1>6. ASSUME NEW c \in Clients, StreamLoop(c) PROVE ClientType'
  <2>1. bytesWritten - sent[c] \in Nat
    BY DEF DownloadType, Progress, ClientProgress
  <2>2. [toRead |-> bytesWritten - sent[c], complete |-> finalSize # 0]
           \in [toRead : Nat, complete : BOOLEAN]
    BY <2>1
  <2>3. snap' \in [Clients -> [toRead : Nat, complete : BOOLEAN]]
    BY <1>6, <2>2 DEF StreamLoop
  <2>4. pc' \in [Clients -> ClientPc]
    BY <1>6 DEF StreamLoop
  <2> QED BY <1>6, <2>3, <2>4 DEF StreamLoop
<1>7. ASSUME NEW c \in Clients, StreamCopy(c) PROVE ClientType'
  BY <1>7 DEF StreamCopy
<1>8. CASE UNCHANGED <<pc, clientVars>>
  BY <1>8
<1>9. ASSUME \/ FetchOK \/ FetchFail \/ CreateTemp \/ CreateTempFail \/ WriteChunk
             \/ WriteEOF \/ ReadFail \/ StoreOK \/ StoreFail \/ SignalStored \/ RemoveJob \/ CloseDone
             \/ Cleanup \/ (Chunking /\ ~CdcBroadcast)
      PROVE  UNCHANGED <<pc, clientVars>>
  BY <1>9 DEF FetchOK, FetchFail, CreateTemp, CreateTempFail, WriteChunk, WriteEOF, ReadFail,
              StoreOK, StoreFail, SignalStored, RemoveJob, CloseDone, Cleanup, CleanerWaitDownload,
              CleanerWaitCdc, CleanerClose, CleanerRemove, Chunking, CdcReady, CdcSkip,
              CdcFail, CdcWait, CdcAbort, CdcRead, CdcChunked, CdcRelease, CdcRemoveJob, CdcCloseDone
<1> QED
  BY <1>1, <1>2, <1>3, <1>4, <1>5, <1>6, <1>7, <1>8, <1>9 DEF Next, Download, Stream, vars

-----------------------------------------------------------------------------
(* Progress of the body and of the streams.                                *)

LEMMA ProgressStep == TypeOK /\ Progress /\ [Next]_vars => Progress'
<1> SUFFICES ASSUME TypeOK, Progress, [Next]_vars PROVE Progress'
  OBVIOUS
<1> USE DEF TypeOK, DownloadType, ClientType, Progress, BodyProgress, ClientProgress
<1>1. CASE FetchOK \/ FetchFail \/ CreateTemp \/ CreateTempFail \/ WriteChunk
  BY <1>1 DEF FetchOK, FetchFail, CreateTemp, CreateTempFail, WriteChunk
<1>2. CASE WriteEOF \/ ReadFail \/ StoreOK \/ StoreFail \/ SignalStored \/ RemoveJob \/ CloseDone
  BY <1>2 DEF WriteEOF, ReadFail, StoreOK, StoreFail, SignalStored, RemoveJob, CloseDone
<1>3. CASE BroadcastChunk \/ BroadcastEOF \/ LastBroadcast
  <2>1. BodyProgress'
    BY <1>3 DEF BroadcastChunk, BroadcastEOF, LastBroadcast
  <2>2. ClientProgress'
    BY <1>3 DEF BroadcastChunk, BroadcastEOF, LastBroadcast, Broadcast
  <2> QED BY <2>1, <2>2
<1>4. CASE Chunking
  BY <1>4 DEF Chunking, CdcReady, CdcSkip, CdcFail, CdcWait, CdcAbort, CdcRead,
              CdcChunked, CdcRelease, CdcRemoveJob, CdcCloseDone, CdcBroadcast, Broadcast
<1>5. CASE Cleanup
  BY <1>5 DEF Cleanup, CleanerWaitDownload, CleanerWaitCdc, CleanerClose, CleanerRemove
<1>6. ASSUME NEW c \in Clients,
             \/ JoinJob(c) \/ Coordinate(c) \/ JoinReaders(c) \/ CheckStore(c) \/ AwaitStart(c)
             \/ CheckError(c) \/ StreamWoken(c) \/ StreamCopyFail(c) \/ Watch(c) \/ Cancel(c)
      PROVE  Progress'
  BY <1>6 DEF JoinJob, Coordinate, JoinReaders, CheckStore, AwaitStart, CheckError,
              StreamWoken, StreamCopyFail, Watch, Cancel, Finish, Broadcast, Go
<1>7. ASSUME NEW c \in Clients, StreamEnd(c) PROVE Progress'
  BY <1>7 DEF StreamEnd, Finish, Go
<1>8. ASSUME NEW c \in Clients, StreamLoop(c) PROVE Progress'
  <2>1. BodyProgress'
    BY <1>8 DEF StreamLoop
  <2>2. ClientProgress'
    <3> SUFFICES ASSUME NEW d \in Clients
                 PROVE  ClientProgress!(d)'
      BY DEF ClientProgress
    <3>1. CASE d # c
      BY <1>8, <3>1 DEF StreamLoop, Go
    <3>2. CASE d = c /\ NothingToSend(c)
      BY <1>8, <3>2 DEF StreamLoop, Go
    <3>3. CASE d = c /\ ~NothingToSend(c)
      <4>0. snap'[c] = [toRead |-> bytesWritten - sent[c], complete |-> finalSize # 0]
        BY <1>8, <3>3 DEF StreamLoop
      <4>1. snap'[c].toRead = bytesWritten - sent[c]
        BY <4>0
      <4>2. pc'[c] = "copy"
        BY <1>8, <3>3 DEF StreamLoop, Go
      <4>3. UNCHANGED <<sent, bytesWritten, finalSize>>
        BY <1>8 DEF StreamLoop
      <4>4. sent[c] \in Nat /\ bytesWritten \in Nat /\ sent[c] <= bytesWritten
        OBVIOUS
      <4>5. sent[c] + snap'[c].toRead = bytesWritten
        BY <4>1, <4>4
      <4>6. CASE finalSize # 0
        BY <3>3, <4>1, <4>2, <4>3, <4>4, <4>5, <4>6
      <4>7. CASE finalSize = 0
        <5>1. ~snap'[c].complete
          <6>1. (finalSize # 0) = FALSE
            BY <4>7
          <6>2. snap'[c] = [toRead |-> bytesWritten - sent[c], complete |-> FALSE]
            BY <4>0, <6>1, Zenon
          <6> QED BY <6>2
        <5> QED BY <3>3, <4>1, <4>2, <4>3, <4>4, <4>5, <5>1
      <4> QED BY <4>6, <4>7
    <3> QED BY <3>1, <3>2, <3>3
  <2> QED BY <2>1, <2>2
<1>9. ASSUME NEW c \in Clients, StreamCopy(c) PROVE Progress'
  <2>1. BodyProgress'
    BY <1>9 DEF StreamCopy
  <2>2. ClientProgress'
    BY <1>9 DEF StreamCopy, Go
  <2> QED BY <2>1, <2>2
<1>10. CASE UNCHANGED vars
  BY <1>10 DEF vars
<1> QED
  BY <1>1, <1>2, <1>3, <1>4, <1>5, <1>6, <1>7, <1>8, <1>9, <1>10 DEF Next, Download, Stream

-----------------------------------------------------------------------------
(* The claims on the temp file.                                            *)

LEMMA HeldStep == TypeOK /\ HeldInv /\ [Next]_vars => HeldInv'
<1> SUFFICES ASSUME TypeOK, HeldInv, [Next]_vars PROVE HeldInv'
  OBVIOUS
<1> USE CdcAssumption
    DEF TypeOK, DownloadType, JobType, ClientType, Chunks, Reading, Joined, Writing,
        HeldInv, WaitGroups, TempLife
<1>1. CASE FetchOK \/ FetchFail \/ CreateTempFail \/ WriteChunk \/ WriteEOF \/ ReadFail
  BY <1>1 DEF FetchOK, FetchFail, CreateTempFail, WriteChunk, WriteEOF, ReadFail
<1>2. CASE StoreOK \/ StoreFail \/ SignalStored \/ RemoveJob \/ CloseDone
  BY <1>2 DEF StoreOK, StoreFail, SignalStored, RemoveJob, CloseDone
<1>3. CASE CreateTemp
  BY <1>3 DEF CreateTemp
<1>4. CASE BroadcastChunk
  BY <1>4 DEF BroadcastChunk, Broadcast, WakeCdc
<1>5. CASE BroadcastEOF
  <2>1. WaitGroups'
    BY <1>5 DEF BroadcastEOF, Broadcast, WakeCdc
  <2>2. TempLife'
    BY <1>5 DEF BroadcastEOF, Broadcast, WakeCdc
  <2> QED BY <2>1, <2>2
<1>6. CASE LastBroadcast
  BY <1>6 DEF LastBroadcast, Broadcast, WakeCdc
<1>7. CASE CdcReady \/ CdcSkip \/ CdcFail \/ CdcWait \/ CdcAbort \/ CdcRead \/ CdcChunked
  BY <1>7 DEF CdcReady, CdcSkip, CdcFail, CdcWait, CdcAbort, CdcRead, CdcChunked
<1>8. CASE CdcRelease \/ CdcRemoveJob \/ CdcCloseDone \/ CdcBroadcast
  BY <1>8 DEF CdcRelease, CdcRemoveJob, CdcCloseDone, CdcBroadcast, Broadcast
<1>9. CASE Cleanup
  BY <1>9 DEF Cleanup, CleanerWaitDownload, CleanerWaitCdc, CleanerClose, CleanerRemove
<1>10. ASSUME NEW c \in Clients, JoinJob(c) \/ Coordinate(c) \/ JoinReaders(c) \/ Cancel(c)
       PROVE  HeldInv'
  BY <1>10 DEF JoinJob, Coordinate, JoinReaders, Cancel, Go
<1>11. ASSUME NEW c \in Clients, CheckStore(c) \/ AwaitStart(c) PROVE HeldInv'
  BY <1>11 DEF CheckStore, AwaitStart, Go
<1>12. ASSUME NEW c \in Clients, CheckError(c) PROVE HeldInv'
  <2>1. WaitGroups'
    BY <1>12 DEF CheckError, Go
  <2>2. TempLife'
    BY <1>12 DEF CheckError, Go
  <2> QED BY <2>1, <2>2
<1>13. ASSUME NEW c \in Clients, StreamLoop(c) \/ StreamCopy(c) PROVE HeldInv'
  BY <1>13 DEF StreamLoop, StreamCopy, Go
<1>14. ASSUME NEW c \in Clients, StreamWoken(c) \/ StreamCopyFail(c) \/ StreamEnd(c)
       PROVE  HeldInv'
  BY <1>14 DEF StreamWoken, StreamCopyFail, StreamEnd, Finish, Go
<1>15. ASSUME NEW c \in Clients, Watch(c) PROVE HeldInv'
  BY <1>15 DEF Watch, Broadcast, WakeCdc
<1>16. CASE UNCHANGED vars
  BY <1>16 DEF vars
<1> QED
  BY <1>1, <1>2, <1>3, <1>4, <1>5, <1>6, <1>7, <1>8, <1>9, <1>10, <1>11, <1>12, <1>13, <1>14,
     <1>15, <1>16 DEF Next, Download, Chunking, Stream

-----------------------------------------------------------------------------
(* The order of storing and signalling.                                    *)

LEMMA StoreStep == TypeOK /\ StoreOrder /\ [Next]_vars => StoreOrder'
<1> SUFFICES ASSUME TypeOK, StoreOrder, [Next]_vars PROVE StoreOrder'
  OBVIOUS
<1> USE DEF TypeOK, DownloadType, JobType, ClientType, StoreOrder
<1>1. CASE FetchOK \/ FetchFail \/ CreateTempFail \/ WriteChunk \/ WriteEOF \/ ReadFail
  BY <1>1 DEF FetchOK, FetchFail, CreateTempFail, WriteChunk, WriteEOF, ReadFail
<1>2. CASE StoreOK \/ StoreFail \/ SignalStored \/ RemoveJob \/ CloseDone
  BY <1>2 DEF StoreOK, StoreFail, SignalStored, RemoveJob, CloseDone, KeepJobAlive
<1>3. CASE CreateTemp \/ BroadcastChunk \/ BroadcastEOF \/ LastBroadcast
  BY <1>3 DEF CreateTemp, BroadcastChunk, BroadcastEOF, LastBroadcast, Broadcast, WakeCdc, Whole
<1>4. CASE Chunking
  BY <1>4 DEF Chunking, CdcReady, CdcSkip, CdcFail, CdcWait, CdcAbort, CdcRead,
              CdcChunked, CdcRelease, CdcRemoveJob, CdcCloseDone, CdcBroadcast
<1>5. CASE Cleanup
  BY <1>5 DEF Cleanup, CleanerWaitDownload, CleanerWaitCdc, CleanerClose, CleanerRemove
<1>6. ASSUME NEW c \in Clients,
             \/ JoinJob(c) \/ Coordinate(c) \/ JoinReaders(c) \/ CheckStore(c) \/ AwaitStart(c)
             \/ CheckError(c) \/ StreamLoop(c) \/ StreamCopy(c) \/ Cancel(c)
      PROVE  StoreOrder'
  BY <1>6 DEF JoinJob, Coordinate, JoinReaders, CheckStore, AwaitStart, CheckError, StreamLoop,
              StreamCopy, Cancel, Go
<1>7. ASSUME NEW c \in Clients, StreamWoken(c) \/ StreamCopyFail(c) \/ StreamEnd(c)
      PROVE  StoreOrder'
  BY <1>7 DEF StreamWoken, StreamCopyFail, StreamEnd, Finish, Go
<1>8. ASSUME NEW c \in Clients, Watch(c) PROVE StoreOrder'
  BY <1>8 DEF Watch, Broadcast, WakeCdc
<1>9. CASE UNCHANGED vars
  BY <1>9 DEF vars
<1> QED
  BY <1>1, <1>2, <1>3, <1>4, <1>5, <1>6, <1>7, <1>8, <1>9 DEF Next, Download, Stream

-----------------------------------------------------------------------------
(* The inductive invariant, all of it.                                     *)
IInv == TypeOK /\ Progress /\ HeldInv /\ StoreOrder

(* Initially nothing is downloaded and nobody streams.                     *)
LEMMA InitIInv == Init => IInv
<1> SUFFICES ASSUME Init PROVE IInv
  OBVIOUS
<1>1. TypeOK
  <2>2. [toRead |-> 0, complete |-> FALSE] \in [toRead : Nat, complete : BOOLEAN]
    OBVIOUS
  <2>3. DownloadType
    <3>1. body \in 0..MaxBody
      BY BodyAssumption DEF Init
    <3> QED BY <3>1 DEF Init, DownloadType
  <2>4. JobType
    BY DEF Init, JobType
  <2>5. ClientType
    BY <2>2 DEF Init, ClientType, ClientPc
  <2> QED BY <2>3, <2>4, <2>5 DEF TypeOK
<1>2. Progress
  BY DEF Init, Progress, BodyProgress, ClientProgress
<1>3. HeldInv
  BY DEF Init, HeldInv, WaitGroups, TempLife, Chunks, Joined, Reading, Writing
<1>4. StoreOrder
  BY DEF Init, StoreOrder
<1> QED BY <1>1, <1>2, <1>3, <1>4 DEF IInv

(* The invariant holds in every reachable state.                           *)
THEOREM Inductive == Spec => []IInv
<1>1. IInv /\ [Next]_vars => IInv'
  BY DownloadTypeStep, JobTypeStep, ClientTypeStep, ProgressStep, HeldStep, StoreStep
     DEF IInv, TypeOK
<1> QED BY InitIInv, <1>1, PTL DEF Spec

(* The type invariant of the download, for any clients, configurations and *)
(* body length; bytesSent never passes bytesWritten.                       *)
THEOREM TypeCorrect == Spec => []TypeOK
<1>1. IInv => TypeOK
  BY DEF IInv
<1> QED BY Inductive, <1>1, PTL

(* The cleanup goroutine never removes the temp file while the download    *)
(* writes or stores it, the CDC goroutine chunks it or a client streams it *)
(* (ds.wg, ds.cdcWg, ds.cleanupWg and ds.closed).                          *)
THEOREM TempFileNeverLost == Spec => []TempFileHeld
<1>1. IInv => TempFileHeld
  BY DEF IInv, HeldInv, TempLife, TempFileHeld, Reading, Chunks, Writing
<1> QED BY Inductive, <1>1, PTL

(* A client whose stream ends after the storage wait was sent every byte   *)
(* of the body (GetNar's streaming loop).                                  *)
THEOREM BodiesComplete == Spec => []CompleteBody
<1>1. IInv => CompleteBody
  BY DEF IInv, Progress, BodyProgress, ClientProgress, CompleteBody
<1> QED BY Inductive, <1>1, PTL

(* On the whole-file paths the NAR is in the store before a client sees    *)
(* the end of its body (ds.stored), unless the download failed.            *)
THEOREM StoredFirst == Spec => []StoredBeforeEOF
<1>1. IInv => StoredBeforeEOF
  <2> SUFFICES ASSUME IInv, NEW c \in Clients, Whole(cfg), pc[c] = "eof",
                      ~cancelled[c], ~downloadError
               PROVE  content
    BY DEF StoredBeforeEOF
  <2>1. stored \/ done
    BY DEF IInv, StoreOrder
  <2> QED BY <2>1 DEF IInv, StoreOrder
<1> QED BY Inductive, <1>1, PTL

(* Whichever goroutine ends the job has removed it from upstreamJobs when  *)
(* it comes to ds.done.                                                    *)
JobEnd ==
    /\ done => ~job
    /\ cdc \in {"close", "broadcast", "end"} => ~job
    /\ cdc = "off" /\ dl \in {"close", "lastBroadcast", "end"} => ~job

LEMMA JobEndStep == TypeOK /\ JobEnd /\ [Next]_vars => JobEnd'
<1> SUFFICES ASSUME TypeOK, JobEnd, [Next]_vars PROVE JobEnd'
  OBVIOUS
<1> USE DEF TypeOK, DownloadType, JobType, JobEnd
<1>1. CASE \/ FetchOK \/ FetchFail \/ CreateTemp \/ CreateTempFail \/ WriteChunk \/ BroadcastChunk
           \/ WriteEOF \/ ReadFail \/ BroadcastEOF \/ StoreOK \/ StoreFail \/ SignalStored
  BY <1>1 DEF FetchOK, FetchFail, CreateTemp, CreateTempFail, WriteChunk, BroadcastChunk,
              WriteEOF, ReadFail, BroadcastEOF, StoreOK, StoreFail, SignalStored, WakeCdc
<1>2. CASE RemoveJob \/ CloseDone \/ LastBroadcast
  BY <1>2 DEF RemoveJob, CloseDone, LastBroadcast, WakeCdc, KeepJobAlive
<1>3. CASE Chunking
  BY <1>3 DEF Chunking, CdcReady, CdcSkip, CdcFail, CdcWait, CdcAbort, CdcRead,
              CdcChunked, CdcRelease, CdcRemoveJob, CdcCloseDone, CdcBroadcast
<1>4. CASE Cleanup
  BY <1>4 DEF Cleanup, CleanerWaitDownload, CleanerWaitCdc, CleanerClose, CleanerRemove
<1>5. ASSUME NEW c \in Clients, JoinJob(c) \/ Stream(c) \/ Cancel(c)
      PROVE  UNCHANGED <<dl, cdc, job, done>>
  BY <1>5 DEF JoinJob, Stream, Coordinate, JoinReaders, CheckStore, AwaitStart,
              CheckError, StreamLoop, StreamWoken, StreamCopy, StreamCopyFail,
              StreamEnd, Cancel, chanVars, cdcVars
<1>6. ASSUME NEW c \in Clients, Watch(c) PROVE JobEnd'
  BY <1>6 DEF Watch, WakeCdc
<1>7. CASE UNCHANGED vars
  BY <1>7 DEF vars
<1> QED BY <1>1, <1>2, <1>3, <1>4, <1>5, <1>6, <1>7 DEF Next, Download

(* The job leaves upstreamJobs before ds.done is closed, although two      *)
(* goroutines may end it, each in two steps: what a request finds in       *)
(* upstreamJobs is never a finished download.                              *)
THEOREM JobGoneBeforeDone == Spec => []DoneMeansNoJob
<1>1. Init => JobEnd
  BY DEF Init, JobEnd
<1>2. JobEnd => DoneMeansNoJob
  BY DEF JobEnd, DoneMeansNoJob
<1> QED BY TypeCorrect, JobEndStep, <1>1, <1>2, PTL DEF Spec
=============================================================================
