--------------------------- MODULE ChunkingProofs ---------------------------
(***************************************************************************)
(* What holds of Chunking for any NARs, chunks, calls and batch sizes: the *)
(* migration lock is held by whoever works under it, a row that is         *)
(* complete has exactly the chunks of its NAR, every linked chunk is in    *)
(* the store, no NAR is lost, and a stream that ends well sent all of it.  *)
(***************************************************************************)
EXTENDS Chunking, TLAPS, WellFoundedInduction, FiniteSetTheorems

(* The types of what the argument speaks of; what readers list is left out.*)
CoreType ==
    /\ scenario \in Scenarios
    /\ lock \in [Nars -> Agents \cup {Nobody}]
    /\ total \in [Nars -> Nat] /\ started \subseteq Nars
    /\ links \subseteq Nars \X (Nat \ {0}) \X Chunks
    /\ pc \in [Agents -> Steps \cup Ended] /\ nar \in [Agents -> Nars]
    /\ body \in [Agents -> Seq(Chunks)]
    /\ at \in [Agents -> Nat] /\ base \in [Agents -> Nat]
    /\ \A a \in Agents : base[a] <= at[a] /\ at[a] <= Len(body[a])
    /\ mine \in [Agents -> BOOLEAN]
    /\ rows \subseteq Row /\ sweep \subseteq Row \X BOOLEAN

(* The steps a call of each kind comes to.                                 *)
Fits(t, s) ==
    /\ s \in {"check", "open", "chunk", "mark"} => Kind(t) \in {"store", "migrate"}
    /\ s = "probe" => Kind(t) \in {"dechunk", "purge"}
    /\ s \in {"init", "list", "fetch", "poll", "row"} => Kind(t) \in {"read", "dechunk"}
    /\ s \in {"have", "file"} => Kind(t) = "read"
    /\ s \in {"put", "flip"} => Kind(t) = "dechunk"
    /\ s = "purge" => Kind(t) = "purge"
    /\ s \in {"reclaim", "dropRow", "dropObject"} => Kind(t) \notin {"expire", "read"}
    /\ s \in {"relink", "tidy", "unlink"} => Kind(t) \in {"store", "migrate"}
    /\ s = "eof" => Kind(t) = "read"
Role == \A t \in Tasks : Fits(t, pc[t])

(* Whoever tries to keep its lock alive holds it, unless a lock on its NAR *)
(* has run out under somebody's work: nobody tells the call that it did    *)
(* (StartRefresher only logs that it could not extend it).                 *)
HoldsLock == \A a \in Agents : Refreshed(a) /\ nar[a] \notin lapsed => lock[nar[a]] = a

(* The steps under a lock that is refreshed, and those of a chunker.       *)
Keeps(t, s) == /\ Kind(t) \in {"store", "migrate", "dechunk"}
               /\ s \notin Ended \cup {"idle", "fix"}
Chunker(t, s) == /\ Kind(t) \in {"store", "migrate"}
                 /\ s \in {"reclaim", "dropRow", "dropObject", "chunk", "mark"}
(* A row is started or complete, never both.                               *)
Fresh == \A n \in started : total[n] = 0

(* Every link is one of its NAR.                                           *)
Exact == \A l \in links : l[2] \in 1..Len(Content[l[1]]) /\ l[3] = Content[l[1]][l[2]]

(* A chunker works on the whole body, and what it counts as recorded is    *)
(* there as long as its row is, and nobody else came under its lock.       *)
Recorded ==
    \A t \in Tasks : Chunker(t, pc[t]) =>
        /\ body[t] = Content[nar[t]]
        /\ pc[t] = "mark" => base[t] = Len(body[t])
        /\ mine[t] /\ nar[t] \notin lapsed =>
              \A i \in 1..base[t] : <<nar[t], i, Content[nar[t]][i]>> \in links

(* A complete row counts every chunk of its NAR and has a link for it.     *)
Complete ==
    \A n \in Nars : total[n] > 0 =>
        /\ total[n] = Len(Content[n])
        /\ n \notin lapsed => \A i \in 1..Len(Content[n]) : <<n, i, Content[n][i]>> \in links

LockInv == CoreType /\ Role /\ HoldsLock
Links == Exact /\ Recorded /\ Complete
IInv == LockInv /\ Fresh /\ (Sound => Links)

-----------------------------------------------------------------------------
(* The calls and the two jobs are different agents, and Nobody is none.    *)
LEMMA AgentFacts == /\ Tasks \subseteq Agents /\ Sweeper \in Agents /\ Evictor \in Agents
                    /\ Nobody \notin Agents /\ Sweeper \notin Tasks /\ Evictor \notin Tasks
                    /\ Sweeper # Evictor
BY AgentAssumption DEF Agents, Nobody, Sweeper, Evictor

(* What the scenario says of the calls.                                    *)
LEMMA ScenarioFacts ==
    ASSUME scenario \in Scenarios
    PROVE  /\ scenario.kind \in [Tasks -> Kinds] /\ scenario.nar \in [Tasks -> Nars]
           /\ scenario.find \in [Nars -> {"nothing", "row", "whole", "chunked"}]
           /\ scenario.cut \in BOOLEAN /\ scenario.garbled \in BOOLEAN
BY ScenarioAssumption DEF Scenario

(* No step changes the scenario.                                           *)
LEMMA ScenarioStays == [Next]_vars => UNCHANGED scenario
BY DEF Next, vars

(* A lock is lost when it expires or runs out under its holder's work.     *)
LosesLock(n) == ExpireLock(n) \/ LapseLock(n)

(* A NAR whose lock has run out stays one, and no other step makes one.    *)
LEMMA LapsedGrows ==
    ASSUME [Next]_vars
    PROVE  /\ lapsed \subseteq lapsed'
           /\ (\A n \in Nars : ~LapseLock(n)) => UNCHANGED lapsed
BY DEF Next, LapseLock, vars

(* The steps that move an agent and touch nothing else of the argument.    *)
Quiet(t) == \/ Check(t) \/ EndOfBody(t) \/ Relink(t) \/ Tidy(t) \/ Unlink(t) \/ FixNarInfos(t)
            \/ Look(t) \/ Route(t) \/ GetNarFromStore(t) \/ ListChunks(t) \/ Fetch(t) \/ Poll(t)
            \/ PollRow(t) \/ PutWhole(t) \/ DeletedCleanup(t) \/ Crash(t)
Cleaning(a) == Reclaim(a) \/ DropRow(a) \/ DropObject(a) \/ Reclaimed(a)
core == <<lock, total, started, links, nar, body, at, base, mine>>

(* The quiet steps move their call.                                        *)
LEMMA QuietSteps ==
    ASSUME CoreType, NEW t \in Tasks, Quiet(t)
    PROVE  /\ UNCHANGED core
           /\ \E s \in Steps \cup Ended : pc' = [pc EXCEPT ![t] = s]
<1> USE AgentFacts DEF CoreType, core, Go
<1>1. CASE Check(t) \/ EndOfBody(t) \/ Relink(t) \/ Tidy(t) \/ Unlink(t) \/ FixNarInfos(t)
  BY <1>1 DEF Check, EndOfBody, Relink, Tidy, Unlink, FixNarInfos, tables, stores, chunker, scan,
              AfterChunks, Steps, Ended
<1>2. CASE Look(t) \/ Route(t) \/ GetNarFromStore(t) \/ ListChunks(t) \/ Poll(t)
  BY <1>2 DEF Look, Route, GetNarFromStore, ListChunks, Poll, tables, stores, chunker, scan,
              reader, ReadFails, Steps, Ended
<1>3. CASE Fetch(t)
  <2>1. UNCHANGED core
    BY <1>3 DEF Fetch, tables, stores, chunker, scan
  <2>2. \E s \in Steps \cup Ended : pc' = [pc EXCEPT ![t] = s]
    BY <1>3, SMTT(20) DEF Fetch, ReadFails, ReadEnds, Steps, Ended
  <2> QED BY <2>1, <2>2
<1>4. CASE PollRow(t) \/ PutWhole(t) \/ DeletedCleanup(t) \/ Crash(t)
  BY <1>4 DEF PollRow, PutWhole, DeletedCleanup, Expire, ExpireRow, ExpireFile, Crash, tables,
              stores, chunker, scan, reader, ReadFails, ReadEnds, Steps, Ended
<1> QED
  BY <1>1, <1>2, <1>3, <1>4 DEF Quiet

(* cleanupStaleLockChunks leads a chunker to its chunks and others to the  *)
(* end.                                                                    *)
LEMMA CleaningSteps ==
    ASSUME CoreType, NEW a \in Agents, Cleaning(a)
    PROVE  /\ UNCHANGED core
           /\ pc[a] \in {"reclaim", "dropRow", "dropObject"}
           /\ \E s \in {"dropRow", "dropObject", "chunk", "release"} :
                /\ pc' = [pc EXCEPT ![a] = s]
                /\ s = "chunk" => a \in Tasks /\ Kind(a) \in {"store", "migrate"}
                /\ s = "release" => ~(a \in Tasks /\ Kind(a) \in {"store", "migrate"})
BY DEF CoreType, core, Go, Cleaning, Reclaim, DropRow, DropObject, Reclaimed, tables, stores,
       chunker, scan

(* The scan and the deletions of the jobs are not seen by the calls.       *)
LEMMA JobSteps ==
    ASSUME CoreType, SweepScan \/ SweepRow \/ SweepQuery \/ SweepEnd \/ DeleteFromStores
    PROVE  /\ UNCHANGED core
           /\ \/ UNCHANGED pc
              \/ \E s \in {"rows", "backing", "drop", "collect"} : pc' = [pc EXCEPT ![Sweeper] = s]
              \/ pc[Sweeper] = "rows" /\ pc' = [pc EXCEPT ![Sweeper] = "idle"]
              \/ pc' = [pc EXCEPT ![Evictor] = "idle"]
BY DEF CoreType, core, Go, SweepScan, SweepRow, SweepQuery, SweepEnd, DeleteFromStores, tables,
       stores, chunker, scan

(* Rows that go take their links with them, and whoever kept an id knows.  *)
LEMMA RowsGo ==
    ASSUME CoreType, NEW R, DeleteRows(R)
    PROVE  \E N \in SUBSET Nars :
             /\ links' = {l \in links : l[1] \notin N}
             /\ total' = [n \in Nars |-> IF n \in N THEN 0 ELSE total[n]]
             /\ started' = started \ N
             /\ mine' = [a \in Agents |-> mine[a] /\ nar[a] \notin N]
<1> WITNESS {n \in Nars : Plain(n) \in R} \in SUBSET Nars
<1> QED
  BY DEF DeleteRows
-----------------------------------------------------------------------------
(* The first states are well typed.                                        *)
LEMMA CoreInit == Init => CoreType
<1> SUFFICES ASSUME Init PROVE CoreType
    OBVIOUS
<1>1. links \subseteq Nars \X (Nat \ {0}) \X Chunks
  BY ContentAssumption DEF Init, Whole, Found
<1>2. total \in [Nars -> Nat]
  BY ContentAssumption DEF Init, Found
<1>3. nar \in [Agents -> Nars]
  BY ContentAssumption, ScenarioFacts DEF Init
<1>4. rows \subseteq Row /\ sweep \subseteq Row \X BOOLEAN
  BY DEF Init, Found, Plain, Row, Forms
<1>5. /\ scenario \in Scenarios /\ lock \in [Nars -> Agents \cup {Nobody}]
      /\ started \subseteq Nars
      /\ pc \in [Agents -> Steps \cup Ended] /\ mine \in [Agents -> BOOLEAN]
  BY DEF Init, Steps
<1>6. /\ body \in [Agents -> Seq(Chunks)] /\ at \in [Agents -> Nat] /\ base \in [Agents -> Nat]
      /\ \A a \in Agents : base[a] <= at[a] /\ at[a] <= Len(body[a])
  BY DEF Init
<1> QED
  BY <1>1, <1>2, <1>3, <1>4, <1>5, <1>6 DEF CoreType


(* A set of ids has a lowest one.                                          *)
LEMMA LowestExists ==
    ASSUME NEW T \in SUBSET Nat, T # {} PROVE \E x \in T : \A y \in T : x <= y
<1> DEFINE R == OpToRel(<, Nat)
<1>1. \A x, y \in Nat : x < y => <<x, y>> \in R
  BY DEF OpToRel
<1>2. IsWellFoundedOn(R, Nat)
  BY NatLessThanWellFounded
<1> HIDE DEF R
<1>3. PICK x \in T : \A y \in T : ~ (<<y, x>> \in R)
  BY <1>2, WFMin, Zenon
<1>4. \A y \in T : ~ (y < x)
  BY <1>1, <1>3, Zenon
<1>5. \A y \in T : x <= y
  BY <1>4
<1> QED BY <1>5

(* The candidate of the recovery is one of the rows it has listed.         *)
LEMMA CandidateListed ==
    ASSUME sweep \subseteq Row \X BOOLEAN, sweep # {}
    PROVE  Candidate \in sweep
<1> DEFINE T == {Rank[q[1]] : q \in sweep}
<1>1. T \in SUBSET Nat /\ T # {}
  BY RankAssumption
<1>2. \E x \in T : \A y \in T : x <= y
  <2> HIDE DEF T
  <2> QED BY <1>1, LowestExists
<1>3. \E q \in sweep : \A p \in sweep : Rank[q[1]] <= Rank[p[1]]
  BY <1>2
<1> QED BY <1>3 DEF Candidate

(* The recovery only lists rows.                                           *)
LEMMA ScanNext ==
    ASSUME CoreType, [Next]_vars
    PROVE  (rows \subseteq Row /\ sweep \subseteq Row \X BOOLEAN)'
<1> USE AgentFacts
<1>1. rows \subseteq Row /\ sweep \subseteq Row \X BOOLEAN /\ nar \in [Agents -> Nars]
  BY DEF CoreType
<1>2. ASSUME NEW R, DeleteRows(R) PROVE rows' \subseteq rows /\ sweep' \subseteq sweep
  BY <1>2 DEF DeleteRows
<1>3. CASE Recovery
  <2>1. CASE SweepScan
    <3>1. PICK from \in LoadRecoveryCursor, young \in SUBSET rows :
            sweep' = {<<r, Begun(r)>> : r \in Lowest(Unchunked(from, young))}
      BY <2>1 DEF SweepScan
    <3>2. Lowest(Unchunked(from, young)) \subseteq Row
      BY <1>1 DEF Lowest, Unchunked
    <3>3. UNCHANGED rows
      BY <2>1 DEF SweepScan, tables
    <3>4. \A r \in Row : Begun(r) \in BOOLEAN
      BY DEF Begun
    <3>5. \A r \in Row : <<r, Begun(r)>> \in Row \X BOOLEAN
      BY <3>4
    <3> QED BY <1>1, <3>1, <3>2, <3>3, <3>5
  <2>2. CASE SweepDelete
    BY <1>1, <1>2, <2>2 DEF SweepDelete
  <2>3. CASE SweepLock \/ SweepClear \/ SweepRow \/ SweepQuery \/ SweepEnd
    BY <1>1, <2>3 DEF SweepLock, SweepClear, SweepRow, SweepQuery, SweepEnd, tables, scan
  <2>4. CASE Clean(Sweeper)
    BY <1>1, <2>4 DEF Clean, Reclaim, DropRow, DropObject, Reclaimed, Release, tables, scan
  <2> QED BY <1>3, <2>1, <2>2, <2>3, <2>4 DEF Recovery, Collect
<1>4. CASE LRU
  BY <1>1, <1>2, <1>4 DEF LRU, RunLRU, DeleteFromStores, tables, scan
<1>5. ASSUME NEW t \in Tasks, Call(t)
      PROVE  (rows \subseteq Row /\ sweep \subseteq Row \X BOOLEAN)'
  <2>1. CASE Begin(t) \/ Migrate(t) \/ Read(t) \/ Clean(t)
    BY <1>1, <2>1 DEF Begin, Migrate, Check, Tidy, Unlink, Read, Look, Route, GetNarFromStore,
       ReadInit, ListChunks, Fetch, Poll, PollRow, Clean, Reclaim, DropRow, DropObject, Reclaimed,
       Release, tables, scan
  <2>2. CASE DeletedCleanup(t) \/ Relink(t)
    BY <1>1, <2>2 DEF DeletedCleanup, Expire, ExpireRow, ExpireFile, Relink, tables, scan
  <2>3. CASE FindOrCreate(t)
    <3>1. Plain(nar[t]) \in Row
      BY <1>1 DEF Plain, Row, Forms
    <3> QED BY <1>1, <2>3, <3>1 DEF FindOrCreate, tables, scan
  <2>4. CASE PutChunk(t) \/ RecordChunkBatch(t) \/ ReadError(t) \/ EndOfBody(t)
             \/ MarkComplete(t) \/ Abort(t) \/ FixNarInfos(t)
    BY <1>1, <2>4 DEF PutChunk, RecordChunkBatch, ReadError, EndOfBody, MarkComplete, Abort,
       FixNarInfos, tables, scan
  <2>5. CASE Probe(t) \/ PutWhole(t) \/ Flip(t)
    BY <1>1, <2>5 DEF Probe, PutWhole, Flip, tables, scan
  <2>6. CASE Purge(t)
    BY <1>1, <1>2, <2>6 DEF Purge
  <2> QED BY <1>5, <2>1, <2>2, <2>3, <2>4, <2>5, <2>6 DEF Call, Store, Dechunk
<1>6. ASSUME NEW t \in Tasks, Crash(t) PROVE UNCHANGED <<rows, sweep>>
  BY <1>6 DEF Crash, tables, scan
<1>7. ASSUME NEW n \in Nars, LosesLock(n) PROVE UNCHANGED <<rows, sweep>>
  BY <1>7 DEF LosesLock, ExpireLock, LapseLock, tables, scan
<1>8. CASE UNCHANGED vars
  BY <1>1, <1>8 DEF vars, tables, scan
<1> QED BY <1>1, <1>3, <1>4, <1>5, <1>6, <1>7, <1>8 DEF Next, Work, LosesLock

(* Every step keeps the types.                                             *)
LEMMA CoreNext == CoreType /\ [Next]_vars => CoreType'
<1> SUFFICES ASSUME CoreType, [Next]_vars PROVE CoreType'
    OBVIOUS
<1>0. (scenario \in Scenarios)' /\ (rows \subseteq Row /\ sweep \subseteq Row \X BOOLEAN)'
  <2>1. UNCHANGED scenario
    BY ScenarioStays
  <2>2. (rows \subseteq Row /\ sweep \subseteq Row \X BOOLEAN)'
    BY ScanNext
  <2> QED BY <2>1, <2>2 DEF CoreType
<1> DEFINE Locks == lock \in [Nars -> Agents \cup {Nobody}] /\ nar \in [Agents -> Nars]
           Tables == /\ total \in [Nars -> Nat] /\ started \subseteq Nars
                     /\ links \subseteq Nars \X (Nat \ {0}) \X Chunks
           Steppers == pc \in [Agents -> Steps \cup Ended]
           Chunkers == /\ body \in [Agents -> Seq(Chunks)]
                       /\ at \in [Agents -> Nat] /\ base \in [Agents -> Nat]
                       /\ \A a \in Agents : base[a] <= at[a] /\ at[a] <= Len(body[a])
           Owners == mine \in [Agents -> BOOLEAN]
<1>1. Locks /\ Tables /\ Steppers /\ Chunkers /\ Owners /\ sweep \subseteq Row \X BOOLEAN
  BY DEF CoreType
<1> DEFINE Typed == Locks' /\ Tables' /\ Steppers' /\ Chunkers' /\ Owners'
<1> SUFFICES Typed
  BY <1>0 DEF CoreType
<1> USE AgentFacts
<1>2. ASSUME NEW t \in Tasks, Quiet(t) PROVE Typed
  <2>1. UNCHANGED core /\ \E s \in Steps \cup Ended : pc' = [pc EXCEPT ![t] = s]
    BY <1>2, QuietSteps
  <2> QED BY <1>1, <2>1, SMTT(20) DEF core
<1>3. ASSUME NEW a \in Agents, Cleaning(a) PROVE Typed
  <2>1. /\ UNCHANGED core
        /\ \E s \in {"dropRow", "dropObject", "chunk", "release"} : pc' = [pc EXCEPT ![a] = s]
    BY <1>3, CleaningSteps
  <2> QED BY <1>1, <2>1, ZenonT(60) DEF core, Steps
<1>4. CASE SweepScan \/ SweepRow \/ SweepQuery \/ SweepEnd \/ DeleteFromStores
  <2>1. /\ UNCHANGED core
        /\ \/ UNCHANGED pc
           \/ \E a \in Agents, s \in {"rows", "backing", "drop", "collect", "idle"} :
                 pc' = [pc EXCEPT ![a] = s]
    BY <1>4, JobSteps
  <2> QED BY <1>1, <2>1, ZenonT(60) DEF core, Steps
<1>5. ASSUME NEW t \in Tasks, Begin(t) PROVE Typed
  <2>1. FirstStep[Kind(t)] \in Steps
    BY <1>5 DEF Begin, FirstStep, Steps
  <2>2. UNCHANGED <<total, started, links, nar, body, at, base, mine>>
    BY <1>5 DEF Begin, tables, chunker, scan
  <2>3. Locks'
    BY <1>1, <1>5, <2>2 DEF Begin, TryLock
  <2>4. Steppers'
    BY <1>1, <1>5, <2>1 DEF Begin, TryLock, Go, Ended
  <2> QED BY <1>1, <2>2, <2>3, <2>4
<1>6. ASSUME NEW t \in Tasks, FindOrCreate(t) PROVE Typed
  <2>1. Bodies(nar[t]) \subseteq Seq(Chunks)
    <3>1. nar[t] \in Nars
      BY <1>1
    <3>2. Content[nar[t]] \in Seq(Chunks) /\ Cut[nar[t]] \in Seq(Chunks)
      BY <3>1, ContentAssumption
    <3> QED BY <3>2 DEF Bodies
  <2>2. UNCHANGED <<lock, nar>>
    BY <1>6 DEF FindOrCreate, scan
  <2>3. Steppers'
    BY <1>1, <1>6, ZenonT(60) DEF FindOrCreate, Go, AfterChunks, Steps
  <2>4. Tables'
    BY <1>1, <1>6 DEF FindOrCreate, ClearStale, LinksOf, tables
  <2>5. Owners'
    BY <1>1, <1>6 DEF FindOrCreate
  <2>6. Chunkers'
    <3>1. CASE UNCHANGED chunker
      BY <1>1, <3>1 DEF chunker
    <3>2. CASE /\ \E b \in Bodies(nar[t]) : body' = [body EXCEPT ![t] = b]
               /\ at' = [at EXCEPT ![t] = 0] /\ base' = [base EXCEPT ![t] = 0]
      <4>1. PICK b \in Seq(Chunks) : body' = [body EXCEPT ![t] = b]
        BY <2>1, <3>2
      <4>2. Len(b) \in Nat
        BY <4>1
      <4> QED BY <1>1, <3>2, <4>1, <4>2
    <3> QED BY <1>6, <3>1, <3>2 DEF FindOrCreate
  <2> QED BY <1>1, <2>2, <2>3, <2>4, <2>5, <2>6
<1>7. ASSUME NEW t \in Tasks, PutChunk(t) PROVE Typed
  <2>1. UNCHANGED <<lock, nar, total, started, links, mine, body, base>>
    BY <1>7 DEF PutChunk, tables, scan
  <2>2. Steppers'
    BY <1>1, <1>7, ZenonT(60) DEF PutChunk, Go, Steps
  <2>3. Chunkers'
    <3>1. CASE UNCHANGED at
      BY <1>1, <2>1, <3>1
    <3>2. CASE at' = [at EXCEPT ![t] = at[t] + 1] /\ at[t] < Len(body[t])
      <4>1. Len(body[t]) \in Nat
        BY <1>1
      <4>2. at' \in [Agents -> Nat]
        BY <1>1, <3>2
      <4>3. ASSUME NEW a \in Agents PROVE base[a] <= at'[a] /\ at'[a] <= Len(body[a])
        BY <1>1, <3>2, <4>1
      <4> QED BY <1>1, <2>1, <4>2, <4>3
    <3> QED BY <1>7, <3>1, <3>2 DEF PutChunk
  <2> QED BY <1>1, <2>1, <2>2, <2>3
<1>8. ASSUME NEW t \in Tasks, RecordChunkBatch(t) PROVE Typed
  <2>1. Batch(t) \subseteq Nars \X (Nat \ {0}) \X Chunks
    BY <1>1, SMTT(20) DEF Batch
  <2>2. UNCHANGED <<lock, nar, total, started, mine, body, at>>
    BY <1>8 DEF RecordChunkBatch, scan
  <2>3. Steppers'
    BY <1>1, <1>8, ZenonT(60) DEF RecordChunkBatch, Go, Steps
  <2>4. Tables'
    BY <1>1, <1>8, <2>1, <2>2 DEF RecordChunkBatch
  <2>5. Chunkers'
    <3>1. CASE UNCHANGED base
      BY <1>1, <2>2, <3>1
    <3>2. CASE base' = [base EXCEPT ![t] = at[t]]
      <4>1. base' \in [Agents -> Nat]
        BY <1>1, <3>2
      <4>2. ASSUME NEW a \in Agents PROVE base'[a] <= at[a]
        BY <1>1, <3>2
      <4> QED BY <1>1, <2>2, <4>1, <4>2
    <3> QED BY <1>8, <3>1, <3>2 DEF RecordChunkBatch
  <2> QED BY <1>1, <2>2, <2>3, <2>4, <2>5
<1>9. ASSUME NEW t \in Tasks, ReadError(t) PROVE Typed
  <2>1. SubSeq(body[t], 1, at[t]) \in Seq(Chunks) /\ Len(SubSeq(body[t], 1, at[t])) = at[t]
    BY <1>1, <1>9 DEF ReadError
  <2>2. UNCHANGED <<lock, nar, total, started, links, mine, at, base>>
    BY <1>9 DEF ReadError, tables, scan
  <2>3. Steppers'
    BY <1>1, <1>9, ZenonT(60) DEF ReadError, Go, Steps
  <2>4. Chunkers'
    <3>1. CASE UNCHANGED body
      BY <1>1, <2>2, <3>1
    <3>2. CASE body' = [body EXCEPT ![t] = SubSeq(body[t], 1, at[t])]
      <4>1. body' \in [Agents -> Seq(Chunks)]
        BY <1>1, <2>1, <3>2
      <4>2. ASSUME NEW a \in Agents PROVE at[a] <= Len(body'[a])
        BY <1>1, <2>1, <3>2
      <4> QED BY <1>1, <2>2, <4>1, <4>2
    <3> QED BY <1>9, <3>1, <3>2 DEF ReadError
  <2> QED BY <1>1, <2>2, <2>3, <2>4
<1>10. ASSUME NEW t \in Tasks, MarkComplete(t) \/ Abort(t)
       PROVE  Typed
  <2>1. UNCHANGED <<lock, nar, links, mine, body, at, base>>
    BY <1>10 DEF MarkComplete, Abort, chunker, scan
  <2>2. Steppers'
    <3>1. AfterChunks(t) \in Steps
      BY DEF AfterChunks, Steps
    <3>2. CASE MarkComplete(t)
      <4>1. "relink" \in Steps /\ "abort" \in Steps
        BY DEF Steps
      <4>2. PICK s \in Steps : pc' = [pc EXCEPT ![t] = s]
        BY <3>1, <3>2, <4>1 DEF MarkComplete, Go
      <4> QED BY <1>1, <4>2
    <3>3. CASE Abort(t)
      BY <1>1, <3>3 DEF Abort, Go, Steps
    <3> QED BY <1>10, <3>2, <3>3
  <2>3. Tables'
    BY <1>1, <1>10, <2>1 DEF MarkComplete, Abort
  <2> QED BY <1>1, <2>1, <2>2, <2>3
<1>11. ASSUME NEW a \in Agents, Release(a) PROVE Typed
  <2>1. UNCHANGED <<nar, total, started, links, mine, body, at, base>>
    BY <1>11 DEF Release, tables, chunker, scan
  <2>2. Steppers'
    BY <1>1, <1>11 DEF Release, Go, Steps, Ended
  <2>3. Locks'
    BY <1>1, <1>11, <2>1 DEF Release
  <2> QED BY <1>1, <2>1, <2>2, <2>3
<1>12. ASSUME NEW t \in Tasks, ReadInit(t) \/ Probe(t)
       PROVE  Typed
  <2>1. UNCHANGED <<lock, nar, total, started, links, body, at, base>>
    BY <1>12 DEF ReadInit, Probe, tables, chunker, scan
  <2>2. Steppers'
    <3>1. {"list", "poll", "broken", "release", "purge", "init"} \subseteq Steps \cup Ended
      BY DEF Steps, Ended
    <3>2. ReadFails(t) \in Steps \cup Ended
      BY <3>1 DEF ReadFails
    <3>3. CASE ReadInit(t)
      <4>1. PICK s \in Steps \cup Ended : pc' = [pc EXCEPT ![t] = s]
        BY <3>1, <3>2, <3>3 DEF ReadInit, Go
      <4> QED BY <1>1, <4>1
    <3>4. CASE Probe(t)
      <4>1. PICK s \in Steps \cup Ended : pc' = [pc EXCEPT ![t] = s]
        BY <3>1, <3>4 DEF Probe, Go
      <4> QED BY <1>1, <4>1
    <3> QED BY <1>12, <3>3, <3>4
  <2>3. Owners'
    <3>1. (total[nar[t]] > 0 /\ (Kind(t) = "purge" \/ url[nar[t]] # "absent")) \in BOOLEAN
      OBVIOUS
    <3> QED BY <1>1, <1>12, <3>1 DEF ReadInit, Probe
  <2> QED BY <1>1, <2>1, <2>2, <2>3
<1>13. ASSUME NEW t \in Tasks, Flip(t) PROVE Typed
  <2>1. UNCHANGED <<lock, nar, mine, body, at, base>>
    BY <1>13 DEF Flip, chunker, scan
  <2>2. Steppers'
    BY <1>1, <1>13, ZenonT(60) DEF Flip, Go, Steps
  <2>3. Tables'
    <3>1. CASE UNCHANGED <<links, total, started>>
      BY <1>1, <3>1
    <3>2. CASE links' = links \ LinksOf(nar[t]) /\ total' = [total EXCEPT ![nar[t]] = 0]
               /\ started' = started \ {nar[t]}
      BY <1>1, <3>2
    <3> QED BY <1>13, <3>1, <3>2 DEF Flip
  <2> QED BY <1>1, <2>1, <2>2, <2>3
<1>14. ASSUME NEW R, DeleteRows(R) PROVE Tables' /\ Owners'
  <2>1. PICK N \in SUBSET Nars :
             /\ links' = {l \in links : l[1] \notin N}
             /\ total' = [n \in Nars |-> IF n \in N THEN 0 ELSE total[n]]
             /\ started' = started \ N
             /\ mine' = [a \in Agents |-> mine[a] /\ nar[a] \notin N]
    BY <1>14, RowsGo
  <2>2. Tables'
    BY <1>1, <2>1
  <2>3. \A a \in Agents : (mine[a] /\ nar[a] \notin N) \in BOOLEAN
    OBVIOUS
  <2> QED BY <2>1, <2>2, <2>3
<1>15. ASSUME NEW t \in Tasks, Purge(t) PROVE Typed
  <2>1. UNCHANGED <<lock, nar, body, at, base>>
    BY <1>15 DEF Purge, chunker
  <2>2. Steppers'
    BY <1>1, <1>15, ZenonT(60) DEF Purge, Go, Steps
  <2>3. Tables' /\ Owners'
    <3>1. CASE UNCHANGED <<total, started, links, mine>>
      BY <1>1, <3>1
    <3> QED BY <1>14, <1>15, <3>1 DEF Purge
  <2> QED BY <1>1, <2>1, <2>2, <2>3
<1>16. CASE SweepLock
  <2>1. sweep # {} => Candidate[1][1] \in Nars
    <3>1. ASSUME sweep # {} PROVE Candidate \in sweep
      BY <1>1, <3>1, CandidateListed
    <3> QED BY <1>1, <3>1 DEF Row
  <2>2. UNCHANGED <<total, started, links, body, at, base>>
    BY <1>16 DEF SweepLock, tables, chunker
  <2>3. Locks' /\ Owners'
    <3>1. CASE UNCHANGED <<lock, nar, mine>>
      BY <1>1, <3>1
    <3>2. CASE /\ sweep # {} /\ lock' = [lock EXCEPT ![Candidate[1][1]] = Sweeper]
               /\ nar' = [nar EXCEPT ![Sweeper] = Candidate[1][1]]
               /\ mine' = [mine EXCEPT ![Sweeper] = TRUE]
      BY <1>1, <2>1, <3>2
    <3> QED BY <1>16, <3>1, <3>2 DEF SweepLock
  <2>4. Steppers'
    <3>1. UNCHANGED pc \/ pc' = [pc EXCEPT ![Sweeper] = "clear"]
      BY <1>16 DEF SweepLock, Go
    <3> QED BY <1>1, <3>1 DEF Steps
  <2> QED BY <1>1, <2>2, <2>3, <2>4
<1>17. CASE SweepClear
  <2>1. UNCHANGED <<lock, nar, total, mine, body, at, base>>
    BY <1>17 DEF SweepClear, chunker
  <2>2. Tables'
    BY <1>1, <1>17, <2>1 DEF SweepClear, ClearStale, LinksOf
  <2>3. Steppers'
    BY <1>1, <1>17, ZenonT(60) DEF SweepClear, Go, Steps
  <2> QED BY <1>1, <2>1, <2>2, <2>3
<1>18. CASE SweepDelete
  <2>1. UNCHANGED <<lock, nar, body, at, base>>
    BY <1>18 DEF SweepDelete, chunker
  <2>2. Steppers'
    BY <1>1, <1>18 DEF SweepDelete, Go, Steps
  <2>3. Tables' /\ Owners'
    <3>1. CASE UNCHANGED <<total, started, links, mine>>
      BY <1>1, <3>1
    <3> QED BY <1>14, <1>18, <3>1 DEF SweepDelete
  <2> QED BY <1>1, <2>1, <2>2, <2>3
<1>19. CASE RunLRU
  <2>1. UNCHANGED <<lock, nar, body, at, base>>
    BY <1>19 DEF RunLRU, chunker
  <2>2. Steppers'
    BY <1>1, <1>19 DEF RunLRU, Go, Steps
  <2>3. Tables' /\ Owners'
    BY <1>14, <1>19 DEF RunLRU
  <2> QED BY <1>1, <2>1, <2>2, <2>3
<1>20. ASSUME NEW n \in Nars, LosesLock(n) PROVE Typed
  <2>1. UNCHANGED <<nar, pc, total, started, links, mine, body, at, base>>
    BY <1>20 DEF LosesLock, ExpireLock, LapseLock, tables, chunker, scan
  <2>2. Locks'
    BY <1>1, <1>20, <2>1 DEF LosesLock, ExpireLock, LapseLock
  <2> QED BY <1>1, <2>1, <2>2
<1>21. CASE UNCHANGED vars
  BY <1>1, <1>21 DEF vars, tables, chunker, scan
<1> HIDE DEF Typed
<1> QED
  BY <1>2, <1>3, <1>4, <1>5, <1>6, <1>7, <1>8, <1>9, <1>10, <1>11, <1>12, <1>13, <1>15, <1>16,
     <1>17, <1>18, <1>19, <1>20, <1>21
     DEF Next, Work, LosesLock, Recovery, Collect, LRU, Call, Store, Migrate, Dechunk, Read, Clean,
         Quiet, Cleaning

(* Where a call may go: it is under a lock since it began, a chunker since *)
(* it opened its row.                                                      *)
Moves(t) ==
    /\ \A a \in Agents \ {t} : pc'[a] = pc[a]
    /\ Fits(t, pc'[t])
    /\ Keeps(t, pc'[t]) => Begin(t) \/ Keeps(t, pc[t])
    /\ Chunker(t, pc'[t]) => FindOrCreate(t) \/ Chunker(t, pc[t])
    /\ pc'[t] = "mark" => pc[t] = "mark" \/ base[t] = Len(body[t])

(* Every step of a call is such a move.                                    *)
LEMMA TaskMoves ==
    ASSUME CoreType, Role, NEW t \in Tasks, Call(t) \/ Crash(t)
    PROVE  Moves(t)
<1>1. pc \in [Agents -> Steps \cup Ended] /\ t \in Agents /\ Fits(t, pc[t])
  BY AgentFacts DEF CoreType, Role
<1>2. Kind(t) \in Kinds
  BY ScenarioFacts DEF CoreType, Kind
<1> USE DEF Moves, Go, Steps, Ended, Fits, Keeps, Chunker
<1>3. CASE Begin(t)
  BY <1>1, <1>3 DEF Begin, TryLock, FirstStep
<1>4. CASE Check(t) \/ Tidy(t) \/ Unlink(t) \/ Crash(t)
  BY <1>1, <1>4 DEF Check, Tidy, Unlink, Crash
<1>5. CASE FindOrCreate(t)
  BY <1>1, <1>5 DEF FindOrCreate, AfterChunks
<1>6. CASE PutChunk(t) \/ RecordChunkBatch(t) \/ ReadError(t)
  BY <1>1, <1>6 DEF PutChunk, RecordChunkBatch, ReadError
<1>7. CASE EndOfBody(t)
  BY <1>1, <1>7 DEF EndOfBody
<1>8. CASE MarkComplete(t) \/ Relink(t) \/ Abort(t) \/ FixNarInfos(t)
  BY <1>1, <1>8 DEF MarkComplete, Relink, Abort, FixNarInfos, AfterChunks
<1>9. CASE Look(t) \/ Route(t) \/ GetNarFromStore(t) \/ ReadInit(t)
  BY <1>1, <1>9 DEF Look, Route, GetNarFromStore, ReadInit, ReadFails
<1>10. CASE ListChunks(t) \/ Fetch(t) \/ Poll(t) \/ PollRow(t)
  BY <1>1, <1>10 DEF ListChunks, Fetch, Poll, PollRow, ReadFails, ReadEnds
<1>11. CASE Probe(t) \/ PutWhole(t) \/ Flip(t) \/ Purge(t)
  BY <1>1, <1>11 DEF Probe, PutWhole, Flip, Purge
<1>12. CASE DeletedCleanup(t)
  BY <1>1, <1>12 DEF DeletedCleanup, Expire, ExpireRow, ExpireFile
<1>13. CASE Clean(t)
  <2>1. CASE Reclaim(t) \/ DropRow(t) \/ DropObject(t)
    BY <1>1, <2>1, ZenonT(60) DEF Reclaim, DropRow, DropObject
  <2>2. CASE Reclaimed(t)
    BY <1>1, <2>2 DEF Reclaimed
  <2>3. CASE Release(t)
    BY <1>1, <2>3, AgentFacts DEF Release
  <2> QED BY <1>13, <2>1, <2>2, <2>3 DEF Clean
<1> QED
  BY <1>3, <1>4, <1>5, <1>6, <1>7, <1>8, <1>9, <1>10, <1>11, <1>12, <1>13
     DEF Call, Store, Migrate, Dechunk, Read

(* Nobody works at first.                                                  *)
LEMMA LockInit == Init => LockInv
<1> SUFFICES ASSUME Init PROVE LockInv
    OBVIOUS
<1>1. CoreType
  BY CoreInit
<1>2. \A a \in Agents : pc[a] = "idle"
  BY DEF Init
<1>3. Role
  BY <1>2, AgentFacts DEF Role, Fits
<1>4. HoldsLock
  BY <1>2, AgentFacts DEF HoldsLock, Refreshed
<1> QED BY <1>1, <1>3, <1>4 DEF LockInv

(* The jobs leave the calls where they are.                                *)
LEMMA JobMoves ==
    ASSUME CoreType, Recovery \/ LRU \/ \E n \in Nars : LosesLock(n)
    PROVE  \A t \in Tasks : pc'[t] = pc[t]
<1> USE AgentFacts DEF Go
<1>1. pc \in [Agents -> Steps \cup Ended]
  BY DEF CoreType
<1>2. CASE SweepScan \/ SweepLock \/ SweepClear \/ Collect \/ SweepEnd
  BY <1>1, <1>2 DEF SweepScan, SweepLock, SweepClear, Collect, SweepRow, SweepQuery, SweepDelete,
     SweepEnd
<1>3. CASE Clean(Sweeper)
  BY <1>1, <1>3 DEF Clean, Reclaim, DropRow, DropObject, Reclaimed, Release
<1>4. CASE LRU
  BY <1>1, <1>4 DEF LRU, RunLRU, DeleteFromStores
<1>5. ASSUME NEW n \in Nars, LosesLock(n) PROVE \A t \in Tasks : pc'[t] = pc[t]
  BY <1>5 DEF LosesLock, ExpireLock, LapseLock
<1> QED BY <1>2, <1>3, <1>4, <1>5 DEF Recovery

(* Every step keeps calls to the steps of their kind.                      *)
LEMMA RoleNext ==
    ASSUME CoreType, Role, [Next]_vars PROVE Role'
<1>1. UNCHANGED scenario
  BY ScenarioStays
<1>2. pc \in [Agents -> Steps \cup Ended] /\ Tasks \subseteq Agents
  BY AgentFacts DEF CoreType
<1>3. \A t \in Tasks : Fits(t, pc'[t])
  <2>1. ASSUME NEW t \in Tasks, Call(t) \/ Crash(t) PROVE \A u \in Tasks : Fits(u, pc'[u])
    <3>1. Fits(t, pc'[t]) /\ \A a \in Agents \ {t} : pc'[a] = pc[a]
      BY <2>1, TaskMoves DEF Moves
    <3> QED BY <1>2, <3>1 DEF Role
  <2>2. CASE Recovery \/ LRU \/ \E n \in Nars : LosesLock(n)
    BY <2>2, JobMoves DEF Role
  <2>3. CASE UNCHANGED vars
    BY <2>3 DEF Role, vars
  <2> QED BY <2>1, <2>2, <2>3 DEF Next, Work, LosesLock
<1> QED BY <1>1, <1>3 DEF Role, Fits, Kind

(* Locks change hands only when they are free, released or not kept alive. *)
LEMMA HoldsNext ==
    ASSUME LockInv, [Next]_vars PROVE HoldsLock'
<1>1. CoreType /\ Role /\ HoldsLock /\ UNCHANGED scenario
  BY ScenarioStays DEF LockInv
<1>2. /\ pc \in [Agents -> Steps \cup Ended] /\ nar \in [Agents -> Nars]
      /\ lock \in [Nars -> Agents \cup {Nobody}] /\ sweep \subseteq Row \X BOOLEAN
  BY <1>1 DEF CoreType
<1> USE AgentFacts
<1> DEFINE Under(a, s) == \/ a = Sweeper /\ s \notin {"idle", "rows", "backing", "drop", "collect"}
                          \/ a \in Tasks /\ Keeps(a, s)
<1>3. \A a \in Agents : Refreshed(a) <=> Under(a, pc[a])
  BY DEF Refreshed, Keeps
<1>4. \A a \in Agents : Refreshed(a)' <=> Under(a, pc'[a])
  BY <1>1 DEF Refreshed, Keeps, Kind
<1>5. \A a \in Agents : Under(a, pc[a]) /\ nar[a] \notin lapsed => lock[nar[a]] = a
  BY <1>1, <1>3 DEF HoldsLock
<1>0. lapsed \subseteq lapsed'
  BY LapsedGrows
<1> DEFINE Goal == \A a \in Agents : Under(a, pc'[a]) /\ nar'[a] \notin lapsed' =>
      lock'[nar'[a]] = a
<1> SUFFICES Goal
  BY <1>4 DEF HoldsLock
<1>6. ASSUME NEW t \in Tasks, Begin(t) PROVE Goal
  <2>0. UNCHANGED nar
    BY <1>6 DEF Begin, scan
  <2>1. UNCHANGED lock \/ (lock[nar[t]] = Nobody /\ lock' = [lock EXCEPT ![nar[t]] = t])
    BY <1>6 DEF Begin, TryLock
  <2>2. \A a \in Agents : a # t => pc'[a] = pc[a]
    BY <1>2, <1>6 DEF Begin, TryLock, Go
  <2>3. \A a \in Agents : a # t /\ Under(a, pc[a]) /\ nar[a] \notin lapsed => lock'[nar'[a]] = a
    BY <1>2, <1>5, <2>0, <2>1
  <2>4. Under(t, pc'[t]) => lock'[nar'[t]] = t
    BY <1>2, <1>6, <2>0, <2>1 DEF Begin, TryLock, Go, Keeps, Ended
  <2> QED BY <1>0, <2>0, <2>2, <2>3, <2>4
<1>7. ASSUME NEW a \in Agents, Release(a) PROVE Goal
  <2>1. /\ UNCHANGED nar
        /\ UNCHANGED lock \/ lock' = [lock EXCEPT ![nar[a]] = IF @ = a THEN Nobody ELSE @]
    BY <1>7 DEF Release, scan
  <2>2. ~Under(a, pc'[a])
    BY <1>2, <1>7 DEF Release, Go, Keeps, Ended
  <2>3. \A b \in Agents : b # a => pc'[b] = pc[b]
    BY <1>2, <1>7 DEF Release, Go
  <2>4. \A b \in Agents : b # a /\ Under(b, pc[b]) /\ nar[b] \notin lapsed => lock'[nar'[b]] = b
    BY <1>2, <1>5, <2>1
  <2> QED BY <1>0, <2>1, <2>2, <2>3, <2>4
<1>8. ASSUME NEW t \in Tasks, Call(t) \/ Crash(t), ~Begin(t), ~Release(t) PROVE Goal
  <2>1. UNCHANGED <<lock, nar>>
    <3>1. CASE Quiet(t)
      BY <1>1, <3>1, QuietSteps DEF core
    <3>2. CASE Cleaning(t)
      BY <1>1, <3>2, CleaningSteps DEF core
    <3>3. CASE FindOrCreate(t) \/ PutChunk(t) \/ RecordChunkBatch(t) \/ ReadError(t)
      BY <3>3 DEF FindOrCreate, PutChunk, RecordChunkBatch, ReadError, scan
    <3>4. CASE MarkComplete(t) \/ Abort(t) \/ ReadInit(t) \/ Probe(t) \/ Flip(t) \/ Purge(t)
      BY <3>4 DEF MarkComplete, Abort, ReadInit, Probe, Flip, Purge, scan
    <3> QED
      BY <1>8, <3>1, <3>2, <3>3, <3>4 DEF Call, Store, Migrate, Dechunk, Read, Clean, Quiet,
          Cleaning
  <2>2. (Keeps(t, pc'[t]) => Keeps(t, pc[t])) /\ \A a \in Agents \ {t} : pc'[a] = pc[a]
    BY <1>1, <1>8, TaskMoves DEF Moves
  <2>3. \A a \in Agents : Under(a, pc'[a]) => Under(a, pc[a])
    BY <2>2
  <2> QED BY <1>0, <1>5, <2>1, <2>3
<1>9. ASSUME NEW n \in Nars, LosesLock(n) PROVE Goal
  <2>1. UNCHANGED <<pc, nar>> /\ lock' = [lock EXCEPT ![n] = Nobody]
    BY <1>9 DEF LosesLock, ExpireLock, LapseLock, scan
  <2>2. \A a \in Agents : Under(a, pc[a]) /\ nar[a] \notin lapsed' => nar[a] # n
    <3>1. CASE ExpireLock(n)
      BY <1>0, <1>2, <1>3, <1>5, <3>1 DEF ExpireLock
    <3>2. CASE LapseLock(n)
      BY <3>2 DEF LapseLock
    <3> QED BY <1>9, <3>1, <3>2 DEF LosesLock
  <2> QED BY <1>0, <1>2, <1>5, <2>1, <2>2
<1>10. CASE LRU
  <2>1. UNCHANGED <<lock, nar>> /\ \A a \in Agents : a # Evictor => pc'[a] = pc[a]
    BY <1>2, <1>10 DEF LRU, RunLRU, DeleteFromStores, Go, scan
  <2> QED BY <1>0, <1>5, <2>1
<1>11. CASE SweepLock
  <2>1. CASE UNCHANGED <<lock, pc, nar>>
    BY <1>0, <1>5, <2>1
  <2>2. CASE /\ sweep # {} /\ lock[Candidate[1][1]] = Nobody
             /\ lock' = [lock EXCEPT ![Candidate[1][1]] = Sweeper]
             /\ nar' = [nar EXCEPT ![Sweeper] = Candidate[1][1]]
             /\ pc' = [pc EXCEPT ![Sweeper] = "clear"]
    <3>1. Candidate[1][1] \in Nars
      BY <1>2, <2>2, CandidateListed DEF Row
    <3> QED BY <1>0, <1>2, <1>5, <2>2, <3>1
  <2> QED BY <1>11, <2>1, <2>2 DEF SweepLock, Go
<1>12. CASE Recovery /\ ~SweepLock /\ ~Release(Sweeper)
  <2>1. UNCHANGED <<lock, nar>> /\ \A a \in Agents : a # Sweeper => pc'[a] = pc[a]
    <3>1. CASE SweepScan \/ SweepClear \/ Collect \/ SweepEnd
      BY <1>2, <3>1 DEF SweepScan, SweepClear, Collect, SweepRow, SweepQuery, SweepDelete, SweepEnd,
         Go, scan
    <3>2. CASE Cleaning(Sweeper)
      BY <1>1, <1>2, <3>2, CleaningSteps DEF core
    <3> QED BY <1>12, <3>1, <3>2 DEF Recovery, Clean, Cleaning
  <2>2. Under(Sweeper, pc'[Sweeper]) => Under(Sweeper, pc[Sweeper])
    <3>1. CASE SweepScan \/ SweepClear \/ Collect \/ SweepEnd
      BY <1>2, <3>1 DEF SweepScan, SweepClear, Collect, SweepRow, SweepQuery, SweepDelete, SweepEnd,
         Go
    <3>2. CASE Cleaning(Sweeper)
      BY <3>2 DEF Cleaning, Reclaim, DropRow, DropObject, Reclaimed
    <3> QED BY <1>12, <3>1, <3>2 DEF Recovery, Clean, Cleaning
  <2> QED BY <1>0, <1>5, <2>1, <2>2
<1>13. CASE UNCHANGED vars
  BY <1>5, <1>13 DEF vars, scan
<1> HIDE DEF Goal, Under
<1>14. CASE Recovery
  BY <1>7, <1>11, <1>12, <1>14
<1>15. ASSUME NEW t \in Tasks, Call(t) \/ Crash(t) PROVE Goal
  BY <1>6, <1>7, <1>8, <1>15
<1> QED
  BY <1>9, <1>10, <1>13, <1>14, <1>15 DEF Next, Work, LosesLock

-----------------------------------------------------------------------------
(* Nobody else works on the NAR of whoever keeps its lock.                 *)
LEMMA Alone ==
    ASSUME HoldsLock, NEW a \in Agents, NEW b \in Agents, Refreshed(a), Refreshed(b),
           nar[a] = nar[b], nar[a] \notin lapsed
    PROVE  a = b
BY DEF HoldsLock

(* A chunker keeps its lock alive.                                         *)
LEMMA ChunkerKeeps ==
    ASSUME NEW t \in Tasks, Chunker(t, pc[t]) PROVE Refreshed(t)
BY DEF Chunker, Refreshed, Ended

(* The NARs that are chunked at first have their chunks.                   *)
LEMMA LinksInit == Init => Fresh /\ Links
<1> SUFFICES ASSUME Init PROVE Fresh /\ Links
    OBVIOUS
<1>1. Fresh
  BY DEF Init, Fresh
<1>2. Exact
  BY DEF Init, Exact, Whole, Found
<1>3. Recorded
  BY AgentFacts DEF Init, Recorded, Chunker
<1>4. Complete
  BY SMTT(20) DEF Init, Complete, Whole, Found
<1> QED BY <1>1, <1>2, <1>3, <1>4 DEF Links

(* Chunking starts on rows that are not complete, and completion ends it.  *)
LEMMA FreshNext ==
    ASSUME CoreType, Fresh, [Next]_vars PROVE Fresh'
<1> USE AgentFacts
<1>1. total \in [Nars -> Nat] /\ started \subseteq Nars /\ nar \in [Agents -> Nars]
  BY DEF CoreType
<1>2. CASE UNCHANGED total /\ started' \subseteq started
  BY <1>2 DEF Fresh
<1>3. ASSUME NEW R, DeleteRows(R) PROVE Fresh'
  <2>1. PICK N \in SUBSET Nars : /\ total' = [n \in Nars |-> IF n \in N THEN 0 ELSE total[n]]
                                 /\ started' = started \ N
    BY <1>3, RowsGo
  <2> QED BY <1>1, <2>1 DEF Fresh
<1>4. ASSUME NEW t \in Tasks, Quiet(t) PROVE Fresh'
  BY <1>2, <1>4, QuietSteps DEF core
<1>5. ASSUME NEW a \in Agents, Cleaning(a) PROVE Fresh'
  BY <1>2, <1>5, CleaningSteps DEF core
<1>6. CASE SweepScan \/ SweepRow \/ SweepQuery \/ SweepEnd \/ DeleteFromStores
  BY <1>2, <1>6, JobSteps DEF core
<1>7. ASSUME NEW t \in Tasks, FindOrCreate(t) PROVE Fresh'
  <2>1. \/ UNCHANGED <<total, started>>
        \/ UNCHANGED total /\ total[nar[t]] = 0 /\ started' = started \cup {nar[t]}
    BY <1>7 DEF FindOrCreate, tables
  <2> QED BY <1>1, <2>1 DEF Fresh
<1>8. ASSUME NEW t \in Tasks, MarkComplete(t) \/ Flip(t) PROVE Fresh'
  <2>1. \/ UNCHANGED <<total, started>>
        \/ \E k : total' = [total EXCEPT ![nar[t]] = k] /\ started' = started \ {nar[t]}
    BY <1>8 DEF MarkComplete, Flip
  <2> QED BY <1>1, <2>1 DEF Fresh
<1>9. ASSUME NEW t \in Tasks, Begin(t) \/ PutChunk(t) \/ RecordChunkBatch(t) \/ ReadError(t)
                              \/ Abort(t) \/ ReadInit(t) \/ Probe(t)
      PROVE  Fresh'
  <2>1. UNCHANGED total /\ started' \subseteq started
    BY <1>9 DEF Begin, PutChunk, RecordChunkBatch, ReadError, Abort, ReadInit, Probe, tables
  <2> QED BY <1>2, <2>1
<1>10. ASSUME NEW a \in Agents, Release(a) PROVE Fresh'
  BY <1>2, <1>10 DEF Release, tables
<1>11. ASSUME NEW t \in Tasks, Purge(t) PROVE Fresh'
  BY <1>2, <1>3, <1>11 DEF Purge
<1>12. CASE SweepLock \/ SweepClear
  <2>1. UNCHANGED total /\ started' \subseteq started
    BY <1>12 DEF SweepLock, SweepClear, tables
  <2> QED BY <1>2, <2>1
<1>13. CASE SweepDelete \/ RunLRU
  BY <1>2, <1>3, <1>13 DEF SweepDelete, RunLRU
<1>14. ASSUME NEW n \in Nars, LosesLock(n) PROVE Fresh'
  BY <1>2, <1>14 DEF LosesLock, ExpireLock, LapseLock, tables
<1>15. CASE UNCHANGED vars
  BY <1>2, <1>15 DEF vars, tables
<1> QED
  BY <1>4, <1>5, <1>6, <1>7, <1>8, <1>9, <1>10, <1>11, <1>12, <1>13, <1>14, <1>15
     DEF Next, Work, LosesLock, Recovery, Collect, LRU, Call, Store, Migrate, Dechunk, Read, Clean,
         Quiet, Cleaning

(* A step leaves to each chunker what it knows of its row, or ends it.     *)
Still(t) ==
    /\ nar'[t] = nar[t] /\ body'[t] = body[t] /\ base'[t] = base[t]
    /\ mine'[t] => mine[t]

(* Whoever chunks after a step has chunked before, or opens its row now.   *)
LEMMA StillChunks ==
    ASSUME LockInv, [Next]_vars, NEW t \in Tasks, ~FindOrCreate(t), Chunker(t, pc[t])'
    PROVE  /\ Chunker(t, pc[t])
           /\ pc'[t] = "mark" => pc[t] = "mark" \/ base[t] = Len(body[t])
<1>1. UNCHANGED scenario /\ CoreType /\ Role /\ Tasks \subseteq Agents
  BY ScenarioStays, AgentFacts DEF LockInv
<1>2. Chunker(t, pc'[t])
  BY <1>1 DEF Chunker, Kind
<1>3. CASE pc'[t] = pc[t]
  BY <1>2, <1>3
<1>4. CASE Call(t) \/ Crash(t)
  <2>1. \/ Begin(t) \/ Chunker(t, pc[t])
    BY <1>1, <1>2, <1>4, TaskMoves DEF Moves
  <2>2. ~Chunker(t, pc[t]) => ~Begin(t)
    BY <1>1, <1>2 DEF Begin, TryLock, Go, FirstStep, Chunker, CoreType
  <2>3. pc'[t] = "mark" => pc[t] = "mark" \/ base[t] = Len(body[t])
    BY <1>1, <1>4, TaskMoves DEF Moves
  <2> QED BY <2>1, <2>2, <2>3
<1>5. ASSUME NEW u \in Tasks, u # t, Call(u) \/ Crash(u) PROVE pc'[t] = pc[t]
  BY <1>1, <1>5, TaskMoves DEF Moves
<1>6. CASE Recovery \/ LRU \/ \E n \in Nars : LosesLock(n)
  BY <1>1, <1>3, <1>6, JobMoves
<1>7. CASE UNCHANGED vars
  BY <1>3, <1>7 DEF vars
<1> QED BY <1>3, <1>4, <1>5, <1>6, <1>7 DEF Next, Work, LosesLock

(* What is left to show of a step that keeps what the chunkers know.       *)
LEMMA RecordedNext ==
    ASSUME LockInv, Recorded, [Next]_vars,
           \A t \in Tasks : Chunker(t, pc[t])' => ~FindOrCreate(t),
           \A t \in Tasks : Chunker(t, pc[t]) /\ Chunker(t, pc[t])' =>
              /\ Still(t)
              /\ mine'[t] /\ nar[t] \notin lapsed' =>
                    \A i \in 1..base[t] : <<nar[t], i, Content[nar[t]][i]>> \in links
                                => <<nar[t], i, Content[nar[t]][i]>> \in links'
    PROVE  Recorded'
<1> SUFFICES ASSUME NEW t \in Tasks, Chunker(t, pc[t])'
             PROVE  /\ body'[t] = Content[nar'[t]]
                    /\ pc'[t] = "mark" => base'[t] = Len(body'[t])
                    /\ mine'[t] /\ nar'[t] \notin lapsed' =>
                          \A i \in 1..base'[t] : <<nar'[t], i, Content[nar'[t]][i]>> \in links'
  BY DEF Recorded
<1>1. /\ Chunker(t, pc[t])
      /\ pc'[t] = "mark" => pc[t] = "mark" \/ base[t] = Len(body[t])
  BY StillChunks
<1>2. /\ Still(t)
      /\ mine'[t] /\ nar[t] \notin lapsed' =>
            \A i \in 1..base[t] : <<nar[t], i, Content[nar[t]][i]>> \in links
                        => <<nar[t], i, Content[nar[t]][i]>> \in links'
  BY <1>1
<1>3. /\ body[t] = Content[nar[t]]
      /\ pc[t] = "mark" => base[t] = Len(body[t])
      /\ mine[t] /\ nar[t] \notin lapsed =>
            \A i \in 1..base[t] : <<nar[t], i, Content[nar[t]][i]>> \in links
  BY <1>1 DEF Recorded
<1>4. lapsed \subseteq lapsed'
  BY LapsedGrows
<1> QED BY <1>1, <1>2, <1>3, <1>4 DEF Still

(* Steps that leave the links and the totals alone.                        *)
LEMMA LinksStay ==
    ASSUME LockInv, Links, [Next]_vars, UNCHANGED <<links, total>>,
           \A t \in Tasks : Chunker(t, pc[t])' => ~FindOrCreate(t),
           \A t \in Tasks : Chunker(t, pc[t]) /\ Chunker(t, pc[t])' => Still(t)
    PROVE  Links'
<1>1. Exact' /\ Complete'
  BY LapsedGrows DEF Links, Exact, Complete
<1>2. Recorded /\ \A t \in Tasks : Chunker(t, pc[t]) /\ Chunker(t, pc[t])' =>
              /\ Still(t)
              /\ mine'[t] /\ nar[t] \notin lapsed' =>
                    \A i \in 1..base[t] : <<nar[t], i, Content[nar[t]][i]>> \in links
                                => <<nar[t], i, Content[nar[t]][i]>> \in links'
  BY DEF Links
<1>3. Recorded'
  BY <1>2, RecordedNext
<1> QED BY <1>1, <1>3 DEF Links

(* Steps that take all links of a NAR away: nobody chunks it, and it is    *)
(* not complete afterwards.                                                *)
LEMMA LinksGo ==
    ASSUME LockInv, Links, [Next]_vars, NEW N \in SUBSET Nars,
           links' = {l \in links : l[1] \notin N},
           \A n \in Nars : total'[n] = total[n] \/ total'[n] = 0,
           \A n \in N : total'[n] = 0,
           \A t \in Tasks : Chunker(t, pc[t])' => ~FindOrCreate(t),
           \A t \in Tasks : Chunker(t, pc[t]) /\ Chunker(t, pc[t])' =>
              Still(t) /\ (nar[t] \notin N \/ ~mine'[t] \/ nar[t] \in lapsed)
    PROVE  Links'
<1>1. Exact'
  BY DEF Links, Exact
<1>0. lapsed \subseteq lapsed'
  BY LapsedGrows
<1>2. Complete'
  BY <1>0 DEF Links, Complete
<1>3. Recorded /\ \A t \in Tasks : Chunker(t, pc[t]) /\ Chunker(t, pc[t])' =>
              /\ Still(t)
              /\ mine'[t] /\ nar[t] \notin lapsed' =>
                    \A i \in 1..base[t] : <<nar[t], i, Content[nar[t]][i]>> \in links
                                => <<nar[t], i, Content[nar[t]][i]>> \in links'
  BY <1>0 DEF Links
<1>4. Recorded'
  BY <1>3, RecordedNext
<1> QED BY <1>1, <1>2, <1>4 DEF Links

(* Every step keeps the links of complete rows and of chunkers.            *)
LEMMA LinksNext ==
    ASSUME LockInv, Fresh, Links, Sound, [Next]_vars
    PROVE  Links'
<1>1. CoreType /\ Role /\ HoldsLock /\ UNCHANGED scenario
  BY ScenarioStays DEF LockInv
<1>2. /\ pc \in [Agents -> Steps \cup Ended] /\ nar \in [Agents -> Nars]
      /\ total \in [Nars -> Nat] /\ mine \in [Agents -> BOOLEAN]
      /\ links \subseteq Nars \X (Nat \ {0}) \X Chunks
      /\ at \in [Agents -> Nat] /\ base \in [Agents -> Nat] /\ body \in [Agents -> Seq(Chunks)]
      /\ \A a \in Agents : base[a] <= at[a] /\ at[a] <= Len(body[a])
  BY <1>1 DEF CoreType
<1>3. \A n \in Nars : Len(Content[n]) > 0 /\ Len(Content[n]) \in Nat
  BY ContentAssumption
<1>0. lapsed \subseteq lapsed'
  BY LapsedGrows
<1> USE AgentFacts
(* A step of an agent that does not open a row, and leaves links, totals   *)
(* and what the chunkers know alone.                                       *)
<1>4. ASSUME UNCHANGED <<links, total, nar, body, base, mine>>,
             \A t \in Tasks : Chunker(t, pc[t])' => ~FindOrCreate(t)
      PROVE  Links'
  <2>1. \A t \in Tasks : Still(t)
    BY <1>4 DEF Still
  <2> QED BY <1>4, <2>1, LinksStay
<1>5. ASSUME NEW u, \A t \in Tasks \ {u} : pc'[t] = pc[t], u \in Tasks => pc[u] # "open"
      PROVE  \A t \in Tasks : Chunker(t, pc[t])' => ~FindOrCreate(t)
  BY <1>5 DEF FindOrCreate, Chunker
<1>6. ASSUME NEW u \in Tasks, Call(u) \/ Crash(u), pc[u] # "open"
      PROVE  \A t \in Tasks : Chunker(t, pc[t])' => ~FindOrCreate(t)
  <2>1. \A t \in Tasks \ {u} : pc'[t] = pc[t]
    BY <1>1, <1>6, TaskMoves DEF Moves
  <2> QED BY <1>5, <1>6, <2>1
<1>7. ASSUME Recovery \/ LRU \/ \E n \in Nars : LosesLock(n)
      PROVE  \A t \in Tasks : Chunker(t, pc[t])' => ~FindOrCreate(t)
  <2>1. \A t \in Tasks : pc'[t] = pc[t]
    BY <1>1, <1>7, JobMoves
  <2> QED BY <1>5, <2>1
<1>8. ASSUME NEW t \in Tasks, Quiet(t) \/ Cleaning(t) PROVE Links'
  <2>1. UNCHANGED core
    BY <1>1, <1>8, QuietSteps, CleaningSteps
  <2>2. Call(t) \/ Crash(t)
    BY <1>8 DEF Quiet, Cleaning, Call, Store, Migrate, Dechunk, Read, Clean
  <2>3. CASE pc[t] # "open"
    BY <1>4, <1>6, <2>1, <2>2, <2>3 DEF core
  <2>4. CASE Crash(t)
    <3>1. \A u \in Tasks : Chunker(u, pc[u])' => ~FindOrCreate(u)
      BY <1>2, <2>4 DEF Crash, Go, Chunker, FindOrCreate
    <3> QED BY <1>4, <2>1, <3>1 DEF core
  <2>5. Crash(t) \/ pc[t] # "open"
    BY <1>8 DEF Quiet, Cleaning, Check, EndOfBody, Relink, Tidy, Unlink, FixNarInfos, Look, Route,
       GetNarFromStore, ListChunks, Fetch, Poll, PollRow, PutWhole, DeletedCleanup, Expire,
       ExpireRow, ExpireFile, Reclaim, DropRow, DropObject, Reclaimed
  <2> QED BY <2>3, <2>4, <2>5
<1>9. ASSUME NEW t \in Tasks, Begin(t) \/ PutChunk(t) \/ Abort(t) \/ Release(t) PROVE Links'
  <2>1. UNCHANGED <<links, total, nar, body, base, mine>>
    BY <1>9 DEF Begin, PutChunk, Abort, Release, tables, chunker, scan
  <2>2. Call(t) /\ pc[t] # "open"
    BY <1>9 DEF Begin, PutChunk, Abort, Release, Call, Store, Clean
  <2> QED BY <1>4, <1>6, <2>1, <2>2
<1>10. CASE \/ SweepScan \/ SweepRow \/ SweepQuery \/ SweepEnd \/ DeleteFromStores \/ Clean(Sweeper)
            \/ \E n \in Nars : LosesLock(n)
  <2>1. UNCHANGED <<links, total, nar, body, base, mine>>
    BY <1>10 DEF SweepScan, SweepRow, SweepQuery, SweepEnd, DeleteFromStores, Clean, Reclaim,
        DropRow, DropObject,
       Reclaimed, Release, LosesLock, ExpireLock, LapseLock, tables, chunker, scan
  <2>2. Recovery \/ LRU \/ \E n \in Nars : LosesLock(n)
    BY <1>10 DEF Recovery, Collect, LRU
  <2> QED BY <1>4, <1>7, <2>1, <2>2
<1>11. CASE SweepLock
  <2>1. UNCHANGED <<links, total>>
    BY <1>11 DEF SweepLock, tables
  <2>2. \A t \in Tasks : Still(t)
    BY <1>2, <1>11 DEF SweepLock, Still, chunker
  <2>3. Recovery
    BY <1>11 DEF Recovery
  <2> QED BY <1>7, <2>1, <2>2, <2>3, LinksStay
<1>12. ASSUME NEW t \in Tasks, ReadInit(t) \/ Probe(t) PROVE Links'
  <2>1. UNCHANGED <<links, total>>
    BY <1>12 DEF ReadInit, Probe, tables
  <2>2. \A u \in Tasks : u # t => Still(u)
    BY <1>2, <1>12 DEF ReadInit, Probe, Still, chunker, scan
  <2>3. ~Chunker(t, pc[t])
    BY <1>12 DEF ReadInit, Probe, Chunker
  <2>4. Call(t) /\ pc[t] # "open"
    BY <1>12 DEF ReadInit, Probe, Call, Read, Dechunk
  <2> QED BY <1>6, <2>1, <2>2, <2>3, <2>4, LinksStay
<1>13. ASSUME NEW t \in Tasks, ReadError(t) PROVE FALSE
  BY <1>13 DEF ReadError, Sound
<1>14. ASSUME NEW t \in Tasks, RecordChunkBatch(t) PROVE Links'
  <2> DEFINE n == nar[t]
  <2>1. Call(t) /\ pc[t] # "open" /\ Chunker(t, pc[t])
    BY <1>1, <1>14 DEF RecordChunkBatch, Call, Store, Chunker, Role, Fits
  <2>2. UNCHANGED <<total, nar, body, mine>>
    BY <1>14 DEF RecordChunkBatch, scan
  <2>3. CASE UNCHANGED <<links, base>>
    BY <1>4, <1>6, <2>1, <2>2, <2>3
  <2>4. CASE /\ links' = links \cup {l \in Batch(t) : \A k \in LinksOf(l[1]) : k[2] # l[2]}
             /\ base' = [base EXCEPT ![t] = at[t]] /\ UNCHANGED pc
    <3>1. body[t] = Content[n] /\ n \in Nars /\ at[t] \in Nat /\ at[t] <= Len(Content[n])
      BY <1>2, <2>1 DEF Links, Recorded
    <3>2. Batch(t) = {<<n, i, Content[n][i]>> : i \in base[t] + 1..at[t]}
      BY <3>1 DEF Batch
    <3>3. Exact'
      <4>1. ASSUME NEW l \in Batch(t)
            PROVE  l[2] \in 1..Len(Content[l[1]]) /\ l[3] = Content[l[1]][l[2]]
        <5>1. PICK i \in base[t] + 1..at[t] : l = <<n, i, Content[n][i]>>
          BY <3>2, <4>1
        <5>2. base[t] \in Nat
          BY <1>2
        <5>3. i \in 1..Len(Content[n])
          BY <1>3, <3>1, <5>1, <5>2
        <5> QED BY <5>1, <5>3
      <4>2. links' \subseteq links \cup Batch(t)
        BY <2>4
      <4> QED BY <4>1, <4>2 DEF Links, Exact
    <3>4. links \subseteq links'
      BY <2>4
    <3>5. Complete'
      BY <1>0, <2>2, <3>4 DEF Links, Complete
    <3>6. ASSUME mine[t], n \notin lapsed, NEW i \in 1..at[t]
          PROVE  <<n, i, Content[n][i]>> \in links'
      <4>1. CASE i \in 1..base[t]
        BY <2>1, <3>4, <3>6, <4>1 DEF Links, Recorded
      <4>2. CASE \E k \in LinksOf(n) : k[2] = i
        <5>1. PICK k \in links : k[1] = n /\ k[2] = i
          BY <4>2 DEF LinksOf
        <5>2. k = <<n, i, Content[n][i]>>
          BY <1>2, <5>1, SMTT(20) DEF Links, Exact
        <5> QED BY <3>4, <5>1, <5>2
      <4>3. CASE i \in base[t] + 1..at[t] /\ ~\E k \in LinksOf(n) : k[2] = i
        BY <2>4, <3>2, <4>3
      <4>4. i \in 1..base[t] \/ i \in base[t] + 1..at[t]
        BY <1>2, <3>1
      <4> QED BY <4>1, <4>2, <4>3, <4>4
    <3>7. Recorded'
      <4> SUFFICES ASSUME NEW u \in Tasks, Chunker(u, pc[u])'
                   PROVE  /\ body'[u] = Content[nar'[u]]
                          /\ pc'[u] = "mark" => base'[u] = Len(body'[u])
                          /\ mine'[u] /\ nar'[u] \notin lapsed' => \A i \in 1..base'[u] :
                                <<nar'[u], i, Content[nar'[u]][i]>> \in links'
        BY DEF Recorded
      <4>1. Chunker(u, pc[u])
        BY <1>1, <2>4 DEF Chunker, Kind
      <4>2. CASE u = t
        BY <1>0, <1>2, <1>14, <2>2, <2>4, <3>1, <3>6, <4>2 DEF RecordChunkBatch
      <4>3. CASE u # t
        BY <1>0, <1>2, <2>2, <2>4, <3>4, <4>1, <4>3 DEF Links, Recorded
      <4> QED BY <4>2, <4>3
    <3> QED BY <3>3, <3>5, <3>7 DEF Links
  <2> QED BY <1>14, <2>3, <2>4 DEF RecordChunkBatch
<1>15. ASSUME NEW t \in Tasks, MarkComplete(t) PROVE Links'
  <2> DEFINE n == nar[t]
  <2>1. Call(t) /\ pc[t] # "open" /\ Chunker(t, pc[t]) /\ pc[t] = "mark"
    BY <1>1, <1>15 DEF MarkComplete, Call, Store, Chunker, Role, Fits
  <2>2. UNCHANGED <<links, nar, body, base, mine>>
    BY <1>15 DEF MarkComplete, chunker, scan
  <2>3. CASE UNCHANGED total
    BY <1>4, <1>6, <2>1, <2>2, <2>3
  <2>4. CASE mine[t] /\ total' = [total EXCEPT ![n] = base[t]]
    <3>1. /\ base[t] = Len(Content[n]) /\ n \in Nars
          /\ n \notin lapsed => \A i \in 1..base[t] : <<n, i, Content[n][i]>> \in links
      BY <1>2, <2>1, <2>4 DEF Links, Recorded
    <3>2. Complete'
      BY <1>0, <1>2, <2>2, <2>4, <3>1 DEF Links, Complete
    <3>3. Exact'
      BY <2>2 DEF Links, Exact
    <3>4. Recorded /\ (\A u \in Tasks : Chunker(u, pc[u])' => ~FindOrCreate(u))
          /\ \A u \in Tasks : Chunker(u, pc[u]) /\ Chunker(u, pc[u])' =>
              /\ Still(u)
              /\ mine'[u] /\ nar[u] \notin lapsed' =>
                    \A i \in 1..base[u] : <<nar[u], i, Content[nar[u]][i]>> \in links
                                => <<nar[u], i, Content[nar[u]][i]>> \in links'
      BY <1>6, <2>1, <2>2 DEF Links, Still
    <3>5. Recorded'
      BY <3>4, RecordedNext
    <3> QED BY <3>2, <3>3, <3>5 DEF Links
  <2> QED BY <1>15, <2>3, <2>4 DEF MarkComplete
(* Steps of others under the lock of a NAR leave its chunkers alone.       *)
<1>16. ASSUME NEW a \in Agents, Refreshed(a), NEW t \in Tasks, t # a, Chunker(t, pc[t])
       PROVE  nar[t] # nar[a] \/ nar[t] \in lapsed
  BY <1>1, <1>16, ChunkerKeeps, Alone
<1>17. ASSUME NEW t \in Tasks, FindOrCreate(t) PROVE Links'
  <2> DEFINE n == nar[t]
  <2>1. Refreshed(t) /\ n \in Nars /\ ~Chunker(t, pc[t])
    BY <1>1, <1>2, <1>17 DEF FindOrCreate, Refreshed, Role, Fits, Ended, Chunker
  <2>2. \A u \in Tasks \ {t} : pc'[u] = pc[u]
    BY <1>2, <1>17 DEF FindOrCreate, Go
  <2>3. \A u \in Tasks \ {t} : Chunker(u, pc[u])' => ~FindOrCreate(u)
    BY <2>2 DEF FindOrCreate, Chunker
  <2>4. CASE UNCHANGED <<tables, mine, chunker>> /\ (pc'[t] \in {"tidy", "finish", "release"})
    <3>1. UNCHANGED <<links, total, nar, body, base, mine>>
      BY <1>17, <2>4 DEF tables, chunker, FindOrCreate, scan
    <3>2. ~Chunker(t, pc[t])'
      BY <2>4 DEF Chunker
    <3> QED BY <1>4, <2>3, <3>1, <3>2
  <2>5. CASE /\ total[n] = 0 /\ UNCHANGED total
             /\ links' = IF n \in started THEN links \ LinksOf(n) ELSE links
             /\ \E b \in Bodies(n) : body' = [body EXCEPT ![t] = b]
             /\ base' = [base EXCEPT ![t] = 0] /\ mine' = [mine EXCEPT ![t] = TRUE]
             /\ pc'[t] \in {"chunk", "reclaim"}
    <3>1. body' = [body EXCEPT ![t] = Content[n]]
      BY <2>5 DEF Sound, Bodies
    <3>2. UNCHANGED nar
      BY <1>17 DEF FindOrCreate, scan
    <3>3. Exact'
      BY <2>5 DEF Links, Exact
    <3>4. Complete'
      BY <1>0, <2>5 DEF Links, Complete, LinksOf
    <3>5. Recorded'
      <4> SUFFICES ASSUME NEW u \in Tasks, Chunker(u, pc[u])'
                   PROVE  /\ body'[u] = Content[nar'[u]]
                          /\ pc'[u] = "mark" => base'[u] = Len(body'[u])
                          /\ mine'[u] /\ nar'[u] \notin lapsed' => \A i \in 1..base'[u] :
                                <<nar'[u], i, Content[nar'[u]][i]>> \in links'
        BY DEF Recorded
      <4>1. CASE u = t
        BY <1>2, <2>5, <3>1, <3>2, <4>1
      <4>2. CASE u # t
        <5>1. Chunker(u, pc[u]) /\ pc'[u] = pc[u]
          BY <1>1, <2>2, <4>2 DEF Chunker, Kind
        <5>2. nar[u] # n \/ nar[u] \in lapsed
          BY <1>16, <2>1, <4>2, <5>1
        <5>3. body'[u] = body[u] /\ base'[u] = base[u] /\ mine'[u] = mine[u]
          BY <1>2, <2>5, <3>1, <4>2
        <5>4. nar[u] \notin lapsed =>
                \A i \in 1..base[u] : <<nar[u], i, Content[nar[u]][i]>> \in links
                   => <<nar[u], i, Content[nar[u]][i]>> \in links'
          BY <2>5, <5>2 DEF LinksOf
        <5> QED BY <1>0, <3>2, <5>1, <5>3, <5>4 DEF Links, Recorded
      <4> QED BY <4>1, <4>2
    <3> QED BY <3>3, <3>4, <3>5 DEF Links
  <2> QED BY <1>2, <1>17, <2>4, <2>5 DEF FindOrCreate, ClearStale, Go, AfterChunks
<1>18. ASSUME NEW t \in Tasks, Flip(t) PROVE Links'
  <2> DEFINE n == nar[t]
  <2>1. Call(t) /\ pc[t] # "open" /\ Refreshed(t) /\ ~Chunker(t, pc[t]) /\ n \in Nars
    BY <1>1, <1>2, <1>18 DEF Flip, Call, Dechunk, Refreshed, Role, Fits, Ended, Chunker
  <2>2. UNCHANGED <<nar, body, base, mine>>
    BY <1>18 DEF Flip, chunker, scan
  <2>3. CASE UNCHANGED <<links, total>>
    BY <1>4, <1>6, <2>1, <2>2, <2>3
  <2>4. CASE links' = links \ LinksOf(n) /\ total' = [total EXCEPT ![n] = 0]
    <3>1. links' = {l \in links : l[1] \notin {n}} /\ {n} \in SUBSET Nars
      BY <2>1, <2>4 DEF LinksOf
    <3>2. /\ \A m \in Nars : total'[m] = total[m] \/ total'[m] = 0
          /\ \A m \in {n} : total'[m] = 0
      BY <1>2, <2>1, <2>4
    <3>3. \A u \in Tasks : Chunker(u, pc[u]) => Still(u) /\ (nar[u] \notin {n} \/ nar[u] \in lapsed)
      BY <1>16, <2>1, <2>2 DEF Still
    <3> QED BY <1>6, <2>1, <3>1, <3>2, <3>3, LinksGo
  <2> QED BY <1>18, <2>3, <2>4 DEF Flip
<1>19. CASE SweepClear
  <2> DEFINE n == nar[Sweeper]
  <2>1. Recovery /\ Refreshed(Sweeper) /\ n \in Nars
    BY <1>2, <1>19 DEF SweepClear, Recovery, Refreshed
  <2>2. UNCHANGED <<nar, body, base, mine, total>>
    BY <1>19 DEF SweepClear, chunker
  <2>3. CASE UNCHANGED links
    BY <1>4, <1>7, <2>1, <2>2, <2>3
  <2>4. CASE n \in started /\ links' = links \ LinksOf(n)
    <3>1. links' = {l \in links : l[1] \notin {n}} /\ {n} \in SUBSET Nars
      BY <2>1, <2>4 DEF LinksOf
    <3>2. /\ \A m \in Nars : total'[m] = total[m] \/ total'[m] = 0
          /\ \A m \in {n} : total'[m] = 0
      BY <2>2, <2>4 DEF Fresh
    <3>3. \A u \in Tasks : Chunker(u, pc[u]) => Still(u) /\ (nar[u] \notin {n} \/ nar[u] \in lapsed)
      BY <1>16, <2>1, <2>2 DEF Still
    <3> QED BY <1>7, <2>1, <3>1, <3>2, <3>3, LinksGo
  <2> QED BY <1>19, <2>3, <2>4 DEF SweepClear, ClearStale
<1>20. ASSUME NEW R, DeleteRows(R), UNCHANGED <<nar, body, base>>,
              \A t \in Tasks : Chunker(t, pc[t])' => ~FindOrCreate(t)
       PROVE  Links'
  <2>1. PICK N \in SUBSET Nars :
             /\ links' = {l \in links : l[1] \notin N}
             /\ total' = [n \in Nars |-> IF n \in N THEN 0 ELSE total[n]]
             /\ mine' = [a \in Agents |-> mine[a] /\ nar[a] \notin N]
    BY <1>1, <1>20, RowsGo
  <2>2. /\ \A m \in Nars : total'[m] = total[m] \/ total'[m] = 0
        /\ \A m \in N : total'[m] = 0
    BY <2>1
  <2>3. \A u \in Tasks : Still(u) /\ (nar[u] \notin N \/ ~mine'[u])
    BY <1>20, <2>1 DEF Still
  <2> QED BY <1>20, <2>1, <2>2, <2>3, LinksGo
<1>21. ASSUME NEW t \in Tasks, Purge(t) PROVE Links'
  <2>1. Call(t) /\ pc[t] # "open" /\ UNCHANGED <<nar, body, base>>
    BY <1>21 DEF Purge, Call, Dechunk, chunker
  <2>2. CASE UNCHANGED <<links, total, mine>>
    BY <1>4, <1>6, <2>1, <2>2
  <2> QED BY <1>6, <1>20, <1>21, <2>1, <2>2 DEF Purge
<1>22. CASE SweepDelete \/ RunLRU
  <2>1. (Recovery \/ LRU) /\ UNCHANGED <<nar, body, base>>
    BY <1>22 DEF SweepDelete, RunLRU, Recovery, Collect, LRU, chunker
  <2>2. CASE UNCHANGED <<links, total, mine>>
    BY <1>4, <1>7, <2>1, <2>2
  <2> QED BY <1>7, <1>20, <1>22, <2>1, <2>2 DEF SweepDelete, RunLRU
<1>23. CASE UNCHANGED vars
  <2>1. UNCHANGED <<links, total, nar, body, base, mine, pc>>
    BY <1>23 DEF vars, tables, chunker, scan
  <2> QED BY <1>4, <1>5, <2>1, AgentFacts
<1> QED
  BY <1>8, <1>9, <1>10, <1>11, <1>12, <1>13, <1>14, <1>15, <1>17, <1>18, <1>19, <1>21, <1>22, <1>23
     DEF Next, Work, LosesLock, Recovery, Collect, LRU, Call, Store, Migrate, Dechunk, Read, Clean,
         Quiet, Cleaning

-----------------------------------------------------------------------------
(* The inductive invariant holds of every behaviour of the specification.  *)
THEOREM Safe == Spec => []IInv
<1>1. Init => IInv
  BY LockInit, LinksInit DEF IInv
<1>2. IInv /\ [Next]_vars => IInv'
  <2> SUFFICES ASSUME IInv, [Next]_vars PROVE IInv'
    OBVIOUS
  <2>1. LockInv /\ Fresh /\ (Sound => Links) /\ CoreType /\ Role
    BY DEF IInv, LockInv
  <2>2. LockInv'
    BY <2>1, CoreNext, RoleNext, HoldsNext DEF LockInv
  <2>3. Fresh'
    BY <2>1, FreshNext
  <2>4. Sound' => Sound
    BY ScenarioStays DEF Sound
  <2>5. Sound' => Links'
    BY <2>1, <2>4, LinksNext
  <2> QED BY <2>2, <2>3, <2>5 DEF IInv
<1> QED BY <1>1, <1>2, PTL DEF Spec

(* A call that chunks, de-chunks or cleans up under a refreshed migration  *)
(* lock, and the recovery, hold that lock as long as no lock on the NAR    *)
(* has run out under its holder: until then no two of them work on one NAR *)
(* at a time, whatever dies or fails (withNarMigrationLock,                *)
(* StartRefresher, recoverStaleCDCChunkingLock).                           *)
THEOREM LocksAreHeld == Spec => []HoldsLock
<1>1. IInv => HoldsLock
  BY DEF IInv, LockInv
<1> QED BY <1>1, Safe, PTL

(* Exact and complete links are the chunks of the NAR.                     *)
LEMMA WholeLinks == IInv => CompleteMeansWhole
<1> SUFFICES ASSUME IInv, Sound, NEW n \in Nars \ lapsed, total[n] > 0
             PROVE  LinksOf(n) = Whole(n) /\ total[n] = Len(Content[n])
  BY DEF CompleteMeansWhole
<1>1. Exact /\ Complete /\ links \subseteq Nars \X (Nat \ {0}) \X Chunks
  BY DEF IInv, LockInv, CoreType, Links
<1>2. Whole(n) \subseteq LinksOf(n) /\ total[n] = Len(Content[n])
  BY <1>1 DEF Complete, Whole, LinksOf
<1>3. LinksOf(n) \subseteq Whole(n)
  BY <1>1 DEF Exact, Whole, LinksOf
<1> QED BY <1>2, <1>3

(* For any NARs, chunks, calls, batch sizes and interleavings, with        *)
(* failures, crashes and locks that run out: a row that is marked complete *)
(* is linked to exactly the chunks of its NAR, unless its own lock has run *)
(* out under an attempt (CompleteMeansWhole).                              *)
THEOREM CompleteIsWhole == Spec => []CompleteMeansWhole
BY WholeLinks, Safe, PTL

-----------------------------------------------------------------------------
(* Whose chunks are there.  Nothing is removed on purpose ...              *)
Tame == /\ Sound /\ ~scenario.lru
        /\ \A t \in Tasks : Kind(t) # "purge"

(* ... and these are the chunks of a NAR.                                  *)
Parts(n) == {Content[n][i] : i \in 1..Len(Content[n])}

CleanType == todo \in [Agents -> SUBSET Chunks] /\ dead \in [Agents -> SUBSET Chunks]

(* Only NARs that are worked on are chunked, and the eviction sleeps.      *)
Worked == /\ \A t \in Tasks : nar[t] = scenario.nar[t]
          /\ \A n \in started : Busy(n)
          /\ Tame => pc[Evictor] = "idle"

(* The steps of cleanupStaleLockChunks.                                    *)
Cleaner(s) == s \in {"reclaim", "dropRow", "dropObject"}

(* A clean-up is of chunks of its NAR, before anything is chunked again;   *)
(* what it deletes, no NAR that nobody works on is linked to.              *)
Tidied(a) ==
    Cleaner(pc[a]) =>
        /\ Refreshed(a) /\ Busy(nar[a]) /\ todo[a] \subseteq Parts(nar[a])
        /\ nar[a] \notin lapsed => total[nar[a]] = 0
        /\ a \in Tasks /\ Chunker(a, pc[a]) => at[a] = 0
        /\ pc[a] = "dropObject" =>
              /\ dead[a] \subseteq Parts(nar[a])
              /\ \A l \in links : l[3] \in dead[a] => Busy(l[1])
Tidying == \A a \in Agents : Tidied(a)

(* What a chunker has put is in the store, ...                             *)
Present ==
    \A t \in Tasks : Kept(nar[t]) /\ Chunker(t, pc[t]) =>
        \A i \in 1..at[t] : Content[nar[t]][i] \in objects

(* ... and so are the chunks of a complete NAR.                            *)
Stored == \A n \in Nars : Kept(n) /\ total[n] > 0 => Parts(n) \subseteq objects

BackInv == Worked /\ (Tame => CleanType /\ Tidying /\ Present /\ Stored)

(* At first nobody cleans up, and the chunks of chunked NARs are there.    *)
LEMMA BackInit == Init => BackInv
<1> SUFFICES ASSUME Init PROVE BackInv
  OBVIOUS
<1> USE AgentFacts
<1>1. \A a \in Agents : pc[a] = "idle"
  BY DEF Init
<1>2. Worked
  BY <1>1 DEF Init, Worked
<1>3. CleanType
  BY DEF Init, CleanType
<1>4. Tidying
  BY <1>1 DEF Tidying, Tidied, Cleaner
<1>5. Present
  BY <1>1 DEF Present, Chunker
<1>6. Stored
  <2> SUFFICES ASSUME NEW n \in Nars, total[n] > 0, NEW i \in 1..Len(Content[n])
               PROVE  Content[n][i] \in objects
    BY DEF Stored, Parts
  <2>1. n \in Found(scenario, "chunked")
    BY DEF Init
  <2>2. <<n, i, Content[n][i]>> \in links
    BY <2>1 DEF Init, Whole
  <2> QED BY <2>2 DEF Init
<1> QED BY <1>2, <1>3, <1>4, <1>5, <1>6 DEF BackInv

(* Only a call that opens its row starts a chunking.                       *)
LEMMA StartsOwn ==
    ASSUME CoreType, [Next]_vars
    PROVE  /\ \A t \in Tasks : nar'[t] = nar[t]
           /\ started' \subseteq started \/ \E t \in Tasks : started' = started \cup {nar[t]}
<1> USE AgentFacts
<1>0. nar \in [Agents -> Nars]
  BY DEF CoreType
<1> DEFINE Own == /\ \A t \in Tasks : nar'[t] = nar[t]
                  /\ started' \subseteq started \/ \E t \in Tasks : started' = started \cup {nar[t]}
<1> SUFFICES Own
  OBVIOUS
<1>1. ASSUME NEW R, DeleteRows(R) PROVE started' \subseteq started
  BY <1>1 DEF DeleteRows
<1>2. ASSUME NEW t \in Tasks, Quiet(t) PROVE Own
  BY <1>2, QuietSteps DEF core
<1>3. ASSUME NEW a \in Agents, Cleaning(a) PROVE Own
  BY <1>3, CleaningSteps DEF core
<1>4. CASE SweepScan \/ SweepRow \/ SweepQuery \/ SweepEnd \/ DeleteFromStores
  BY <1>4, JobSteps DEF core
<1>5. ASSUME NEW t \in Tasks, FindOrCreate(t) PROVE Own
  BY <1>5 DEF FindOrCreate, tables, scan
<1>6. ASSUME NEW t \in Tasks, \/ Begin(t) \/ PutChunk(t) \/ RecordChunkBatch(t) \/ ReadError(t)
                              \/ Abort(t) \/ ReadInit(t) \/ Probe(t)
      PROVE  Own
  BY <1>6 DEF Begin, PutChunk, RecordChunkBatch, ReadError, Abort, ReadInit, Probe, tables, scan
<1>7. ASSUME NEW t \in Tasks, MarkComplete(t) \/ Flip(t) PROVE Own
  BY <1>7 DEF MarkComplete, Flip, scan
<1>8. ASSUME NEW a \in Agents, Release(a) PROVE Own
  BY <1>8 DEF Release, tables, scan
<1>9. ASSUME NEW t \in Tasks, Purge(t) PROVE Own
  BY <1>1, <1>9 DEF Purge
<1>10. CASE SweepLock
  BY <1>0, <1>10 DEF SweepLock, tables
<1>11. CASE SweepClear
  BY <1>11 DEF SweepClear
<1>12. CASE SweepDelete \/ RunLRU
  BY <1>1, <1>12 DEF SweepDelete, RunLRU
<1>13. ASSUME NEW n \in Nars, LosesLock(n) PROVE Own
  BY <1>13 DEF LosesLock, ExpireLock, LapseLock, tables, scan
<1>14. CASE UNCHANGED vars
  BY <1>14 DEF vars, tables, scan
<1> HIDE DEF Own
<1> QED
  BY <1>2, <1>3, <1>4, <1>5, <1>6, <1>7, <1>8, <1>9, <1>10, <1>11, <1>12, <1>13, <1>14
     DEF Next, Work, LosesLock, Recovery, Collect, LRU, Call, Store, Migrate, Dechunk, Read, Clean,
         Quiet, Cleaning

(* ... so only NARs that are worked on are.                                 *)
LEMMA WorkedNext ==
    ASSUME CoreType, Role, Worked, [Next]_vars PROVE Worked'
<1>1. UNCHANGED scenario /\ nar \in [Agents -> Nars] /\ pc \in [Agents -> Steps \cup Ended]
  BY ScenarioStays DEF CoreType
<1>2. (\A t \in Tasks : nar[t] = scenario.nar[t])'
  BY <1>1, StartsOwn DEF Worked
<1>3. (\A n \in started : Busy(n))'
  <2>1. \A t \in Tasks : Busy(nar[t])
    BY DEF Worked, Busy
  <2>2. started' \subseteq started \/ \E t \in Tasks : started' = started \cup {nar[t]}
    BY StartsOwn
  <2>3. \A n \in started' : Busy(n)
    BY <2>1, <2>2 DEF Worked
  <2> QED BY <1>1, <2>3 DEF Busy
<1>4. ASSUME Tame PROVE pc'[Evictor] = "idle"
  <2>1. pc[Evictor] = "idle"
    BY <1>4 DEF Worked
  <2>2. ~LRU
    BY <1>4, <2>1 DEF Tame, LRU, RunLRU, DeleteFromStores
  <2>3. ASSUME NEW t \in Tasks, Call(t) \/ Crash(t) PROVE pc'[Evictor] = pc[Evictor]
    BY <2>3, TaskMoves, AgentFacts DEF Moves
  <2>4. CASE Recovery
    <3>1. CASE SweepScan \/ SweepLock \/ SweepClear \/ Collect \/ SweepEnd
      BY <1>1, <2>1, <3>1, AgentFacts
         DEF SweepScan, SweepLock, SweepClear, Collect, SweepRow, SweepQuery, SweepDelete,
             SweepEnd, Go
    <3>2. CASE Clean(Sweeper)
      BY <1>1, <2>1, <3>2, AgentFacts
         DEF Clean, Reclaim, DropRow, DropObject, Reclaimed, Release, Go
    <3> QED BY <2>4, <3>1, <3>2 DEF Recovery
  <2>5. ASSUME NEW n \in Nars, LosesLock(n) PROVE UNCHANGED pc
    BY <2>5 DEF LosesLock, ExpireLock, LapseLock
  <2>6. CASE UNCHANGED vars
    BY <2>1, <2>6 DEF vars
  <2> QED BY <2>1, <2>2, <2>3, <2>4, <2>5, <2>6 DEF Next, Work, LosesLock
<1>5. (Tame => pc[Evictor] = "idle")'
  BY <1>1, <1>4 DEF Tame, Sound, Kind
<1> QED BY <1>2, <1>3, <1>5 DEF Worked
(* Links are only lost by whole NARs.                                      *)
Whittled == /\ links' \subseteq links
            /\ \A k \in links, l \in links' : k[1] = l[1] => k \in links'

(* What each step may do to the tables and the chunk store: only the end   *)
(* of a chunking completes a row, only a chunker links, and only a         *)
(* clean-up or the eviction deletes objects.                               *)
Effects ==
    /\ (\A n \in Nars : total'[n] \in {total[n], 0}) \/ \E t \in Tasks : MarkComplete(t)
    /\ Whittled \/ \E t \in Tasks : RecordChunkBatch(t)
    /\ objects \subseteq objects' \/ DeleteFromStores \/ \E a \in Agents : DropObject(a)

LEMMA EffectsNext ==
    ASSUME CoreType, [Next]_vars PROVE Effects
<1> USE AgentFacts
<1>0. total \in [Nars -> Nat] /\ nar \in [Agents -> Nars]
  BY DEF CoreType
<1> DEFINE Less == /\ \A n \in Nars : total'[n] \in {total[n], 0}
                   /\ Whittled
<1>1. ASSUME NEW R, DeleteRows(R) PROVE Less
  BY <1>1 DEF DeleteRows, Whittled
<1>2. ASSUME NEW t \in Tasks, Quiet(t) PROVE Effects
  <2>1. Less
    BY <1>2, QuietSteps DEF core, Whittled
  <2>2. UNCHANGED objects
    BY <1>2 DEF Quiet, Check, EndOfBody, Relink, Tidy, Unlink, FixNarInfos, Look, Route,
       GetNarFromStore, ListChunks, Fetch, Poll, PollRow, PutWhole, DeletedCleanup, Expire,
       ExpireRow, ExpireFile, Crash, stores
  <2> QED BY <2>1, <2>2 DEF Effects
<1>3. ASSUME NEW a \in Agents, Cleaning(a) PROVE Effects
  <2>1. Less
    BY <1>3, CleaningSteps DEF core, Whittled
  <2>2. UNCHANGED objects \/ DropObject(a)
    BY <1>3 DEF Cleaning, Reclaim, DropRow, Reclaimed, stores
  <2> QED BY <2>1, <2>2 DEF Effects
<1>4. CASE SweepScan \/ SweepRow \/ SweepQuery \/ SweepEnd \/ DeleteFromStores
  <2>1. Less
    BY <1>4, JobSteps DEF core, Whittled
  <2>2. UNCHANGED objects \/ DeleteFromStores
    BY <1>4 DEF SweepScan, SweepRow, SweepQuery, SweepEnd, stores
  <2> QED BY <2>1, <2>2 DEF Effects
<1>5. ASSUME NEW t \in Tasks, FindOrCreate(t) \/ Flip(t) PROVE Effects
  <2>1. Less
    BY <1>0, <1>5 DEF FindOrCreate, Flip, ClearStale, LinksOf, tables, Whittled
  <2>2. UNCHANGED objects
    BY <1>5 DEF FindOrCreate, Flip, stores
  <2> QED BY <2>1, <2>2 DEF Effects
<1>6. ASSUME NEW t \in Tasks, \/ Begin(t) \/ PutChunk(t) \/ ReadError(t) \/ Abort(t)
                              \/ ReadInit(t) \/ Probe(t)
      PROVE  Effects
  <2>1. UNCHANGED <<total, links>> /\ objects \subseteq objects'
    BY <1>6 DEF Begin, PutChunk, ReadError, Abort, ReadInit, Probe, tables, stores
  <2> QED BY <2>1 DEF Effects, Whittled
<1>7. ASSUME NEW t \in Tasks, MarkComplete(t) PROVE Effects
  BY <1>7 DEF Effects, Whittled, MarkComplete, stores
<1>8. ASSUME NEW t \in Tasks, RecordChunkBatch(t) PROVE Effects
  BY <1>8 DEF Effects, RecordChunkBatch, stores
<1>9. ASSUME NEW a \in Agents, Release(a) PROVE Effects
  BY <1>9 DEF Effects, Whittled, Release, tables, stores
<1>10. ASSUME NEW t \in Tasks, Purge(t) PROVE Effects
  BY <1>1, <1>10 DEF Effects, Whittled, Purge, stores
<1>11. CASE SweepLock
  BY <1>11 DEF Effects, Whittled, SweepLock, tables, stores
<1>12. CASE SweepClear
  BY <1>12 DEF Effects, Whittled, SweepClear, ClearStale, LinksOf, stores
<1>13. CASE SweepDelete \/ RunLRU
  BY <1>1, <1>13 DEF Effects, Whittled, SweepDelete, RunLRU, stores
<1>14. ASSUME NEW n \in Nars, LosesLock(n) PROVE Effects
  BY <1>14 DEF Effects, Whittled, LosesLock, ExpireLock, LapseLock, tables, stores
<1>15. CASE UNCHANGED vars
  BY <1>15 DEF Effects, Whittled, vars, tables, stores
<1> QED
  BY <1>2, <1>3, <1>4, <1>5, <1>6, <1>7, <1>8, <1>9, <1>10, <1>11, <1>12, <1>13, <1>14, <1>15
     DEF Next, Work, LosesLock, Recovery, Collect, LRU, Call, Store, Migrate, Dechunk, Read, Clean,
         Quiet, Cleaning

(* What a step is to an agent that does not take it, and to one that does: *)
(* it comes to a clean-up by opening its row, de-chunking or recovering    *)
(* it, and puts chunks by PutChunk.                                        *)
Same(a) == /\ pc'[a] = pc[a] /\ nar'[a] = nar[a] /\ at'[a] = at[a]
           /\ todo'[a] \subseteq todo[a] /\ dead'[a] = dead[a]
Acts(a) ==
    \/ Same(a) \/ Cleaning(a)
    \/ a \in Tasks /\ (FindOrCreate(a) \/ Flip(a) \/ PutChunk(a))
    \/ a = Sweeper /\ SweepClear
    \/ ~Cleaner(pc'[a]) /\ at'[a] = at[a]

LEMMA ActsNext ==
    ASSUME CoreType, Role, CleanType, Tame, Worked, [Next]_vars
    PROVE  CleanType' /\ \A a \in Agents : Acts(a)
<1> USE AgentFacts
<1>0. /\ pc \in [Agents -> Steps \cup Ended] /\ nar \in [Agents -> Nars] /\ at \in [Agents -> Nat]
      /\ todo \in [Agents -> SUBSET Chunks] /\ dead \in [Agents -> SUBSET Chunks]
      /\ links \subseteq Nars \X (Nat \ {0}) \X Chunks
  BY DEF CoreType, CleanType
<1> DEFINE Goal == CleanType' /\ \A a \in Agents : Acts(a)
<1> SUFFICES Goal
  OBVIOUS
<1>1. \A n : ChunksOf(n) \subseteq Chunks
  BY <1>0 DEF ChunksOf, LinksOf
(* A step of b that changes nothing of the clean-ups.                      *)
<1> DEFINE Moved(b) == ~Cleaner(pc'[b]) /\ \A a \in Agents \ {b} : pc'[a] = pc[a]
<1>2. ASSUME NEW b \in Agents, Moved(b), UNCHANGED <<nar, at, todo, dead>> PROVE Goal
  <2>1. \A a \in Agents \ {b} : Same(a)
    BY <1>2 DEF Same
  <2>2. Acts(b)
    BY <1>2 DEF Acts
  <2>3. CleanType'
    BY <1>2 DEF CleanType
  <2> QED BY <2>1, <2>2, <2>3 DEF Acts
<1>3. ASSUME UNCHANGED <<pc, nar, at, todo, dead>> PROVE Goal
  BY <1>3 DEF CleanType, Acts, Same
<1>4. ASSUME NEW t \in Tasks, Check(t) \/ EndOfBody(t) \/ Relink(t) \/ Tidy(t) \/ Unlink(t)
                              \/ FixNarInfos(t) \/ Abort(t) \/ MarkComplete(t)
      PROVE  Goal
  <2>1. UNCHANGED <<nar, at, todo, dead>>
    BY <1>4 DEF Check, EndOfBody, Relink, Tidy, Unlink, FixNarInfos, Abort, MarkComplete, chunker,
       cleanup, scan
  <2>2. Moved(t)
    BY <1>0, <1>4 DEF Check, EndOfBody, Relink, Tidy, Unlink, FixNarInfos, Abort, MarkComplete, Go,
       AfterChunks, Cleaner
  <2> QED BY <1>2, <2>1, <2>2
<1>5. ASSUME NEW t \in Tasks, Look(t) \/ Route(t) \/ GetNarFromStore(t) \/ ReadInit(t)
                              \/ ListChunks(t) \/ Poll(t) \/ PollRow(t) \/ PutWhole(t)
      PROVE  Goal
  <2>1. UNCHANGED <<nar, at, todo, dead>>
    BY <1>5 DEF Look, Route, GetNarFromStore, ReadInit, ListChunks, Poll, PollRow, PutWhole,
       chunker, cleanup, scan
  <2>2. Moved(t)
    BY <1>0, <1>5 DEF Look, Route, GetNarFromStore, ReadInit, ListChunks, Poll, PollRow, PutWhole,
        Go,
       ReadFails, ReadEnds, Cleaner
  <2> QED BY <1>2, <2>1, <2>2
<1>6. ASSUME NEW t \in Tasks, Fetch(t) \/ DeletedCleanup(t) \/ Crash(t) \/ Begin(t) PROVE Goal
  <2>1. UNCHANGED <<nar, at, todo, dead>>
    BY <1>6 DEF Fetch, DeletedCleanup, Expire, ExpireRow, ExpireFile, Crash, Begin, chunker,
       cleanup, scan
  <2>2. UNCHANGED pc \/ Moved(t)
    BY <1>0, <1>6 DEF Fetch, DeletedCleanup, Expire, ExpireRow, ExpireFile, Crash, Begin, TryLock,
       FirstStep, Go, ReadFails, ReadEnds, Cleaner
  <2> QED BY <1>2, <1>3, <2>1, <2>2
<1>7. ASSUME NEW t \in Tasks, RecordChunkBatch(t) \/ ReadError(t) PROVE Goal
  <2>1. UNCHANGED <<nar, at, todo, dead>>
    BY <1>7 DEF RecordChunkBatch, ReadError, cleanup, scan
  <2>2. UNCHANGED pc \/ Moved(t)
    BY <1>0, <1>7 DEF RecordChunkBatch, ReadError, Go, Cleaner
  <2> QED BY <1>2, <1>3, <2>1, <2>2
<1>8. ASSUME NEW a \in Agents, Release(a) PROVE Goal
  <2>1. UNCHANGED <<nar, at, todo, dead>>
    BY <1>8 DEF Release, chunker, cleanup, scan
  <2>2. Moved(a)
    BY <1>0, <1>8 DEF Release, Go, Cleaner
  <2> QED BY <1>2, <2>1, <2>2
<1>9. ASSUME NEW t \in Tasks, PutChunk(t) PROVE Goal
  <2>1. \A a \in Agents \ {t} : Same(a)
    BY <1>0, <1>9 DEF PutChunk, Same, Go, cleanup, scan
  <2>2. CleanType'
    BY <1>9 DEF CleanType, PutChunk, cleanup
  <2> QED BY <1>9, <2>1, <2>2 DEF Acts
<1>10. ASSUME NEW t \in Tasks, FindOrCreate(t) PROVE Goal
  <2>1. \A a \in Agents \ {t} : Same(a)
    BY <1>0, <1>10 DEF FindOrCreate, ClearStale, Same, Go, chunker, scan
  <2>2. CleanType'
    BY <1>0, <1>1, <1>10 DEF CleanType, FindOrCreate, ClearStale
  <2> QED BY <1>10, <2>1, <2>2 DEF Acts
<1>11. ASSUME NEW t \in Tasks, Flip(t) PROVE Goal
  <2>1. \A a \in Agents \ {t} : Same(a)
    BY <1>0, <1>11 DEF Flip, Same, Go, chunker, scan
  <2>2. CleanType'
    BY <1>0, <1>1, <1>11 DEF CleanType, Flip
  <2> QED BY <1>11, <2>1, <2>2 DEF Acts
<1>12. ASSUME NEW t \in Tasks, Probe(t) PROVE Goal
  <2>1. UNCHANGED <<nar, at, dead>> /\ todo' = [todo EXCEPT ![t] = {}]
    BY <1>12 DEF Probe, Tame, chunker, scan
  <2>2. Moved(t)
    BY <1>0, <1>12 DEF Probe, Go, Cleaner
  <2>3. \A a \in Agents \ {t} : Same(a)
    BY <1>0, <2>1, <2>2 DEF Same
  <2>4. Acts(t)
    BY <1>0, <2>1, <2>2 DEF Acts
  <2>5. CleanType'
    BY <1>0, <2>1 DEF CleanType
  <2> QED BY <2>3, <2>4, <2>5 DEF Acts
<1>13. ASSUME NEW t \in Tasks, Purge(t) PROVE FALSE
  BY <1>13 DEF Purge, Tame, Role, Fits
<1>14. ASSUME NEW a \in Agents, Cleaning(a) PROVE Goal
  <2>1. \A b \in Agents \ {a} : pc'[b] = pc[b] /\ nar'[b] = nar[b] /\ at'[b] = at[b]
    BY <1>0, <1>14, CleaningSteps DEF core
  <2>2. /\ todo' \in [Agents -> SUBSET Chunks] /\ dead' \in [Agents -> SUBSET Chunks]
        /\ \A b \in Agents \ {a} : todo'[b] \subseteq todo[b] /\ dead'[b] = dead[b]
    <3>1. CASE Reclaim(a)
      BY <1>0, <3>1 DEF Reclaim
    <3>2. CASE DropRow(a)
      BY <1>0, <3>2 DEF DropRow, Forget
    <3>3. CASE DropObject(a) \/ Reclaimed(a)
      BY <1>0, <3>3 DEF DropObject, Reclaimed, cleanup
    <3> QED BY <1>14, <3>1, <3>2, <3>3 DEF Cleaning
  <2>3. \A b \in Agents \ {a} : Same(b)
    BY <2>1, <2>2 DEF Same
  <2> QED BY <1>14, <2>2, <2>3 DEF Acts, CleanType
<1>15. CASE SweepScan \/ Collect \/ SweepEnd
  <2>1. UNCHANGED <<nar, at, todo, dead>>
    BY <1>15 DEF SweepScan, Collect, SweepRow, SweepQuery, SweepDelete, SweepEnd, chunker, cleanup,
       scan
  <2>2. UNCHANGED pc \/ Moved(Sweeper)
    BY <1>0, <1>15 DEF SweepScan, Collect, SweepRow, SweepQuery, SweepDelete, SweepEnd, Go, Cleaner
  <2> QED BY <1>2, <1>3, <2>1, <2>2
<1>16. CASE SweepLock
  <2>1. \A a \in Agents \ {Sweeper} : Same(a)
    BY <1>0, <1>16 DEF SweepLock, Same, Go, chunker, cleanup
  <2>2. CleanType'
    BY <1>16 DEF CleanType, SweepLock, cleanup
  <2>3. Acts(Sweeper)
    <3>1. UNCHANGED at /\ ~Cleaner(pc'[Sweeper])
      BY <1>0, <1>16 DEF SweepLock, Go, chunker, Cleaner
    <3> QED BY <3>1 DEF Acts
  <2> QED BY <2>1, <2>2, <2>3 DEF Acts
<1>17. CASE SweepClear
  <2>1. \A a \in Agents \ {Sweeper} : Same(a)
    BY <1>0, <1>17 DEF SweepClear, ClearStale, Same, Go, chunker
  <2>2. CleanType'
    BY <1>0, <1>1, <1>17 DEF CleanType, SweepClear, ClearStale
  <2> QED BY <1>17, <2>1, <2>2 DEF Acts
<1>18. ASSUME LRU PROVE FALSE
  BY <1>18 DEF LRU, RunLRU, DeleteFromStores, Tame, Worked
<1>19. ASSUME NEW n \in Nars, LosesLock(n) PROVE Goal
  BY <1>3, <1>19 DEF LosesLock, ExpireLock, LapseLock, chunker, cleanup, scan
<1>20. CASE UNCHANGED vars
  BY <1>3, <1>20 DEF vars, chunker, cleanup, scan
<1> HIDE DEF Goal
<1> QED
  BY <1>4, <1>5, <1>6, <1>7, <1>8, <1>9, <1>10, <1>11, <1>12, <1>13, <1>14, <1>15, <1>16, <1>17,
     <1>18, <1>19, <1>20
     DEF Next, Work, Recovery, Call, Store, Migrate, Dechunk, Read, Clean, Cleaning, LosesLock

(* Every step keeps clean-ups, chunkers and complete rows as they are.     *)
LEMMA BackNext ==
    ASSUME IInv, Worked, Tame, CleanType, Tidying, Present, Stored, [Next]_vars
    PROVE  (CleanType /\ Tidying /\ Present /\ Stored)'
<1> USE AgentFacts
<1>1. /\ LockInv /\ CoreType /\ Role /\ HoldsLock /\ Fresh /\ Links /\ Sound
      /\ UNCHANGED scenario /\ Effects /\ CleanType' /\ Worked' /\ LockInv'
  <2>1. LockInv /\ CoreType /\ Role /\ HoldsLock /\ Fresh /\ Links /\ Sound /\ UNCHANGED scenario
    BY ScenarioStays DEF IInv, LockInv, Tame
  <2>2. Effects /\ CleanType' /\ Worked'
    BY <2>1, EffectsNext, ActsNext, WorkedNext
  <2>3. LockInv'
    BY <2>1, CoreNext, RoleNext, HoldsNext DEF LockInv
  <2> QED BY <2>1, <2>2, <2>3
<1>2. /\ pc \in [Agents -> Steps \cup Ended] /\ nar \in [Agents -> Nars] /\ at \in [Agents -> Nat]
      /\ todo \in [Agents -> SUBSET Chunks] /\ dead \in [Agents -> SUBSET Chunks]
      /\ links \subseteq Nars \X (Nat \ {0}) \X Chunks /\ total \in [Nars -> Nat]
      /\ base \in [Agents -> Nat] /\ body \in [Agents -> Seq(Chunks)]
      /\ \A a \in Agents : base[a] <= at[a] /\ at[a] <= Len(body[a])
  BY <1>1 DEF CoreType, CleanType
<1>3. \A a \in Agents : Acts(a)
  BY <1>1, ActsNext
<1>4. \A n \in Nars : ChunksOf(n) \subseteq Parts(n)
  BY <1>1, <1>2 DEF ChunksOf, LinksOf, Parts, Links, Exact
<1>5. \A t \in Tasks : Busy(nar[t]) /\ nar'[t] = nar[t]
  BY <1>1 DEF Worked, Busy
<1>0. lapsed \subseteq lapsed'
  BY LapsedGrows
<1>6. (\A n : Busy(n)' <=> Busy(n)) /\ \A n \in Nars : Kept(n)' => Kept(n)
  BY <1>0, <1>1 DEF Busy, Kept, Sound, Kind, Whole
(* Nobody completes the row of a NAR that is cleaned up.                   *)
<1>7. ASSUME NEW a \in Agents, Cleaner(pc[a]), nar[a] \notin lapsed PROVE total'[nar[a]] = 0
  <2>1. total[nar[a]] = 0 /\ Refreshed(a) /\ nar[a] \in Nars
    BY <1>2, <1>7 DEF Tidying, Tidied
  <2>2. ASSUME NEW t \in Tasks, MarkComplete(t) PROVE total'[nar[a]] = total[nar[a]]
    <3>1. pc[t] = "mark" /\ Chunker(t, pc[t])
      BY <1>1, <2>2 DEF MarkComplete, Chunker, Role, Fits
    <3>2. a # t /\ nar[a] # nar[t]
      BY <1>1, <1>7, <2>1, <3>1, ChunkerKeeps, Alone DEF Cleaner
    <3> QED BY <1>2, <2>1, <2>2, <3>2 DEF MarkComplete
  <2> QED BY <1>1, <2>1, <2>2 DEF Effects
<1>8. \A l \in links' : l \in links \/ Busy(l[1])
  <2>1. ASSUME NEW t \in Tasks, RecordChunkBatch(t), NEW l \in links'
        PROVE  l \in links \/ Busy(l[1])
    BY <1>5, <2>1 DEF RecordChunkBatch, Batch
  <2> QED BY <1>1, <2>1 DEF Effects, Whittled
<1>9. ASSUME NEW a \in Agents PROVE Tidied(a)'
  <2>1. CASE Same(a)
    <3> SUFFICES ASSUME Cleaner(pc[a]) PROVE Tidied(a)'
      BY <2>1 DEF Same, Tidied
    <3>1. Tidied(a)
      BY DEF Tidying
    <3>2. /\ Refreshed(a)' /\ Busy(nar[a])' /\ (nar'[a] \notin lapsed' => total'[nar'[a]] = 0)
          /\ todo'[a] \subseteq Parts(nar'[a])
      BY <1>0, <1>1, <1>6, <1>7, <2>1, <3>1 DEF Tidied, Same, Refreshed, Kind
    <3>3. a \in Tasks /\ Chunker(a, pc[a])' => at'[a] = 0
      BY <1>1, <2>1, <3>1 DEF Tidied, Same, Chunker, Kind
    <3>4. pc'[a] = "dropObject" => /\ dead'[a] \subseteq Parts(nar'[a])
                                   /\ \A l \in links' : l[3] \in dead'[a] => Busy(l[1])'
      BY <1>6, <1>8, <2>1, <3>1 DEF Tidied, Same
    <3> QED BY <3>2, <3>3, <3>4 DEF Tidied
  <2>2. CASE Cleaning(a)
    <3> SUFFICES ASSUME Cleaner(pc[a])' PROVE Tidied(a)'
      BY DEF Tidied
    <3>1. UNCHANGED <<links, nar, at>> /\ Cleaner(pc[a])
      BY <1>1, <2>2, CleaningSteps DEF core, Cleaner
    <3>2. /\ Refreshed(a) /\ Busy(nar[a]) /\ todo[a] \subseteq Parts(nar[a])
          /\ a \in Tasks /\ Chunker(a, pc[a]) => at[a] = 0
      BY <3>1 DEF Tidying, Tidied
    <3>3. Refreshed(a)' /\ Busy(nar[a])' /\ (nar'[a] \notin lapsed' => total'[nar'[a]] = 0)
      BY <1>0, <1>1, <1>6, <1>7, <3>1, <3>2 DEF Refreshed, Kind, Cleaner, Ended
    <3>4. a \in Tasks /\ Chunker(a, pc[a])' => at'[a] = 0
      BY <1>1, <3>1, <3>2 DEF Chunker, Kind, Cleaner
    <3>5. todo'[a] \subseteq todo[a]
      BY <1>2, <2>2 DEF Cleaning, Reclaim, DropRow, DropObject, Reclaimed, Forget, cleanup
    <3>6. ASSUME pc'[a] = "dropObject"
          PROVE  \E c \in todo[a] : dead'[a] = {c} /\ Orphan(c)
      BY <1>2, <2>2, <3>6 DEF Cleaning, Reclaim, DropRow, DropObject, Reclaimed, Go
    <3>7. ASSUME pc'[a] = "dropObject"
          PROVE  /\ dead'[a] \subseteq Parts(nar'[a])
                 /\ \A l \in links' : l[3] \in dead'[a] => Busy(l[1])'
      BY <3>1, <3>2, <3>6, <3>7 DEF Orphan
    <3> QED BY <3>1, <3>2, <3>3, <3>4, <3>5, <3>7 DEF Tidied
  <2>3. CASE a \in Tasks /\ FindOrCreate(a)
    <3> SUFFICES ASSUME Cleaner(pc[a])' PROVE Tidied(a)'
      BY DEF Tidied
    <3>1. /\ total[nar[a]] = 0 /\ pc' = [pc EXCEPT ![a] = "reclaim"] /\ UNCHANGED nar
          /\ at' = [at EXCEPT ![a] = 0] /\ ClearStale(a, nar[a]) /\ UNCHANGED total
          /\ pc[a] = "open"
      BY <1>2, <2>3 DEF FindOrCreate, Go, AfterChunks, Cleaner, scan
    <3>2. Refreshed(a)' /\ Busy(nar[a])' /\ (nar'[a] \notin lapsed' =>
          total'[nar'[a]] = 0) /\ at'[a] = 0
      BY <1>1, <1>2, <1>5, <1>6, <2>3, <3>1 DEF Refreshed, Kind, Role, Fits, Ended
    <3>3. todo'[a] \subseteq Parts(nar'[a])
      BY <1>2, <1>4, <3>1 DEF ClearStale
    <3>4. pc'[a] # "dropObject"
      BY <1>2, <3>1
    <3> QED BY <3>2, <3>3, <3>4 DEF Tidied
  <2>4. CASE a \in Tasks /\ Flip(a)
    <3> SUFFICES ASSUME Cleaner(pc[a])' PROVE Tidied(a)'
      BY DEF Tidied
    <3>1. /\ total' = [total EXCEPT ![nar[a]] = 0] /\ pc' = [pc EXCEPT ![a] = "reclaim"]
          /\ todo' = [todo EXCEPT ![a] = ChunksOf(nar[a])] /\ UNCHANGED nar
          /\ Kind(a) = "dechunk"
      BY <1>1, <1>2, <2>4 DEF Flip, Go, Cleaner, scan, Role, Fits
    <3>2. Refreshed(a)' /\ Busy(nar[a])' /\ (nar'[a] \notin lapsed' =>
          total'[nar'[a]] = 0) /\ ~Chunker(a, pc[a])'
      BY <1>1, <1>2, <1>5, <1>6, <2>4, <3>1 DEF Refreshed, Kind, Chunker, Ended
    <3>3. todo'[a] \subseteq Parts(nar'[a])
      BY <1>2, <1>4, <3>1
    <3>4. pc'[a] # "dropObject"
      BY <1>2, <3>1
    <3> QED BY <3>2, <3>3, <3>4 DEF Tidied
  <2>5. CASE a = Sweeper /\ SweepClear
    <3> SUFFICES ASSUME Cleaner(pc[a])' PROVE Tidied(a)'
      BY DEF Tidied
    <3>1. /\ nar[a] \in started /\ pc' = [pc EXCEPT ![a] = "reclaim"] /\ ClearStale(a, nar[a])
          /\ UNCHANGED <<nar, total>>
      BY <1>2, <2>5 DEF SweepClear, Go, Cleaner
    <3>2. Refreshed(a)' /\ Busy(nar[a])' /\ (nar'[a] \notin lapsed' => total'[nar'[a]] = 0)
      BY <1>1, <1>2, <1>6, <2>5, <3>1 DEF Refreshed, Worked, Fresh
    <3>3. todo'[a] \subseteq Parts(nar'[a])
      BY <1>2, <1>4, <3>1 DEF ClearStale
    <3>4. pc'[a] # "dropObject" /\ a \notin Tasks
      BY <1>2, <2>5, <3>1
    <3> QED BY <3>2, <3>3, <3>4 DEF Tidied
  <2>6. CASE ~Cleaner(pc'[a])
    BY <2>6 DEF Tidied
  <2>7. CASE a \in Tasks /\ PutChunk(a)
    <3>1. ~Cleaner(pc'[a])
      BY <1>2, <2>7 DEF PutChunk, Go, Cleaner
    <3> QED BY <2>6, <3>1
  <2> QED BY <1>3, <2>1, <2>2, <2>3, <2>4, <2>5, <2>6, <2>7 DEF Acts
(* What a clean-up deletes, other NARs do not need.                        *)
<1>10. ASSUME NEW a \in Agents, DropObject(a), NEW n \in Nars, Kept(n), n # nar[a],
              Busy(n) \/ total[n] > 0, NEW i \in 1..Len(Content[n])
       PROVE  Content[n][i] \notin dead[a]
  <2> SUFFICES ASSUME Content[n][i] \in dead[a] PROVE FALSE
    OBVIOUS
  <2>1. /\ Busy(nar[a]) /\ dead[a] \subseteq Parts(nar[a]) /\ nar[a] \in Nars
        /\ \A l \in links : l[3] \in dead[a] => Busy(l[1])
    BY <1>2, <1>10 DEF DropObject, Tidying, Tidied, Cleaner
  <2>2. CASE Busy(n)
    <3>1. PICK j \in 1..Len(Content[nar[a]]) : Content[nar[a]][j] = Content[n][i]
      BY <2>1 DEF Parts
    <3>2. /\ <<n, i, Content[n][i]>> \in Whole(n)
          /\ <<nar[a], j, Content[nar[a]][j]>> \in Whole(nar[a])
      BY DEF Whole
    <3>3. \A k \in Whole(nar[a]), l \in Whole(n) : k[3] # l[3]
      BY <1>10, <2>1, <2>2 DEF Kept
    <3> QED BY <3>1, <3>2, <3>3
  <2>3. CASE ~Busy(n)
    <3>1. <<n, i, Content[n][i]>> \in links
      BY <1>1, <1>10, <2>3 DEF Links, Complete, Kept
    <3> QED BY <2>1, <2>3, <3>1
  <2> QED BY <2>2, <2>3
<1>11. ~DeleteFromStores
  BY <1>1 DEF Tame, Worked, DeleteFromStores
<1>12. Present'
  <2> SUFFICES ASSUME NEW t \in Tasks, Kept(nar[t]), Chunker(t, pc[t])', NEW i \in 1..at'[t]
               PROVE  Content[nar[t]][i] \in objects'
    BY <1>2, <1>5, <1>6 DEF Present
  <2>1. CASE FindOrCreate(t)
    <3>1. at' = [at EXCEPT ![t] = 0]
      BY <1>2, <2>1 DEF FindOrCreate, Go, AfterChunks, Chunker
    <3> QED BY <1>2, <3>1
  <2>2. CASE ~FindOrCreate(t)
    <3>1. Chunker(t, pc[t])
      BY <1>1, <2>2, StillChunks
    <3>2. body[t] = Content[nar[t]] /\ \A j \in 1..at[t] : Content[nar[t]][j] \in objects
      BY <1>1, <3>1 DEF Present, Links, Recorded
    <3>3. CASE PutChunk(t)
      <4>1. /\ objects' = objects \cup {body[t][at[t] + 1]}
            /\ at' = [at EXCEPT ![t] = at[t] + 1]
        BY <1>2, <3>3 DEF PutChunk, Go, Chunker
      <4>2. at[t] \in Nat /\ at'[t] = at[t] + 1
        BY <1>2, <4>1
      <4>3. i \in 1..at[t] \/ i = at[t] + 1
        BY <4>2
      <4> QED BY <3>2, <4>1, <4>3
    <3>4. CASE ~PutChunk(t)
      <4>1. at'[t] = at[t]
        <5>1. CASE Cleaning(t)
          BY <1>1, <5>1, CleaningSteps DEF core
        <5>2. CASE Flip(t)
          BY <5>2 DEF Flip, chunker
        <5> QED BY <1>3, <2>2, <3>4, <5>1, <5>2 DEF Acts, Same
      <4>2. Content[nar[t]][i] \in objects
        BY <3>2, <4>1
      <4>3. ASSUME NEW a \in Agents, DropObject(a) PROVE Content[nar[t]][i] \in objects'
        <5>1. pc[a] = "dropObject" /\ Refreshed(a) /\ (a = t => at[t] = 0)
          BY <3>1, <4>3 DEF DropObject, Tidying, Tidied, Cleaner
        <5>2. a # t
          BY <4>1, <5>1
        <5>3. nar[a] # nar[t]
          BY <1>1, <3>1, <5>1, <5>2, ChunkerKeeps, Alone DEF Kept
        <5>4. i \in 1..Len(Content[nar[t]])
          BY <1>2, <3>2, <4>1, SMTT(20)
        <5>5. Content[nar[t]][i] \notin dead[a]
          BY <1>2, <1>5, <1>10, <4>3, <5>3, <5>4
        <5> QED BY <4>2, <4>3, <5>5 DEF DropObject
      <4> QED BY <1>1, <1>11, <4>2, <4>3 DEF Effects
    <3> QED BY <3>3, <3>4
  <2> QED BY <2>1, <2>2
<1>13. Stored'
  <2> SUFFICES ASSUME NEW n \in Nars, Kept(n), total'[n] > 0, NEW i \in 1..Len(Content[n])
               PROVE  Content[n][i] \in objects'
    BY <1>6 DEF Stored, Parts
  <2>1. CASE total[n] > 0
    <3>1. Content[n][i] \in objects
      BY <2>1 DEF Stored, Parts
    <3>2. ASSUME NEW a \in Agents, DropObject(a) PROVE Content[n][i] \in objects'
      <4>1. n # nar[a]
        BY <2>1, <3>2 DEF DropObject, Tidying, Tidied, Cleaner, Kept
      <4>2. Content[n][i] \notin dead[a]
        BY <1>10, <2>1, <3>2, <4>1
      <4> QED BY <3>1, <3>2, <4>2 DEF DropObject
    <3> QED BY <1>1, <1>11, <3>1, <3>2 DEF Effects
  <2>2. CASE ~(total[n] > 0)
    <3>0. total'[n] \notin {total[n], 0}
      BY <2>2
    <3>1. PICK t \in Tasks : MarkComplete(t)
      BY <1>1, <3>0 DEF Effects
    <3>2. nar[t] = n /\ pc[t] = "mark" /\ UNCHANGED objects
      BY <1>2, <2>2, <3>1 DEF MarkComplete, stores
    <3>3. Chunker(t, pc[t])
      BY <1>1, <3>2 DEF Chunker, Role, Fits
    <3>4. at[t] = Len(Content[n])
      <4>1. base[t] = Len(body[t]) /\ body[t] = Content[n]
        BY <1>1, <3>2, <3>3 DEF Links, Recorded
      <4>2. base[t] <= at[t] /\ at[t] <= Len(body[t]) /\ at[t] \in Nat /\ base[t] \in Nat
        BY <1>2
      <4> QED BY <4>1, <4>2
    <3>5. \A j \in 1..at[t] : Content[n][j] \in objects
      BY <3>2, <3>3 DEF Present
    <3> QED BY <3>2, <3>4, <3>5
  <2> QED BY <2>1, <2>2
<1>14. Tidying'
  BY <1>9 DEF Tidying
<1> QED BY <1>1, <1>12, <1>13, <1>14

(* The chunks that are needed stay, along every behaviour.                 *)
THEOREM BackSafe == Spec => [](IInv /\ BackInv)
<1>1. Init => BackInv
  BY BackInit
<1>2. IInv /\ BackInv /\ [Next]_vars => BackInv'
  <2> SUFFICES ASSUME IInv, BackInv, [Next]_vars PROVE BackInv'
    OBVIOUS
  <2>1. Worked'
    BY WorkedNext DEF IInv, LockInv, BackInv
  <2>2. Tame' => Tame
    BY ScenarioStays DEF Tame, Sound, Kind
  <2>3. ASSUME Tame PROVE (CleanType /\ Tidying /\ Present /\ Stored)'
    BY <2>3, BackNext DEF BackInv
  <2> QED BY <2>1, <2>2, <2>3 DEF BackInv
<1> QED BY <1>1, <1>2, Safe, PTL DEF Spec

(* The links of a complete NAR are to chunks that are there.               *)
LEMMA BackedLinks == IInv /\ BackInv => Backed
<1> SUFFICES ASSUME IInv, BackInv, NEW n \in Nars, Kept(n), total[n] > 0
             PROVE  ChunksOf(n) \subseteq objects
  BY DEF Backed
<1>1. Tame /\ Exact /\ links \subseteq Nars \X (Nat \ {0}) \X Chunks
  BY DEF Kept, Tame, IInv, Links, LockInv, CoreType
<1>2. Parts(n) \subseteq objects
  BY <1>1 DEF BackInv, Stored
<1>3. ChunksOf(n) \subseteq Parts(n)
  BY <1>1 DEF ChunksOf, LinksOf, Parts, Exact
<1> QED BY <1>2, <1>3

(* For any NARs, chunks, calls and batch sizes: a complete NAR has the     *)
(* objects of all its chunks, however stale attempts are cleaned up while  *)
(* others chunk, de-chunk, crash and fail, and whichever other lock runs   *)
(* out (cleanupStaleLockChunks).                                           *)
THEOREM ChunksAreBacked == Spec => []Backed
BY BackedLinks, BackSafe, PTL

-----------------------------------------------------------------------------
(* Where a NAR is held while it moves, if the recovery does not run.       *)
Steady == Tame /\ ~scenario.sweep

(* Whoever removes the whole file has a complete row, whoever takes back   *)
(* the chunks has written the whole file, and the delayed clean-up, which  *)
(* takes no lock, has one or the other; but for NARs whose lock has run    *)
(* out under somebody's work.                                              *)
Leaving(s) == s \in {"relink", "tidy", "unlink"}
Expiring(s) == s \in {"expireRow", "expireFile"}
Covered ==
    \A t \in Tasks : nar[t] \notin lapsed =>
        /\ Leaving(pc[t]) => total[nar[t]] > 0
        /\ pc[t] = "flip" => Plain(nar[t]) \in whole
        /\ Expiring(pc[t]) => total[nar[t]] > 0 \/ Plain(nar[t]) \in whole

(* A NAR that was stored is.                                               *)
Held == \A n \in Nars \ lapsed : scenario.find[n] \in {"whole", "chunked"}
            => total[n] > 0 \/ \E f \in Forms : <<n, f>> \in whole

HeldInv == Steady => pc[Sweeper] = "idle" /\ Covered /\ Held

(* NARs are found whole or chunked, and nobody works.                      *)
LEMMA HeldInit == Init => HeldInv
<1> SUFFICES ASSUME Init PROVE HeldInv
  OBVIOUS
<1>1. \A a \in Agents : pc[a] = "idle"
  BY DEF Init
<1>2. pc[Sweeper] = "idle" /\ Covered
  BY <1>1, AgentFacts DEF Covered, Leaving, Expiring
<1>3. Held
  <2> SUFFICES ASSUME NEW n \in Nars, scenario.find[n] \in {"whole", "chunked"}
               PROVE  total[n] > 0 \/ \E f \in Forms : <<n, f>> \in whole
    BY DEF Held
  <2>1. CASE scenario.find[n] = "whole"
    BY <2>1 DEF Init, Found, Forms
  <2>2. CASE scenario.find[n] = "chunked"
    BY <2>2, ContentAssumption DEF Init, Found
  <2> QED BY <2>1, <2>2
<1> QED BY <1>2, <1>3 DEF HeldInv

(* A body that is chunked has a chunk.                                     *)
LEMMA MarksSome ==
    ASSUME CoreType, Role, Links, NEW t \in Tasks, MarkComplete(t) PROVE base[t] > 0
<1>1. pc[t] = "mark" /\ Chunker(t, pc[t])
  BY DEF MarkComplete, Chunker, Role, Fits
<1>2. base[t] = Len(Content[nar[t]]) /\ nar[t] \in Nars
  BY <1>1, AgentFacts DEF Links, Recorded, CoreType
<1> QED BY <1>2, ContentAssumption

(* Without the jobs, only calls take steps, locks expire, and it is only   *)
(* by Flip that a complete row goes and by two clean-ups that a file does. *)
LEMMA Losses ==
    ASSUME CoreType, Role, Links, Worked, Steady, pc[Sweeper] = "idle", [Next]_vars
    PROVE  /\ pc'[Sweeper] = "idle"
           /\ \/ \E t \in Tasks : Call(t) \/ Crash(t)
              \/ UNCHANGED <<tables, stores, pc, nar>>
           /\ \/ \A n \in Nars : total[n] > 0 => total'[n] > 0
              \/ \E t \in Tasks : Flip(t)
           /\ \/ whole \subseteq whole'
              \/ \E t \in Tasks : Unlink(t) \/ ExpireFile(t)
<1> USE AgentFacts
<1>0. /\ total \in [Nars -> Nat] /\ nar \in [Agents -> Nars] /\ base \in [Agents -> Nat]
      /\ pc \in [Agents -> Steps \cup Ended]
  BY DEF CoreType
<1> DEFINE Fewer == \/ \A n \in Nars : total[n] > 0 => total'[n] > 0
                    \/ \E t \in Tasks : Flip(t)
           Gone == \/ whole \subseteq whole'
                   \/ \E t \in Tasks : Unlink(t) \/ ExpireFile(t)
<1>1. ~LRU /\ ~Recovery
  BY DEF Steady, Tame, Worked, LRU, RunLRU, DeleteFromStores, Recovery, SweepScan, SweepLock,
     SweepClear, Collect, SweepRow, SweepQuery, SweepDelete, SweepEnd, Clean, Reclaim, DropRow,
     DropObject, Reclaimed, Release
<1>2. (\E t \in Tasks : Call(t) \/ Crash(t)) \/ UNCHANGED <<tables, stores, pc, nar>>
  <2>1. ASSUME NEW n \in Nars, LosesLock(n) PROVE UNCHANGED <<tables, stores, pc, nar>>
    BY <2>1 DEF LosesLock, ExpireLock, LapseLock, scan
  <2>2. CASE UNCHANGED vars
    BY <2>2 DEF vars, scan
  <2> QED BY <1>1, <2>1, <2>2 DEF Next, Work, LosesLock
<1>3. pc'[Sweeper] = "idle"
  <2>1. ASSUME NEW t \in Tasks, Call(t) \/ Crash(t) PROVE pc'[Sweeper] = pc[Sweeper]
    BY <2>1, TaskMoves DEF Moves
  <2> QED BY <1>2, <2>1
<1>4. ASSUME NEW t \in Tasks, Call(t) \/ Crash(t) PROVE Fewer
  <2>1. ASSUME UNCHANGED total PROVE Fewer
    BY <2>1
  <2>2. CASE Quiet(t) \/ Cleaning(t)
    BY <2>1, <2>2, QuietSteps, CleaningSteps DEF core
  <2>3. CASE MarkComplete(t)
    <3>1. CASE UNCHANGED total
      BY <2>1, <3>1
    <3>2. CASE total' = [total EXCEPT ![nar[t]] = base[t]]
      <4>1. base[t] > 0
        BY <2>3, MarksSome
      <4> QED BY <1>0, <3>2, <4>1
    <3> QED BY <2>3, <3>1, <3>2 DEF MarkComplete
  <2>4. CASE Begin(t) \/ FindOrCreate(t) \/ PutChunk(t) \/ RecordChunkBatch(t) \/ ReadError(t)
             \/ Abort(t) \/ ReadInit(t) \/ Probe(t) \/ Release(t)
    <3>1. UNCHANGED total
      BY <2>4 DEF Begin, FindOrCreate, PutChunk, RecordChunkBatch, ReadError, Abort, ReadInit,
         Probe, Release, tables
    <3> QED BY <2>1, <3>1
  <2>5. ~Purge(t)
    BY DEF Steady, Tame, Purge, Role, Fits
  <2> HIDE DEF Fewer
  <2>6. CASE Flip(t)
    BY <2>6 DEF Fewer
  <2> QED
    BY <1>4, <2>2, <2>3, <2>4, <2>5, <2>6
       DEF Call, Store, Migrate, Dechunk, Read, Clean, Quiet, Cleaning
<1>5. ASSUME NEW t \in Tasks, Call(t) \/ Crash(t) PROVE Gone
  <2>1. ASSUME UNCHANGED whole PROVE Gone
    BY <2>1
  <2>2. CASE Begin(t) \/ Check(t) \/ Tidy(t) \/ FindOrCreate(t) \/ PutChunk(t)
             \/ RecordChunkBatch(t) \/ ReadError(t) \/ EndOfBody(t) \/ MarkComplete(t)
    BY <2>1, <2>2 DEF Begin, Check, Tidy, FindOrCreate, PutChunk, RecordChunkBatch, ReadError,
       EndOfBody, MarkComplete, stores
  <2>3. CASE Relink(t) \/ Abort(t) \/ FixNarInfos(t) \/ Clean(t) \/ Probe(t) \/ Flip(t) \/ Purge(t)
    BY <2>1, <2>3 DEF Relink, Abort, FixNarInfos, Clean, Reclaim, DropRow, DropObject, Reclaimed,
       Release, Probe, Flip, Purge, stores
  <2>4. CASE Read(t) \/ Expire(t) \/ ExpireRow(t) \/ Crash(t)
    BY <2>1, <2>4 DEF Read, Look, Route, GetNarFromStore, ReadInit, ListChunks, Fetch, Poll,
       PollRow, Expire, ExpireRow, Crash, stores
  <2>5. CASE PutWhole(t)
    BY <2>5 DEF PutWhole
  <2>6. CASE Unlink(t) \/ ExpireFile(t)
    BY <2>6
  <2> HIDE DEF Gone
  <2> QED
    BY <1>5, <2>2, <2>3, <2>4, <2>5, <2>6 DEF Call, Store, Migrate, Dechunk, DeletedCleanup
<1>6. CASE UNCHANGED <<tables, stores, pc, nar>>
  BY <1>2, <1>3, <1>6 DEF tables, stores
<1> QED BY <1>2, <1>3, <1>4, <1>5, <1>6

(* Whoever comes to remove the file or the chunks has the other one.       *)
LEMMA Arrives ==
    ASSUME CoreType, Role, Links, NEW t \in Tasks, Call(t) \/ Crash(t)
    PROVE  /\ Leaving(pc'[t]) => Leaving(pc[t]) \/ total'[nar[t]] > 0
           /\ pc'[t] = "flip" => Plain(nar[t]) \in whole'
           /\ Expiring(pc'[t]) => Expiring(pc[t]) \/ total'[nar[t]] > 0
<1> USE AgentFacts DEF Leaving, Expiring, Go
<1>0. /\ total \in [Nars -> Nat] /\ nar \in [Agents -> Nars] /\ base \in [Agents -> Nat]
      /\ pc \in [Agents -> Steps \cup Ended] /\ nar[t] \in Nars
  BY DEF CoreType
<1> DEFINE Safely == /\ Leaving(pc'[t]) => Leaving(pc[t]) \/ total'[nar[t]] > 0
                     /\ pc'[t] = "flip" => Plain(nar[t]) \in whole'
                     /\ Expiring(pc'[t]) => Expiring(pc[t]) \/ total'[nar[t]] > 0
<1> SUFFICES Safely
  OBVIOUS
<1>1. CASE Begin(t) \/ Unlink(t) \/ PutChunk(t) \/ RecordChunkBatch(t) \/ ReadError(t)
           \/ EndOfBody(t) \/ Abort(t) \/ FixNarInfos(t)
  BY <1>0, <1>1 DEF Begin, TryLock, FirstStep, Unlink, PutChunk, RecordChunkBatch, ReadError,
     EndOfBody, Abort, FixNarInfos
<1>10. CASE Tidy(t) \/ Relink(t)
  BY <1>0, <1>10 DEF Tidy, Relink, AfterChunks
<1>2. CASE Check(t) \/ FindOrCreate(t)
  <2>1. UNCHANGED total /\ (Leaving(pc'[t]) => total[nar[t]] > 0)
    BY <1>0, <1>2 DEF Check, FindOrCreate, AfterChunks, tables
  <2>2. pc'[t] # "flip" /\ ~Expiring(pc'[t])
    BY <1>0, <1>2 DEF Check, FindOrCreate, AfterChunks
  <2> QED BY <2>1, <2>2
<1>3. CASE MarkComplete(t)
  <2>3. base[t] > 0
    BY <1>3, MarksSome
  <2>4. Leaving(pc'[t]) => total'[nar[t]] > 0
    BY <1>0, <1>3, <2>3 DEF MarkComplete
  <2>5. pc'[t] # "flip" /\ ~Expiring(pc'[t])
    BY <1>0, <1>3 DEF MarkComplete, AfterChunks
  <2> QED BY <2>4, <2>5
<1>4. CASE Look(t) \/ Route(t) \/ GetNarFromStore(t) \/ ReadInit(t) \/ ListChunks(t) \/ Poll(t)
           \/ PollRow(t)
  BY <1>0, <1>4 DEF Look, Route, GetNarFromStore, ReadInit, ListChunks, Poll, PollRow, ReadFails,
     ReadEnds
<1>5. CASE Fetch(t) \/ Crash(t)
  BY <1>0, <1>5 DEF Fetch, Crash, ReadFails, ReadEnds
<1>6. CASE PutWhole(t)
  BY <1>0, <1>6 DEF PutWhole
<1>7. CASE Probe(t) \/ Flip(t) \/ Purge(t)
  BY <1>0, <1>7 DEF Probe, Flip, Purge
<1>8. CASE DeletedCleanup(t)
  <2>1. CASE Expire(t)
    BY <1>0, <2>1 DEF Expire, tables
  <2>2. CASE ExpireRow(t) \/ ExpireFile(t)
    BY <1>0, <2>2 DEF ExpireRow, ExpireFile
  <2> QED BY <1>8, <2>1, <2>2 DEF DeletedCleanup
<1>9. CASE Clean(t)
  BY <1>0, <1>9 DEF Clean, Reclaim, DropRow, DropObject, Reclaimed, Release
<1> HIDE DEF Safely
<1> QED
  BY <1>1, <1>2, <1>3, <1>4, <1>5, <1>6, <1>7, <1>8, <1>9, <1>10
     DEF Call, Store, Migrate, Dechunk, Read

(* Every step leaves one of the two.                                       *)
LEMMA HeldNext ==
    ASSUME IInv, Worked, Steady, pc[Sweeper] = "idle", Covered, Held, [Next]_vars
    PROVE  (pc[Sweeper] = "idle" /\ Covered /\ Held)'
<1> USE AgentFacts
<1>0. lapsed \subseteq lapsed'
  BY LapsedGrows
<1>1. /\ CoreType /\ Role /\ HoldsLock /\ Links /\ UNCHANGED scenario
      /\ pc \in [Agents -> Steps \cup Ended] /\ nar \in [Agents -> Nars]
      /\ \A t \in Tasks : nar'[t] = nar[t]
  BY StartsOwn, ScenarioStays DEF IInv, LockInv, Steady, Tame, CoreType
<1>2. /\ pc'[Sweeper] = "idle"
      /\ (\E t \in Tasks : Call(t) \/ Crash(t)) \/ UNCHANGED <<tables, stores, pc, nar>>
      /\ \/ \A n \in Nars : total[n] > 0 => total'[n] > 0
         \/ \E t \in Tasks : Flip(t)
      /\ \/ whole \subseteq whole'
         \/ \E t \in Tasks : Unlink(t) \/ ExpireFile(t)
  BY <1>1, Losses
(* Two calls that move a NAR under its lock are one.                       *)
<1>3. ASSUME NEW t \in Tasks, NEW u \in Tasks, nar[t] = nar[u], Leaving(pc[t]), pc[u] = "flip",
             nar[t] \notin lapsed
      PROVE  FALSE
  <2>1. Refreshed(t) /\ Refreshed(u)
    BY <1>1, <1>3 DEF Leaving, Refreshed, Role, Fits, Ended
  <2> QED BY <1>1, <1>3, <2>1, Alone DEF Leaving
(* What goes leaves the other behind.                                      *)
<1>4. ASSUME NEW n \in Nars \ lapsed, total[n] > 0
      PROVE  total'[n] > 0 \/ \E t \in Tasks : nar[t] = n /\ pc[t] = "flip" /\ Plain(n) \in whole'
  <2>1. ASSUME NEW t \in Tasks, Flip(t), nar[t] = n
        PROVE  pc[t] = "flip" /\ Plain(n) \in whole'
    BY <2>1 DEF Flip, stores, Covered
  <2>2. ASSUME NEW t \in Tasks, Flip(t), nar[t] # n PROVE total'[n] = total[n]
    BY <1>1, <1>4, <2>2 DEF Flip, CoreType
  <2> QED BY <1>2, <1>4, <2>1, <2>2
<1>5. ASSUME NEW r \in whole, r[1] \notin lapsed
      PROVE  \/ r \in whole'
             \/ \E t \in Tasks : Unlink(t) /\ nar[t] = r[1] /\ total'[nar[t]] > 0
             \/ \E t \in Tasks : ExpireFile(t) /\ r = <<nar[t], "old">> /\ UNCHANGED total
  <2>1. ASSUME NEW t \in Tasks, Unlink(t), r \notin whole' PROVE nar[t] = r[1] /\ total'[nar[t]] > 0
    <3>1. r \in {<<nar[t], Form(t)>>, Plain(nar[t])}
      BY <1>5, <2>1 DEF Unlink
    <3>2. nar[t] = r[1] /\ Leaving(pc[t]) /\ UNCHANGED total
      BY <2>1, <3>1 DEF Unlink, Leaving, Plain, tables
    <3> QED BY <1>5, <3>2 DEF Covered
  <2>2. ASSUME NEW t \in Tasks, ExpireFile(t), r \notin whole'
        PROVE  r = <<nar[t], "old">> /\ UNCHANGED total
    BY <1>5, <2>2 DEF ExpireFile, tables
  <2> QED BY <1>2, <1>5, <2>1, <2>2
<1>6. ASSUME NEW t \in Tasks
      PROVE  /\ Leaving(pc'[t]) => Leaving(pc[t]) \/ total'[nar[t]] > 0
             /\ pc'[t] = "flip" => pc[t] = "flip" \/ Plain(nar[t]) \in whole'
             /\ Expiring(pc'[t]) => Expiring(pc[t]) \/ total'[nar[t]] > 0
  <2>1. CASE Call(t) \/ Crash(t)
    BY <1>1, <2>1, Arrives
  <2>2. CASE pc'[t] = pc[t]
    BY <2>2
  <2>3. ASSUME NEW u \in Tasks, u # t, Call(u) \/ Crash(u) PROVE pc'[t] = pc[t]
    BY <1>1, <2>3, TaskMoves DEF Moves
  <2> QED BY <1>2, <2>1, <2>2, <2>3
<1>7. ASSUME NEW t \in Tasks, nar[t] \notin lapsed, Leaving(pc'[t]) PROVE total'[nar[t]] > 0
  <2> SUFFICES ASSUME Leaving(pc[t]) PROVE total'[nar[t]] > 0
    BY <1>6, <1>7
  <2>1. total[nar[t]] > 0 /\ nar[t] \in Nars
    BY <1>1, <1>7 DEF Covered
  <2> QED BY <1>3, <1>4, <1>7, <2>1
<1>8. ASSUME NEW t \in Tasks, nar[t] \notin lapsed, pc'[t] = "flip" PROVE Plain(nar[t]) \in whole'
  <2> SUFFICES ASSUME pc[t] = "flip" PROVE Plain(nar[t]) \in whole'
    BY <1>6, <1>8
  <2>1. Plain(nar[t]) \in whole
    BY <1>8 DEF Covered
  <2>2. ASSUME NEW u \in Tasks, Unlink(u) PROVE nar[u] # Plain(nar[t])[1]
    BY <1>3, <1>8, <2>2 DEF Unlink, Leaving, Plain
  <2>3. Plain(nar[t])[1] = nar[t] /\ \A u \in Tasks : Plain(nar[t]) # <<nar[u], "old">>
    BY DEF Plain
  <2> QED BY <1>5, <1>8, <2>1, <2>2, <2>3
<1>9. ASSUME NEW n \in Nars \ lapsed, Plain(n) \in whole PROVE total'[n] > 0 \/ Plain(n) \in whole'
  <2>1. Plain(n)[1] = n /\ \A u \in Tasks : Plain(n) # <<nar[u], "old">>
    BY DEF Plain
  <2> QED BY <1>5, <1>9, <2>1
<1>10. ASSUME NEW t \in Tasks, nar[t] \notin lapsed, Expiring(pc'[t])
       PROVE  total'[nar[t]] > 0 \/ Plain(nar[t]) \in whole'
  <2> SUFFICES ASSUME Expiring(pc[t]) PROVE total'[nar[t]] > 0 \/ Plain(nar[t]) \in whole'
    BY <1>6, <1>10
  <2>1. nar[t] \in Nars /\ (total[nar[t]] > 0 \/ Plain(nar[t]) \in whole)
    BY <1>1, <1>10 DEF Covered
  <2> QED BY <1>4, <1>9, <1>10, <2>1
<1>11. Covered'
  BY <1>0, <1>1, <1>7, <1>8, <1>10 DEF Covered
<1>12. Held'
  <2> SUFFICES ASSUME NEW n \in Nars \ lapsed, scenario.find[n] \in {"whole", "chunked"}
               PROVE  total'[n] > 0 \/ \E f \in Forms : <<n, f>> \in whole'
    BY <1>0, <1>1 DEF Held
  <2>0. \A m : Plain(m) \in whole' => \E f \in Forms : <<m, f>> \in whole'
    BY DEF Plain, Forms
  <2>1. CASE total[n] > 0
    BY <1>4, <2>0, <2>1
  <2>2. ASSUME NEW f \in Forms, <<n, f>> \in whole
        PROVE  total'[n] > 0 \/ \E g \in Forms : <<n, g>> \in whole'
    <3>1. ASSUME NEW t \in Tasks, ExpireFile(t), <<n, f>> = <<nar[t], "old">>, UNCHANGED total
          PROVE  total'[n] > 0 \/ Plain(n) \in whole'
      <4>1. nar[t] = n /\ Expiring(pc[t])
        BY <3>1 DEF ExpireFile, Expiring
      <4>2. total[n] > 0 \/ Plain(n) \in whole
        BY <4>1 DEF Covered
      <4> QED BY <1>9, <3>1, <4>2
    <3>2. ASSUME NEW t \in Tasks, nar[t] = <<n, f>>[1], total'[nar[t]] > 0 PROVE total'[n] > 0
      BY <3>2
    <3> QED BY <1>5, <2>0, <2>2, <3>1, <3>2
  <2> QED BY <2>1, <2>2 DEF Held
<1> QED BY <1>2, <1>11, <1>12

(* For any NARs, chunks, calls and batch sizes: a NAR that was stored can  *)
(* be served at any time during its migration to chunks or back, whichever *)
(* instance dies or service fails, from a whole file or from chunks that   *)
(* are all there, as long as its own lock does not run out under a call    *)
(* (MigrateNarToChunks, MigrateChunksToNar, runCDCDeletedCleanup).         *)
THEOREM NarsAreNeverLost == Spec => []NeverLost
<1>1. Init => HeldInv
  BY HeldInit
<1>2. IInv /\ BackInv /\ HeldInv /\ [Next]_vars => HeldInv'
  <2> SUFFICES ASSUME IInv, BackInv, HeldInv, [Next]_vars PROVE HeldInv'
    OBVIOUS
  <2>1. Steady' => Steady
    BY ScenarioStays DEF Steady, Tame, Sound, Kind
  <2>2. ASSUME Steady PROVE (pc[Sweeper] = "idle" /\ Covered /\ Held)'
    BY <2>2, HeldNext DEF HeldInv, BackInv
  <2> QED BY <2>1, <2>2 DEF HeldInv
<1>3. IInv /\ BackInv /\ HeldInv => NeverLost
  <2> SUFFICES ASSUME IInv, BackInv, HeldInv, NEW n \in Nars, Kept(n), ~scenario.sweep,
                      scenario.find[n] \in {"whole", "chunked"},
                      ~HasNarInStore(Plain(n))
               PROVE  Servable(n)
    BY DEF NeverLost
  <2>1. Tame /\ Steady /\ Sound
    BY DEF Kept, Tame, Steady
  <2>2. total[n] > 0
    BY <2>1 DEF HeldInv, Held, HasNarInStore, Plain, Kept
  <2>3. LinksOf(n) = Whole(n)
    BY <2>1, <2>2, WholeLinks DEF CompleteMeansWhole, Kept
  <2>4. ChunksOf(n) \subseteq objects
    BY <2>2, BackedLinks DEF Backed
  <2> QED BY <2>2, <2>3, <2>4 DEF Servable
<1> QED BY <1>1, <1>2, <1>3, BackSafe, PTL DEF Spec

-----------------------------------------------------------------------------
(* What a client gets, of a NAR whose lock has not run out under a call.   *)
(* The links of the NAR have no gaps, ...                                  *)
Gapless == \A l \in links : l[1] \notin lapsed =>
              \A i \in 1..l[2] : <<l[1], i, Content[l[1]][i]>> \in links

(* ... what it has got is the beginning of the NAR, and what it has listed *)
(* comes next; it ends where the NAR does.                                 *)
Starting(s) == s \in {"idle", "probe", "have", "file", "init", "list"}
Streamed(t) ==
    LET c == Content[nar[t]]
        had == Len(got[t])
    IN  /\ got[t] \in Seq(Chunks) /\ want[t] \in Seq(Chunks)
        /\ had <= Len(c) /\ \A i \in 1..had : got[t][i] = c[i]
        /\ Starting(pc[t]) => got[t] = <<>>
        /\ seen[t] \in {0, Len(c)}
        /\ pc[t] = "list" => seen[t] > 0
        /\ pc[t] = "fetch" => /\ want[t] # <<>> /\ had + Len(want[t]) <= Len(c)
                              /\ \A i \in 1..Len(want[t]) : want[t][i] = c[had + i]
        /\ pc[t] = "eof" => got[t] = c

StreamType == DOMAIN want = Agents /\ DOMAIN got = Agents /\ seen \in [Agents -> Nat]
ReadInv == Sound => /\ StreamType /\ Gapless
                    /\ \A t \in Tasks : nar[t] \notin lapsed => Streamed(t)

(* The links of a NAR from one index to another, and how many they are.    *)
Span(n, from, k) == {<<n, i, Content[n][i]>> : i \in from + 1..from + k}

LEMMA SpanCount ==
    ASSUME NEW n, NEW from \in Nat, NEW k \in Nat
    PROVE  Cardinality(Span(n, from, k)) = k
<1> DEFINE S == Span(n, from, k)
           f == [j \in 1..k |-> <<n, from + j, Content[n][from + j]>>]
<1>1. f \in [1..k -> S]
  BY DEF Span
<1>2. \A i, j \in 1..k : f[i] = f[j] => i = j
  OBVIOUS
<1>3. \A l \in S : \E j \in 1..k : f[j] = l
  <2> SUFFICES ASSUME NEW i \in from + 1..from + k
               PROVE  \E j \in 1..k : f[j] = <<n, i, Content[n][i]>>
    BY DEF Span
  <2>1. i - from \in 1..k /\ from + (i - from) = i
    OBVIOUS
  <2> QED BY <2>1
<1> HIDE DEF f, S
<1>4. f \in Bijection(1..k, S)
  BY <1>1, <1>2, <1>3 DEF Bijection, Injection, Surjection, IsInjective
<1>5. ExistsBijection(1..k, S)
  BY <1>4 DEF ExistsBijection
<1> QED BY <1>5, FS_CountingElements DEF S

(* Links without gaps are those up to some index.                          *)
LEMMA LinksSpan ==
    ASSUME links \subseteq Nars \X (Nat \ {0}) \X Chunks, Exact, Gapless, NEW n \in Nars \ lapsed
    PROVE  \E k \in 0..Len(Content[n]) : LinksOf(n) = Span(n, 0, k)
<1> DEFINE c == Content[n]
           T == {i \in Nat \ {0} : <<n, i, c[i]>> \notin links}
<1>1. Len(c) \in Nat
  BY ContentAssumption
<1>2. \A l \in LinksOf(n) : l[2] \in 1..Len(c) /\ l = <<n, l[2], c[l[2]]>>
  BY DEF LinksOf, Exact
<1>3. Len(c) + 1 \in T
  <2>1. ASSUME <<n, Len(c) + 1, c[Len(c) + 1]>> \in links PROVE FALSE
    <3>1. Len(c) + 1 \in 1..Len(c)
      BY <2>1 DEF Exact
    <3> QED BY <1>1, <3>1
  <2> QED BY <1>1, <2>1
<1>4. T \in SUBSET Nat /\ T # {}
  BY <1>3
<1>5. PICK x \in T : \A y \in T : x <= y
  <2> HIDE DEF T
  <2> QED BY <1>4, LowestExists
<1>6. x \in Nat \ {0} /\ x <= Len(c) + 1
  BY <1>3, <1>5
<1>7. x - 1 \in 0..Len(c)
  BY <1>1, <1>6
<1>8. LinksOf(n) \subseteq Span(n, 0, x - 1)
  <2> SUFFICES ASSUME NEW l \in LinksOf(n) PROVE l \in Span(n, 0, x - 1)
    OBVIOUS
  <2>1. l[2] \in Nat \ {0} /\ l = <<n, l[2], c[l[2]]>> /\ l \in links /\ l[1] = n
    BY <1>1, <1>2 DEF LinksOf
  <2>2. ~(x <= l[2])
    <3> SUFFICES ASSUME x <= l[2] PROVE FALSE
      OBVIOUS
    <3>1. x \in 1..l[2]
      BY <1>6, <2>1
    <3>2. <<n, x, c[x]>> \in links
      BY <2>1, <3>1 DEF Gapless
    <3> QED BY <1>5, <3>2
  <2>3. l[2] \in 0 + 1..0 + (x - 1)
    BY <1>6, <2>1, <2>2
  <2> QED BY <2>1, <2>3 DEF Span
<1>9. Span(n, 0, x - 1) \subseteq LinksOf(n)
  <2> SUFFICES ASSUME NEW i \in 0 + 1..0 + (x - 1) PROVE <<n, i, c[i]>> \in links
    BY DEF Span, LinksOf
  <2>1. i \in Nat \ {0} /\ ~(x <= i)
    BY <1>6
  <2>2. i \notin T
    BY <1>5, <2>1
  <2> QED BY <2>1, <2>2
<1>10. LinksOf(n) = Span(n, 0, x - 1)
  BY <1>8, <1>9
<1> QED BY <1>7, <1>10

(* A reader lists the next chunks of its NAR.                              *)
LEMMA ListingIsNext ==
    ASSUME CoreType, Exact, Gapless, NEW t \in Tasks, nar[t] \notin lapsed, NEW from \in Nat,
           from <= Len(Content[nar[t]])
    PROVE  \E k \in Nat :
              /\ from + k <= Len(Content[nar[t]])
              /\ Listing(t, from) = [j \in 1..k |-> Content[nar[t]][from + j]]
<1> DEFINE n == nar[t]
           c == Content[n]
           S == {l \in links : mine[t] /\ l[1] = nar[t] /\ l[2] > from}
<1>0. /\ n \in Nars /\ links \subseteq Nars \X (Nat \ {0}) \X Chunks
      /\ mine[t] \in BOOLEAN
  BY AgentFacts DEF CoreType
<1>1. /\ n \in Nars /\ links \subseteq Nars \X (Nat \ {0}) \X Chunks
      /\ Len(c) \in Nat /\ mine[t] \in BOOLEAN
  <2>1. c \in Seq(Chunks)
    BY <1>0, ContentAssumption
  <2> HIDE DEF n, c
  <2> QED BY <1>0, <2>1
<1>2. PICK h \in 0..Len(c) : LinksOf(n) = Span(n, 0, h)
  BY <1>1, LinksSpan
<1>3. PICK k \in Nat : from + k <= Len(c) /\ S = Span(n, from, k)
  <2>1. CASE mine[t] /\ from < h
    <3>1. h - from \in Nat /\ from + (h - from) = h /\ h <= Len(c) /\ h \in Nat
      BY <1>1, <1>2, <2>1
    <3>2. S = {l \in Span(n, 0, h) : l[2] > from}
      BY <1>2, <2>1 DEF LinksOf
    <3>3. {l \in Span(n, 0, h) : l[2] > from} = {<<n, i, c[i]>> : i \in from + 1..h}
      BY <3>1 DEF Span
    <3>4. S = Span(n, from, h - from)
      BY <3>1, <3>2, <3>3 DEF Span
    <3> HIDE DEF S
    <3> QED BY <3>1, <3>4
  <2>2. CASE ~(mine[t] /\ from < h)
    <3>1. S = {}
      <4> SUFFICES ASSUME NEW l \in S PROVE FALSE
        OBVIOUS
      <4>1. l \in Span(n, 0, h) /\ mine[t] /\ l[2] > from
        BY <1>2 DEF LinksOf
      <4>2. l[2] \in 0 + 1..0 + h
        BY <4>1 DEF Span
      <4> QED BY <1>2, <2>2, <4>1, <4>2
    <3>2. Span(n, from, 0) = {}
      BY DEF Span
    <3>3. from + 0 = from /\ 0 \in Nat
      OBVIOUS
    <3> HIDE DEF S
    <3> QED BY <3>1, <3>2, <3>3
  <2> QED BY <2>1, <2>2
<1> DEFINE upto(l) == Cardinality({m \in S : m[2] <= l[2]})
<1>4. ASSUME NEW l \in S
      PROVE  \E g \in 1..k : l = <<n, from + g, c[from + g]>> /\ upto(l) = g
  <2>1. PICK i \in from + 1..from + k : l = <<n, i, c[i]>>
    BY <1>3, <1>4 DEF Span
  <2>2. i - from \in 1..k /\ from + (i - from) = i /\ i - from \in Nat /\ i \in Nat
    BY <1>3
  <2>3. {m \in S : m[2] <= l[2]} = Span(n, from, i - from)
    <3>1. {m \in Span(n, from, k) : m[2] <= i} = {<<n, j, c[j]>> : j \in from + 1..i}
      BY <1>3, <2>1 DEF Span
    <3>2. {<<n, j, c[j]>> : j \in from + 1..i} = Span(n, from, i - from)
      BY <2>2 DEF Span
    <3>3. l[2] = i
      BY <2>1
    <3> HIDE DEF S
    <3> QED BY <1>3, <3>1, <3>2, <3>3
  <2>4. upto(l) = i - from
    <3>1. Cardinality(Span(n, from, i - from)) = i - from
      BY <2>2, SpanCount
    <3> QED BY <2>3, <3>1
  <2> HIDE DEF upto
  <2> QED BY <2>1, <2>2, <2>4
<1>5. ASSUME NEW g \in 1..k
      PROVE  <<n, from + g, c[from + g]>> \in S
  <2>1. from + g \in from + 1..from + k
    BY <1>3
  <2>2. <<n, from + g, c[from + g]>> \in Span(n, from, k)
    BY <2>1 DEF Span
  <2> HIDE DEF S
  <2> QED BY <1>3, <2>2
<1> HIDE DEF S, upto, n, c
<1>6. ASSUME NEW g \in 1..k PROVE (CHOOSE l \in S : upto(l) = g)[3] = c[from + g]
  <2> DEFINE l == CHOOSE l \in S : upto(l) = g
             w == <<n, from + g, c[from + g]>>
  <2>1. w \in S
    BY <1>5, <1>6
  <2>2. PICK e \in 1..k : w = <<n, from + e, c[from + e]>> /\ upto(w) = e
    <3> HIDE DEF w
    <3> QED BY <1>4, <2>1
  <2>3. e = g
    BY <1>3, <2>2
  <2>4. upto(w) = g
    BY <2>2, <2>3
  <2>5. l \in S /\ upto(l) = g
    <3> HIDE DEF w
    <3> QED BY <2>1, <2>4
  <2>6. PICK d \in 1..k : l = <<n, from + d, c[from + d]>> /\ upto(l) = d
    <3> HIDE DEF l
    <3> QED BY <1>4, <2>5
  <2>7. d = g
    BY <2>5, <2>6
  <2> HIDE DEF l
  <2>8. l[3] = c[from + g]
    BY <2>6, <2>7
  <2> QED BY <2>8 DEF l
<1>7. Cardinality(S) = k
  BY <1>3, SpanCount
<1>8. Listing(t, from) = [g \in 1..Cardinality(S) |-> (CHOOSE l \in S : upto(l) = g)[3]]
  BY DEF Listing, S, upto
<1>9. Listing(t, from) = [g \in 1..k |-> c[from + g]]
  BY <1>6, <1>7, <1>8
<1> QED BY <1>3, <1>9 DEF c, n

(* Chunkers link their chunks in order, and all links of a NAR go at once. *)
LEMMA GaplessNext ==
    ASSUME IInv, Sound, Gapless, [Next]_vars PROVE Gapless'
<1>1. /\ LockInv /\ CoreType /\ Role /\ Fresh /\ Links
      /\ UNCHANGED scenario /\ links \subseteq Nars \X (Nat \ {0}) \X Chunks
  BY ScenarioStays DEF IInv, LockInv, CoreType
<1>0. lapsed \subseteq lapsed'
  BY LapsedGrows
<1>2. Effects
  BY <1>1, EffectsNext
<1>3. CASE Whittled
  <2> SUFFICES ASSUME NEW l \in links', l[1] \notin lapsed, NEW i \in 1..l[2]
               PROVE  <<l[1], i, Content[l[1]][i]>> \in links'
    BY <1>0 DEF Gapless
  <2>1. l \in links
    BY <1>3 DEF Whittled
  <2>2. <<l[1], i, Content[l[1]][i]>> \in links
    BY <2>1 DEF Gapless
  <2> QED BY <1>3, <2>2 DEF Whittled
<1>4. ASSUME NEW t \in Tasks, RecordChunkBatch(t) PROVE Gapless'
  <2>1. CASE UNCHANGED links
    BY <1>0, <2>1 DEF Gapless
  <2>2. CASE /\ mine[t] /\ base' = [base EXCEPT ![t] = at[t]] /\ UNCHANGED pc
             /\ links' = links \cup {l \in Batch(t) : \A k \in LinksOf(l[1]) : k[2] # l[2]}
    <3>1. /\ Links' /\ UNCHANGED <<nar, mine, body>> /\ t \in Agents /\ at[t] \in Nat
          /\ base[t] \in Nat
      BY <1>1, <1>4, LinksNext, AgentFacts DEF RecordChunkBatch, scan, CoreType
    <3>2. Chunker(t, pc[t]) /\ Chunker(t, pc[t])'
      BY <1>1, <1>4, <2>2 DEF RecordChunkBatch, Chunker, Role, Fits, Kind
    <3>3. base'[t] = at[t]
      BY <1>1, <2>2, <3>1 DEF CoreType
    <3>4. nar[t] \notin lapsed' => \A i \in 1..at[t] : <<nar[t], i, Content[nar[t]][i]>> \in links'
      BY <2>2, <3>1, <3>2, <3>3 DEF Links, Recorded
    <3> SUFFICES ASSUME NEW l \in links', l[1] \notin lapsed', NEW i \in 1..l[2]
                 PROVE  <<l[1], i, Content[l[1]][i]>> \in links'
      BY DEF Gapless
    <3>5. CASE l \in links
      BY <1>0, <2>2, <3>5 DEF Gapless
    <3>6. CASE l \in Batch(t)
      <4>1. PICK j \in base[t] + 1..at[t] : l = <<nar[t], j, body[t][j]>>
        BY <3>6 DEF Batch
      <4>2. l[1] = nar[t] /\ l[2] = j /\ j \in Nat /\ j <= at[t]
        BY <3>1, <4>1
      <4>3. i \in 1..at[t]
        BY <3>1, <4>2
      <4> QED BY <3>4, <4>2, <4>3
    <3> QED BY <2>2, <3>5, <3>6
  <2> QED BY <1>4, <2>1, <2>2 DEF RecordChunkBatch
<1> QED BY <1>2, <1>3, <1>4 DEF Effects

(* Only readers move streams.                                              *)
LEMMA StreamStep ==
    ASSUME [Next]_vars, \A t \in Tasks : ~Read(t) PROVE UNCHANGED reader
<1>1. ASSUME NEW u \in Tasks, Begin(u) \/ Store(u) \/ Migrate(u) \/ Crash(u) PROVE UNCHANGED reader
  BY <1>1 DEF Begin, Store, FindOrCreate, PutChunk, RecordChunkBatch, ReadError, EndOfBody,
     MarkComplete, Relink, Abort, FixNarInfos, Migrate, Check, Tidy, Unlink, Crash
<1>2. ASSUME NEW u \in Tasks, Dechunk(u) \/ DeletedCleanup(u) \/ Clean(u) PROVE UNCHANGED reader
  BY <1>2 DEF Dechunk, Probe, PutWhole, Flip, Purge, DeletedCleanup, Expire, ExpireRow,
     ExpireFile, Clean, Reclaim, DropRow, DropObject, Reclaimed, Release
<1>3. CASE Recovery \/ LRU \/ \E n \in Nars : LosesLock(n)
  BY <1>3 DEF Recovery, LRU, SweepScan, SweepLock, SweepClear, Collect, SweepRow, SweepQuery,
     SweepDelete, SweepEnd, Clean, Reclaim, DropRow, DropObject, Reclaimed, Release, RunLRU,
     DeleteFromStores, LosesLock, ExpireLock, LapseLock
<1>4. CASE UNCHANGED vars
  BY <1>4 DEF vars
<1> QED BY <1>1, <1>2, <1>3, <1>4 DEF Next, Work, LosesLock, Call

(* Nobody else than a reader itself moves its stream.                      *)
LEMMA StreamsStay ==
    ASSUME CoreType, Role, StreamType, [Next]_vars, NEW t \in Tasks, ~Read(t)
    PROVE  /\ got'[t] = got[t] /\ seen'[t] = seen[t] /\ want'[t] = want[t]
           /\ pc'[t] \in {"list", "fetch", "eof"} => pc'[t] = pc[t]
           /\ Starting(pc'[t]) => Starting(pc[t])
<1> USE AgentFacts
<1>0. /\ pc \in [Agents -> Steps \cup Ended]
      /\ DOMAIN want = Agents /\ DOMAIN got = Agents /\ seen \in [Agents -> Nat]
  BY DEF CoreType, StreamType
<1> DEFINE Stays == got'[t] = got[t] /\ seen'[t] = seen[t] /\ want'[t] = want[t]
           Placed == /\ pc'[t] \in {"list", "fetch", "eof"} => pc'[t] = pc[t]
                     /\ Starting(pc'[t]) => Starting(pc[t])
<1>1. ASSUME UNCHANGED reader PROVE Stays
  BY <1>1 DEF reader
<1>4. Stays
  <2>1. ASSUME NEW u \in Tasks \ {t}, Read(u) PROVE Stays
    BY <1>0, <2>1 DEF Read, Look, Route, GetNarFromStore, ReadInit, ListChunks, Fetch, Poll,
       PollRow, reader
  <2> HIDE DEF Stays
  <2> QED BY <1>1, <2>1, StreamStep
<1> SUFFICES Placed
  BY <1>4
<1>2. ASSUME pc'[t] = pc[t] PROVE Placed
  BY <1>2
<1>5. CASE Recovery \/ LRU \/ \E n \in Nars : LosesLock(n)
  BY <1>2, <1>5, JobMoves
<1>6. ASSUME NEW u \in Tasks, u # t, Call(u) \/ Crash(u) PROVE Placed
  BY <1>2, <1>6, TaskMoves DEF Moves
<1>7. CASE Call(t) \/ Crash(t)
  <2> USE DEF Go, Starting
  <2>2. CASE Begin(t) \/ Migrate(t) \/ Crash(t)
    BY <1>0, <2>2 DEF Begin, TryLock, FirstStep, Migrate, Check, Tidy, Unlink, Crash
  <2>3. CASE Store(t)
    <3>1. CASE FindOrCreate(t) \/ PutChunk(t) \/ RecordChunkBatch(t) \/ ReadError(t)
      BY <1>0, <3>1 DEF FindOrCreate, PutChunk, RecordChunkBatch, ReadError, AfterChunks
    <3>2. CASE EndOfBody(t) \/ MarkComplete(t) \/ Relink(t) \/ Abort(t) \/ FixNarInfos(t)
      BY <1>0, <3>2 DEF EndOfBody, MarkComplete, Relink, Abort, FixNarInfos, AfterChunks
    <3> QED BY <2>3, <3>1, <3>2 DEF Store
  <2>4. CASE Dechunk(t)
    BY <1>0, <2>4 DEF Dechunk, Probe, PutWhole, Flip, Purge
  <2>5. CASE DeletedCleanup(t)
    BY <1>0, <2>5 DEF DeletedCleanup, Expire, ExpireRow, ExpireFile
  <2>6. CASE Clean(t)
    BY <1>0, <2>6 DEF Clean, Reclaim, DropRow, DropObject, Reclaimed, Release
  <2> HIDE DEF Placed
  <2> QED BY <1>7, <2>2, <2>3, <2>4, <2>5, <2>6 DEF Call
<1>8. CASE UNCHANGED vars
  BY <1>8 DEF vars
<1> QED BY <1>5, <1>6, <1>7, <1>8 DEF Next, Work, LosesLock

(* What a reader lists are chunks.                                         *)
LEMMA ListingFacts ==
    ASSUME CoreType, Exact, Gapless, NEW t \in Tasks, nar[t] \notin lapsed, NEW from \in Nat,
           from <= Len(Content[nar[t]])
    PROVE  LET list == Listing(t, from)
           IN  /\ list \in Seq(Chunks) /\ from + Len(list) <= Len(Content[nar[t]])
               /\ \A i \in 1..Len(list) : list[i] = Content[nar[t]][from + i]
<1> DEFINE c == Content[nar[t]]
<1>1. PICK k \in Nat : from + k <= Len(c) /\ Listing(t, from) = [j \in 1..k |-> c[from + j]]
  BY ListingIsNext
<1>2. c \in Seq(Chunks)
  BY AgentFacts, ContentAssumption DEF CoreType
<1> HIDE DEF c
<1>3. ASSUME NEW j \in 1..k PROVE c[from + j] \in Chunks
  <2>1. from + j \in 1..Len(c)
    BY <1>1, <1>2
  <2>2. \A i \in 1..Len(c) : c[i] \in Chunks
    BY <1>2
  <2> QED BY <2>1, <2>2
<1>4. [j \in 1..k |-> c[from + j]] \in Seq(Chunks) /\ Len([j \in 1..k |-> c[from + j]]) = k
  BY <1>3
<1> QED BY <1>1, <1>4 DEF c

(* A sequence with the elements of another is that one.                    *)
LEMMA SameSeq ==
    ASSUME NEW s \in Seq(Chunks), NEW c \in Seq(Chunks), Len(s) = Len(c),
           \A i \in 1..Len(s) : s[i] = c[i]
    PROVE  s = c
OBVIOUS

(* Moving one element from what is wanted to what was got.                 *)
LEMMA SplitSum ==
    ASSUME NEW x \in Nat, NEW y \in Nat, NEW m \in Nat, y > 0, x + y <= m
    PROVE  x + 1 <= m /\ (x + 1) + (y - 1) <= m
OBVIOUS

LEMMA ShiftSum ==
    ASSUME NEW x \in Nat, NEW y \in Nat, NEW i \in 1..y - 1
    PROVE  i + 1 \in 1..y /\ x + (i + 1) = (x + 1) + i
OBVIOUS

(* Every step of a reader takes the next chunk, or ends.                   *)
LEMMA ReaderNext ==
    ASSUME IInv, Sound, StreamType, Gapless, NEW t \in Tasks, nar[t] \notin lapsed, Streamed(t),
           Read(t)
    PROVE  StreamType' /\ Streamed(t)'
<1> USE AgentFacts
<1> DEFINE n == nar[t]
           c == Content[n]
<1>1. /\ CoreType /\ Role /\ Exact /\ Complete /\ t \in Agents
  BY DEF IInv, LockInv, Links
<1>2. /\ pc \in [Agents -> Steps \cup Ended] /\ n \in Nars /\ total \in [Nars -> Nat]
      /\ DOMAIN want = Agents /\ DOMAIN got = Agents /\ seen \in [Agents -> Nat]
  BY <1>1 DEF CoreType, StreamType
<1>3. c \in Seq(Chunks) /\ Len(c) > 0 /\ Len(c) \in Nat
  BY <1>2, ContentAssumption
<1>4. UNCHANGED nar
  BY DEF Read, Look, Route, GetNarFromStore, ReadInit, ListChunks, Fetch, Poll, PollRow, scan
<1>5. total[n] \in {0, Len(c)}
  BY <1>1, <1>2 DEF Complete
<1>6. /\ got[t] \in Seq(Chunks) /\ want[t] \in Seq(Chunks)
      /\ Len(got[t]) <= Len(c) /\ \A i \in 1..Len(got[t]) : got[t][i] = c[i]
      /\ Starting(pc[t]) => got[t] = <<>>
      /\ seen[t] \in {0, Len(c)}
      /\ pc[t] = "list" => seen[t] > 0
      /\ pc[t] = "fetch" => /\ want[t] # <<>> /\ Len(got[t]) + Len(want[t]) <= Len(c)
                            /\ \A i \in 1..Len(want[t]) : want[t][i] = c[Len(got[t]) + i]
  BY DEF Streamed
<1>7. got[t] \in Seq(Chunks) /\ want[t] \in Seq(Chunks) /\ Len(got[t]) \in Nat /\ seen[t] \in Nat
  BY <1>1, <1>2, <1>6
<1> HIDE DEF n, c
(* What is left to show of the new stream.                                 *)
<1> DEFINE Next1(g, w, s, p) ==
             /\ g \in Seq(Chunks) /\ w \in Seq(Chunks)
             /\ Len(g) <= Len(c) /\ \A i \in 1..Len(g) : g[i] = c[i]
             /\ Starting(p) => g = <<>>
             /\ s \in {0, Len(c)}
             /\ p = "list" => s > 0
             /\ p = "fetch" => /\ w # <<>> /\ Len(g) + Len(w) <= Len(c)
                               /\ \A i \in 1..Len(w) : w[i] = c[Len(g) + i]
             /\ p = "eof" => g = c
<1>8. ASSUME Next1(got'[t], want'[t], seen'[t], pc'[t]) PROVE Streamed(t)'
  BY <1>4, <1>8 DEF Streamed, c, n
<1>9. CASE Look(t) \/ Route(t)
  <2>1. /\ UNCHANGED reader /\ pc'[t] \in {"have", "init", "file"} /\ Starting(pc[t])
    BY <1>1, <1>2, <1>9 DEF Look, Route, Go, Starting
  <2>2. Next1(got'[t], want'[t], seen'[t], pc'[t])
    BY <1>6, <2>1 DEF reader
  <2>3. StreamType'
    BY <2>1 DEF StreamType, reader
  <2> QED BY <1>8, <2>2, <2>3
<1>10. CASE GetNarFromStore(t)
  <2>1. UNCHANGED <<want, seen>> /\ Starting(pc[t])
    BY <1>10 DEF GetNarFromStore, Starting
  <2>2. CASE UNCHANGED got /\ pc' = [pc EXCEPT ![t] = "init"]
    <3>1. pc'[t] = "init"
      BY <1>1, <1>2, <2>2
    <3>2. Next1(got'[t], want'[t], seen'[t], pc'[t])
      BY <1>6, <2>1, <2>2, <3>1
    <3>3. StreamType'
      BY <2>1, <2>2 DEF StreamType
    <3> QED BY <1>8, <3>2, <3>3
  <2>3. CASE got' = [got EXCEPT ![t] = c] /\ pc' = [pc EXCEPT ![t] = "eof"]
    <3>1. pc'[t] = "eof" /\ got'[t] = c
      BY <1>1, <1>2, <2>3
    <3>2. Next1(got'[t], want'[t], seen'[t], pc'[t])
      BY <1>3, <1>6, <2>1, <3>1 DEF Starting
    <3>3. StreamType'
      BY <1>2, <1>3, <2>1, <2>3 DEF StreamType
    <3> QED BY <1>8, <3>2, <3>3
  <2> QED BY <1>10, <2>2, <2>3 DEF GetNarFromStore, Go, c, n
<1>11. CASE ReadInit(t)
  <2>1. UNCHANGED <<want, got>> /\ Starting(pc[t])
    BY <1>11 DEF ReadInit, Starting
  <2>2. CASE UNCHANGED seen /\ pc' = [pc EXCEPT ![t] = ReadFails(t)]
    <3>1. pc'[t] \in {"broken", "release"}
      BY <1>1, <1>2, <2>2 DEF ReadFails
    <3>2. Next1(got'[t], want'[t], seen'[t], pc'[t])
      BY <1>6, <2>1, <2>2, <3>1 DEF Starting
    <3>3. StreamType'
      BY <2>1, <2>2 DEF StreamType
    <3> QED BY <1>8, <3>2, <3>3
  <2>3. CASE /\ seen' = [seen EXCEPT ![t] = total[n]]
             /\ pc' = [pc EXCEPT ![t] = IF total[n] > 0 THEN "list" ELSE "poll"]
    <3>1. seen'[t] = total[n] /\ pc'[t] = IF total[n] > 0 THEN "list" ELSE "poll"
      BY <1>1, <1>2, <2>3
    <3>2. Next1(got'[t], want'[t], seen'[t], pc'[t])
      BY <1>5, <1>6, <2>1, <3>1 DEF Starting
    <3>3. StreamType'
      BY <1>2, <2>1, <2>3 DEF StreamType
    <3> QED BY <1>8, <3>2, <3>3
  <2> QED BY <1>11, <2>2, <2>3 DEF ReadInit, Go, n
<1>12. CASE ListChunks(t)
  <2> DEFINE list == Listing(t, 0)
  <2>1. UNCHANGED <<got, seen>> /\ pc[t] = "list" /\ got[t] = <<>>
    BY <1>6, <1>12 DEF ListChunks, Starting
  <2>2. /\ list \in Seq(Chunks) /\ 0 + Len(list) <= Len(c)
        /\ \A i \in 1..Len(list) : list[i] = c[0 + i]
    BY <1>1, <1>3, ListingFacts DEF c, n
  <2>3. CASE UNCHANGED want /\ pc' = [pc EXCEPT ![t] = ReadFails(t)]
    <3>1. pc'[t] \in {"broken", "release"}
      BY <1>1, <1>2, <2>3 DEF ReadFails
    <3>2. Next1(got'[t], want'[t], seen'[t], pc'[t])
      BY <1>6, <2>1, <2>3, <3>1 DEF Starting
    <3>3. StreamType'
      BY <2>1, <2>3 DEF StreamType
    <3> QED BY <1>8, <3>2, <3>3
  <2>4. CASE /\ Len(list) = seen[t] /\ want' = [want EXCEPT ![t] = list]
             /\ pc' = [pc EXCEPT ![t] = "fetch"]
    <3> HIDE DEF list
    <3>1. want'[t] = list /\ pc'[t] = "fetch" /\ Len(list) > 0
      BY <1>1, <1>2, <1>6, <2>1, <2>4
    <3>2. list # <<>> /\ Len(<<>>) = 0
      BY <2>2, <3>1
    <3>3. Next1(got'[t], want'[t], seen'[t], pc'[t])
      BY <1>6, <2>1, <2>2, <3>1, <3>2 DEF Starting
    <3>4. StreamType'
      BY <1>2, <2>1, <2>2, <2>4 DEF StreamType
    <3> QED BY <1>8, <3>3, <3>4
  <2> QED BY <1>12, <2>3, <2>4 DEF ListChunks, Go
<1>13. CASE Poll(t)
  <2> DEFINE list == Listing(t, Len(got[t]))
  <2>1. /\ UNCHANGED <<got, seen>> /\ want' = [want EXCEPT ![t] = list]
        /\ pc' = [pc EXCEPT ![t] = IF list = <<>> THEN "row" ELSE "fetch"]
    BY <1>13 DEF Poll, Go
  <2>2. /\ list \in Seq(Chunks) /\ Len(got[t]) + Len(list) <= Len(c)
        /\ \A i \in 1..Len(list) : list[i] = c[Len(got[t]) + i]
    BY <1>1, <1>6, <1>7, ListingFacts DEF c, n
  <2> HIDE DEF list
  <2>3. want'[t] = list /\ pc'[t] = IF list = <<>> THEN "row" ELSE "fetch"
    BY <1>1, <1>2, <2>1
  <2>4. Next1(got'[t], want'[t], seen'[t], pc'[t])
    <3>1. got'[t] = got[t] /\ seen'[t] = seen[t]
      BY <2>1
    <3>2. pc'[t] \in {"row", "fetch"} /\ (pc'[t] = "fetch" => list # <<>>)
      BY <2>3
    <3>3. ~Starting(pc'[t]) /\ pc'[t] # "list" /\ pc'[t] # "eof"
      BY <3>2 DEF Starting
    <3> QED BY <1>6, <2>2, <2>3, <3>1, <3>2, <3>3
  <2>5. StreamType'
    BY <1>2, <2>1, <2>2 DEF StreamType
  <2> QED BY <1>8, <2>4, <2>5
<1>14. CASE PollRow(t)
  <2>1. UNCHANGED <<want, got>>
    BY <1>14 DEF PollRow
  <2>2. CASE UNCHANGED seen /\ pc'[t] \in {"poll", "broken", "release"}
    <3>1. Next1(got'[t], want'[t], seen'[t], pc'[t])
      BY <1>6, <2>1, <2>2 DEF Starting
    <3>2. StreamType'
      BY <2>1, <2>2 DEF StreamType
    <3> QED BY <1>8, <3>1, <3>2
  <2>3. CASE /\ total[n] > 0 /\ seen' = [seen EXCEPT ![t] = total[n]]
             /\ pc' = [pc EXCEPT ![t] = IF Len(got[t]) >= total[n] THEN ReadEnds(t) ELSE "poll"]
    <3>1. /\ total[n] = Len(c) /\ seen'[t] = Len(c)
          /\ pc'[t] \in {"poll", "put", "eof"} /\ (pc'[t] = "eof" => Len(got[t]) >= total[n])
      BY <1>1, <1>2, <1>5, <2>3 DEF ReadEnds
    <3>2. ASSUME pc'[t] = "eof" PROVE got[t] = c
      <4>1. Len(got[t]) = Len(c)
        BY <1>3, <1>6, <1>7, <3>1, <3>2
      <4> QED BY <1>3, <1>6, <4>1, SameSeq
    <3>3. Next1(got'[t], want'[t], seen'[t], pc'[t])
      BY <1>6, <2>1, <3>1, <3>2 DEF Starting
    <3>4. StreamType'
      BY <1>2, <2>1, <2>3 DEF StreamType
    <3> QED BY <1>8, <3>3, <3>4
  <2> QED BY <1>1, <1>2, <1>14, <2>2, <2>3 DEF PollRow, Go, ReadFails, n
<1>15. CASE Fetch(t)
  <2>1. /\ UNCHANGED seen /\ pc[t] = "fetch" /\ want[t] # <<>>
        /\ Len(got[t]) + Len(want[t]) <= Len(c)
        /\ \A i \in 1..Len(want[t]) : want[t][i] = c[Len(got[t]) + i]
    BY <1>6, <1>15 DEF Fetch
  <2>2. CASE UNCHANGED <<want, got>> /\ pc'[t] \in {"broken", "release"}
    <3>1. Next1(got'[t], want'[t], seen'[t], pc'[t])
      BY <1>6, <2>1, <2>2 DEF Starting
    <3>2. StreamType'
      BY <2>1, <2>2 DEF StreamType
    <3> QED BY <1>8, <3>1, <3>2
  <2>3. CASE /\ got' = [got EXCEPT ![t] = Append(got[t], Head(want[t]))]
             /\ want' = [want EXCEPT ![t] = Tail(want[t])]
             /\ IF want'[t] # <<>> THEN UNCHANGED pc
                ELSE pc' = [pc EXCEPT ![t] = IF seen[t] > 0 /\ Len(got'[t]) >= seen[t]
                                             THEN ReadEnds(t) ELSE "poll"]
    <3> DEFINE g == Append(got[t], Head(want[t]))
               w == Tail(want[t])
    <3>1. got'[t] = g /\ want'[t] = w
      BY <1>1, <1>2, <2>3
    <3>2. Len(want[t]) > 0 /\ Len(want[t]) \in Nat /\ Head(want[t]) = want[t][1]
      BY <1>7, <2>1
    <3>3. /\ g \in Seq(Chunks) /\ w \in Seq(Chunks) /\ Len(g) = Len(got[t]) + 1
          /\ Len(w) = Len(want[t]) - 1
          /\ g[Len(got[t]) + 1] = want[t][1] /\ \A i \in 1..Len(got[t]) : g[i] = got[t][i]
          /\ \A i \in 1..Len(w) : w[i] = want[t][i + 1]
      BY <1>7, <2>1, <3>2
    <3> HIDE DEF g, w
    <3>4. Len(g) <= Len(c) /\ \A i \in 1..Len(g) : g[i] = c[i]
      <4>1. want[t][1] = c[Len(got[t]) + 1]
        BY <2>1, <3>2
      <4>2. Len(g) <= Len(c)
        BY <1>3, <1>7, <2>1, <3>2, <3>3, SplitSum
      <4>3. ASSUME NEW i \in 1..Len(g) PROVE g[i] = c[i]
        <5>1. i \in 1..Len(got[t]) \/ i = Len(got[t]) + 1
          BY <1>7, <3>3
        <5> QED BY <1>6, <3>3, <4>1, <5>1
      <4> QED BY <4>2, <4>3
    <3>5. Len(g) + Len(w) <= Len(c) /\ \A i \in 1..Len(w) : w[i] = c[Len(g) + i]
      <4>1. Len(g) + Len(w) <= Len(c)
        BY <1>3, <1>7, <2>1, <3>2, <3>3, SplitSum
      <4>2. ASSUME NEW i \in 1..Len(w) PROVE w[i] = c[Len(g) + i]
        <5>1. i \in 1..Len(want[t]) - 1 /\ Len(g) = Len(got[t]) + 1
          BY <3>3
        <5>2. Len(got[t]) \in Nat /\ Len(want[t]) \in Nat
          BY <1>7, <3>2
        <5>3. i + 1 \in 1..Len(want[t]) /\ Len(got[t]) + (i + 1) = (Len(got[t]) + 1) + i
          BY <5>1, <5>2, ShiftSum
        <5>4. i + 1 \in 1..Len(want[t]) /\ Len(got[t]) + (i + 1) = Len(g) + i
          BY <5>1, <5>3
        <5>5. want[t][i + 1] = c[Len(got[t]) + (i + 1)]
          BY <2>1, <5>4
        <5> QED BY <3>3, <5>4, <5>5
      <4> QED BY <4>1, <4>2
    <3>6. StreamType'
      BY <1>2, <2>1, <2>3, <3>3 DEF StreamType, g, w
    <3>7. /\ pc'[t] \in {"fetch", "poll", "put", "eof"}
          /\ pc'[t] = "fetch" => w # <<>>
          /\ pc'[t] = "eof" => seen[t] > 0 /\ Len(g) >= seen[t]
      BY <1>1, <1>2, <2>1, <2>3, <3>1 DEF ReadEnds
    <3>8. pc'[t] = "eof" => g = c
      <4> SUFFICES ASSUME pc'[t] = "eof" PROVE g = c
        OBVIOUS
      <4>1. seen[t] = Len(c) /\ Len(g) >= Len(c)
        BY <1>6, <3>7
      <4>2. Len(g) = Len(c)
        BY <1>3, <1>7, <3>3, <3>4, <4>1
      <4> QED BY <1>3, <3>3, <3>4, <4>2, SameSeq
    <3>9. Next1(got'[t], want'[t], seen'[t], pc'[t])
      BY <1>6, <2>1, <3>1, <3>3, <3>4, <3>5, <3>7, <3>8 DEF Starting
    <3> QED BY <1>8, <3>6, <3>9
  <2> QED BY <1>1, <1>2, <1>15, <2>2, <2>3 DEF Fetch, Go, ReadFails
<1> QED BY <1>9, <1>10, <1>11, <1>12, <1>13, <1>14, <1>15 DEF Read

(* Streams begin empty.                                                    *)
LEMMA StreamInit == Init => ReadInv
<1> SUFFICES ASSUME Init PROVE ReadInv
  OBVIOUS
<1>1. StreamType
  BY DEF Init, StreamType
<1>2. Gapless
  <2> SUFFICES ASSUME NEW l \in links, NEW i \in 1..l[2]
               PROVE  <<l[1], i, Content[l[1]][i]>> \in links
    BY DEF Gapless
  <2>1. PICK n \in Found(scenario, "chunked") : l \in Whole(n)
    BY DEF Init
  <2>2. PICK j \in 1..Len(Content[n]) : l = <<n, j, Content[n][j]>>
    BY <2>1 DEF Whole
  <2>3. Len(Content[n]) \in Nat
    BY <2>1, ContentAssumption DEF Found
  <2>4. l[1] = n /\ i \in 1..Len(Content[n])
    BY <2>2, <2>3
  <2>5. <<n, i, Content[n][i]>> \in Whole(n)
    BY <2>4 DEF Whole
  <2> QED BY <2>1, <2>4, <2>5 DEF Init
<1>3. ASSUME NEW t \in Tasks PROVE Streamed(t)
  <2>1. nar[t] \in Nars /\ t \in Agents
    BY CoreInit, AgentFacts DEF CoreType
  <2>2. Len(Content[nar[t]]) \in Nat
    BY <2>1, ContentAssumption
  <2>3. got[t] = <<>> /\ want[t] = <<>> /\ seen[t] = 0 /\ pc[t] = "idle"
    BY <2>1 DEF Init
  <2> QED BY <2>2, <2>3 DEF Streamed
<1> QED BY <1>1, <1>2, <1>3 DEF ReadInv

(* A client whose stream ends without an error got the whole NAR, for any  *)
(* NARs, chunks, calls and batch sizes, although it may have followed a    *)
(* chunking that was aborted, cleaned up and begun anew, or the row may    *)
(* have gone (streamCompleteChunks, streamProgressiveChunks); but for NARs *)
(* whose lock has run out under a call.                                    *)
THEOREM BodiesAreWhole == Spec => []BodyWhole
<1>1. Init => ReadInv
  BY StreamInit
<1>2. IInv /\ ReadInv /\ [Next]_vars => ReadInv'
  <2> SUFFICES ASSUME IInv, ReadInv, [Next]_vars, Sound'
               PROVE  /\ StreamType' /\ Gapless'
                      /\ \A t \in Tasks : nar'[t] \notin lapsed' => Streamed(t)'
    BY DEF ReadInv
  <2>0. lapsed \subseteq lapsed'
    BY LapsedGrows
  <2>1. /\ Sound /\ StreamType /\ Gapless /\ \A t \in Tasks : nar[t] \notin lapsed => Streamed(t)
        /\ CoreType /\ Role
    BY ScenarioStays DEF Sound, ReadInv, IInv, LockInv
  <2>2. Gapless'
    BY <2>1, GaplessNext
  <2>3. StreamType'
    <3>1. CASE UNCHANGED reader
      BY <2>1, <3>1 DEF StreamType, reader
    <3>2. ASSUME NEW t \in Tasks, Read(t) PROVE StreamType'
      <4>1. total \in [Nars -> Nat] /\ nar[t] \in Nars /\ seen \in [Agents -> Nat]
        BY <2>1, AgentFacts DEF CoreType, StreamType
      <4>2. DOMAIN want' = DOMAIN want /\ DOMAIN got' = DOMAIN got
        BY <3>2 DEF Read, Look, Route, GetNarFromStore, ReadInit, ListChunks, Fetch, Poll, PollRow,
           reader
      <4>3. seen' \in [Agents -> Nat]
        BY <3>2, <4>1 DEF Read, Look, Route, GetNarFromStore, ReadInit, ListChunks, Fetch, Poll,
           PollRow, reader
      <4> QED BY <2>1, <4>2, <4>3 DEF StreamType
    <3> QED BY <3>1, <3>2, StreamStep
  <2>4. ASSUME NEW t \in Tasks, nar'[t] \notin lapsed' PROVE Streamed(t)'
    <3>0. nar[t] \notin lapsed
      BY <2>0, <2>1, <2>4, StartsOwn
    <3>1. CASE Read(t)
      BY <2>1, <3>0, <3>1, ReaderNext
    <3>2. CASE ~Read(t)
      <4>1. nar'[t] = nar[t]
        BY <2>1, StartsOwn
      <4>2. /\ got'[t] = got[t] /\ seen'[t] = seen[t] /\ want'[t] = want[t]
            /\ pc'[t] \in {"list", "fetch", "eof"} => pc'[t] = pc[t]
            /\ Starting(pc'[t]) => Starting(pc[t])
        BY <2>1, <3>2, StreamsStay
      <4>3. Streamed(t)
        BY <2>1, <3>0
      <4>4. /\ Content[nar'[t]] = Content[nar[t]] /\ Len(got'[t]) = Len(got[t])
            /\ pc'[t] = "list" => pc[t] = "list"
            /\ pc'[t] = "fetch" => pc[t] = "fetch"
            /\ pc'[t] = "eof" => pc[t] = "eof"
        BY <4>1, <4>2
      <4> QED BY <4>1, <4>2, <4>3, <4>4 DEF Streamed
    <3> QED BY <3>1, <3>2
  <2> QED BY <2>2, <2>3, <2>4
<1>3. ReadInv => BodyWhole
  BY DEF ReadInv, BodyWhole, Streamed
<1> QED BY <1>1, <1>2, <1>3, Safe, PTL DEF Spec
=============================================================================
