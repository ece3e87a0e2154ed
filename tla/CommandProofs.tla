---------------------------- MODULE CommandProofs ----------------------------
(***************************************************************************)
(* Two commands that change the database beside everything else. Fsck for  *)
(* any number of NARs and chunks, any damage, and any calls beside any     *)
(* number of runs; and, from Sentinel on, Migrate for any number of          *)
(* migrations and of pods. The two have no state in common.                *)
(***************************************************************************)
EXTENDS Fsck, Migrate, FiniteSetTheorems, WellFoundedInduction, TLAPS

(***************************************************************************)
(* The tables, whose foreign keys cascade.                                 *)
(***************************************************************************)
Tables ==
    /\ scenario \in Scenarios
    /\ DOMAIN nf \subseteq Key /\ nf \in [DOMAIN nf -> NarFile]
    /\ DOMAIN info \subseteq Nars /\ info \in [DOMAIN info -> NarInfo]
    /\ joined \subseteq DOMAIN nf /\ \A r \in joined : r[1] \in DOMAIN info
    /\ chunkRows \subseteq Chunks /\ clinks \subseteq (DOMAIN nf) \X chunkRows
    /\ blob \in [Chunks -> {"absent", "good", "bad"}]

(* What a run may do to them: rows, links and blobs go, a row keeps its    *)
(* identity and its bytes, and it loses its link only with its narinfo.    *)
Shrinks ==
    /\ scenario' = scenario /\ touched' = touched
    /\ DOMAIN nf' \subseteq DOMAIN nf
    /\ \A r \in DOMAIN nf' : /\ nf'[r].id = nf[r].id /\ nf'[r].total = nf[r].total
                             /\ nf'[r].body = nf[r].body
    /\ DOMAIN info' \subseteq DOMAIN info
    /\ \A n \in DOMAIN info' : info'[n].hash = info[n].hash
    /\ chunkRows' \subseteq chunkRows /\ clinks' \subseteq clinks
    /\ \A r \in joined : r \in DOMAIN nf' /\ r[1] \in DOMAIN info' => r \in joined'
    /\ \A c \in Chunks : blob'[c] \in {blob[c], "absent"}

LEMMA RowsGone ==
    ASSUME Tables, NEW S, WithoutRows(S), UNCHANGED <<scenario, info, chunkRows, blob, touched>>
    PROVE  Tables' /\ Shrinks
  <1>1. DOMAIN nf' = DOMAIN nf \ S /\ \A r \in DOMAIN nf \ S : nf'[r] = nf[r]
    BY DEF WithoutRows, Restrict
  <1>2. nf' \in [DOMAIN nf' -> NarFile]
    BY <1>1 DEF WithoutRows, Restrict, Tables
  <1>3. clinks' \subseteq (DOMAIN nf') \X chunkRows'
    BY <1>1 DEF WithoutRows, Tables
  <1> QED
    BY <1>1, <1>2, <1>3 DEF WithoutRows, Tables, Shrinks

LEMMA ChunkRowsGone ==
    ASSUME Tables, NEW S, WithoutChunkRows(S), UNCHANGED <<scenario, nf, info, joined, blob, touched>>
    PROVE  Tables' /\ Shrinks
  BY DEF WithoutChunkRows, Tables, Shrinks

LEMMA InfoGone ==
    ASSUME Tables, NEW n, WithoutInfo(n), UNCHANGED <<scenario, nf, chunkRows, clinks, blob, touched>>
    PROVE  Tables' /\ Shrinks
  <1>1. DOMAIN info' = DOMAIN info \ {n} /\ \A m \in DOMAIN info \ {n} : info'[m] = info[m]
    BY DEF WithoutInfo, Restrict
  <1>2. info' \in [DOMAIN info' -> NarInfo]
    BY <1>1 DEF WithoutInfo, Restrict, Tables
  <1>3. joined' \subseteq DOMAIN nf' /\ \A r \in joined' : r[1] \in DOMAIN info'
    BY <1>1 DEF WithoutInfo, Tables
  <1> QED
    BY <1>1, <1>2, <1>3 DEF WithoutInfo, Tables, Shrinks

LEMMA BlobGone ==
    ASSUME Tables, NEW c, blob' = [blob EXCEPT ![c] = "absent"], UNCHANGED <<scenario, tables, touched>>
    PROVE  Tables' /\ Shrinks
  BY DEF tables, Tables, Shrinks

LEMMA NoneGone ==
    ASSUME Tables, UNCHANGED <<scenario, tables, blob, touched>>
    PROVE  Tables' /\ Shrinks
  BY DEF tables, Tables, Shrinks

(* A column of rows or of narinfos is set.                                 *)
LEMMA RowsSet ==
    ASSUME Tables, DOMAIN nf' = DOMAIN nf, nf' \in [DOMAIN nf -> NarFile],
           \A r \in DOMAIN nf : /\ nf'[r].id = nf[r].id /\ nf'[r].total = nf[r].total
                                /\ nf'[r].body = nf[r].body,
           UNCHANGED <<scenario, info, joined, chunkRows, clinks, blob, touched>>
    PROVE  Tables' /\ Shrinks
  BY DEF Tables, Shrinks

LEMMA InfosSet ==
    ASSUME Tables, DOMAIN info' = DOMAIN info, info' \in [DOMAIN info -> NarInfo],
           \A n \in DOMAIN info : info'[n].hash = info[n].hash,
           joined \subseteq joined', joined' \subseteq DOMAIN nf, \A r \in joined' : r[1] \in DOMAIN info,
           UNCHANGED <<scenario, nf, chunkRows, clinks, blob, touched>>
    PROVE  Tables' /\ Shrinks
  BY DEF Tables, Shrinks

(***************************************************************************)
(* Where a run is.                                                         *)
(***************************************************************************)
RowChecks == {"1b", "1c"} \cup ChunkedRepairs
Janitoring == {"janitor", "normalize", "clearFlag", "setFlag", "reclaim", "orphans", "orphanBlob"}
Early == {"verify", "classify", "decide"} \cup Janitoring
Linking == {"links", "page", "stranded", "desync"}
Places == {"idle", "scan", "begin", "repair", "act", "infos", "chunks", "chunkRow"}
          \cup Early \cup Linking

Control ==
    /\ pc \in Places /\ at \in 1 .. 10
    /\ pc \in {"classify", "decide"} \cup Janitoring => at = 1
    /\ pc = "infos" => at \in {3, 6, 7, 8, 9}
    /\ pc \in {"chunks", "chunkRow"} => at \in 6 .. 9
    /\ sus = [k \in CheckIds |-> sus[k]]
    /\ pc \in {"repair", "act"} => todo \subseteq sus[Category]
    /\ pc = "act" /\ at # 1 => item \in sus[Category]
    /\ pc = "act" /\ at = 1 => \A s \in item.row : s.key[1] = item.nar

LEMMA CheckList ==
    /\ Checks[1] = "1a" /\ Checks[2] = "1b" /\ Checks[3] = "1c" /\ Checks[4] = "1d"
    /\ Checks[5] = "1e" /\ Checks[6] = "1f" /\ Checks[7] = "1g" /\ Checks[8] = "1h"
    /\ Checks[9] = "1i" /\ Checks[10] = "1j"
  BY DEF Checks

LEMMA RepairList ==
    /\ Repairs[1] = "1a" /\ Repairs[2] = "1b" /\ Repairs[3] = "1c" /\ Repairs[4] = "1d"
    /\ Repairs[5] = "1e" /\ Repairs[6] = "1f" /\ Repairs[7] = "1g" /\ Repairs[8] = "1i"
    /\ Repairs[9] = "1j" /\ Repairs[10] = "1h"
  BY DEF Repairs

LEMMA TenPlaces ==
    ASSUME NEW i \in 1 .. 10
    PROVE  i \in {1, 2, 3, 4, 5, 6, 7, 8, 9, 10}
  OBVIOUS

LEMMA CheckNames == CheckIds = {"1a", "1b", "1c", "1d", "1e", "1f", "1g", "1h", "1i", "1j"}
  <1>1. DOMAIN Checks = 1 .. 10
    BY DEF Checks
  <1> QED
    BY <1>1, CheckList, TenPlaces DEF CheckIds

LEMMA AtCheck ==
    ASSUME NEW i \in 1 .. 10
    PROVE  Checks[i] \in CheckIds /\ Repairs[i] \in CheckIds
  BY CheckList, RepairList, CheckNames, TenPlaces

LEMMA NextCategoryControl ==
    ASSUME Control, NextCategory
    PROVE  pc' \in {"begin", "links", "idle"} /\ at' \in 1 .. 10
  BY DEF Control, NextCategory, LastRepair, Finish

LEMMA Categories ==
    ASSUME at \in 1 .. 10
    PROVE  /\ Category \in {"1c"} \cup ChunkedRepairs => at \in {3, 6, 7, 8, 9}
           /\ Category \in ChunkedRepairs => at \in 6 .. 9
           /\ Category = "1a" <=> at = 1
           /\ Category = "1b" <=> at = 2
           /\ Category = "1d" <=> at = 4
           /\ Category = "1e" <=> at = 5
           /\ Category = "1h" <=> at = 10
           /\ Category = "1c" <=> at = 3
           /\ Category = "1f" <=> at = 6
           /\ Category = "1g" <=> at = 7
           /\ Category = "1i" <=> at = 8
           /\ Category = "1j" <=> at = 9
           /\ Category \in RowChecks <=> at \in {2, 3, 6, 7, 8, 9}
  BY RepairList, TenPlaces DEF Category, ChunkedRepairs, RowChecks

LEMMA ControlScan ==
    ASSUME Control, Scan \/ ReVerify
    PROVE  Control'
  <1>1. /\ \E S : sus' = [sus EXCEPT ![Checks[at]] = S]
        /\ pc' \in {"scan", "verify", "classify", "decide"} /\ at' \in 1 .. 10
        /\ pc' \in {"classify", "decide"} => at' = 1
    BY DEF Scan, ReVerify, Control, LastCheck
  <1> QED
    BY <1>1, AtCheck DEF Control, Places, Early, Linking, Janitoring

LEMMA ControlEarly ==
    ASSUME Control, Classify \/ JanitorEnd \/ Normalize \/ Flag \/ PurgeRow \/ PurgeChunkBlob \/ PurgeEnd
                    \/ (\E s \in todo : JanitorVisit(s)) \/ (\E c \in Chunks : PurgeChunkRow(c))
                    \/ Report \/ Proceed
    PROVE  Control'
  <1>1. at' = at /\ at = 1 /\ UNCHANGED sus
    BY DEF Control, Janitoring, Classify, JanitorEnd, Normalize, Flag, PurgeRow, PurgeChunkBlob,
           PurgeEnd, JanitorVisit, PurgeChunkRow, Report, Proceed, found, Finish
  <1>2. pc' \in Janitoring \cup {"decide", "begin", "idle"}
    BY DEF Control, Janitoring, Classify, JanitorEnd, Normalize, Flag, PurgeRow, PurgeChunkBlob,
           PurgeEnd, JanitorVisit, PurgeChunkRow, Report, Proceed, Finish, DecideChunkedResidue
  <1> QED
    BY <1>1, <1>2 DEF Control, Places, Early, Linking, Janitoring

LEMMA ControlRepair ==
    ASSUME Control, BeginRepair \/ Act \/ ItemsEnd \/ \E x \in todo : Pick(x)
    PROVE  Control'
  <1>0. Category \in CheckIds
    BY AtCheck DEF Control, Category
  <1>1. CASE BeginRepair /\ Skipped(Category)
    BY <1>1, NextCategoryControl DEF BeginRepair, Control, Places, Early, Linking, Janitoring, found
  <1>2. CASE BeginRepair /\ ~Skipped(Category)
    <2>1. pc' = "repair" /\ at' = at /\ sus' = sus /\ todo' \subseteq sus[Category]
      BY <1>2 DEF BeginRepair, found
    <2> QED
      BY <2>1 DEF Control, Places, Early, Linking, Janitoring, Category
  <1>3. CASE Act
    BY <1>3 DEF Act, Control, Places, Early, Linking, Janitoring, found, loop, Category
  <1>4. CASE ItemsEnd /\ Category \in {"1c"} \cup ChunkedRepairs
    BY <1>4, Categories DEF ItemsEnd, Control, Places, Early, Linking, Janitoring, found
  <1>5. CASE ItemsEnd /\ Category \notin {"1c"} \cup ChunkedRepairs
    BY <1>5, NextCategoryControl DEF ItemsEnd, Control, Places, Early, Linking, Janitoring, found
  <1>6. ASSUME NEW x \in todo, Pick(x)
        PROVE  Control'
    <2>1. at' = at /\ sus' = sus /\ todo' = todo \ {x} /\ pc = "repair" /\ pc' \in {"repair", "act"}
      BY <1>6 DEF Pick, found
    <2>2. pc' = "act" => item' = IF Category = "1a" THEN [nar |-> x.nar, row |-> Backing(x)] ELSE x
      BY <1>6 DEF Pick
    <2>3. \A s \in Backing(x) : s.key[1] = x.nar
      BY DEF Backing
    <2>4. Category = "1a" <=> at = 1
      BY Categories DEF Control
    <2>5. (pc = "act" /\ at # 1 => item \in sus[Category])'
      BY <2>1, <2>2, <2>4 DEF Control, Category
    <2>6. (pc = "act" /\ at = 1 => \A s \in item.row : s.key[1] = item.nar)'
      BY <2>1, <2>2, <2>3, <2>4
    <2>7. (pc \in {"repair", "act"} => todo \subseteq sus[Category])'
      BY <2>1 DEF Control, Category
    <2> QED
      BY <2>1, <2>5, <2>6, <2>7 DEF Control, Places, Early, Linking, Janitoring
  <1> QED
    BY <1>1, <1>2, <1>3, <1>4, <1>5, <1>6

LEMMA ControlLate ==
    ASSUME Control, InfosEnd \/ DropChunkRow \/ ChunksEnd \/ StaleLinks \/ Page \/ StrandedRows \/ Desync
                    \/ (\E n \in Nars : DropInfo(n))
                    \/ (\E c \in Chunks : DropBlob(c) \/ StrandedBlob(c)) \/ Abort
    PROVE  Control'
  <1>1. CASE InfosEnd /\ Category \in ChunkedRepairs
    BY <1>1, Categories DEF InfosEnd, Control, Places, Early, Linking, Janitoring, found
  <1>2. CASE (InfosEnd /\ Category \notin ChunkedRepairs) \/ ChunksEnd
    BY <1>2, NextCategoryControl
    DEF InfosEnd, ChunksEnd, Control, Places, Early, Linking, Janitoring, found, loop
  <1>3. CASE DropChunkRow \/ (\E c \in Chunks : DropBlob(c)) \/ (\E n \in Nars : DropInfo(n))
    BY <1>3 DEF DropChunkRow, DropBlob, DropInfo, Control, Places, Early, Linking, Janitoring, found
  <1>4. CASE StaleLinks \/ Page \/ StrandedRows \/ Desync \/ Abort \/ (\E c \in Chunks : StrandedBlob(c))
    BY <1>4 DEF StaleLinks, Page, StrandedRows, Desync, Abort, StrandedBlob, Finish, Control, Places,
                Early, Linking, Janitoring, found
  <1> QED
    BY <1>1, <1>2, <1>3, <1>4

LEMMA ControlSlip ==
    ASSUME Control, Slip
    PROVE  Control'
  <1>1. at' = at /\ sus' = sus
    BY DEF Slip, found
  <1>2. CASE pc = "act"
    BY <1>1, <1>2 DEF Slip, Control, Places, Early, Linking, Janitoring, Category
  <1>3. CASE pc # "act"
    <2>1. \/ pc = "infos" /\ pc' = "infos"
          \/ pc \in {"chunks", "chunkRow"} /\ pc' \in {"chunks", "chunkRow"}
          \/ pc \in Janitoring /\ pc' \in Janitoring
      BY <1>3 DEF Slip, Janitoring
    <2> QED
      BY <1>1, <2>1 DEF Control, Places, Early, Linking, Janitoring
  <1> QED
    BY <1>2, <1>3

LEMMA ControlRun ==
    ASSUME Control, Run
    PROVE  Control'
  BY ControlScan, ControlEarly, ControlRepair, ControlLate, ControlSlip DEF Run, Janitor, Repair

LEMMA ControlStep ==
    ASSUME Control, [Next]_vars
    PROVE  Control'
  <1>1. CASE \E o \in scenario.opts : Start(o)
    BY <1>1 DEF Start, Control, Places, Early, Linking, Janitoring, NoSuspects
  <1>2. CASE Age
    BY <1>2 DEF Age, Control, Places, Early, Linking, Janitoring, found
  <1>3. CASE Server \/ UNCHANGED vars
    <2>1. UNCHANGED <<pc, at, sus, todo, item>>
      BY <1>3, ZenonT(60) DEF Server, PullRow, PullFile, UploadFile, UploadRow, UploadInfo, ChunkPull, ChunkStart,
                  ChunkPut, ChunkRecord, ChunkMark, EvictRows, EvictFile, Live, found, loop, vars, fsck
    <2> QED
      BY <2>1 DEF Control, Category
  <1> QED
    BY <1>1, <1>2, <1>3, ControlRun DEF Next

(***************************************************************************)
(* A run only takes away.                                                  *)
(***************************************************************************)
LEMMA ScanShrinks ==
    ASSUME Tables, Scan
    PROVE  Tables' /\ Shrinks
  <1>1. /\ nf' = [r \in DOMAIN nf |-> IF \E s \in VerifiedBy(Checks[at]) : s.key = r
                                      THEN [nf[r] EXCEPT !.verified = TRUE] ELSE nf[r]]
        /\ UNCHANGED <<scenario, info, joined, chunkRows, clinks, blob, touched>>
    BY DEF Scan, stores
  <1>2. \A r \in DOMAIN nf : nf[r] \in NarFile
    BY DEF Tables
  <1>3. DOMAIN nf' = DOMAIN nf
    BY <1>1
  <1>4. ASSUME NEW r \in DOMAIN nf
        PROVE  /\ nf'[r] \in NarFile /\ nf'[r].id = nf[r].id
               /\ nf'[r].total = nf[r].total /\ nf'[r].body = nf[r].body
    <2>1. nf'[r] \in {nf[r], [nf[r] EXCEPT !.verified = TRUE]}
      BY <1>1
    <2> QED
      BY <2>1, <1>2 DEF NarFile
  <1>5. nf' \in [DOMAIN nf -> NarFile]
    BY <1>1, <1>3, <1>4
  <1> QED
    BY <1>1, <1>3, <1>4, <1>5, RowsSet

LEMMA AgeShrinks ==
    ASSUME Tables, Age
    PROVE  Tables' /\ Shrinks
  <1>1. /\ nf' = [r \in DOMAIN nf |->
                     [nf[r] EXCEPT !.verified = FALSE,
                                   !.flag = IF @ = "young" THEN "aged" ELSE @]]
        /\ UNCHANGED <<scenario, info, joined, chunkRows, clinks, blob, touched>>
    BY DEF Age, stores
  <1>2. DOMAIN nf' = DOMAIN nf
    BY <1>1
  <1>3. ASSUME NEW r \in DOMAIN nf
        PROVE  /\ nf'[r] \in NarFile /\ nf'[r].id = nf[r].id
               /\ nf'[r].total = nf[r].total /\ nf'[r].body = nf[r].body
    <2>1. nf[r] \in NarFile
      BY DEF Tables
    <2>2. nf'[r] = [nf[r] EXCEPT !.verified = FALSE,
                                 !.flag = IF nf[r].flag = "young" THEN "aged" ELSE nf[r].flag]
      BY <1>1
    <2> QED
      BY <2>1, <2>2 DEF NarFile
  <1>4. nf' \in [DOMAIN nf -> NarFile]
    BY <1>1, <1>2, <1>3
  <1> QED
    BY <1>1, <1>2, <1>3, <1>4, RowsSet

LEMMA FlagShrinks ==
    ASSUME Tables, Flag
    PROVE  Tables' /\ Shrinks
  <1>1. UNCHANGED <<scenario, info, joined, chunkRows, clinks, blob, touched>>
    BY DEF Flag, stores
  <1>2. CASE ~Same(item)
    BY <1>1, <1>2, NoneGone DEF Flag, tables
  <1>3. CASE Same(item)
    <2>1. PICK f \in {"young", "no"} : nf' = [nf EXCEPT ![item.key] = [nf[item.key] EXCEPT !.flag = f]]
      BY <1>3 DEF Flag
    <2>2. item.key \in DOMAIN nf /\ nf[item.key] \in NarFile
      BY <1>3 DEF Same, Tables
    <2>3. [nf[item.key] EXCEPT !.flag = f] \in NarFile
      BY <2>2 DEF NarFile
    <2>4. \A r \in DOMAIN nf : /\ nf'[r].id = nf[r].id /\ nf'[r].total = nf[r].total
                               /\ nf'[r].body = nf[r].body
      BY <2>1, <2>2 DEF NarFile
    <2>5. DOMAIN nf' = DOMAIN nf /\ nf' \in [DOMAIN nf -> NarFile]
      BY <2>1, <2>2, <2>3 DEF Tables
    <2> QED
      BY <1>1, <2>4, <2>5, RowsSet
  <1> QED
    BY <1>2, <1>3

LEMMA NormalizeShrinks ==
    ASSUME Tables, Normalize
    PROVE  Tables' /\ Shrinks
  <1> DEFINE r == item.key
             n == r[1]
  <1>1. UNCHANGED <<scenario, nf, chunkRows, clinks, blob, touched>>
    BY DEF Normalize, stores
  <1>2. CASE UNCHANGED <<info, joined>>
    BY <1>1, <1>2, NoneGone DEF tables
  <1>3. CASE /\ r \in DOMAIN nf /\ n \in DOMAIN info
             /\ info' = [info EXCEPT ![n].url = "none"] /\ joined' = joined \cup {r}
    <2>1. info' = [info EXCEPT ![n] = [info[n] EXCEPT !.url = "none"]]
      BY <1>3
    <2>2. info[n] \in NarInfo /\ [info[n] EXCEPT !.url = "none"] \in NarInfo
      BY <1>3 DEF Tables, NarInfo, Forms
    <2>3. DOMAIN info' = DOMAIN info /\ info' \in [DOMAIN info -> NarInfo]
      BY <2>1, <2>2 DEF Tables
    <2>4. \A m \in DOMAIN info : info'[m].hash = info[m].hash
      BY <2>1, <2>2 DEF NarInfo
    <2>5. joined \subseteq joined' /\ joined' \subseteq DOMAIN nf /\ \A q \in joined' : q[1] \in DOMAIN info
      BY <1>3 DEF Tables
    <2> QED
      BY <1>1, <2>3, <2>4, <2>5, InfosSet
  <1> QED
    BY <1>2, <1>3 DEF Normalize

LEMMA DesyncShrinks ==
    ASSUME Tables, Desync
    PROVE  Tables' /\ Shrinks
  <1>1. /\ info' = [n \in DOMAIN info |->
                       IF Desynced(n) THEN [info[n] EXCEPT !.url = "none"] ELSE info[n]]
        /\ UNCHANGED <<scenario, nf, joined, chunkRows, clinks, blob, touched>>
    BY DEF Desync, stores
  <1>2. \A n \in DOMAIN info : info[n] \in NarInfo
    BY DEF Tables
  <1>3. DOMAIN info' = DOMAIN info
    BY <1>1
  <1>4. ASSUME NEW n \in DOMAIN info
        PROVE  info'[n] \in NarInfo /\ info'[n].hash = info[n].hash
    <2>1. info'[n] \in {info[n], [info[n] EXCEPT !.url = "none"]}
      BY <1>1
    <2> QED
      BY <1>2, <2>1 DEF NarInfo, Forms
  <1>5. info' \in [DOMAIN info -> NarInfo]
    BY <1>1, <1>3, <1>4
  <1> QED
    BY <1>1, <1>3, <1>4, <1>5, InfosSet DEF Tables

LEMMA ActShrinks ==
    ASSUME Tables, Control, Act
    PROVE  Tables' /\ Shrinks
  <1>0. scenario' = scenario /\ touched' = touched /\ pc = "act"
    BY DEF Act
  <1>a. Category \in CheckIds
    BY AtCheck DEF Category, Control
  <1>1. CASE Category = "1a" /\ item.row # {}
    <2>1. /\ CanRelink(item) /\ joined' = joined \cup {s.key : s \in item.row}
          /\ UNCHANGED <<nf, info, chunkRows, clinks, blob>>
      BY <1>1 DEF Act, stores, ChunkedRepairs
    <2>2. \A s \in item.row : s.key[1] = item.nar
      BY <1>0, <1>1, Categories DEF Control
    <2>3. \A r \in joined' : r \in DOMAIN nf /\ r[1] \in DOMAIN info
      BY <2>1, <2>2 DEF CanRelink, Same, Tables
    <2>4. info \in [DOMAIN info -> NarInfo] /\ joined \subseteq joined' /\ joined' \subseteq DOMAIN nf
      BY <2>1, <2>3 DEF Tables
    <2> QED
      BY <1>0, <2>1, <2>3, <2>4, InfosSet
  <1>2. CASE Category = "1a" /\ item.row = {}
    BY <1>0, <1>2, InfoGone DEF Act, stores, ChunkedRepairs
  <1>3. CASE Category \in {"1b", "1c"} \cup ChunkedRepairs
    BY <1>0, <1>3, RowsGone DEF Act, stores, ChunkedRepairs
  <1>4. CASE Category = "1d"
    BY <1>0, <1>4, NoneGone DEF Act, ChunkedRepairs
  <1>5. CASE Category = "1e"
    BY <1>0, <1>5, ChunkRowsGone DEF Act, stores, ChunkedRepairs
  <1>6. CASE Category = "1h"
    BY <1>0, <1>6, BlobGone DEF Act, ChunkedRepairs
  <1> QED
    BY <1>a, <1>1, <1>2, <1>3, <1>4, <1>5, <1>6, CheckNames DEF ChunkedRepairs

LEMMA DropsShrink ==
    ASSUME Tables, \/ PurgeRow \/ (\E c \in Chunks : PurgeChunkRow(c)) \/ PurgeChunkBlob
                   \/ (\E n \in Nars : DropInfo(n)) \/ DropChunkRow \/ StaleLinks \/ StrandedRows
                   \/ (\E c \in Chunks : DropBlob(c) \/ StrandedBlob(c))
    PROVE  Tables' /\ Shrinks
  <1>1. CASE PurgeRow
    <2>1. UNCHANGED <<scenario, info, chunkRows, blob, touched>>
      BY <1>1 DEF PurgeRow, stores
    <2>2. UNCHANGED <<nf, joined, clinks>> \/ \E S : WithoutRows(S)
      BY <1>1 DEF PurgeRow
    <2> QED
      BY <2>1, <2>2, NoneGone, RowsGone DEF tables
  <1>2. ASSUME NEW c \in Chunks, PurgeChunkRow(c)
        PROVE  Tables' /\ Shrinks
    <2>1. UNCHANGED <<scenario, nf, info, joined, clinks, blob, touched>>
      BY <1>2 DEF PurgeChunkRow, stores
    <2>2. CASE c \in OrphanChunks
      <3>1. chunkRows' = chunkRows \ {c} /\ \A l \in clinks : l[2] # c
        BY <1>2, <2>2 DEF PurgeChunkRow, OrphanChunks
      <3>2. clinks' = {l \in clinks : l[2] \notin {c}}
        BY <2>1, <3>1
      <3> QED
        BY <2>1, <3>1, <3>2, ChunkRowsGone DEF WithoutChunkRows
    <2>3. CASE c \notin OrphanChunks
      BY <1>2, <2>1, <2>3, NoneGone DEF PurgeChunkRow, tables
    <2> QED
      BY <2>2, <2>3
  <1>3. CASE PurgeChunkBlob
    BY <1>3, BlobGone DEF PurgeChunkBlob
  <1>4. CASE \E n \in Nars : DropInfo(n)
    BY <1>4, InfoGone DEF DropInfo, stores
  <1>5. CASE DropChunkRow \/ StrandedRows
    BY <1>5, ChunkRowsGone DEF DropChunkRow, StrandedRows, stores
  <1>6. CASE StaleLinks
    BY <1>6 DEF StaleLinks, stores, Tables, Shrinks
  <1>7. CASE \E c \in Chunks : DropBlob(c) \/ StrandedBlob(c)
    BY <1>7, BlobGone DEF DropBlob, StrandedBlob
  <1> QED
    BY <1>1, <1>2, <1>3, <1>4, <1>5, <1>6, <1>7

LEMMA OthersShrink ==
    ASSUME Tables, \/ ReVerify \/ Classify \/ JanitorEnd \/ PurgeEnd \/ (\E s \in todo : JanitorVisit(s))
                   \/ Report \/ Proceed \/ BeginRepair \/ Slip \/ ItemsEnd \/ InfosEnd \/ ChunksEnd
                   \/ Page \/ (\E x \in todo : Pick(x)) \/ Abort
    PROVE  Tables' /\ Shrinks
  <1>1. UNCHANGED <<scenario, tables, blob, touched>>
    BY DEF ReVerify, Classify, JanitorEnd, PurgeEnd, JanitorVisit, Report, Proceed, BeginRepair, Slip,
           ItemsEnd, InfosEnd, ChunksEnd, Page, Pick, Abort, data, stores
  <1> QED
    BY <1>1, NoneGone

LEMMA RunShrinks ==
    ASSUME Tables, Control, Run \/ Age
    PROVE  Tables' /\ Shrinks
  BY ScanShrinks, AgeShrinks, FlagShrinks, NormalizeShrinks, DesyncShrinks, ActShrinks, DropsShrink,
     OthersShrink DEF Run, Janitor, Repair

(***************************************************************************)
(* A call of the server changes what belongs to its own NAR, and may put a *)
(* chunk that was not there.                                               *)
(***************************************************************************)
Elsewhere(m) ==
    /\ scenario' = scenario /\ touched' = touched \cup {m} /\ calm' = FALSE /\ quiet' = 0
    /\ UNCHANGED <<opt, cdc, pc, at, found, loop, runs>>
    /\ \A r \in DOMAIN nf \cup DOMAIN nf' :
           r[1] # m => r \in DOMAIN nf /\ r \in DOMAIN nf' /\ nf'[r] = nf[r]
    /\ \A r \in joined \cup joined' : r[1] # m => r \in joined /\ r \in joined'
    /\ \A n \in DOMAIN info \cup DOMAIN info' :
           n # m => n \in DOMAIN info /\ n \in DOMAIN info' /\ info'[n] = info[n]
    /\ \A l \in clinks \cup clinks' : l[1][1] # m => l \in clinks /\ l \in clinks'
    /\ \A x \in whole \cup whole' : x[1] # m => x \in whole /\ x \in whole'
    /\ chunkRows \subseteq chunkRows'
    /\ \A c \in Chunks : blob'[c] = blob[c] \/ (c \in Content[m] /\ blob[c] = "absent")

LEMMA NewRowType == NewRow \in NarFile
  BY DEF NewRow, NarFile

LEMMA StoreElsewhere ==
    ASSUME Tables, NEW m \in Nars, NEW form \in Forms, NEW from, NEW to, NEW kind,
           Live(m, kind, from, to), StoreInDatabase(m, form)
    PROVE  Tables' /\ Elsewhere(m)
  <1> DEFINE r == <<m, form>>
  <1>1. r \in Key /\ r[1] = m
    BY DEF Key
  <1> HIDE DEF r
  <1>2. /\ info' = [n \in DOMAIN info \cup {m} |->
                       IF n = m THEN [url |-> form, hash |-> TRUE] ELSE info[n]]
        /\ nf' = IF r \in DOMAIN nf THEN nf
                 ELSE [q \in DOMAIN nf \cup {r} |-> IF q = r THEN NewRow ELSE nf[q]]
        /\ joined' = joined \cup {r} /\ UNCHANGED <<chunkRows, clinks, whole, blob>>
    BY DEF StoreInDatabase, AddRow, stores, r
  <1>3. DOMAIN info' = DOMAIN info \cup {m} /\ info' \in [DOMAIN info' -> NarInfo]
    BY <1>2 DEF Tables, NarInfo
  <1>4. DOMAIN nf' = DOMAIN nf \cup {r} /\ nf' \in [DOMAIN nf' -> NarFile]
    BY <1>2, NewRowType DEF Tables
  <1>5. scenario' = scenario
    BY DEF Live
  <1>6. Tables'
    BY <1>1, <1>2, <1>3, <1>4, <1>5 DEF Tables
  <1>7. Elsewhere(m)
    BY <1>1, <1>2, <1>3, <1>4 DEF Elsewhere, Live
  <1> QED
    BY <1>6, <1>7

LEMMA FileElsewhere ==
    ASSUME Tables, NEW m \in Nars, PullFile(m) \/ UploadFile(m) \/ EvictFile(m)
    PROVE  Tables' /\ Elsewhere(m)
  <1>1. /\ UNCHANGED <<scenario, tables, blob>>
        /\ \A x \in whole \cup whole' : x[1] # m => x \in whole /\ x \in whole'
    BY DEF PullFile, UploadFile, EvictFile, Live
  <1>2. Tables'
    BY <1>1 DEF Tables, tables
  <1>3. Elsewhere(m)
    BY <1>1 DEF Elsewhere, tables, PullFile, UploadFile, EvictFile, Live
  <1> QED
    BY <1>2, <1>3

LEMMA RowElsewhere ==
    ASSUME Tables, NEW m \in Nars, UploadRow(m) \/ ChunkStart(m) \/ ChunkMark(m)
    PROVE  Tables' /\ Elsewhere(m)
  <1>1. UNCHANGED <<scenario, info, joined, chunkRows, clinks, whole, blob>>
    BY DEF UploadRow, ChunkStart, ChunkMark, stores, Live
  <1>2. /\ DOMAIN nf \subseteq DOMAIN nf' /\ DOMAIN nf' \subseteq Key /\ nf' \in [DOMAIN nf' -> NarFile]
        /\ \A q \in DOMAIN nf' : q[1] # m => q \in DOMAIN nf /\ nf'[q] = nf[q]
    <2>1. CASE UploadRow(m)
      <3> DEFINE r == <<m, "xz">>
      <3>1. r \in Key /\ r[1] = m
        BY DEF Key, Forms
      <3>2. nf' = IF r \in DOMAIN nf THEN nf
                  ELSE [q \in DOMAIN nf \cup {r} |-> IF q = r THEN NewRow ELSE nf[q]]
        BY <2>1 DEF UploadRow, AddRow
      <3> HIDE DEF r
      <3>3. DOMAIN nf' = DOMAIN nf \cup {r} /\ nf' \in [DOMAIN nf' -> NarFile]
        BY <3>2, NewRowType DEF Tables
      <3> QED
        BY <3>1, <3>2, <3>3 DEF Tables
    <2>0. CASE ChunkStart(m) /\ UNCHANGED nf
      BY <2>0 DEF Tables
    <2>2. CASE ChunkStart(m) /\ nf' # nf
      <3> DEFINE r == Plain(m)
                 old == IF r \in DOMAIN nf THEN nf[r] ELSE NewRow
      <3>1. r \in Key /\ r[1] = m
        BY DEF Key, Forms, Plain
      <3>2. nf' = [q \in DOMAIN nf \cup {r} |-> IF q # r THEN nf[q] ELSE [old EXCEPT !.started = TRUE]]
        BY <2>2 DEF ChunkStart
      <3>3. [old EXCEPT !.started = TRUE] \in NarFile
        <4>1. old \in NarFile
          BY NewRowType DEF Tables
        <4> HIDE DEF old
        <4> QED
          BY <4>1 DEF NarFile
      <3> HIDE DEF r, old
      <3>4. DOMAIN nf' = DOMAIN nf \cup {r} /\ nf' \in [DOMAIN nf' -> NarFile]
        BY <3>2, <3>3 DEF Tables
      <3> QED
        BY <3>1, <3>2, <3>4 DEF Tables
    <2>3. CASE ChunkMark(m) /\ Plain(m) \in DOMAIN nf
      <3> DEFINE r == Plain(m)
                 z == Cardinality(Content[m])
                 new == [nf[r] EXCEPT !.total = z, !.started = FALSE]
      <3>1. r[1] = m /\ r \in DOMAIN nf
        BY <2>3 DEF Plain
      <3>2. z \in Nat
        BY ContentAssumption, ChunksAssumption, FS_Subset, FS_CardinalityType
      <3>3. nf' = [nf EXCEPT ![r] = new]
        BY <2>3 DEF ChunkMark
      <3> HIDE DEF r, z
      <3>4. new \in NarFile
        BY <3>1, <3>2 DEF Tables, NarFile
      <3> HIDE DEF new
      <3> QED
        BY <3>1, <3>3, <3>4 DEF Tables
    <2>4. CASE ChunkMark(m) /\ Plain(m) \notin DOMAIN nf
      BY <2>4 DEF ChunkMark, Tables
    <2> QED
      BY <2>0, <2>1, <2>2, <2>3, <2>4
  <1>3. Tables'
    BY <1>1, <1>2 DEF Tables
  <1>4. \A r \in DOMAIN nf \cup DOMAIN nf' :
           r[1] # m => r \in DOMAIN nf /\ r \in DOMAIN nf' /\ nf'[r] = nf[r]
    BY <1>2
  <1>5. Elsewhere(m)
    BY <1>1, <1>4 DEF Elsewhere, UploadRow, ChunkStart, ChunkMark, Live
  <1> QED
    BY <1>3, <1>5

LEMMA ChunkElsewhere ==
    ASSUME Tables, NEW m \in Nars, ChunkPut(m) \/ ChunkRecord(m) \/ EvictRows(m)
    PROVE  Tables' /\ Elsewhere(m)
  <1>0. Content[m] \subseteq Chunks
    BY ContentAssumption
  <1>1. CASE ChunkPut(m)
    <2>1. /\ blob' = [c \in Chunks |-> IF c \in Content[m] /\ blob[c] = "absent" THEN "good" ELSE blob[c]]
          /\ UNCHANGED <<scenario, tables, whole>>
      BY <1>1 DEF ChunkPut, Live
    <2>2. blob' \in [Chunks -> {"absent", "good", "bad"}]
      BY <2>1 DEF Tables
    <2>3. Tables'
      BY <2>1, <2>2 DEF Tables, tables
    <2>4. Elsewhere(m)
      BY <1>1, <2>1 DEF Elsewhere, tables, ChunkPut, Live
    <2> QED
      BY <2>3, <2>4
  <1>2. CASE ChunkRecord(m)
    <2>1. /\ UNCHANGED <<scenario, nf, info, joined, whole, blob>>
          /\ \/ /\ Plain(m) \in DOMAIN nf /\ chunkRows' = chunkRows \cup Content[m]
                /\ clinks' = clinks \cup {<<Plain(m), c>> : c \in Content[m]}
             \/ UNCHANGED <<chunkRows, clinks>>
      BY <1>2 DEF ChunkRecord, Live, stores
    <2>2. Plain(m)[1] = m
      BY DEF Plain
    <2>3. Tables'
      BY <1>0, <2>1 DEF Tables
    <2>4. Elsewhere(m)
      BY <1>2, <2>1, <2>2 DEF Elsewhere, ChunkRecord, Live
    <2> QED
      BY <2>3, <2>4
  <1>3. CASE EvictRows(m)
    <2> DEFINE S == {r \in DOMAIN nf : r[1] = m}
    <2>1. /\ info' = Restrict(info, DOMAIN info \ {m}) /\ WithoutRows(S)
          /\ UNCHANGED <<scenario, chunkRows, whole, blob>>
      BY <1>3 DEF EvictRows, Live, stores
    <2>2. /\ DOMAIN nf' = DOMAIN nf \ S /\ \A r \in DOMAIN nf \ S : nf'[r] = nf[r]
          /\ nf' \in [DOMAIN nf' -> NarFile]
      BY <2>1 DEF WithoutRows, Restrict, Tables
    <2>3. /\ DOMAIN info' = DOMAIN info \ {m} /\ \A n \in DOMAIN info \ {m} : info'[n] = info[n]
          /\ info' \in [DOMAIN info' -> NarInfo]
      BY <2>1 DEF Restrict, Tables
    <2>4. joined' = joined \ S /\ clinks' = {l \in clinks : l[1] \notin S}
      BY <2>1 DEF WithoutRows
    <2>5. clinks' \subseteq (DOMAIN nf') \X chunkRows'
      BY <2>1, <2>2, <2>4 DEF Tables
    <2>6. Tables'
      BY <2>1, <2>2, <2>3, <2>4, <2>5 DEF Tables
    <2>7. Elsewhere(m)
      BY <1>3, <2>1, <2>2, <2>3, <2>4 DEF Elsewhere, EvictRows, Live, Tables
    <2> QED
      BY <2>6, <2>7
  <1> QED
    BY <1>1, <1>2, <1>3

LEMMA ServerElsewhere ==
    ASSUME Tables, Server
    PROVE  Tables' /\ \E m \in Nars : Elsewhere(m)
  <1>1. PICK m \in Nars :
          \/ PullRow(m) \/ PullFile(m) \/ UploadFile(m) \/ UploadRow(m) \/ UploadInfo(m)
          \/ ChunkPull(m) \/ ChunkStart(m) \/ ChunkPut(m) \/ ChunkRecord(m) \/ ChunkMark(m)
          \/ EvictRows(m) \/ EvictFile(m)
    BY DEF Server
  <1>2. CASE PullRow(m) \/ UploadInfo(m) \/ ChunkPull(m)
    BY <1>2, StoreElsewhere DEF PullRow, UploadInfo, ChunkPull, Forms
  <1> QED
    BY <1>1, <1>2, FileElsewhere, RowElsewhere, ChunkElsewhere

(***************************************************************************)
(* What the run has read of a row that the server leaves alone is still    *)
(* so, as long as the row is there.                                        *)
(***************************************************************************)
Faithful(s) ==
    s.key[1] \notin touched /\ s.key \in DOMAIN nf =>
        /\ nf[s.key].id = s.rec.id /\ nf[s.key].total = s.rec.total
        /\ nf[s.key].body = s.rec.body

Read ==
    /\ \A s \in all : Faithful(s)
    /\ \A k \in RowChecks : \A s \in sus[k] : Faithful(s)
    /\ \A s \in sus["1c"] : s.rec.total <= 0
    /\ \A k \in ChunkedRepairs : \A s \in sus[k] : s.rec.total > 0
    /\ \A s \in sus["1g"] :
           s.key[1] \notin touched /\ s.key \in DOMAIN nf => nf[s.key].body # "right"
    /\ pc # "idle" /\ (pc = "scan" => at > 3) =>
           \A r \in DOMAIN nf : r[1] \in touched \/ \E s \in all : s.key = r

(* The only row of a NAR, without a link: the run finds its narinfo, and   *)
(* links the two before it deletes any row without a link.                 *)
Lone(r) ==
    /\ r \in DOMAIN nf /\ r \notin joined /\ r[1] \notin touched /\ r[1] \in DOMAIN info
    /\ \A q \in DOMAIN nf \cup {s.key : s \in all} : q[1] = r[1] => q = r

WillLink(r) ==
    \/ pc = "idle" \/ (pc = "scan" /\ at = 1)
    \/ /\ pc = "scan" \/ pc \in Early \/ (pc = "begin" /\ at = 1)
       /\ \E x \in sus["1a"] : x.nar = r[1]
    \/ pc \in {"repair", "act"} /\ at = 1 /\ \E x \in todo : x.nar = r[1]
    \/ pc = "act" /\ at = 1 /\ item.nar = r[1] /\ \E s \in item.row : s.key = r

Relinks == \A r \in DOMAIN nf : Lone(r) => WillLink(r)

(* What the run is about to delete.                                        *)
Loose(c) == \A l \in clinks : l[2] = c => l[1][1] \in touched
Doomed(r) == r \in joined /\ Alone(r[1]) => ~(Present(r) /\ nf[r].body = "right")
RowRepairs == {2, 3, 6, 7, 8, 9}

Aims ==
    /\ pc = "reclaim" => item.key[1] \in touched \/ ~Verifiable(item.key[1])
    /\ pc = "act" /\ at = 1 /\ item.row = {} =>
           item.nar \in touched \/ \A r \in DOMAIN nf : r[1] # item.nar
    /\ pc = "act" /\ at \in RowRepairs => Doomed(item.key)
    /\ pc = "act" /\ at = 4 => item \notin DOMAIN nf \/ item[1] \in touched
    /\ pc = "infos" => \A n \in todo : n \in touched \/ ~Linked(n)

Sweeps ==
    /\ pc = "orphanBlob" \/ pc = "chunkRow" \/ (pc = "act" /\ at \in {5, 10}) => Loose(item)
    /\ pc \in {"chunks", "chunkRow", "stranded"} \/ (pc \in {"repair", "act"} /\ at = 5) =>
           \A c \in todo : Loose(c)
    /\ pc = "stranded" => \A c \in known : Loose(c)

LEMMA FaithfulRun ==
    ASSUME NEW s, Faithful(s), Shrinks
    PROVE  Faithful(s)'
  BY DEF Faithful, Shrinks

LEMMA FaithfulServer ==
    ASSUME NEW s, NEW m, Faithful(s), Elsewhere(m)
    PROVE  Faithful(s)'
  BY DEF Faithful, Elsewhere

LEMMA SnapsFaithful ==
    ASSUME NEW s \in Snaps
    PROVE  Faithful(s) /\ s.key \in DOMAIN nf /\ s.rec = nf[s.key]
  BY DEF Snaps, Snap, Faithful

(* Every step of a run but the checks and the second verification.         *)
Goes == \/ Classify \/ JanitorEnd \/ Normalize \/ Flag \/ PurgeRow \/ PurgeChunkBlob \/ PurgeEnd
        \/ (\E s \in todo : JanitorVisit(s)) \/ (\E c \in Chunks : PurgeChunkRow(c))
        \/ Report \/ Proceed \/ Abort \/ Repair

LEMMA GoesOn ==
    ASSUME Goes, Control
    PROVE  /\ all' = all /\ sus' = sus /\ UNCHANGED <<scenario, job, opt, cdc, runs, touched>>
           /\ pc # "idle" /\ (pc = "scan" => pc' = "idle") /\ pc' # "scan"
  <1>1. all' = all /\ sus' = sus /\ UNCHANGED <<scenario, job, opt, cdc, runs, touched>>
    BY DEF Goes, Repair, Classify, JanitorEnd, Normalize, Flag, PurgeRow, PurgeChunkBlob, PurgeEnd,
           JanitorVisit, PurgeChunkRow, Report, Proceed, Abort, BeginRepair, Act, Slip, ItemsEnd,
           InfosEnd, DropChunkRow, ChunksEnd, StaleLinks, Page, StrandedRows, Desync, Pick, DropInfo,
           DropBlob, StrandedBlob, found
  <1>2. CASE Repair
    BY <1>1, <1>2 DEF Repair, BeginRepair, Act, Slip, ItemsEnd, InfosEnd, DropChunkRow, ChunksEnd,
           StaleLinks, Page, StrandedRows, Desync, Pick, DropInfo, DropBlob, StrandedBlob, Finish,
           NextCategory, Control, Places, Early, Linking, Janitoring
  <1>3. CASE Goes /\ ~Repair
    BY <1>1, <1>3 DEF Goes, Classify, JanitorEnd, Normalize, Flag, PurgeRow, PurgeChunkBlob, PurgeEnd,
           JanitorVisit, PurgeChunkRow, Report, Proceed, Abort, Finish, DecideChunkedResidue,
           Control, Places, Early, Linking, Janitoring
  <1> QED
    BY <1>1, <1>2, <1>3

LEMMA RunCases == Run <=> Scan \/ ReVerify \/ Goes
  BY DEF Run, Janitor, Goes

LEMMA FoundRows ==
    ASSUME NEW k \in RowChecks, NEW s \in Found(k)
    PROVE  /\ s \in Snaps \/ s \in all
           /\ k = "1c" => s.rec.total <= 0
           /\ k \in ChunkedRepairs => s.rec.total > 0
           /\ k = "1g" => SizeMismatch(s)
  BY DEF RowChecks, ChunkedRepairs, Found, WholeFileRows, Eligible, Snaps

LEMMA ReadScan ==
    ASSUME Tables, Control, Read, Scan
    PROVE  Read'
  <1> DEFINE k == Checks[at]
  <1>1. Shrinks /\ Tables'
    BY ScanShrinks
  <1>2. /\ sus' = [sus EXCEPT ![k] = Found(k)] /\ all' \in {all, Snaps}
        /\ k = "1c" => all' = Snaps
    BY DEF Scan
  <1>3. k \in CheckIds
    BY AtCheck DEF Control
  <1>4. sus'[k] = Found(k) /\ \A j \in CheckIds \ {k} : sus'[j] = sus[j]
    BY <1>2, <1>3 DEF Control
  <1>5. pc = "scan" /\ k = "1c" <=> pc = "scan" /\ at = 3
    BY CheckList, TenPlaces DEF Control
  <1> HIDE DEF k
  <1>6. \A s \in all' : Faithful(s)'
    BY <1>1, <1>2, FaithfulRun, SnapsFaithful DEF Read
  <1>7. RowChecks \subseteq CheckIds /\ ChunkedRepairs \subseteq RowChecks /\ "1c" \in RowChecks
        /\ "1g" \in RowChecks
    BY CheckNames DEF RowChecks, ChunkedRepairs
  <1>8. ASSUME NEW j \in RowChecks, NEW s \in sus'[j]
        PROVE  /\ Faithful(s)'
               /\ j = "1c" => s.rec.total <= 0
               /\ j \in ChunkedRepairs => s.rec.total > 0
               /\ j = "1g" => (s.key[1] \notin touched /\ s.key \in DOMAIN nf => nf[s.key].body # "right")'
    <2>1. CASE j = k
      <3>1. s \in Found(j)
        BY <1>4, <2>1
      <3>2. Faithful(s)
        BY <3>1, FoundRows, SnapsFaithful DEF Read
      <3>3. j = "1g" => (s.key[1] \notin touched /\ s.key \in DOMAIN nf => nf[s.key].body # "right")'
        BY <1>1, <3>1, FoundRows DEF SizeMismatch, Shrinks, Same
      <3> QED
        BY <1>1, <3>1, <3>2, <3>3, FaithfulRun, FoundRows
    <2>2. CASE j # k
      <3>1. s \in sus[j]
        BY <1>4, <1>7, <2>2
      <3>2. Faithful(s)'
        BY <1>1, <3>1, FaithfulRun DEF Read
      <3>3. j = "1g" => (s.key[1] \notin touched /\ s.key \in DOMAIN nf => nf[s.key].body # "right")'
        BY <1>1, <3>1 DEF Read, Shrinks
      <3> QED
        BY <3>1, <3>2, <3>3 DEF Read
    <2> QED
      BY <2>1, <2>2
  <1>9. (pc # "idle" /\ (pc = "scan" => at > 3) =>
           \A r \in DOMAIN nf : r[1] \in touched \/ \E s \in all : s.key = r)'
    <2>1. CASE at = 3
      <3>1. all' = Snaps
        BY <1>2, <1>5, <2>1 DEF Scan
      <3>2. \A r \in DOMAIN nf : Snap(r) \in Snaps /\ Snap(r).key = r
        BY DEF Snaps, Snap
      <3> QED
        BY <1>1, <3>1, <3>2 DEF Shrinks
    <2>2. CASE at < 3
      BY <2>2 DEF Scan, LastCheck, Control
    <2>3. CASE at > 3
      <3>1. all' = all
        BY <1>5, <2>3 DEF Scan, k
      <3> QED
        BY <1>1, <2>3, <3>1 DEF Shrinks, Read, Scan
    <2> QED
      BY <2>1, <2>2, <2>3 DEF Control
  <1> QED
    BY <1>6, <1>7, <1>8, <1>9 DEF Read

LEMMA ReadVerify ==
    ASSUME Tables, Control, Read, ReVerify
    PROVE  Read'
  <1> DEFINE k == Checks[at]
  <1>1. Shrinks
    BY OthersShrink
  <1>2. sus' = [sus EXCEPT ![k] = {x \in @ : Confirmed(k, x)}] /\ all' = all /\ pc' # "scan" /\ pc = "verify"
    BY DEF ReVerify
  <1>3. k \in CheckIds
    BY AtCheck DEF Control
  <1>4. \A j \in CheckIds : sus'[j] \subseteq sus[j]
    BY <1>2, <1>3 DEF Control
  <1> HIDE DEF k
  <1>5. RowChecks \subseteq CheckIds /\ ChunkedRepairs \subseteq CheckIds /\ "1c" \in CheckIds
        /\ "1g" \in CheckIds
    BY CheckNames DEF RowChecks, ChunkedRepairs
  <1>6. \A j \in RowChecks : \A s \in sus'[j] : Faithful(s)'
    BY <1>1, <1>4, <1>5, FaithfulRun DEF Read
  <1>7. \A s \in all' : Faithful(s)'
    BY <1>1, <1>2, FaithfulRun DEF Read
  <1>8. \A s \in sus'["1g"] :
           (s.key[1] \notin touched /\ s.key \in DOMAIN nf => nf[s.key].body # "right")'
    BY <1>1, <1>4, <1>5 DEF Read, Shrinks
  <1>9. \A r \in DOMAIN nf' : r[1] \in touched' \/ \E s \in all' : s.key = r
    BY <1>1, <1>2 DEF Read, Shrinks
  <1> QED
    BY <1>4, <1>5, <1>6, <1>7, <1>8, <1>9 DEF Read

LEMMA ReadKept ==
    ASSUME Read, Shrinks, UNCHANGED <<all, sus>>, pc # "idle" \/ pc' = "idle",
           pc' = "scan" => pc = "scan" /\ at' = at, pc = "scan" => pc' \in {"scan", "idle"}
    PROVE  Read'
  <1>1. \A s \in all' : Faithful(s)'
    BY FaithfulRun DEF Read
  <1>2. \A j \in RowChecks : \A s \in sus'[j] : Faithful(s)'
    BY FaithfulRun DEF Read
  <1>3. \A s \in sus'["1g"] :
           (s.key[1] \notin touched /\ s.key \in DOMAIN nf => nf[s.key].body # "right")'
    BY DEF Read, Shrinks
  <1>4. (pc # "idle" /\ (pc = "scan" => at > 3) =>
           \A r \in DOMAIN nf : r[1] \in touched \/ \E s \in all : s.key = r)'
    BY DEF Read, Shrinks
  <1> QED
    BY <1>1, <1>2, <1>3, <1>4 DEF Read

LEMMA ReadServer ==
    ASSUME Read, NEW m, Elsewhere(m)
    PROVE  Read'
  <1>0. UNCHANGED <<all, sus, pc, at>>
    BY DEF Elsewhere, found
  <1>1. \A s \in all' : Faithful(s)'
    BY <1>0, FaithfulServer DEF Read
  <1>2. \A j \in RowChecks : \A s \in sus'[j] : Faithful(s)'
    BY <1>0, FaithfulServer DEF Read
  <1>3. \A s \in sus'["1g"] :
           (s.key[1] \notin touched /\ s.key \in DOMAIN nf => nf[s.key].body # "right")'
    BY <1>0 DEF Read, Elsewhere
  <1>4. (pc # "idle" /\ (pc = "scan" => at > 3) =>
           \A r \in DOMAIN nf : r[1] \in touched \/ \E s \in all : s.key = r)'
    BY <1>0 DEF Read, Elsewhere
  <1> QED
    BY <1>0, <1>1, <1>2, <1>3, <1>4 DEF Read

LEMMA ReadStep ==
    ASSUME Tables, Control, Read, [Next]_vars
    PROVE  Read'
  <1>1. CASE \E o \in scenario.opts : Start(o)
    <2>1. all' = {} /\ sus' = NoSuspects /\ pc' = "scan" /\ at' = 1
      BY <1>1 DEF Start
    <2>2. \A k \in RowChecks \cup ChunkedRepairs \cup {"1c", "1g"} : sus'[k] = {}
      BY <2>1, CheckNames DEF NoSuspects, RowChecks, ChunkedRepairs
    <2> QED
      BY <2>1, <2>2 DEF Read
  <1>2. CASE Goes
    BY <1>2, GoesOn, RunCases, RunShrinks, ReadKept
  <1>3. CASE Age
    <2>1. UNCHANGED <<all, sus, pc, at>> /\ pc = "idle"
      BY <1>3 DEF Age, found
    <2> QED
      BY <1>3, <2>1, RunShrinks, ReadKept
  <1>4. CASE Server
    BY <1>4, ServerElsewhere, ReadServer
  <1>5. CASE UNCHANGED vars
    <2>1. UNCHANGED <<all, sus, pc, at, scenario, tables, blob, touched>>
      BY <1>5 DEF vars, fsck, found, data, stores
    <2> QED
      BY <2>1, NoneGone, ReadKept DEF Control, Places
  <1> QED
    BY <1>1, <1>2, <1>3, <1>4, <1>5, ReadScan, ReadVerify, RunCases DEF Next

Unread == pc = "scan" /\ at <= 3 => all = {}

LEMMA UnreadStep ==
    ASSUME Control, Unread, [Next]_vars
    PROVE  Unread'
  <1>1. CASE \E o \in scenario.opts : Start(o)
    BY <1>1 DEF Start, Unread
  <1>2. CASE Scan
    <2>1. at <= 2 => Checks[at] # "1c"
      BY CheckList, TenPlaces DEF Control
    <2> QED
      BY <1>2, <2>1 DEF Scan, Unread, LastCheck, Control
  <1>3. CASE ReVerify
    BY <1>3 DEF ReVerify, Unread
  <1>4. CASE Goes
    BY <1>4, GoesOn DEF Unread
  <1>5. CASE Age
    BY <1>5 DEF Age, Unread
  <1>6. CASE Server
    <2>1. UNCHANGED <<pc, at, all>>
      BY <1>6 DEF Server, PullRow, PullFile, UploadFile, UploadRow, UploadInfo, ChunkPull, ChunkStart,
                  ChunkPut, ChunkRecord, ChunkMark, EvictRows, EvictFile, Live, found
    <2> QED
      BY <2>1 DEF Unread
  <1>7. CASE UNCHANGED vars
    BY <1>7 DEF vars, fsck, found, Unread
  <1> QED
    BY <1>1, <1>2, <1>3, <1>4, <1>5, <1>6, <1>7, RunCases DEF Next

LEMMA LoneScan ==
    ASSUME Tables, Control, Unread, Scan, NEW r, Lone(r)'
    PROVE  Lone(r)
  <1>1. DOMAIN nf' = DOMAIN nf /\ UNCHANGED <<joined, info, touched>>
    BY DEF Scan
  <1>2. at = 3 \/ all' = all
    BY CheckList, TenPlaces DEF Scan, Control
  <1> QED
    BY <1>1, <1>2 DEF Lone, Unread, Scan

LEMMA LoneRun ==
    ASSUME Tables, Tables', Read, pc \notin {"idle", "scan"}, Shrinks, all' = all, NEW r, Lone(r)'
    PROVE  Lone(r)
  <1>1. \A q \in DOMAIN nf : q[1] = r[1] => q = r
    <2> SUFFICES ASSUME NEW q \in DOMAIN nf, q[1] = r[1] PROVE q = r
      OBVIOUS
    <2>1. q[1] \notin touched
      BY DEF Lone, Shrinks
    <2>2. \E s \in all : s.key = q
      BY <2>1 DEF Read
    <2> QED
      BY <2>2 DEF Lone
  <1>2. r \notin joined
    BY DEF Lone, Shrinks
  <1> QED
    BY <1>1, <1>2 DEF Lone, Shrinks

LEMMA LoneServer ==
    ASSUME NEW m, Elsewhere(m), NEW r, Lone(r)'
    PROVE  Lone(r)
  <1>1. r[1] # m /\ r[1] \notin touched
    BY DEF Lone, Elsewhere
  <1>2. r \in DOMAIN nf /\ r \notin joined /\ r[1] \in DOMAIN info
    BY <1>1 DEF Lone, Elsewhere
  <1>3. \A q \in DOMAIN nf \cup {s.key : s \in all} : q[1] = r[1] => q = r
    BY <1>1 DEF Lone, Elsewhere, found
  <1> QED
    BY <1>1, <1>2, <1>3 DEF Lone

LEMMA LoneUnlinked ==
    ASSUME Tables, NEW r, Lone(r)
    PROVE  ~Linked(r[1]) /\ r[1] \in Unlinked
  BY DEF Tables, Lone, Linked, Unlinked

LEMMA LoneBacking ==
    ASSUME Tables, NEW r, Lone(r), NEW x, x.nar = r[1]
    PROVE  \E s \in Backing(x) : s.key = r
  <1>1. Snap(r) \in Snaps /\ Snap(r).key = r
    BY DEF Lone, Snaps, Snap
  <1>2. CASE {s \in Snaps : s.key = <<x.nar, x.url>>} = {}
    BY <1>1, <1>2 DEF Backing
  <1>3. CASE {s \in Snaps : s.key = <<x.nar, x.url>>} # {}
    <2>1. PICK s \in Snaps : s.key = <<x.nar, x.url>>
      BY <1>3
    <2>2. s.key \in DOMAIN nf /\ s.key[1] = x.nar
      BY <2>1, SnapsFaithful
    <2> QED
      BY <1>3, <2>1, <2>2 DEF Lone, Backing
  <1> QED
    BY <1>2, <1>3

LEMMA RelinksScan ==
    ASSUME Tables, Control, Unread, Relinks, Scan \/ ReVerify
    PROVE  Relinks'
  <1> SUFFICES ASSUME NEW r \in DOMAIN nf', Lone(r)' PROVE WillLink(r)'
    BY DEF Relinks
  <1>1. Lone(r)
    <2>1. CASE ReVerify
      BY <2>1 DEF ReVerify, Lone, data, tables
    <2> QED
      BY <2>1, LoneScan
  <1>2. WillLink(r) /\ r \in DOMAIN nf
    BY <1>1 DEF Relinks, Lone
  <1>3. pc' \in {"scan"} \cup Early /\ (pc' = "scan" => at' # 1 /\ pc = "scan")
    BY DEF Scan, ReVerify, LastCheck, Early, Control
  <1>4. "1a" \in CheckIds /\ Checks[1] = "1a" /\ Checks[at] \in CheckIds /\ (at # 1 => Checks[at] # "1a")
    BY CheckNames, CheckList, AtCheck, TenPlaces DEF Control
  <1>5. \E x \in sus'["1a"] : x.nar = r[1]
    <2>1. CASE Scan /\ at = 1
      <3>1. sus'["1a"] = Found("1a")
        BY <1>4, <2>1 DEF Scan, Control
      <3>2. [nar |-> r[1], url |-> info[r[1]].url] \in Found("1a")
        BY <1>1, LoneUnlinked DEF Found
      <3> QED
        BY <3>1, <3>2
    <2>2. CASE Scan /\ at # 1
      <3>1. sus'["1a"] = sus["1a"]
        BY <1>4, <2>2 DEF Scan, Control
      <3> QED
        BY <1>2, <2>2, <3>1 DEF WillLink, Scan, Early, Janitoring
    <2>3. CASE ReVerify /\ at # 1
      <3>1. sus'["1a"] = sus["1a"]
        BY <1>4, <2>3 DEF ReVerify, Control
      <3> QED
        BY <1>2, <2>3, <3>1 DEF WillLink, ReVerify
    <2>4. CASE ReVerify /\ at = 1
      <3>1. sus'["1a"] = {x \in sus["1a"] : Confirmed("1a", x)}
        BY <1>4, <2>4 DEF ReVerify, Control
      <3>2. PICK x \in sus["1a"] : x.nar = r[1]
        BY <1>2, <2>4 DEF WillLink, ReVerify
      <3>3. Confirmed("1a", x)
        BY <1>1, <3>2, LoneUnlinked DEF Confirmed
      <3> QED
        BY <3>1, <3>2, <3>3
    <2> QED
      BY <2>1, <2>2, <2>3, <2>4
  <1> QED
    BY <1>3, <1>5 DEF WillLink

LEMMA RelinksEarly ==
    ASSUME Control, pc \in Early, Goes, NEW r, WillLink(r)
    PROVE  WillLink(r)'
  <1>1. sus' = sus
    BY GoesOn
  <1>2. \E x \in sus["1a"] : x.nar = r[1]
    BY DEF WillLink, Early, Janitoring
  <1>3. pc' \in Early \/ pc' = "idle" \/ (pc' = "begin" /\ at' = 1)
    <2>1. CASE Repair
      BY <2>1 DEF Repair, BeginRepair, Act, Slip, ItemsEnd, InfosEnd, DropChunkRow, ChunksEnd,
           StaleLinks, Page, StrandedRows, Desync, Pick, DropInfo, DropBlob, StrandedBlob, Early,
           Janitoring
    <2>2. CASE ~Repair
      BY <2>2 DEF Goes, Classify, JanitorEnd, Normalize, Flag, PurgeRow, PurgeChunkBlob, PurgeEnd,
           JanitorVisit, PurgeChunkRow, Report, Proceed, Abort, Finish, DecideChunkedResidue,
           Control, Early, Janitoring
    <2> QED
      BY <2>1, <2>2
  <1> QED
    BY <1>1, <1>2, <1>3 DEF WillLink

(* The first section of the repair.                                        *)
LEMMA RelinksRepair ==
    ASSUME Tables, Control, pc \in {"begin", "repair", "act"}, at = 1, Goes,
           NEW r, Lone(r), Lone(r)', WillLink(r)
    PROVE  WillLink(r)'
  <1>0. Category = "1a" /\ sus' = sus
    BY Categories, GoesOn DEF Control
  <1>a. pc' = "idle" \/ Repair
    BY DEF Goes, Classify, JanitorEnd, Normalize, Flag, PurgeRow, PurgeChunkBlob, PurgeEnd,
           JanitorVisit, PurgeChunkRow, Report, Proceed, Abort
  <1>1. CASE pc = "begin" /\ Repair
    <2>1. BeginRepair
      BY <1>1 DEF Repair, BeginRepair, Act, Slip, ItemsEnd, InfosEnd, DropChunkRow, ChunksEnd,
           StaleLinks, Page, StrandedRows, Desync, Pick, DropInfo, DropBlob, StrandedBlob
    <2>2. pc' = "repair" /\ at' = 1 /\ todo' = sus["1a"]
      BY <1>0, <2>1 DEF BeginRepair, Skipped, ContentCheck, AtOnce
    <2> QED
      BY <1>1, <2>2 DEF WillLink, Early, Janitoring
  <1>2. CASE pc = "repair" /\ Repair
    <2>0. PICK x \in todo : x.nar = r[1]
      BY <1>2 DEF WillLink, Early, Janitoring
    <2>1. PICK y \in todo : Pick(y)
      BY <1>2, <2>0 DEF Repair, BeginRepair, Act, Slip, ItemsEnd, InfosEnd, DropChunkRow, ChunksEnd,
           StaleLinks, Page, StrandedRows, Desync, DropInfo, DropBlob, StrandedBlob
    <2>2. todo' = todo \ {y} /\ at' = 1 /\ pc' \in {"repair", "act"}
      BY <1>2, <2>1 DEF Pick
    <2>3. CASE x # y
      BY <2>0, <2>2, <2>3 DEF WillLink
    <2>4. CASE x = y
      <3>1. Confirmed("1a", x)
        BY <2>0, LoneUnlinked DEF Confirmed
      <3>2. pc' = "act" /\ item' = [nar |-> x.nar, row |-> Backing(x)]
        BY <1>0, <2>1, <2>4, <3>1 DEF Pick
      <3>3. \E s \in Backing(x) : s.key = r
        BY <2>0, LoneBacking
      <3> QED
        BY <2>0, <2>2, <3>2, <3>3 DEF WillLink
    <2> QED
      BY <2>3, <2>4
  <1>3. CASE pc = "act" /\ Repair
    <2>1. \/ \E x \in todo : x.nar = r[1]
          \/ item.nar = r[1] /\ \E s \in item.row : s.key = r
      BY <1>3 DEF WillLink, Early, Janitoring
    <2>2. at' = 1 /\ pc' = "repair" /\ todo' = todo /\ (Act \/ item.row = {})
      BY <1>0, <1>3 DEF Repair, BeginRepair, Act, Slip, ItemsEnd, InfosEnd, DropChunkRow, ChunksEnd,
           StaleLinks, Page, StrandedRows, Desync, Pick, DropInfo, DropBlob, StrandedBlob, loop
    <2>3. ~(\E s \in item.row : s.key = r)
      <3> SUFFICES ASSUME NEW s \in item.row, s.key = r PROVE FALSE
        OBVIOUS
      <3>1. joined' = joined \cup {t.key : t \in item.row}
        BY <1>0, <2>2 DEF Act, ChunkedRepairs
      <3> QED
        BY <3>1 DEF Lone
    <2> QED
      BY <2>1, <2>2, <2>3 DEF WillLink
  <1> QED
    BY <1>a, <1>1, <1>2, <1>3 DEF WillLink

LEMMA RelinksStep ==
    ASSUME Tables, Control, Read, Unread, Relinks, [Next]_vars
    PROVE  Relinks'
  <1>1. CASE (\E o \in scenario.opts : Start(o)) \/ Age
    BY <1>1 DEF Start, Age, Relinks, WillLink
  <1>2. CASE Goes /\ pc # "scan"
    <2> SUFFICES ASSUME NEW r \in DOMAIN nf', Lone(r)' PROVE WillLink(r)'
      BY DEF Relinks
    <2>1. Lone(r)
      BY <1>2, GoesOn, RunCases, RunShrinks, LoneRun
    <2>2. WillLink(r)
      BY <2>1 DEF Relinks, Lone
    <2>3. pc \in Early \/ (pc \in {"begin", "repair", "act"} /\ at = 1)
      BY <1>2, <2>2, GoesOn DEF WillLink
    <2> QED
      BY <1>2, <2>1, <2>2, <2>3, RelinksEarly, RelinksRepair
  <1>3. CASE Goes /\ pc = "scan"
    BY <1>3, GoesOn DEF Relinks, WillLink
  <1>4. CASE Server
    <2>1. PICK m \in Nars : Elsewhere(m)
      BY <1>4, ServerElsewhere
    <2> SUFFICES ASSUME NEW r \in DOMAIN nf', Lone(r)' PROVE WillLink(r)'
      BY DEF Relinks
    <2>2. WillLink(r)
      BY <2>1, LoneServer DEF Relinks, Lone
    <2> QED
      BY <2>1, <2>2 DEF WillLink, Elsewhere, found, loop
  <1>5. CASE UNCHANGED vars
    BY <1>5 DEF vars, fsck, found, loop, data, tables, Relinks, Lone, WillLink
  <1> QED
    BY <1>1, <1>2, <1>3, <1>4, <1>5, RelinksScan, RunCases DEF Next

(***************************************************************************)
(* Where the targets of the run come from.                                 *)
(***************************************************************************)
LEMMA Origins ==
    ASSUME Goes
    PROVE  /\ pc' = "reclaim" => \E s \in todo : JanitorVisit(s)
           /\ pc' = "act" => \E x \in todo : Pick(x)
           /\ pc' = "infos" => ItemsEnd \/ (pc = "infos" /\ todo' \subseteq todo)
           /\ pc' = "orphanBlob" => \E c \in Chunks : PurgeChunkRow(c) /\ c \in OrphanChunks /\ item' = c
           /\ pc' = "chunkRow" => pc = "chunks" /\ todo' \subseteq todo /\ item' \in todo
           /\ pc' = "chunks" => todo' = OrphanChunks \/ (pc = "chunkRow" /\ todo' = todo)
           /\ pc' = "stranded" => \/ todo' = OrphanChunks /\ known' = OrphanChunks
                                  \/ pc = "stranded" /\ todo' \subseteq todo /\ known' = known
           /\ pc' \in {"repair", "act"} =>
                  \/ BeginRepair /\ ~Skipped(Category) /\ pc' = "repair"
                  \/ pc \in {"repair", "act"} /\ at' = at /\ todo' \subseteq todo
  <1>1. CASE Repair
    <2>1. CASE BeginRepair \/ ItemsEnd \/ InfosEnd \/ ChunksEnd
      BY <2>1 DEF BeginRepair, ItemsEnd, InfosEnd, ChunksEnd, NextCategory, Finish
    <2>2. CASE Act \/ \E x \in todo : Pick(x)
      BY <2>2 DEF Act, Pick, loop
    <2>3. CASE Slip
      BY <2>3 DEF Slip
    <2>4. CASE DropChunkRow \/ StaleLinks \/ Page \/ StrandedRows \/ Desync
               \/ (\E n \in Nars : DropInfo(n)) \/ (\E c \in Chunks : DropBlob(c) \/ StrandedBlob(c))
      BY <2>4 DEF DropChunkRow, StaleLinks, Page, StrandedRows, Desync, DropInfo, DropBlob,
                  StrandedBlob, Finish, loop
    <2> QED
      BY <1>1, <2>1, <2>2, <2>3, <2>4 DEF Repair
  <1>2. CASE ~Repair
    <2>1. CASE \E s \in todo : JanitorVisit(s)
      BY <2>1 DEF JanitorVisit, DecideChunkedResidue
    <2>2. CASE \E c \in Chunks : PurgeChunkRow(c)
      BY <2>2 DEF PurgeChunkRow
    <2>3. CASE Classify \/ JanitorEnd \/ Normalize \/ Flag \/ PurgeRow \/ PurgeChunkBlob \/ PurgeEnd
               \/ Report \/ Proceed \/ Abort
      BY <2>3 DEF Classify, JanitorEnd, Normalize, Flag, PurgeRow, PurgeChunkBlob, PurgeEnd, Report,
                  Proceed, Abort, Finish
    <2> QED
      BY <1>2, <2>1, <2>2, <2>3 DEF Goes
  <1> QED
    BY <1>1, <1>2

(* A row that is verified once more and found bad is bad.                  *)
LEMMA PickedDoomed ==
    ASSUME Tables, Control, Read, at \in RowRepairs, NEW x \in todo, Pick(x), pc' = "act"
    PROVE  Doomed(x.key) /\ item' = x
  <1>0. pc = "repair" /\ Category \in RowChecks /\ x \in sus[Category]
    BY Categories DEF Control, Pick, RowRepairs
  <1>1. item' = x /\ (AtOnce(Category) \/ Confirmed(Category, x))
    BY <1>0 DEF Pick, RowChecks, ChunkedRepairs
  <1>2. SUFFICES ASSUME x.key \in joined, Alone(x.key[1]), Present(x.key), nf[x.key].body = "right"
                 PROVE  FALSE
    BY <1>1 DEF Doomed
  <1>3. /\ x.key \in DOMAIN nf /\ Same(x) /\ nf[x.key].total = x.rec.total
        /\ nf[x.key].total \in Nat
    BY <1>0, <1>2 DEF Tables, Alone, Read, Faithful, Same, NarFile
  <1>4. ChunksForNarFile(x) = ChunksOf(x.key)
    BY <1>3 DEF ChunksForNarFile
  <1>5. CASE Category = "1b"
    BY <1>1, <1>2, <1>5 DEF AtOnce, Confirmed
  <1>6. CASE Category = "1c"
    BY <1>0, <1>1, <1>2, <1>3, <1>6 DEF AtOnce, Confirmed, Read, Present
  <1>7. CASE Category = "1g"
    BY <1>0, <1>2, <1>3, <1>7 DEF Read, Alone
  <1>8. CASE Category \in {"1f", "1i", "1j"}
    <2>1. /\ Cardinality(ChunksOf(x.key)) = x.rec.total
          /\ \A c \in ChunksOf(x.key) : blob[c] = "good"
      BY <1>0, <1>2, <1>3, <1>8 DEF Present, Read, ChunkedRepairs
    <2>2. ~IsNarFileChunkBroken(x)
      BY <1>4, <2>1 DEF IsNarFileChunkBroken
    <2>3. ~IsNarFileContentCorrupt(x)
      BY <1>4, <2>1 DEF IsNarFileContentCorrupt
    <2>4. ~IsNarFileHashMismatched(x)
      BY <1>2, <2>3 DEF IsNarFileHashMismatched
    <2> QED
      BY <1>1, <1>8, <2>2, <2>3, <2>4 DEF AtOnce, Confirmed
  <1> QED
    BY <1>0, <1>5, <1>6, <1>7, <1>8 DEF RowChecks, ChunkedRepairs

LEMMA DoomedServer ==
    ASSUME Tables, Tables', NEW m, Elsewhere(m), NEW r, Doomed(r)
    PROVE  Doomed(r)'
  <1> SUFFICES ASSUME r \in joined', Alone(r[1])', Present(r)', (nf[r].body = "right")' PROVE FALSE
    BY DEF Doomed
  <1>1. r[1] # m /\ r[1] \notin touched /\ touched \subseteq touched' /\ m \in touched'
    BY DEF Alone, Elsewhere
  <1>2. r \in joined /\ r \in DOMAIN nf /\ nf'[r] = nf[r]
    BY <1>1 DEF Elsewhere, Tables
  <1>3. \A l : l[1][1] = r[1] => (l \in clinks <=> l \in clinks')
    BY <1>1 DEF Elsewhere
  <1>4. Alone(r[1])
    BY <1>1, <1>3 DEF Alone
  <1>5. ChunksOf(r)' = ChunksOf(r)
    BY <1>3 DEF ChunksOf
  <1>6. r \in whole' => r \in whole
    BY <1>1 DEF Elsewhere
  <1>7. ASSUME NEW c \in ChunksOf(r), blob'[c] = "good"
        PROVE  blob[c] = "good"
    <2>1. <<r, c>> \in clinks' /\ c \in Chunks
      BY <1>3 DEF ChunksOf
    <2>2. c \notin Content[m]
      BY <1>1, <2>1 DEF Alone
    <2> QED
      BY <1>7, <2>1, <2>2 DEF Elsewhere
  <1>8. Present(r)
    BY <1>2, <1>5, <1>6, <1>7 DEF Present
  <1> QED
    BY <1>2, <1>4, <1>8 DEF Doomed

LEMMA LooseRun ==
    ASSUME NEW c, Loose(c), Shrinks
    PROVE  Loose(c)'
  BY DEF Loose, Shrinks

LEMMA LooseServer ==
    ASSUME NEW c, NEW m, Loose(c), Elsewhere(m)
    PROVE  Loose(c)'
  BY DEF Loose, Elsewhere

LEMMA OrphansLoose ==
    ASSUME NEW c \in OrphanChunks
    PROVE  Loose(c)
  BY DEF OrphanChunks, Loose

LEMMA AimsGoes ==
    ASSUME Tables, Control, Read, Aims, Goes
    PROVE  Aims'
  <1>0. Shrinks /\ Tables'
    BY RunCases, RunShrinks
  <1>1. (pc = "reclaim" => item.key[1] \in touched \/ ~Verifiable(item.key[1]))'
    <2> SUFFICES ASSUME pc' = "reclaim" PROVE ~Verifiable(item.key[1])'
      OBVIOUS
    <2>1. PICK s \in todo : JanitorVisit(s)
      BY Origins
    <2>2. item' = s /\ DecideChunkedResidue(s) = "reclaim" /\ info' = info
      BY <2>1 DEF JanitorVisit, data, tables
    <2>3. ~Resolvable(s)
      BY <2>2 DEF DecideChunkedResidue
    <2> QED
      BY <2>2, <2>3 DEF Resolvable, Verifiable
  <1>2. CASE pc' = "act"
    <2>1. PICK x \in todo : Pick(x)
      BY <1>2, Origins
    <2>2. /\ UNCHANGED <<tables, whole, blob, touched, at>> /\ pc = "repair"
          /\ AtOnce(Category) \/ Confirmed(Category, x)
          /\ item' = IF Category = "1a" THEN [nar |-> x.nar, row |-> Backing(x)] ELSE x
      BY <1>2, <2>1 DEF Pick, data, stores
    <2>3. (pc = "act" /\ at = 1 /\ item.row = {} =>
              item.nar \in touched \/ \A r \in DOMAIN nf : r[1] # item.nar)'
      <3> SUFFICES ASSUME at' = 1, item'.row = {} PROVE \A r \in DOMAIN nf' : r[1] # item'.nar
        OBVIOUS
      <3>1. item' = [nar |-> x.nar, row |-> Backing(x)] /\ Backing(x) = {} /\ nf' = nf
        BY <2>2, Categories DEF Control, tables
      <3>2. {s \in Snaps : s.key[1] = x.nar} = {}
        BY <3>1 DEF Backing
      <3>3. \A r \in DOMAIN nf : Snap(r) \in Snaps /\ Snap(r).key = r
        BY DEF Snaps, Snap
      <3>4. \A r \in DOMAIN nf : r[1] # x.nar
        BY <3>2, <3>3
      <3> QED
        BY <3>1, <3>4
    <2>4. (pc = "act" /\ at \in RowRepairs => Doomed(item.key))'
      <3> SUFFICES ASSUME at \in RowRepairs PROVE Doomed(item.key)'
        BY <2>2
      <3>1. Doomed(x.key) /\ item' = x
        BY <1>2, <2>1, PickedDoomed
      <3> QED
        BY <2>2, <3>1 DEF Doomed, Alone, Present, ChunksOf, tables
    <2>5. (pc = "act" /\ at = 4 => item \notin DOMAIN nf \/ item[1] \in touched)'
      BY <2>2, Categories DEF Control, AtOnce, Confirmed, tables
    <2> QED
      BY <1>1, <1>2, <2>3, <2>4, <2>5 DEF Aims
  <1>3. CASE pc' # "act"
    <2>1. (pc = "infos" => \A n \in todo : n \in touched \/ ~Linked(n))'
      <3> SUFFICES ASSUME pc' = "infos", NEW n \in todo', Linked(n)' PROVE n \in touched'
        OBVIOUS
      <3>1. CASE ItemsEnd
        BY <1>3, <3>1 DEF ItemsEnd, NewOrphans, Unlinked, Linked, NextCategory, Finish, data, tables
      <3>2. CASE pc = "infos" /\ todo' \subseteq todo
        <4>1. joined' \subseteq joined
          BY <3>2 DEF Goes, Repair, Classify, JanitorEnd, Normalize, Flag, PurgeRow, PurgeChunkBlob,
             PurgeEnd, JanitorVisit, PurgeChunkRow, Report, Proceed, Abort, BeginRepair, Act, Slip,
             ItemsEnd, InfosEnd, DropChunkRow, ChunksEnd, StaleLinks, Page, StrandedRows, Desync, Pick,
             DropInfo, DropBlob, StrandedBlob, WithoutInfo, data, tables
        <4>2. Linked(n)
          BY <4>1 DEF Linked
        <4> QED
          BY <1>0, <3>2, <4>2 DEF Aims, Shrinks
      <3> QED
        BY <3>1, <3>2, Origins
    <2> QED
      BY <1>1, <1>3, <2>1 DEF Aims
  <1> QED
    BY <1>2, <1>3

LEMMA SweepsGoes ==
    ASSUME Tables, Control, Sweeps, Goes
    PROVE  Sweeps'
  <1>0. Shrinks /\ \A c : Loose(c) => Loose(c)'
    BY RunCases, RunShrinks, LooseRun
  <1>1. ASSUME pc' \in {"repair", "act"}, at' = 5, NEW c \in todo'
        PROVE  Loose(c)'
    <2>1. CASE BeginRepair /\ ~Skipped(Category) /\ pc' = "repair"
      <3>1. at = 5 /\ Category = "1e"
        BY <1>1, <2>1, Categories DEF BeginRepair, Control
      <3>2. c \in OrphanChunks
        BY <2>1, <3>1 DEF BeginRepair, AtOnce, Confirmed
      <3> QED
        BY <1>0, <3>2, OrphansLoose
    <2>2. CASE pc \in {"repair", "act"} /\ at' = at /\ todo' \subseteq todo
      BY <1>0, <1>1, <2>2 DEF Sweeps
    <2> QED
      BY <1>1, <2>1, <2>2, Origins
  <1>2. ASSUME pc' = "act", at' \in {5, 10}
        PROVE  Loose(item)'
    <2>1. PICK x \in todo : Pick(x)
      BY <1>2, Origins
    <2>2. at' = at /\ pc = "repair" /\ Category \in {"1e", "1h"} /\ item' = x
      BY <1>2, <2>1, Categories DEF Pick, Control
    <2>3. CASE Category = "1e"
      BY <1>0, <2>2, <2>3, Categories DEF Sweeps, Control
    <2>4. CASE Category = "1h"
      <3>1. x \notin chunkRows
        BY <1>2, <2>1, <2>2, <2>4 DEF Pick, AtOnce, Confirmed
      <3>2. Loose(x)
        BY <3>1 DEF Loose, Tables
      <3> QED
        BY <1>0, <2>2, <3>2
    <2> QED
      BY <2>2, <2>3, <2>4
  <1>3. pc' = "orphanBlob" => Loose(item)'
    BY <1>0, Origins, OrphansLoose
  <1>4. pc' = "chunkRow" => Loose(item)' /\ \A c \in todo' : Loose(c)'
    BY <1>0, Origins DEF Sweeps
  <1>5. pc' = "chunks" => \A c \in todo' : Loose(c)'
    BY <1>0, Origins, OrphansLoose DEF Sweeps
  <1>6. pc' = "stranded" => (\A c \in todo' : Loose(c)') /\ (\A c \in known' : Loose(c)')
    BY <1>0, Origins, OrphansLoose DEF Sweeps
  <1> QED
    BY <1>1, <1>2, <1>3, <1>4, <1>5, <1>6 DEF Sweeps

LEMMA AimsServer ==
    ASSUME Tables, Tables', Aims, Sweeps, NEW m, Elsewhere(m)
    PROVE  Aims' /\ Sweeps'
  <1>0. UNCHANGED <<pc, at, todo, item, known>> /\ touched \subseteq touched' /\ m \in touched'
    BY DEF Elsewhere, loop
  <1>1. (pc = "reclaim" => item.key[1] \in touched \/ ~Verifiable(item.key[1]))'
    BY <1>0 DEF Aims, Verifiable, Elsewhere
  <1>2. (pc = "act" /\ at = 1 /\ item.row = {} =>
            item.nar \in touched \/ \A r \in DOMAIN nf : r[1] # item.nar)'
    BY <1>0 DEF Aims, Elsewhere
  <1>3. (pc = "act" /\ at \in RowRepairs => Doomed(item.key))'
    BY <1>0, DoomedServer DEF Aims
  <1>4. (pc = "act" /\ at = 4 => item \notin DOMAIN nf \/ item[1] \in touched)'
    BY <1>0 DEF Aims, Elsewhere
  <1>5. (pc = "infos" => \A n \in todo : n \in touched \/ ~Linked(n))'
    BY <1>0 DEF Aims, Elsewhere, Linked
  <1>6. Sweeps'
    BY <1>0, LooseServer DEF Sweeps
  <1> QED
    BY <1>1, <1>2, <1>3, <1>4, <1>5, <1>6 DEF Aims

LEMMA AimsStep ==
    ASSUME Tables, Control, Read, Aims, Sweeps, [Next]_vars
    PROVE  Aims' /\ Sweeps'
  <1>1. CASE (\E o \in scenario.opts : Start(o)) \/ Scan \/ ReVerify \/ Age
    <2>1. pc' \in {"scan", "verify", "classify", "decide", "idle"}
      BY <1>1 DEF Start, Scan, ReVerify, Age
    <2> QED
      BY <2>1 DEF Aims, Sweeps
  <1>2. CASE Server
    BY <1>2, ServerElsewhere, AimsServer
  <1>3. CASE UNCHANGED vars
    BY <1>3 DEF vars, fsck, found, loop, data, tables, stores, Aims, Sweeps, Loose, Doomed, Verifiable,
                Linked, Alone, Present, ChunksOf
  <1> QED
    BY <1>1, <1>2, <1>3, AimsGoes, SweepsGoes, RunCases DEF Next

(***************************************************************************)
(* No step of a run takes away what can be served.                         *)
(***************************************************************************)
Serves(r) == Backs(r) /\ Present(r) /\ nf[r].body = "right"

LEMMA Survives ==
    ASSUME Tables, Tables', Shrinks, NEW r \in DOMAIN nf, Verifiable(r[1]), Serves(r),
           r \in DOMAIN nf', r[1] \in DOMAIN info',
           {s.key : s \in all'} \subseteq DOMAIN nf \cup {s.key : s \in all},
           nf[r].total > 0 => \A c \in ChunksOf(r) : <<r, c>> \in clinks' /\ blob'[c] = blob[c],
           ~(nf[r].total > 0) /\ r \in whole => r \in whole'
    PROVE  Servable(r[1])'
  <1>1. Backs(r)'
    BY DEF Serves, Backs, Shrinks
  <1>2. nf'[r].total = nf[r].total /\ nf'[r].body = nf[r].body
    BY DEF Shrinks
  <1>3. nf[r].total > 0 => ChunksOf(r)' = ChunksOf(r)
    BY DEF ChunksOf, Shrinks
  <1>4. Present(r)'
    BY <1>2, <1>3 DEF Present, Serves
  <1>5. Verifiable(r[1])'
    BY DEF Verifiable, Shrinks
  <1> QED
    BY <1>1, <1>2, <1>4, <1>5 DEF Servable, Serves

(* A chunk that only NARs at which the server works link is no chunk of r. *)
LEMMA LooseElsewhere ==
    ASSUME NEW r, r[1] \notin touched, NEW c, Loose(c)
    PROVE  c \notin ChunksOf(r)
  BY DEF Loose, ChunksOf

LEMMA LateLinked ==
    ASSUME Tables, Relinks, NEW r \in DOMAIN nf, Verifiable(r[1]), Serves(r), r[1] \notin touched,
           ~WillLink(r)
    PROVE  r \in joined
  BY DEF Relinks, Lone, Serves, Backs, Verifiable

LEMMA QuietSteps ==
    ASSUME Tables, Control, NEW r \in DOMAIN nf, Verifiable(r[1]), Serves(r), Alone(r[1]),
           \/ Scan \/ ReVerify \/ Classify \/ JanitorEnd \/ Normalize \/ Flag \/ PurgeEnd
           \/ (\E s \in todo : JanitorVisit(s)) \/ (\E c \in Chunks : PurgeChunkRow(c))
           \/ Report \/ Proceed \/ Abort \/ BeginRepair \/ Slip \/ ItemsEnd \/ InfosEnd \/ ChunksEnd
           \/ Page \/ Desync \/ (\E x \in todo : Pick(x))
    PROVE  Servable(r[1])'
  <1>1. Shrinks /\ Tables'
    BY RunShrinks DEF Run, Janitor, Repair
  <1>2. {s.key : s \in all'} \subseteq DOMAIN nf \cup {s.key : s \in all}
    <2>1. CASE Scan
      <3>1. all' \in {all, Snaps}
        BY <2>1 DEF Scan
      <3>2. \A s \in Snaps : s.key \in DOMAIN nf
        BY SnapsFaithful
      <3> QED
        BY <3>1, <3>2
    <2>2. CASE ~Scan
      <3>1. all' = all
        BY <2>2, GoesOn DEF Goes, Repair, ReVerify
      <3> QED
        BY <3>1
    <2> QED
      BY <2>1, <2>2
  <1>3. UNCHANGED <<clinks, whole, blob>> /\ DOMAIN nf' = DOMAIN nf /\ DOMAIN info' = DOMAIN info
    <2>1. CASE Scan \/ Normalize \/ Flag \/ Desync
      BY <2>1 DEF Scan, Normalize, Flag, Desync, stores
    <2>2. CASE \E c \in Chunks : PurgeChunkRow(c)
      BY <2>2 DEF PurgeChunkRow, stores
    <2>3. CASE \/ ReVerify \/ Classify \/ JanitorEnd \/ PurgeEnd \/ (\E s \in todo : JanitorVisit(s))
               \/ Report \/ Proceed \/ Abort \/ BeginRepair \/ Slip \/ ItemsEnd \/ InfosEnd \/ ChunksEnd
               \/ Page \/ (\E x \in todo : Pick(x))
      BY <2>3 DEF ReVerify, Classify, JanitorEnd, PurgeEnd, JanitorVisit, Report, Proceed, BeginRepair,
           Slip, ItemsEnd, InfosEnd, ChunksEnd, Page, Pick, Abort, data, stores, tables
    <2> QED
      BY <2>1, <2>2, <2>3
  <1>4. \A c \in ChunksOf(r) : <<r, c>> \in clinks'
    BY <1>3 DEF ChunksOf
  <1> QED
    BY <1>1, <1>2, <1>3, <1>4, Survives DEF Verifiable

LEMMA RowSteps ==
    ASSUME Tables, Control, Relinks, Aims, NEW r \in DOMAIN nf, Verifiable(r[1]), Serves(r), Alone(r[1]),
           PurgeRow \/ (Act /\ at \in RowRepairs)
    PROVE  Servable(r[1])'
  <1>0. Shrinks /\ Tables' /\ all' = all
    BY RunShrinks, GoesOn DEF Run, Janitor, Repair, Goes
  <1>1. r # item.key \/ (PurgeRow /\ UNCHANGED <<nf, joined, clinks>>)
    <2>1. CASE PurgeRow
      BY <2>1 DEF PurgeRow, Aims, Alone
    <2>2. CASE Act /\ at \in RowRepairs
      <3>1. r \in joined
        BY <2>2, LateLinked DEF Act, WillLink, Alone, Early, Janitoring, RowRepairs
      <3> QED
        BY <2>2, <3>1 DEF Act, Aims, Doomed, Serves
    <2> QED
      BY <2>1, <2>2
  <1>2. UNCHANGED <<info, whole, blob>>
    BY Categories DEF PurgeRow, Act, stores, Control, RowChecks, RowRepairs, ChunkedRepairs
  <1>3. WithoutRows({item.key}) \/ UNCHANGED <<nf, joined, clinks>>
    BY Categories DEF PurgeRow, Act, Control, RowChecks, RowRepairs, ChunkedRepairs
  <1>4. r \in DOMAIN nf' /\ \A c \in ChunksOf(r) : <<r, c>> \in clinks'
    BY <1>1, <1>3 DEF WithoutRows, Restrict, ChunksOf
  <1> QED
    BY <1>0, <1>2, <1>4, Survives DEF Verifiable

LEMMA InfoSteps ==
    ASSUME Tables, Control, Relinks, Aims, NEW r \in DOMAIN nf, Verifiable(r[1]), Serves(r), Alone(r[1]),
           (\E n \in Nars : DropInfo(n)) \/ (Act /\ at = 1)
    PROVE  Servable(r[1])'
  <1>0. Shrinks /\ Tables' /\ all' = all
    BY RunShrinks, GoesOn DEF Run, Janitor, Repair, Goes
  <1>1. UNCHANGED <<nf, clinks, whole, blob>>
    BY Categories DEF DropInfo, Act, stores, Control, ChunkedRepairs
  <1>2. r[1] \in DOMAIN info'
    <2>1. ASSUME NEW n \in Nars, DropInfo(n)
          PROVE  r[1] \in DOMAIN info'
      <3>1. n \in touched \/ ~Linked(n)
        BY <2>1 DEF DropInfo, Aims
      <3>2. r \in joined
        BY <2>1, LateLinked DEF DropInfo, WillLink, Alone, Early, Janitoring
      <3>3. r[1] # n
        BY <3>1, <3>2 DEF Linked, Alone
      <3> QED
        BY <2>1, <3>3 DEF DropInfo, WithoutInfo, Restrict, Verifiable
    <2>2. CASE Act /\ at = 1 /\ item.row # {}
      BY <2>2, Categories DEF Act, Control, ChunkedRepairs, Verifiable
    <2>3. CASE Act /\ at = 1 /\ item.row = {}
      <3>1. r[1] # item.nar
        BY <2>3 DEF Act, Aims, Alone
      <3>2. WithoutInfo(item.nar)
        BY <2>3, Categories DEF Act, Control, ChunkedRepairs
      <3> QED
        BY <3>1, <3>2 DEF WithoutInfo, Restrict, Verifiable
    <2> QED
      BY <2>1, <2>2, <2>3
  <1>3. \A c \in ChunksOf(r) : <<r, c>> \in clinks'
    BY <1>1 DEF ChunksOf
  <1> QED
    BY <1>0, <1>1, <1>2, <1>3, Survives

LEMMA ChunkSteps ==
    ASSUME Tables, Control, Sweeps, Aims, NEW r \in DOMAIN nf, Verifiable(r[1]), Serves(r), Alone(r[1]),
           \/ PurgeChunkBlob \/ DropChunkRow \/ StaleLinks \/ StrandedRows
           \/ (\E c \in Chunks : DropBlob(c) \/ StrandedBlob(c)) \/ (Act /\ at \in {4, 5, 10})
    PROVE  Servable(r[1])'
  <1>0. Shrinks /\ Tables' /\ all' = all
    BY RunShrinks, GoesOn DEF Run, Janitor, Repair, Goes
  <1>1. UNCHANGED <<nf, info>>
    BY Categories DEF PurgeChunkBlob, DropChunkRow, StaleLinks, StrandedRows, DropBlob, StrandedBlob, Act,
           tables, Control, ChunkedRepairs
  <1>2. r \in whole => r \in whole'
    <2>1. CASE Act /\ at = 4
      BY <2>1, Categories DEF Act, Control, ChunkedRepairs, Aims, Alone
    <2>2. CASE Act /\ at \in {5, 10}
      BY <2>2, Categories DEF Act, Control, ChunkedRepairs, stores
    <2> QED
      BY <2>1, <2>2 DEF PurgeChunkBlob, DropChunkRow, StaleLinks, StrandedRows, DropBlob, StrandedBlob, stores
  <1>3. ASSUME nf[r].total > 0, NEW c \in ChunksOf(r)
        PROVE  <<r, c>> \in clinks' /\ blob'[c] = blob[c]
    <2>0. <<r, c>> \in clinks /\ r[1] \notin touched /\ nf[r].total \in Nat
      BY DEF ChunksOf, Alone, Tables, NarFile
    <2>1. ~Loose(c)
      BY <2>0, LooseElsewhere
    <2>2. CASE PurgeChunkBlob
      BY <2>0, <2>1, <2>2 DEF PurgeChunkBlob, Sweeps, tables
    <2>3. CASE DropChunkRow
      BY <2>0, <2>1, <2>3 DEF DropChunkRow, WithoutChunkRows, Sweeps, stores
    <2>4. CASE StaleLinks
      BY <1>3, <2>0, <2>4 DEF StaleLinks, Stale, stores
    <2>5. CASE StrandedRows
      BY <2>0, <2>1, <2>5 DEF StrandedRows, WithoutChunkRows, Sweeps, stores
    <2>6. CASE \E d \in Chunks : DropBlob(d) \/ StrandedBlob(d)
      <3>1. PICK d \in Chunks : DropBlob(d) \/ StrandedBlob(d)
        BY <2>6
      <3>2. Loose(d) /\ blob' = [blob EXCEPT ![d] = "absent"] /\ clinks' = clinks
        BY <3>1 DEF DropBlob, StrandedBlob, Sweeps, tables
      <3> QED
        BY <2>0, <2>1, <3>2 DEF Tables
    <2>7. CASE Act /\ at = 4
      BY <2>0, <2>7, Categories DEF Act, Control, ChunkedRepairs, tables
    <2>8. CASE Act /\ at = 5
      BY <2>0, <2>1, <2>8, Categories DEF Act, Control, ChunkedRepairs, Sweeps, WithoutChunkRows, stores
    <2>9. CASE Act /\ at = 10
      <3>1. Loose(item) /\ blob' = [blob EXCEPT ![item] = "absent"] /\ clinks' = clinks
        BY <2>9, Categories DEF Act, Control, ChunkedRepairs, Sweeps, tables
      <3> QED
        BY <2>0, <2>1, <3>1 DEF Tables
    <2> QED
      BY <2>2, <2>3, <2>4, <2>5, <2>6, <2>7, <2>8, <2>9
  <1> QED
    BY <1>0, <1>1, <1>2, <1>3, Survives DEF Verifiable

Safe == Tables /\ Control /\ Read /\ Unread /\ Relinks /\ Aims /\ Sweeps

LEMMA RunKeeps ==
    ASSUME Safe, Run, NEW n, Alone(n), Servable(n)
    PROVE  Servable(n)'
  <1>1. PICK r \in DOMAIN nf : r[1] = n /\ Serves(r) /\ Verifiable(r[1])
    BY DEF Servable, Serves
  <1>2. CASE Act
    <2>1. at \in {1, 4, 5, 10} \/ at \in RowRepairs
      BY TenPlaces DEF Safe, Control, RowRepairs
    <2> QED
      BY <1>1, <1>2, <2>1, RowSteps, InfoSteps, ChunkSteps DEF Safe
  <1> QED
    BY <1>1, <1>2, QuietSteps, RowSteps, InfoSteps, ChunkSteps DEF Safe, Run, Janitor, Repair

LEMMA TablesStep ==
    ASSUME Tables, Control, [Next]_vars
    PROVE  Tables'
  <1>1. CASE \E o \in scenario.opts : Start(o)
    BY <1>1 DEF Start, data, tables, stores, Tables
  <1>2. CASE UNCHANGED vars
    BY <1>2 DEF vars, data, tables, stores, Tables
  <1> QED
    BY <1>1, <1>2, RunShrinks, ServerElsewhere DEF Next

LEMMA SafeInit == Init => Safe
  <1> SUFFICES ASSUME Init PROVE Safe
    OBVIOUS
  <1>1. Tables
    BY ScenarioAssumption DEF Init, Tables
  <1>2. Control
    BY DEF Init, Control, Places, Early, Linking, Janitoring, NoSuspects
  <1>3. sus = NoSuspects /\ all = {} /\ pc = "idle"
    BY DEF Init
  <1>4. Read
    BY <1>3, CheckNames DEF Read, NoSuspects, RowChecks, ChunkedRepairs
  <1>5. Unread /\ Relinks /\ Aims /\ Sweeps
    BY <1>3 DEF Unread, Relinks, WillLink, Aims, Sweeps
  <1> QED
    BY <1>1, <1>2, <1>4, <1>5 DEF Safe

LEMMA SafeStep == Safe /\ [Next]_vars => Safe'
  BY TablesStep, ControlStep, ReadStep, UnreadStep, RelinksStep, AimsStep DEF Safe

THEOREM FsckSafe == Spec => []Safe
  BY SafeInit, SafeStep, PTL DEF Spec

(* Whatever is broken, whatever fails and whatever the server does to      *)
(* other NARs between the steps of fsck.go, no step of a run takes away a  *)
(* NAR that can be served.                                                 *)
THEOREM FsckStableKept == Spec => StableKept
  <1>1. Safe /\ [Next]_vars => [Run => \A n \in Nars : Alone(n) /\ Servable(n) => Servable(n)']_vars
    BY RunKeeps
  <1> QED
    BY <1>1, FsckSafe, PTL DEF Spec, StableKept
(***************************************************************************)
(* Runs with --repair and --verify-content that nothing disturbs. Due(i)   *)
(* is what the i-th section of the repair has still to handle.             *)
(***************************************************************************)
Undisturbed == pc # "idle" /\ calm /\ Full(opt)
Still ==
    /\ quiet \in 0 .. 2
    /\ pc # "idle" /\ calm => touched = {} /\ \A n \in Nars : job[n] \in {"off", "done"}

Handled(i) ==
    \/ pc \in Linking
    \/ pc \in {"begin", "repair", "act"} /\ at > i
    \/ pc \in {"infos", "chunks", "chunkRow"} /\ at >= i
Due(i) ==
    IF Handled(i) THEN {}
    ELSE IF pc = "repair" /\ at = i THEN todo
         ELSE IF pc = "act" /\ at = i THEN todo \cup {item} ELSE sus[Repairs[i]]
CheckOf(i) == CASE i = 8 -> 9 [] i = 9 -> 10 [] i = 10 -> 8 [] OTHER -> i
Scanned(i) == pc = "scan" => at > CheckOf(i)

(* What the sections that delete rows look for.                            *)
Broken(r) == \/ Cardinality(ChunksOf(r)) # nf[r].total
             \/ \E c \in ChunksOf(r) : blob[c] = "absent"
Spoilt(r) == \E c \in ChunksOf(r) : blob[c] = "bad"
Wrong(r) == nf[r].total > 0 /\ Verifiable(r[1]) /\ nf[r].body # "right"
Faulty(i, r) ==
    CASE i = 2 -> r \notin joined
      [] i = 3 -> ~(nf[r].total > 0) /\ r \notin whole
      [] i = 6 -> nf[r].total > 0 /\ Broken(r)
      [] i = 8 -> nf[r].total > 0 /\ ~Broken(r) /\ Spoilt(r)
      [] i = 9 -> Wrong(r)

(* It has been found, and stays listed until it is gone. Without CDC there *)
(* is no chunk to look for.                                                *)
Lists(i) == Scanned(i) => \A r \in DOMAIN nf : Faulty(i, r) => \E s \in Due(i) : s.key = r
Listed ==
    Undisturbed =>
        /\ ~cdc => chunkRows = {} /\ \A r \in DOMAIN nf : ~(nf[r].total > 0)
        /\ pc = "scan" => \A s \in all : s.key \in DOMAIN nf
        /\ \A s \in sus["1f"] : s.key \in DOMAIN nf => Broken(s.key)
        /\ \A i \in {2, 3, 6, 8} : Lists(i)

(* What one such run leaves, and the next one begins with.                 *)
Sound == \A r \in DOMAIN nf : Present(r) /\ r \in joined
Again ==
    /\ pc = "idle" /\ quiet >= 1 => Sound
    /\ Undisturbed /\ quiet >= 1 =>
           /\ Sound /\ \A k \in {"1b", "1c", "1f", "1i"} : sus[k] = {}
           /\ Lists(9)
    /\ pc = "idle" /\ quiet >= 2 => \A r \in DOMAIN nf : ~Wrong(r)

LEMMA RepairRow ==
    ASSUME Control, Act, at \in RowRepairs
    PROVE  item.key \notin DOMAIN nf' /\ WithoutRows({item.key}) /\ UNCHANGED <<info, chunkRows, whole, blob>>
  <1>1. WithoutRows({item.key}) /\ UNCHANGED <<info, chunkRows, whole, blob>>
    BY Categories DEF Act, stores, Control, RowChecks, RowRepairs, ChunkedRepairs
  <1> QED
    BY <1>1 DEF WithoutRows, Restrict

(* The way of a repair that is not disturbed.                              *)
LEMMA NextCategoryMoves ==
    ASSUME Control, NextCategory, pc' # "idle"
    PROVE  \/ pc' = "begin" /\ at < LastRepair /\ at' = at + 1
           \/ pc' = "links" /\ at >= LastRepair /\ at' = 1 /\ cdc
  BY DEF NextCategory, Finish, LastRepair, Control

Moves ==
    \/ pc \in Early /\ pc' \in Early \cup {"begin"} /\ at' = 1 /\ at = 1
    \/ pc = "begin" /\ BeginRepair /\ ~Skipped(Category) /\ pc' = "repair" /\ at' = at
    \/ pc = "repair" /\ pc' \in {"repair", "act"} /\ at' = at /\ \E x \in todo : Pick(x)
    \/ pc = "act" /\ pc' = "repair" /\ at' = at /\ todo' = todo /\ Act
    \/ pc = "repair" /\ todo = {} /\ pc' = "infos" /\ at' = at
    \/ pc \in {"infos", "chunks", "chunkRow"} /\ pc' \in {"infos", "chunks", "chunkRow"} /\ at' = at
    \/ /\ (pc = "begin" /\ Skipped(Category)) \/ (pc \in {"repair", "infos", "chunks"} /\ todo = {})
       /\ \/ pc' = "begin" /\ at < LastRepair /\ at' = at + 1
          \/ pc' = "links" /\ at >= LastRepair /\ at' = 1 /\ cdc
    \/ pc \in Linking /\ pc' \in Linking

LEMMA GoesMoves ==
    ASSUME Control, Goes, calm', pc' # "idle"
    PROVE  Moves
  <1>1. CASE \/ Classify \/ JanitorEnd \/ Normalize \/ Flag \/ PurgeRow \/ PurgeChunkBlob \/ PurgeEnd
             \/ (\E s \in todo : JanitorVisit(s)) \/ (\E c \in Chunks : PurgeChunkRow(c))
             \/ Report \/ Proceed \/ Abort
    BY <1>1 DEF Classify, JanitorEnd, Normalize, Flag, PurgeRow, PurgeChunkBlob, PurgeEnd,
           JanitorVisit, PurgeChunkRow, Report, Proceed, Abort, Finish, DecideChunkedResidue,
           Control, Early, Janitoring, Moves
  <1>2. CASE BeginRepair
    <2>1. CASE Skipped(Category)
      BY <1>2, <2>1, NextCategoryMoves DEF BeginRepair, Moves
    <2>2. CASE ~Skipped(Category)
      BY <1>2, <2>2 DEF BeginRepair, Moves
    <2> QED
      BY <2>1, <2>2
  <1>3. CASE ItemsEnd
    BY <1>3, NextCategoryMoves DEF ItemsEnd, Moves
  <1>4. CASE InfosEnd \/ ChunksEnd
    BY <1>4, NextCategoryMoves DEF InfosEnd, ChunksEnd, Moves
  <1>5. CASE \E x \in todo : Pick(x)
    BY <1>5 DEF Pick, Moves
  <1>6. CASE Act
    BY <1>6 DEF Act, Moves, loop
  <1>7. CASE DropChunkRow \/ (\E n \in Nars : DropInfo(n)) \/ (\E c \in Chunks : DropBlob(c))
    BY <1>7 DEF DropChunkRow, DropInfo, DropBlob, Moves
  <1>8. CASE StaleLinks \/ Page \/ StrandedRows \/ Desync \/ (\E c \in Chunks : StrandedBlob(c))
    BY <1>8 DEF StaleLinks, Page, StrandedRows, Desync, StrandedBlob, Finish, Linking, Moves
  <1>9. CASE Slip
    BY <1>9 DEF Slip
  <1> QED
    BY <1>1, <1>2, <1>3, <1>4, <1>5, <1>6, <1>7, <1>8, <1>9 DEF Goes, Repair

LEMMA NoSkip ==
    ASSUME Control, Full(opt), Skipped(Category)
    PROVE  at = 7
  BY Categories DEF Skipped, Full, Control

RowSections == {2, 3, 6, 8, 9}

LEMMA DueSuspects ==
    ASSUME Control, NEW i \in 2 .. 10
    PROVE  Due(i) \subseteq sus[Repairs[i]]
  BY DEF Due, Control, Category

(* What is due stays due until its turn comes.                             *)
LEMMA DueStep ==
    ASSUME Control, Goes, calm', pc' # "idle", Full(opt), NEW i \in RowSections \cup {4, 10}, NEW x \in Due(i)
    PROVE  \/ x \in Due(i)'
           \/ at = i /\ Pick(x) /\ ~Confirmed(Category, x)
           \/ at = i /\ Act /\ item = x
  <1>0. /\ Moves /\ sus' = sus /\ at \in 1 .. 10 /\ i \in 2 .. 10
        /\ pc \notin {"scan", "idle"} /\ pc' # "scan"
    BY GoesMoves, GoesOn DEF Control, RowSections
  <1>1. CASE pc \in Early
    <2>1. ~Handled(i)' /\ pc' \notin {"repair", "act"} /\ pc \notin {"repair", "act"}
      BY <1>0, <1>1 DEF Moves, Handled, Early, Janitoring, Linking
    <2> QED
      BY <1>0, <2>1 DEF Due
  <1>2. CASE pc \in {"begin", "infos", "chunks", "chunkRow"}
    <2>1. x \in sus[Repairs[i]] /\ ~Handled(i)
      BY <1>2 DEF Due
    <2>2. at <= i /\ (pc # "begin" => at < i)
      BY <1>0, <1>2, <2>1 DEF Handled
    <2>3. CASE BeginRepair /\ ~Skipped(Category) /\ at = i
      <3>1. todo' = sus[Category] /\ pc' = "repair" /\ at' = at
        BY <1>0, <2>3, Categories DEF BeginRepair, AtOnce, RowSections
      <3> QED
        BY <1>0, <2>1, <2>3, <3>1 DEF Due, Handled, Linking, Category
    <2>4. CASE ~(BeginRepair /\ ~Skipped(Category) /\ at = i)
      <3>1. ~Handled(i)' /\ ~(pc' \in {"repair", "act"} /\ at' = i)
        BY <1>0, <1>2, <2>2, <2>4, NoSkip DEF Moves, Handled, Linking, Early, Janitoring, LastRepair, RowSections
      <3> QED
        BY <1>0, <2>1, <3>1 DEF Due
    <2> QED
      BY <2>3, <2>4
  <1>3. CASE pc \in {"repair", "act"} /\ at # i
    <2>1. x \in sus[Repairs[i]] /\ ~Handled(i)
      BY <1>3 DEF Due
    <2>2. at < i
      BY <1>0, <1>3, <2>1 DEF Handled
    <2>3. ~Handled(i)' /\ ~(pc' \in {"repair", "act"} /\ at' = i)
      BY <1>0, <1>3, <2>2 DEF Moves, Handled, Linking, Early, Janitoring, LastRepair, RowSections
    <2> QED
      BY <1>0, <2>1, <2>3 DEF Due
  <1>4. CASE pc = "repair" /\ at = i
    <2>1. x \in todo
      BY <1>4 DEF Due, Handled
    <2>2. PICK y \in todo : Pick(y)
      BY <1>0, <1>4, <2>1 DEF Moves, Early, Janitoring, Linking
    <2>3. at' = at /\ pc' \in {"repair", "act"} /\ todo' = todo \ {y}
      BY <1>4, <2>2 DEF Pick
    <2>4. CASE y # x
      BY <1>0, <1>4, <2>1, <2>3, <2>4 DEF Due, Handled, Linking
    <2>5. CASE y = x /\ Confirmed(Category, x)
      <3>1. pc' = "act" /\ item' = x
        BY <1>0, <1>4, <2>2, <2>5, Categories DEF Pick
      <3> QED
        BY <1>0, <1>4, <2>3, <3>1 DEF Due, Handled, Linking
    <2> QED
      BY <1>4, <2>2, <2>4, <2>5
  <1>5. CASE pc = "act" /\ at = i
    <2>1. x \in todo \cup {item}
      BY <1>5 DEF Due, Handled
    <2>2. Act /\ pc' = "repair" /\ at' = at /\ todo' = todo
      BY <1>0, <1>5 DEF Moves, Early, Janitoring, Linking
    <2> QED
      BY <1>0, <1>5, <2>1, <2>2 DEF Due, Handled, Linking
  <1>6. CASE pc \in Linking
    BY <1>6 DEF Due, Handled
  <1> QED
    BY <1>0, <1>1, <1>2, <1>3, <1>4, <1>5, <1>6 DEF Control, Places

LEMMA RowStaysDue ==
    ASSUME Control, Goes, calm', pc' # "idle", Full(opt), NEW i \in RowSections, NEW s \in Due(i),
           s.key \in DOMAIN nf', Confirmed(Repairs[i], s)
    PROVE  s \in Due(i)'
  <1>1. at = i => Category = Repairs[i]
    BY DEF Category
  <1>2. ~(at = i /\ Act /\ item = s)
    BY RepairRow DEF RowSections, RowRepairs
  <1> QED
    BY <1>1, <1>2, DueStep

(***************************************************************************)
(* A row that a run leaves keeps its link, its file and its chunks.        *)
(***************************************************************************)
LEMMA PlainSteps ==
    ASSUME Control, \/ Scan \/ ReVerify \/ Classify \/ JanitorEnd \/ Normalize \/ Flag \/ PurgeEnd
                    \/ (\E s \in todo : JanitorVisit(s)) \/ (\E c \in Chunks : PurgeChunkRow(c))
                    \/ Report \/ Proceed \/ Abort \/ BeginRepair \/ Slip \/ ItemsEnd \/ InfosEnd \/ ChunksEnd
                    \/ Page \/ Desync \/ (\E x \in todo : Pick(x))
    PROVE  UNCHANGED <<clinks, whole, blob>> /\ DOMAIN nf' = DOMAIN nf /\ DOMAIN info' = DOMAIN info
  <1>1. CASE Scan \/ Normalize \/ Flag \/ Desync
    BY <1>1 DEF Scan, Normalize, Flag, Desync, stores
  <1>2. CASE \E c \in Chunks : PurgeChunkRow(c)
    BY <1>2 DEF PurgeChunkRow, stores
  <1>3. CASE \/ ReVerify \/ Classify \/ JanitorEnd \/ PurgeEnd \/ (\E s \in todo : JanitorVisit(s))
             \/ Report \/ Proceed \/ Abort \/ BeginRepair \/ Slip \/ ItemsEnd \/ InfosEnd \/ ChunksEnd
             \/ Page \/ (\E x \in todo : Pick(x))
    BY <1>3 DEF ReVerify, Classify, JanitorEnd, PurgeEnd, JanitorVisit, Report, Proceed, BeginRepair,
         Slip, ItemsEnd, InfosEnd, ChunksEnd, Page, Pick, Abort, data, stores, tables
  <1> QED
    BY <1>1, <1>2, <1>3

LEMMA ActCases ==
    ASSUME Control, Act
    PROVE  \/ at = 1 /\ UNCHANGED <<nf, chunkRows, clinks, whole, blob>>
              /\ \/ item.row # {} /\ info' = info
                 \/ item.row = {} /\ WithoutInfo(item.nar)
           \/ at \in RowRepairs /\ WithoutRows({item.key}) /\ UNCHANGED <<info, chunkRows, whole, blob>>
           \/ at = 4 /\ whole' = whole \ {item} /\ UNCHANGED <<nf, info, joined, chunkRows, clinks, blob>>
           \/ at = 5 /\ WithoutChunkRows({item}) /\ UNCHANGED <<nf, info, joined, whole, blob>>
           \/ at = 10 /\ blob' = [blob EXCEPT ![item] = "absent"]
              /\ UNCHANGED <<nf, info, joined, chunkRows, clinks, whole>>
  <1>0. at \in {1, 4, 5, 10} \/ at \in RowRepairs
    BY TenPlaces DEF Control, RowRepairs
  <1>1. CASE at \in RowRepairs
    BY <1>1, RepairRow
  <1>2. CASE at = 1
    BY <1>2, Categories DEF Act, Control, ChunkedRepairs, stores
  <1>3. CASE at = 4
    BY <1>3, Categories DEF Act, Control, ChunkedRepairs, tables
  <1>4. CASE at = 5
    BY <1>4, Categories DEF Act, Control, ChunkedRepairs, stores
  <1>5. CASE at = 10
    BY <1>5, Categories DEF Act, Control, ChunkedRepairs, tables
  <1> QED
    BY <1>0, <1>1, <1>2, <1>3, <1>4, <1>5

LEMMA DropCases ==
    ASSUME \/ PurgeRow \/ PurgeChunkBlob \/ DropChunkRow \/ StaleLinks \/ StrandedRows
           \/ (\E n \in Nars : DropInfo(n)) \/ (\E c \in Chunks : DropBlob(c) \/ StrandedBlob(c))
    PROVE  /\ whole' = whole /\ (info' = info \/ \E n \in Nars : DropInfo(n))
           /\ PurgeRow \/ nf' = nf
  BY DEF PurgeRow, PurgeChunkBlob, DropChunkRow, StaleLinks, StrandedRows, DropInfo, DropBlob, StrandedBlob,
         stores, tables

LEMMA RunParts ==
    ASSUME Run
    PROVE  \/ \/ Scan \/ ReVerify \/ Classify \/ JanitorEnd \/ Normalize \/ Flag \/ PurgeEnd
              \/ (\E s \in todo : JanitorVisit(s)) \/ (\E c \in Chunks : PurgeChunkRow(c))
              \/ Report \/ Proceed \/ Abort \/ BeginRepair \/ Slip \/ ItemsEnd \/ InfosEnd \/ ChunksEnd
              \/ Page \/ Desync \/ (\E x \in todo : Pick(x))
           \/ \/ PurgeRow \/ PurgeChunkBlob \/ DropChunkRow \/ StaleLinks \/ StrandedRows
              \/ (\E n \in Nars : DropInfo(n)) \/ (\E c \in Chunks : DropBlob(c) \/ StrandedBlob(c))
           \/ Act
  BY DEF Run, Janitor, Repair

LEMMA WholeKept ==
    ASSUME Control, Aims, Run
    PROVE  /\ whole' \subseteq whole
           /\ \A r \in DOMAIN nf : r[1] \notin touched /\ r \in whole => r \in whole'
  <1>1. CASE Act
    BY <1>1, ActCases DEF Aims, Act
  <1>2. CASE ~Act
    BY <1>2, RunParts, PlainSteps, DropCases
  <1> QED
    BY <1>1, <1>2

LEMMA JoinedKept ==
    ASSUME Tables, Control, Aims, Run, NEW r \in joined, r \in DOMAIN nf', r[1] \notin touched
    PROVE  r \in joined'
  <1>1. Shrinks /\ r \in DOMAIN nf /\ r[1] \in DOMAIN info
    BY RunShrinks DEF Tables
  <1>2. r[1] \in DOMAIN info'
    <2>1. ASSUME NEW n \in Nars, DropInfo(n) PROVE r[1] \in DOMAIN info'
      <3>1. r[1] # n
        BY <2>1 DEF DropInfo, Aims, Linked
      <3> QED
        BY <1>1, <2>1, <3>1 DEF DropInfo, WithoutInfo, Restrict
    <2>2. CASE Act
      <3>1. item.row = {} /\ at = 1 => r[1] # item.nar
        BY <1>1, <2>2 DEF Act, Aims
      <3> QED
        BY <1>1, <2>2, <3>1, ActCases DEF WithoutInfo, Restrict, RowRepairs
    <2> QED
      BY <1>1, <2>1, <2>2, RunParts, PlainSteps, DropCases
  <1> QED
    BY <1>1, <1>2 DEF Shrinks

LEMMA ChunksKept ==
    ASSUME Tables, Control, Sweeps, Run, NEW r \in DOMAIN nf, r \in DOMAIN nf', r[1] \notin touched,
           nf[r].total > 0
    PROVE  ChunksOf(r)' = ChunksOf(r) /\ \A c \in ChunksOf(r) : blob'[c] = blob[c]
  <1>0. Shrinks
    BY RunShrinks
  <1>1. ASSUME NEW c \in ChunksOf(r)
        PROVE  <<r, c>> \in clinks' /\ blob'[c] = blob[c]
    <2>0. <<r, c>> \in clinks /\ nf[r].total \in Nat /\ c \in Chunks
      BY DEF ChunksOf, Tables, NarFile
    <2>1. ~Loose(c)
      BY <2>0, LooseElsewhere
    <2>2. CASE PurgeChunkBlob
      BY <2>0, <2>1, <2>2 DEF PurgeChunkBlob, Sweeps, tables
    <2>3. CASE DropChunkRow
      BY <2>0, <2>1, <2>3 DEF DropChunkRow, WithoutChunkRows, Sweeps, stores
    <2>4. CASE StaleLinks
      BY <2>0, <2>4 DEF StaleLinks, Stale, stores
    <2>5. CASE StrandedRows
      BY <2>0, <2>1, <2>5 DEF StrandedRows, WithoutChunkRows, Sweeps, stores
    <2>6. CASE \E d \in Chunks : DropBlob(d) \/ StrandedBlob(d)
      <3>1. PICK d \in Chunks : DropBlob(d) \/ StrandedBlob(d)
        BY <2>6
      <3>2. Loose(d) /\ blob' = [blob EXCEPT ![d] = "absent"] /\ clinks' = clinks
        BY <3>1 DEF DropBlob, StrandedBlob, Sweeps, tables
      <3> QED
        BY <2>0, <2>1, <3>2 DEF Tables
    <2>7. CASE Act
      <3>1. at \in {5, 10} => Loose(item)
        BY <2>7 DEF Act, Sweeps
      <3>2. CASE at \in RowRepairs
        BY <2>0, <2>7, <3>2, RepairRow DEF WithoutRows, Restrict
      <3>3. CASE at \in {1, 4}
        BY <2>0, <2>7, <3>3, ActCases DEF RowRepairs
      <3>4. CASE at = 5
        BY <2>0, <2>1, <2>7, <3>1, <3>4, ActCases DEF RowRepairs, WithoutChunkRows
      <3>5. CASE at = 10
        BY <2>0, <2>1, <2>7, <3>1, <3>5, ActCases DEF RowRepairs, Tables
      <3> QED
        BY <2>7, <3>2, <3>3, <3>4, <3>5, ActCases
    <2>8. CASE PurgeRow
      BY <2>0, <2>8 DEF PurgeRow, WithoutRows, Restrict, stores
    <2>9. CASE \E n \in Nars : DropInfo(n)
      BY <2>0, <2>9 DEF DropInfo, stores
    <2> QED
      BY <2>0, <2>2, <2>3, <2>4, <2>5, <2>6, <2>7, <2>8, <2>9, RunParts, PlainSteps
  <1> QED
    BY <1>0, <1>1 DEF ChunksOf, Shrinks

(***************************************************************************)
(* Faults are found, and handled.                                          *)
(***************************************************************************)
LEMMA QuietCount ==
    ASSUME quiet \in 0 .. 2, Goes
    PROVE  quiet' \in 0 .. 2
  <1>1. quiet' \in {quiet, 0} \/ Finish
    BY DEF Goes, Classify, JanitorEnd, Normalize, Flag, PurgeRow, PurgeChunkBlob, PurgeEnd,
           JanitorVisit, PurgeChunkRow, Report, Proceed, Abort, Repair, BeginRepair, Act, Slip, ItemsEnd,
           InfosEnd, DropChunkRow, ChunksEnd, StaleLinks, Page, StrandedRows, Desync, Pick, DropInfo,
           DropBlob, StrandedBlob, NextCategory
  <1> QED
    BY <1>1 DEF Finish

LEMMA StillStep ==
    ASSUME Control, Still, [Next]_vars
    PROVE  Still'
  <1>1. CASE \E o \in scenario.opts : Start(o)
    BY <1>1 DEF Start, Still
  <1>2. CASE Scan \/ ReVerify \/ Age
    <2>1. UNCHANGED <<job, touched, calm>> /\ quiet' \in {quiet, 0} /\ (pc' # "idle" => pc # "idle")
      BY <1>2 DEF Scan, ReVerify, Age
    <2> QED
      BY <2>1 DEF Still
  <1>3. CASE Goes
    <2>1. pc # "idle" /\ UNCHANGED <<job, touched>>
      BY <1>3, GoesOn
    <2>2. calm' => calm
      BY <1>3 DEF Goes, Classify, JanitorEnd, Normalize, Flag, PurgeRow, PurgeChunkBlob, PurgeEnd,
           JanitorVisit, PurgeChunkRow, Report, Proceed, Abort, Repair, BeginRepair, Act, Slip, ItemsEnd,
           InfosEnd, DropChunkRow, ChunksEnd, StaleLinks, Page, StrandedRows, Desync, Pick, DropInfo,
           DropBlob, StrandedBlob
    <2> QED
      BY <1>3, <2>1, <2>2, QuietCount DEF Still
  <1>4. CASE Server
    BY <1>4 DEF Server, PullRow, PullFile, UploadFile, UploadRow, UploadInfo, ChunkPull, ChunkStart,
                ChunkPut, ChunkRecord, ChunkMark, EvictRows, EvictFile, Live, Still
  <1>5. CASE UNCHANGED vars
    BY <1>5 DEF vars, fsck, Still
  <1> QED
    BY <1>1, <1>2, <1>3, <1>4, <1>5, RunCases DEF Next

LEMMA CalmSteps ==
    ASSUME Control, Goes \/ Scan \/ ReVerify, calm'
    PROVE  calm /\ opt' = opt /\ cdc' = cdc /\ (pc' = "idle" \/ quiet' = quiet)
  BY DEF Scan, ReVerify, Goes, Classify, JanitorEnd, Normalize, Flag, PurgeRow, PurgeChunkBlob, PurgeEnd,
           JanitorVisit, PurgeChunkRow, Report, Proceed, Abort, Repair, BeginRepair, Act, Slip, ItemsEnd,
           InfosEnd, DropChunkRow, ChunksEnd, StaleLinks, Page, StrandedRows, Desync, Pick, DropInfo,
           DropBlob, StrandedBlob, NextCategory, Finish

LEMMA SectionCheck ==
    ASSUME NEW i \in RowSections \cup {4, 10}
    PROVE  /\ CheckOf(i) \in 2 .. 10 /\ Checks[CheckOf(i)] = Repairs[i]
           /\ \A j \in 1 .. 10 : Checks[j] = Repairs[i] => j = CheckOf(i)
  <1>1. /\ CheckOf(2) = 2 /\ CheckOf(3) = 3 /\ CheckOf(6) = 6 /\ CheckOf(8) = 9 /\ CheckOf(9) = 10
        /\ CheckOf(4) = 4 /\ CheckOf(10) = 8
    BY DEF CheckOf
  <1>2. CheckOf(i) \in 2 .. 10 /\ Checks[CheckOf(i)] = Repairs[i]
    BY <1>1, CheckList, RepairList DEF RowSections
  <1>3. ASSUME NEW j \in 1 .. 10, Checks[j] = Repairs[i] PROVE j = CheckOf(i)
    BY <1>1, <1>3, CheckList, RepairList, TenPlaces DEF RowSections
  <1> QED
    BY <1>2, <1>3

LEMMA FaultBefore ==
    ASSUME Tables, Control, Aims, Sweeps, Run, touched = {}, NEW r \in DOMAIN nf', NEW i \in RowSections,
           Faulty(i, r)'
    PROVE  r \in DOMAIN nf /\ Faulty(i, r)
  <1>1. Shrinks /\ r \in DOMAIN nf /\ nf'[r].total = nf[r].total /\ nf'[r].body = nf[r].body
    BY RunShrinks DEF Shrinks
  <1>2. CASE i = 2
    BY <1>1, <1>2, JoinedKept DEF Faulty
  <1>3. CASE i = 3
    BY <1>1, <1>3, WholeKept DEF Faulty
  <1>4. CASE i \in {6, 8}
    <2>0. /\ Faulty(6, r) <=> nf[r].total > 0 /\ Broken(r)
          /\ Faulty(8, r) <=> nf[r].total > 0 /\ ~Broken(r) /\ Spoilt(r)
          /\ Faulty(6, r)' <=> nf'[r].total > 0 /\ Broken(r)'
          /\ Faulty(8, r)' <=> nf'[r].total > 0 /\ ~Broken(r)' /\ Spoilt(r)'
      BY DEF Faulty
    <2>1. nf[r].total > 0
      BY <1>1, <1>4, <2>0
    <2>2. ChunksOf(r)' = ChunksOf(r) /\ \A c \in ChunksOf(r) : blob'[c] = blob[c]
      BY <1>1, <2>1, ChunksKept
    <2>3. (Broken(r)' <=> Broken(r)) /\ (Spoilt(r)' <=> Spoilt(r))
      BY <1>1, <2>2 DEF Broken, Spoilt
    <2> QED
      BY <1>1, <1>4, <2>0, <2>3
  <1>5. CASE i = 9
    BY <1>1, <1>5 DEF Faulty, Wrong, Verifiable, Shrinks
  <1> QED
    BY <1>2, <1>3, <1>4, <1>5 DEF RowSections

LEMMA FaultConfirmed ==
    ASSUME Tables, Read, touched = {}, NEW i \in RowSections, NEW s \in sus[Repairs[i]],
           s.key \in DOMAIN nf, Faulty(i, s.key), i = 9 => s.key \in joined
    PROVE  Confirmed(Repairs[i], s)
  <1>1. Repairs[i] \in RowChecks
    BY RepairList DEF RowSections, RowChecks, ChunkedRepairs
  <1>2. Same(s) /\ nf[s.key].total = s.rec.total
    BY <1>1 DEF Read, Faithful, Same
  <1>3. ChunksForNarFile(s) = ChunksOf(s.key)
    BY <1>2 DEF ChunksForNarFile
  <1>4. CASE i = 2
    BY <1>4, RepairList DEF Confirmed, Faulty
  <1>5. CASE i = 3
    BY <1>5, RepairList DEF Confirmed, Faulty
  <1>6. CASE i = 6
    BY <1>2, <1>3, <1>6, RepairList DEF Confirmed, Faulty, IsNarFileChunkBroken, Broken
  <1>7. CASE i = 8
    BY <1>2, <1>3, <1>7, RepairList DEF Confirmed, Faulty, IsNarFileContentCorrupt, Spoilt
  <1>8. CASE i = 9
    BY <1>2, <1>3, <1>8, RepairList DEF Confirmed, Faulty, IsNarFileHashMismatched, Wrong, Verifiable
  <1> QED
    BY <1>4, <1>5, <1>6, <1>7, <1>8 DEF RowSections

LEMMA ListsGoes ==
    ASSUME Safe, Goes, calm', pc' # "idle", Full(opt), touched = {}, NEW i \in RowSections, Lists(i),
           i = 9 => \A r \in DOMAIN nf : r \in joined
    PROVE  Lists(i)'
  <1>1. pc # "scan" /\ Run /\ sus' = sus
    BY GoesOn, RunCases DEF Safe
  <1> SUFFICES ASSUME NEW r \in DOMAIN nf', Faulty(i, r)'
               PROVE  \E s \in Due(i)' : s.key = r
    BY DEF Lists
  <1>2. r \in DOMAIN nf /\ Faulty(i, r)
    BY <1>1, FaultBefore DEF Safe
  <1>3. PICK s \in Due(i) : s.key = r
    BY <1>1, <1>2 DEF Lists, Scanned
  <1>4. s \in sus[Repairs[i]]
    BY DueSuspects DEF Safe, RowSections
  <1>5. Confirmed(Repairs[i], s)
    BY <1>2, <1>3, <1>4, FaultConfirmed DEF Safe
  <1> QED
    BY <1>3, <1>5, RowStaysDue DEF Safe

LEMMA ScanDue ==
    ASSUME pc \in {"scan", "verify"}, NEW i
    PROVE  Due(i) = sus[Repairs[i]]
  BY DEF Due, Handled, Linking

LEMMA ListsVerify ==
    ASSUME Safe, ReVerify, touched = {}, NEW i \in RowSections, Lists(i),
           i = 9 => \A r \in DOMAIN nf : r \in joined
    PROVE  Lists(i)'
  <1>1. Run /\ pc = "verify" /\ pc' \in {"verify", "classify", "decide"} /\ UNCHANGED <<nf, joined, info, whole, clinks, blob>>
    BY RunCases DEF ReVerify, data, tables, stores
  <1>2. sus' = [sus EXCEPT ![Checks[at]] = {x \in @ : Confirmed(Checks[at], x)}]
    BY DEF ReVerify
  <1>3. Due(i)' = sus'[Repairs[i]] /\ Due(i) = sus[Repairs[i]]
    BY <1>1 DEF Due, Handled, Linking
  <1> SUFFICES ASSUME NEW r \in DOMAIN nf', Faulty(i, r)'
               PROVE  \E s \in Due(i)' : s.key = r
    BY DEF Lists
  <1>4. r \in DOMAIN nf /\ Faulty(i, r)
    BY <1>1, FaultBefore DEF Safe
  <1>5. PICK s \in sus[Repairs[i]] : s.key = r
    BY <1>1, <1>3, <1>4 DEF Lists, Scanned
  <1>6. Confirmed(Repairs[i], s)
    BY <1>4, <1>5, FaultConfirmed DEF Safe
  <1>7. Repairs[i] \in CheckIds
    BY AtCheck DEF RowSections
  <1>8. s \in sus'[Repairs[i]]
    BY <1>2, <1>5, <1>6, <1>7 DEF Safe, Control
  <1> QED
    BY <1>3, <1>5, <1>8

LEMMA SnapOf ==
    ASSUME NEW r \in DOMAIN nf
    PROVE  Snap(r) \in Snaps /\ Snap(r).key = r /\ Snap(r).rec = nf[r]
  BY DEF Snaps, Snap

LEMMA EligibleRow ==
    ASSUME Tables, Read, pc = "scan", at > 3, ~opt.since, touched = {}, NEW r \in DOMAIN nf, nf[r].total > 0
    PROVE  \E s \in Eligible : /\ s.key = r /\ Same(s) /\ s.rec.total = nf[r].total
                               /\ ChunksForNarFile(s) = ChunksOf(r)
  <1>1. PICK s \in all : s.key = r
    BY DEF Read
  <1>2. Same(s) /\ s.rec.total = nf[r].total
    BY <1>1 DEF Read, Faithful, Same
  <1>3. s \in Eligible
    BY <1>2 DEF Eligible, ShouldCheckNar
  <1> QED
    BY <1>1, <1>2, <1>3 DEF ChunksForNarFile

(* Each check finds the faults of its kind.                                *)
LEMMA ScanFinds ==
    ASSUME Tables, Read, pc = "scan", Full(opt), touched = {}, NEW i \in RowSections, at = CheckOf(i),
           \A s \in sus["1f"] : s.key \in DOMAIN nf => Broken(s.key),
           i = 9 => /\ \A r \in DOMAIN nf : r \in joined
                    /\ sus["1f"] = {} /\ sus["1i"] = {},
           NEW r \in DOMAIN nf, Faulty(i, r)
    PROVE  \E s \in Found(Repairs[i]) : s.key = r
  <1>0. ~opt.since
    BY DEF Full
  <1>1. CASE i = 2
    <2>1. Found("1b") = {Snap(q) : q \in DOMAIN nf \ joined} /\ Repairs[i] = "1b"
      BY <1>1, RepairList DEF Found
    <2>2. r \notin joined
      BY <1>1 DEF Faulty
    <2> QED
      BY <2>1, <2>2, SnapOf
  <1>2. CASE i = 3
    <2>1. Found("1c") = {s \in WholeFileRows(Snaps) : s.key \notin whole} /\ Repairs[i] = "1c"
      BY <1>2, RepairList DEF Found
    <2>2. r \notin whole /\ ~(nf[r].total > 0) /\ nf[r].total \in Nat
      BY <1>2 DEF Faulty, Tables, NarFile
    <2>3. Snap(r) \in WholeFileRows(Snaps)
      BY <1>0, <2>2, SnapOf DEF WholeFileRows, ShouldCheckNar
    <2> QED
      BY <2>1, <2>2, <2>3, SnapOf
  <1>3. CASE i = 6
    <2>1. Found("1f") = {s \in Eligible : IsNarFileChunkBroken(s)} /\ Repairs[i] = "1f"
      BY <1>3, RepairList DEF Found
    <2>2. nf[r].total > 0 /\ Broken(r) /\ at > 3
      BY <1>3 DEF Faulty, CheckOf
    <2>3. PICK s \in Eligible : /\ s.key = r /\ Same(s) /\ s.rec.total = nf[r].total
                                /\ ChunksForNarFile(s) = ChunksOf(r)
      BY <1>0, <2>2, EligibleRow
    <2> QED
      BY <2>1, <2>2, <2>3 DEF IsNarFileChunkBroken, Broken
  <1>4. CASE i = 8
    <2>1. Found("1i") = {s \in Eligible \ sus["1f"] : IsNarFileContentCorrupt(s)} /\ Repairs[i] = "1i"
      BY <1>4, RepairList DEF Found
    <2>2. nf[r].total > 0 /\ ~Broken(r) /\ Spoilt(r) /\ at > 3
      BY <1>4 DEF Faulty, CheckOf
    <2>3. PICK s \in Eligible : /\ s.key = r /\ Same(s) /\ s.rec.total = nf[r].total
                                /\ ChunksForNarFile(s) = ChunksOf(r)
      BY <1>0, <2>2, EligibleRow
    <2> QED
      BY <2>1, <2>2, <2>3 DEF IsNarFileContentCorrupt, Spoilt
  <1>5. CASE i = 9
    <2>1. /\ Found("1j") = {s \in Eligible \ (sus["1f"] \cup sus["1i"]) : IsNarFileHashMismatched(s)}
          /\ Repairs[i] = "1j"
      BY <1>5, RepairList DEF Found
    <2>2. Wrong(r) /\ nf[r].total > 0 /\ at > 3
      BY <1>5 DEF Faulty, Wrong, CheckOf
    <2>3. PICK s \in Eligible : /\ s.key = r /\ Same(s) /\ s.rec.total = nf[r].total
                                /\ ChunksForNarFile(s) = ChunksOf(r)
      BY <1>0, <2>2, EligibleRow
    <2>4. IsNarFileHashMismatched(s)
      BY <1>5, <2>2, <2>3 DEF IsNarFileHashMismatched, Wrong, Verifiable
    <2> QED
      BY <1>5, <2>1, <2>3, <2>4
  <1> QED
    BY <1>1, <1>2, <1>3, <1>4, <1>5 DEF RowSections

LEMMA ListsScan ==
    ASSUME Safe, Scan, Full(opt), touched = {}, NEW i \in RowSections, Lists(i),
           ~cdc => \A r \in DOMAIN nf : ~(nf[r].total > 0),
           \A s \in sus["1f"] : s.key \in DOMAIN nf => Broken(s.key),
           i = 9 => /\ \A r \in DOMAIN nf : r \in joined
                    /\ sus["1f"] = {} /\ sus["1i"] = {}
    PROVE  Lists(i)'
  <1>1. /\ Run /\ pc = "scan" /\ at \in 1 .. 10 /\ sus' = [sus EXCEPT ![Checks[at]] = Found(Checks[at])]
        /\ (at < LastCheck /\ at' = at + 1 /\ pc' = "scan") \/ (~(at < LastCheck) /\ pc' = "verify")
    BY RunCases DEF Scan, Safe, Control
  <1>2. Due(i)' = sus'[Repairs[i]] /\ Due(i) = sus[Repairs[i]]
    BY <1>1 DEF Due, Handled, Linking
  <1>3. Repairs[i] \in CheckIds /\ sus = [k \in CheckIds |-> sus[k]]
    BY AtCheck DEF RowSections, Safe, Control
  <1> SUFFICES ASSUME Scanned(i)', NEW r \in DOMAIN nf', Faulty(i, r)'
               PROVE  \E s \in Due(i)' : s.key = r
    BY DEF Lists
  <1>4. r \in DOMAIN nf /\ Faulty(i, r)
    BY <1>1, FaultBefore DEF Safe
  <1>5. CASE at > CheckOf(i)
    <2>1. Checks[at] # Repairs[i]
      BY <1>1, <1>5, SectionCheck
    <2>2. sus'[Repairs[i]] = sus[Repairs[i]]
      BY <1>1, <1>3, <2>1
    <2>3. \E s \in Due(i) : s.key = r
      BY <1>4, <1>5 DEF Lists, Scanned
    <2> QED
      BY <1>2, <2>2, <2>3
  <1>6. CASE at = CheckOf(i)
    <2>1. Checks[at] = Repairs[i]
      BY <1>6, SectionCheck
    <2>2. sus'[Repairs[i]] = Found(Repairs[i])
      BY <1>1, <1>3, <2>1
    <2>3. \E s \in Found(Repairs[i]) : s.key = r
      BY <1>1, <1>4, <1>6, ScanFinds DEF Safe
    <2> QED
      BY <1>2, <2>2, <2>3
  <1>7. CASE at < CheckOf(i)
    <2>1. pc' = "verify" /\ ~(at < LastCheck)
      BY <1>1, <1>7, SectionCheck DEF Scanned, CheckOf
    <2>2. ~cdc /\ at >= 4
      BY <1>1, <1>7, <2>1, SectionCheck DEF LastCheck, Full
    <2>3. i \in {6, 8, 9}
      BY <1>1, <1>7, <2>2 DEF RowSections, CheckOf
    <2>4. nf[r].total > 0
      <3>1. Faulty(6, r) \/ Faulty(8, r) \/ Faulty(9, r)
        BY <1>4, <2>3
      <3> QED
        BY <3>1 DEF Faulty, Wrong
    <2> QED
      BY <1>4, <2>2, <2>4
  <1> QED
    BY <1>1, <1>5, <1>6, <1>7, SectionCheck

LEMMA ChunkFaults ==
    ASSUME Tables, Control, Sweeps, Run, touched = {}, NEW r \in DOMAIN nf, r \in DOMAIN nf', nf[r].total > 0
    PROVE  Broken(r)' <=> Broken(r)
  <1>1. nf'[r].total = nf[r].total
    BY RunShrinks DEF Shrinks
  <1>2. ChunksOf(r)' = ChunksOf(r) /\ \A c \in ChunksOf(r) : blob'[c] = blob[c]
    BY ChunksKept
  <1> QED
    BY <1>1, <1>2 DEF Broken

(* Suspects come from a check, and are only taken off.                     *)
LEMMA SuspectsFrom ==
    ASSUME Control, Run, NEW k \in CheckIds
    PROVE  sus'[k] \subseteq sus[k] \/ (Scan /\ k = Checks[at] /\ sus'[k] = Found(k))
  <1>0. sus = [j \in CheckIds |-> sus[j]]
    BY DEF Control
  <1>1. CASE Scan
    <2>1. sus' = [sus EXCEPT ![Checks[at]] = Found(Checks[at])]
      BY <1>1 DEF Scan
    <2> QED
      BY <1>0, <1>1, <2>1
  <1>2. CASE ReVerify
    <2>1. sus' = [sus EXCEPT ![Checks[at]] = {x \in @ : Confirmed(Checks[at], x)}]
      BY <1>2 DEF ReVerify
    <2> QED
      BY <1>0, <2>1
  <1>3. CASE Goes
    BY <1>3, GoesOn
  <1> QED
    BY <1>1, <1>2, <1>3, RunCases

LEMMA StartQuiet ==
    ASSUME NEW o, Start(o), NEW i \in RowSections
    PROVE  Lists(i)' /\ \A k \in CheckIds : sus'[k] = {}
  <1>1. pc' = "scan" /\ at' = 1 /\ sus' = NoSuspects
    BY DEF Start
  <1>2. ~Scanned(i)'
    BY <1>1, SectionCheck DEF Scanned, CheckOf
  <1> QED
    BY <1>1, <1>2 DEF Lists, NoSuspects

(* Only a start and the steps of a run lead to an undisturbed state.       *)
LEMMA IntoUndisturbed ==
    ASSUME Safe, Still, [Next]_vars, Undisturbed'
    PROVE  \/ \E o \in scenario.opts : Start(o)
           \/ Run /\ Undisturbed /\ touched = {} /\ opt' = opt /\ cdc' = cdc /\ quiet' = quiet
           \/ UNCHANGED vars
  <1>1. CASE Run
    <2>1. pc # "idle"
      BY <1>1, RunCases, GoesOn DEF Safe, Scan, ReVerify
    <2>2. calm /\ opt' = opt /\ cdc' = cdc /\ quiet' = quiet
      BY <1>1, RunCases, CalmSteps DEF Safe, Undisturbed
    <2> QED
      BY <1>1, <2>1, <2>2 DEF Still, Undisturbed
  <1>2. CASE Server
    BY <1>2, ServerElsewhere DEF Safe, Elsewhere, Undisturbed
  <1>3. CASE Age
    BY <1>3 DEF Age, Undisturbed
  <1> QED
    BY <1>1, <1>2, <1>3 DEF Next

LEMMA StutterFaults ==
    ASSUME UNCHANGED vars
    PROVE  /\ Undisturbed' <=> Undisturbed
           /\ \A r : Broken(r)' <=> Broken(r)
           /\ \A r : Wrong(r)' <=> Wrong(r)
           /\ \A r : Present(r)' <=> Present(r)
           /\ \A i : Lists(i)' <=> Lists(i)
  <1> USE DEF vars, data, tables, stores, fsck, loop, found
  <1>1. ASSUME NEW r PROVE /\ Broken(r)' <=> Broken(r)
                           /\ Spoilt(r)' <=> Spoilt(r)
                           /\ Wrong(r)' <=> Wrong(r)
                           /\ Present(r)' <=> Present(r)
    BY DEF Broken, Spoilt, Wrong, Present, Verifiable, ChunksOf
  <1>2. ASSUME NEW i PROVE Lists(i)' <=> Lists(i)
    <2>1. \A r : Faulty(i, r)' <=> Faulty(i, r)
      BY <1>1 DEF Faulty
    <2>2. Due(i)' = Due(i)
      BY DEF Due, Handled
    <2>3. Scanned(i)' <=> Scanned(i)
      BY DEF Scanned
    <2> QED
      BY <2>1, <2>2, <2>3 DEF Lists
  <1>3. Undisturbed' <=> Undisturbed
    BY DEF Undisturbed
  <1> QED
    BY <1>1, <1>2, <1>3

LEMMA ListedStep ==
    ASSUME Safe, Still, Listed, [Next]_vars
    PROVE  Listed'
  <1> SUFFICES ASSUME Undisturbed' PROVE Listed'
    BY DEF Listed
  <1>1. CASE \E o \in scenario.opts : Start(o)
    <2>1. PICK o \in scenario.opts : Start(o)
      BY <1>1
    <2>2. \A i \in {2, 3, 6, 8} : Lists(i)'
      BY <2>1, StartQuiet DEF RowSections
    <2>3. sus'["1f"] = {} /\ all' = {}
      BY <2>1, CheckNames DEF Start, NoSuspects
    <2>4. ~cdc' => chunkRows' = {} /\ \A r \in DOMAIN nf' : ~(nf'[r].total > 0)
      BY <2>1 DEF Start, DetectFsckCDCMode, data, tables
    <2> QED
      BY <2>2, <2>3, <2>4 DEF Listed
  <1>2. CASE Run /\ Undisturbed /\ touched = {} /\ opt' = opt /\ cdc' = cdc
    <2>0. Shrinks /\ Full(opt) /\ calm' /\ pc' # "idle"
      BY <1>2, RunShrinks DEF Safe, Undisturbed
    <2>1. ~cdc' => chunkRows' = {} /\ \A r \in DOMAIN nf' : ~(nf'[r].total > 0)
      BY <1>2, <2>0 DEF Listed, Shrinks
    <2>2. ASSUME pc' = "scan", NEW s \in all' PROVE s.key \in DOMAIN nf'
      <3>1. Scan
        BY <1>2, <2>2, RunCases, GoesOn DEF Safe, ReVerify
      <3>2. all' \in {all, Snaps} /\ pc = "scan" /\ DOMAIN nf' = DOMAIN nf
        BY <3>1 DEF Scan
      <3> QED
        BY <1>2, <2>2, <3>2, SnapsFaithful DEF Listed
    <2>3. ASSUME NEW s \in sus'["1f"], s.key \in DOMAIN nf' PROVE Broken(s.key)'
      <3>1. s.key \in DOMAIN nf /\ "1f" \in CheckIds /\ "1f" \in RowChecks /\ "1f" \in ChunkedRepairs
        BY <2>0, <2>3, CheckNames DEF Shrinks, RowChecks, ChunkedRepairs
      <3>2. Broken(s.key) /\ nf[s.key].total > 0
        <4>1. CASE s \in sus["1f"]
          BY <1>2, <3>1, <4>1 DEF Listed, Safe, Read, Faithful
        <4>2. CASE Scan /\ s \in Found("1f")
          <5>1. s \in all /\ s.rec.total > 0 /\ IsNarFileChunkBroken(s)
            BY <4>2 DEF Found, Eligible
          <5>2. Same(s) /\ nf[s.key].total = s.rec.total
            BY <1>2, <3>1, <5>1 DEF Safe, Read, Faithful, Same
          <5> QED
            BY <5>1, <5>2 DEF IsNarFileChunkBroken, ChunksForNarFile, Broken
        <4> QED
          BY <1>2, <2>3, <3>1, <4>1, <4>2, SuspectsFrom DEF Safe
      <3> QED
        BY <1>2, <2>3, <3>1, <3>2, ChunkFaults DEF Safe
    <2>4. ASSUME NEW i \in {2, 3, 6, 8} PROVE Lists(i)'
      <3>1. Lists(i) /\ i \in RowSections /\ i # 9
        BY <1>2 DEF Listed, RowSections
      <3>2. CASE Scan
        BY <1>2, <2>0, <3>1, <3>2, ListsScan DEF Listed
      <3>3. CASE ReVerify
        BY <1>2, <2>0, <3>1, <3>3, ListsVerify
      <3>4. CASE Goes
        BY <1>2, <2>0, <3>1, <3>4, ListsGoes
      <3> QED
        BY <1>2, <3>2, <3>3, <3>4, RunCases
    <2> QED
      BY <2>1, <2>2, <2>3, <2>4 DEF Listed
  <1>3. CASE UNCHANGED vars
    BY <1>3, StutterFaults DEF Listed, vars, data, tables, fsck, found
  <1> QED
    BY <1>1, <1>2, <1>3, IntoUndisturbed

(***************************************************************************)
(* What a run that ends well has handled.                                  *)
(***************************************************************************)
LEMMA SoundRows ==
    ASSUME Tables
    PROVE  Sound <=> \A r \in DOMAIN nf : ~Faulty(2, r) /\ ~Faulty(3, r) /\ ~Faulty(6, r) /\ ~Faulty(8, r)
  <1>1. ASSUME NEW r \in DOMAIN nf
        PROVE  Present(r) /\ r \in joined <=> ~Faulty(2, r) /\ ~Faulty(3, r) /\ ~Faulty(6, r) /\ ~Faulty(8, r)
    <2>1. /\ Faulty(2, r) <=> r \notin joined
          /\ Faulty(3, r) <=> ~(nf[r].total > 0) /\ r \notin whole
          /\ Faulty(6, r) <=> nf[r].total > 0 /\ Broken(r)
          /\ Faulty(8, r) <=> nf[r].total > 0 /\ ~Broken(r) /\ Spoilt(r)
      BY DEF Faulty
    <2>2. \A c \in ChunksOf(r) : blob[c] \in {"absent", "good", "bad"}
      BY DEF Tables, ChunksOf
    <2>3. Broken(r) \/ Spoilt(r) <=> ~(/\ Cardinality(ChunksOf(r)) = nf[r].total
                                       /\ \A c \in ChunksOf(r) : blob[c] = "good")
      BY <2>2 DEF Broken, Spoilt
    <2> QED
      BY <2>1, <2>3 DEF Present
  <1> QED
    BY <1>1 DEF Sound

Ends == pc # "scan" /\ \A i \in RowSections \cup {4, 10} : Due(i) = {} \/ (~cdc /\ i > 4)

(* The ways to the end of a run that count.                                *)
LEMMA WellEnded ==
    ASSUME Safe, Still, Run, pc' = "idle", quiet' >= 1
    PROVE  /\ Undisturbed /\ touched = {} /\ Ends /\ (quiet' >= 2 => quiet >= 1) /\ cdc' = cdc
           /\ UNCHANGED <<scenario, nf, joined, chunkRows, clinks, whole, blob, sus>>
           /\ \/ Report /\ pc = "decide" /\ NoIssues
              \/ at >= LastRepair /\ ~cdc /\ pc \in {"begin", "repair", "infos", "chunks"} /\ info' = info
                 /\ (pc = "begin" => at = 7) /\ (pc # "begin" => todo = {})
                 /\ (pc = "repair" => at \notin {3, 6, 7, 8, 9})
              \/ Desync /\ pc = "desync"
  <1>1. pc # "idle" /\ ~Scan /\ ~ReVerify /\ Goes
    BY RunCases, GoesOn DEF Safe, Scan, ReVerify
  <1>2. /\ \/ Report /\ pc = "decide"
           \/ /\ NextCategory /\ UNCHANGED data
              /\ \/ BeginRepair /\ Skipped(Category) /\ pc = "begin"
                 \/ (ItemsEnd \/ InfosEnd \/ ChunksEnd) /\ pc \in {"repair", "infos", "chunks"} /\ todo = {}
           \/ Desync /\ pc = "desync"
        /\ calm' = calm /\ cdc' = cdc
    <2>1. ~Abort
      BY DEF Abort
    <2>2. CASE BeginRepair \/ ItemsEnd \/ InfosEnd \/ ChunksEnd
      BY <2>2 DEF BeginRepair, ItemsEnd, InfosEnd, ChunksEnd, loop
    <2>3. CASE Report \/ Desync
      BY <2>3 DEF Report, Desync
    <2>4. CASE Slip
      BY <1>1, <2>4 DEF Slip
    <2>5. CASE Act \/ DropChunkRow \/ StaleLinks \/ Page \/ StrandedRows \/ (\E x \in todo : Pick(x))
               \/ (\E n \in Nars : DropInfo(n)) \/ (\E c \in Chunks : DropBlob(c) \/ StrandedBlob(c))
      BY <1>1, <2>5 DEF Act, DropChunkRow, StaleLinks, Page, StrandedRows, Pick, DropInfo, DropBlob, StrandedBlob
    <2>6. CASE \/ Classify \/ JanitorEnd \/ Normalize \/ Flag \/ PurgeRow \/ PurgeChunkBlob \/ PurgeEnd
               \/ (\E s \in todo : JanitorVisit(s)) \/ (\E c \in Chunks : PurgeChunkRow(c)) \/ Proceed
      BY <1>1, <2>6 DEF Classify, JanitorEnd, Normalize, Flag, PurgeRow, PurgeChunkBlob, PurgeEnd,
           JanitorVisit, PurgeChunkRow, Proceed, DecideChunkedResidue
    <2> QED
      BY <1>1, <2>1, <2>2, <2>3, <2>4, <2>5, <2>6 DEF Goes, Repair
  <1>3. Finish
    BY <1>2 DEF Report, Desync, NextCategory
  <1>4. calm /\ Full(opt) /\ (quiet' >= 2 => quiet >= 1)
    BY <1>3 DEF Finish, Still
  <1>5. UNCHANGED <<scenario, nf, joined, chunkRows, clinks, whole, blob, sus>>
    BY <1>1, <1>2, GoesOn DEF Safe, Report, Desync, data, tables, stores
  <1>6. Undisturbed /\ touched = {}
    BY <1>1, <1>4 DEF Undisturbed, Still
  <1>7. CASE Report /\ pc = "decide"
    <2>1. NoIssues
      BY <1>4, <1>7 DEF Report, Full
    <2>2. \A i \in RowSections \cup {4, 10} : Due(i) = {}
      <3>1. \A i \in RowSections \cup {4, 10} : Repairs[i] \in CheckIds
        BY AtCheck DEF RowSections
      <3> QED
        BY <1>7, <2>1, <3>1 DEF Due, NoIssues, Handled, Linking
    <2> QED
      BY <1>2, <1>4, <1>5, <1>6, <1>7, <2>1, <2>2 DEF Ends
  <1>8. CASE Desync /\ pc = "desync"
    <2>1. \A i \in RowSections \cup {4, 10} : Due(i) = {}
      BY <1>8 DEF Due, Handled, Linking
    <2> QED
      BY <1>2, <1>4, <1>5, <1>6, <1>8, <2>1 DEF Ends
  <1>9. CASE /\ NextCategory /\ UNCHANGED data
             /\ \/ BeginRepair /\ Skipped(Category) /\ pc = "begin"
                \/ (ItemsEnd \/ InfosEnd \/ ChunksEnd) /\ pc \in {"repair", "infos", "chunks"} /\ todo = {}
    <2>1. at >= LastRepair /\ ~cdc /\ at \in 1 .. 10
      BY <1>9 DEF NextCategory, Safe, Control, LastRepair
    <2>2. at >= 4 /\ (pc = "begin" => at = 7)
      BY <1>4, <1>9, <2>1, NoSkip DEF LastRepair, Safe
    <2>3. \A i \in RowSections \cup {4, 10} : Due(i) = {} \/ i > 4
      BY <1>9, <2>1, <2>2 DEF Due, Handled, RowSections, Linking
    <2>4. ASSUME pc = "repair" PROVE at \notin {3, 6, 7, 8, 9}
      <3>1. ItemsEnd /\ Category \notin {"1c"} \cup ChunkedRepairs
        BY <1>9, <2>4 DEF ItemsEnd, InfosEnd, ChunksEnd
      <3> QED
        BY <2>1, <3>1, Categories DEF ChunkedRepairs
    <2> QED
      BY <1>2, <1>4, <1>5, <1>6, <1>9, <2>1, <2>2, <2>3, <2>4 DEF Ends, data, tables
  <1> QED
    BY <1>2, <1>7, <1>8, <1>9

LEMMA EndsSound ==
    ASSUME Safe, Listed, Undisturbed, Ends
    PROVE  Sound
  <1>1. ASSUME NEW r \in DOMAIN nf, NEW i \in {2, 3, 6, 8}, Faulty(i, r) PROVE FALSE
    <2>1. PICK s \in Due(i) : s.key = r
      BY <1>1 DEF Listed, Lists, Scanned, Ends
    <2>2. ~cdc /\ i \in {6, 8}
      BY <1>1, <2>1 DEF Ends, RowSections
    <2>3. nf[r].total > 0
      <3>1. Faulty(6, r) \/ Faulty(8, r)
        BY <1>1, <2>2
      <3> QED
        BY <3>1 DEF Faulty
    <2> QED
      BY <1>1, <2>2, <2>3 DEF Listed
  <1> QED
    BY <1>1, SoundRows DEF Safe

LEMMA EndsRight ==
    ASSUME Safe, Listed, Undisturbed, Ends, Lists(9), NEW r \in DOMAIN nf
    PROVE  ~Wrong(r)
  <1> SUFFICES ASSUME Wrong(r) PROVE FALSE
    OBVIOUS
  <1>1. Faulty(9, r) /\ nf[r].total > 0
    BY DEF Faulty, Wrong
  <1>2. \E s \in Due(9) : s.key = r
    BY <1>1 DEF Lists, Scanned, Ends
  <1>3. ~cdc
    BY <1>2 DEF Ends, RowSections
  <1> QED
    BY <1>1, <1>3 DEF Listed

LEMMA SoundStep ==
    ASSUME Safe, Sound, Run, touched = {}
    PROVE  Sound'
  <1>1. Tables'
    BY RunShrinks DEF Safe
  <1>2. ASSUME NEW r \in DOMAIN nf', NEW i \in {2, 3, 6, 8} PROVE ~Faulty(i, r)'
    BY <1>2, FaultBefore, SoundRows DEF Safe, RowSections
  <1>3. (Sound <=> \A r \in DOMAIN nf : ~Faulty(2, r) /\ ~Faulty(3, r) /\ ~Faulty(6, r) /\ ~Faulty(8, r))'
    BY <1>1, SoundRows, PTL
  <1> QED
    BY <1>2, <1>3

(* In a sound database the first run's checks find nothing.                *)
LEMMA SoundScan ==
    ASSUME Safe, Listed, Undisturbed, touched = {}, Sound, Scan, NEW k \in {"1b", "1c", "1f", "1i"}
    PROVE  Found(k) = {}
  <1>1. ASSUME NEW s \in Eligible
        PROVE  Same(s) /\ s.key \in DOMAIN nf /\ nf[s.key].total = s.rec.total /\ nf[s.key].total > 0
    <2>1. s \in all /\ s.rec.total > 0 /\ s.key \in DOMAIN nf
      BY <1>1 DEF Eligible, Listed, Scan
    <2> QED
      BY <2>1 DEF Safe, Read, Faithful, Same
  <1>2. ASSUME NEW s \in Eligible PROVE ~IsNarFileChunkBroken(s) /\ ~IsNarFileContentCorrupt(s)
    <2>1. Present(s.key)
      BY <1>1, <1>2 DEF Sound
    <2> QED
      BY <1>1, <1>2, <2>1 DEF IsNarFileChunkBroken, IsNarFileContentCorrupt, ChunksForNarFile, Present
  <1>3. CASE k = "1b"
    BY <1>3 DEF Found, Sound
  <1>4. CASE k = "1c"
    <2>1. ASSUME NEW s \in Snaps, s.rec.total <= 0 PROVE s.key \in whole
      <3>1. s.key \in DOMAIN nf /\ s.rec = nf[s.key] /\ nf[s.key].total \in Nat
        BY SnapsFaithful DEF Safe, Tables, NarFile
      <3> QED
        BY <2>1, <3>1 DEF Sound, Present
    <2> QED
      BY <1>4, <2>1 DEF Found, WholeFileRows
  <1>5. CASE k = "1f"
    BY <1>2, <1>5 DEF Found
  <1>6. CASE k = "1i"
    BY <1>2, <1>6 DEF Found
  <1> QED
    BY <1>3, <1>4, <1>5, <1>6

LEMMA AgainStep ==
    ASSUME Safe, Still, Listed, Again, [Next]_vars
    PROVE  Again'
  <1>1. CASE \E o \in scenario.opts : Start(o)
    <2>1. PICK o \in scenario.opts : Start(o)
      BY <1>1
    <2>2. Lists(9)' /\ \A k \in {"1b", "1c", "1f", "1i"} : sus'[k] = {}
      BY <2>1, StartQuiet, CheckNames DEF RowSections
    <2>3. pc = "idle" /\ pc' = "scan" /\ quiet' = quiet /\ UNCHANGED <<nf, joined, clinks, whole, blob>>
      BY <2>1 DEF Start, data, tables, stores
    <2>4. Sound => Sound'
      BY <2>3 DEF Sound, Present, ChunksOf
    <2> QED
      BY <2>2, <2>3, <2>4 DEF Again
  <1>2. CASE Run /\ pc' = "idle"
    <2>1. ASSUME quiet' >= 1 PROVE Sound'
      <3>1. Sound /\ touched = {}
        BY <1>2, <2>1, WellEnded, EndsSound
      <3> QED
        BY <1>2, <3>1, SoundStep
    <2>2. ASSUME quiet' >= 2, NEW r \in DOMAIN nf' PROVE ~Wrong(r)'
      <3>0. quiet' >= 1
        BY <2>2, StillStep DEF Safe, Still
      <3>1. Undisturbed /\ quiet >= 1 /\ Ends /\ touched = {}
        BY <1>2, <2>2, <3>0, WellEnded
      <3>2. \A q \in DOMAIN nf : ~Wrong(q)
        BY <3>1, EndsRight DEF Again
      <3>3. Wrong(r)' => Faulty(9, r)'
        BY DEF Faulty
      <3>4. Wrong(r)' => r \in DOMAIN nf /\ Faulty(9, r)
        BY <1>2, <3>1, <3>3, FaultBefore DEF Safe, RowSections
      <3> QED
        BY <3>2, <3>4 DEF Faulty
    <2> QED
      BY <1>2, <2>1, <2>2 DEF Again, Undisturbed
  <1>3. CASE Run /\ pc' # "idle"
    <2> SUFFICES ASSUME Undisturbed', quiet' >= 1
                 PROVE  /\ Sound' /\ \A k \in {"1b", "1c", "1f", "1i"} : sus'[k] = {}
                        /\ Lists(9)'
      BY <1>3 DEF Again
    <2>1. Undisturbed /\ touched = {} /\ quiet' = quiet /\ calm' /\ pc # "idle" /\ Full(opt)
      <3>1. pc # "idle"
        BY <1>3, RunCases, GoesOn DEF Safe, Scan, ReVerify
      <3>2. calm /\ opt' = opt /\ cdc' = cdc /\ quiet' = quiet
        BY <1>3, RunCases, CalmSteps DEF Safe, Undisturbed
      <3> QED
        BY <3>1, <3>2 DEF Still, Undisturbed
    <2>2. Sound /\ \A k \in {"1b", "1c", "1f", "1i"} : sus[k] = {}
      BY <2>1 DEF Again
    <2>3. Lists(9) /\ 9 \in RowSections /\ \A r \in DOMAIN nf : r \in joined
      BY <2>1, <2>2 DEF Again, RowSections, Sound
    <2>4. \A k \in {"1b", "1c", "1f", "1i"} : sus'[k] = {}
      BY <1>3, <2>1, <2>2, SuspectsFrom, SoundScan, CheckNames DEF Safe
    <2>5. CASE Scan
      BY <1>3, <2>1, <2>2, <2>3, <2>5, ListsScan, SoundStep, <2>4 DEF Listed
    <2>6. CASE ReVerify
      BY <1>3, <2>1, <2>2, <2>3, <2>6, ListsVerify, SoundStep, <2>4
    <2>7. CASE Goes
      BY <1>3, <2>1, <2>2, <2>3, <2>7, ListsGoes, SoundStep, <2>4
    <2> QED
      BY <1>3, <2>5, <2>6, <2>7, RunCases
  <1>4. CASE Server
    <2>1. calm' = FALSE /\ quiet' = 0
      BY <1>4, ServerElsewhere DEF Safe, Elsewhere
    <2> QED
      BY <2>1 DEF Again, Undisturbed
  <1>5. CASE Age
    <2>1. pc' = "idle" /\ quiet' = 0
      BY <1>5 DEF Age
    <2> QED
      BY <2>1 DEF Again, Undisturbed
  <1>6. CASE UNCHANGED vars
    BY <1>6, StutterFaults DEF Again, Sound, vars, data, tables, fsck, found
  <1> QED
    BY <1>1, <1>2, <1>3, <1>4, <1>5, <1>6 DEF Next

Mending == Safe /\ Still /\ Listed /\ Again

LEMMA MendingInit == Init => Mending
  <1> SUFFICES ASSUME Init PROVE Mending
    OBVIOUS
  <1>1. Safe
    BY SafeInit
  <1>2. pc = "idle" /\ quiet = 0
    BY DEF Init
  <1> QED
    BY <1>1, <1>2 DEF Mending, Still, Listed, Again, Undisturbed

LEMMA MendingStep == Mending /\ [Next]_vars => Mending'
  BY SafeStep, StillStep, ListedStep, AgainStep DEF Mending, Safe

(* One quiet repair leaves only rows that have their file or their chunks, *)
(* two only right ones, whatever was broken.                               *)
THEOREM FsckRepaired == Spec => []Repaired
  <1>1. Mending => Repaired
    BY DEF Mending, Still, Again, Repaired, Sound, Wrong
  <1> QED
    BY <1>1, MendingInit, MendingStep, PTL DEF Spec

(***************************************************************************)
(* Garbage. The janitor visits every chunked row as it was read, so that   *)
(* no row is left that the next run would purge.                           *)
(***************************************************************************)
Overdue(r) == /\ nf[r].total > 0 /\ r[2] = "none"
              /\ ~nf[r].started /\ nf[r].flag = "aged"
Visiting == {"normalize", "clearFlag", "setFlag", "reclaim"}
After == {"decide", "begin", "repair", "act", "infos", "chunks", "chunkRow"} \cup Linking

Visits ==
    Undisturbed =>
        /\ pc \in Janitoring => \A s \in todo : /\ s.rec.total > 0 /\ s.key[2] = "none"
                                                /\ s.key \in DOMAIN nf => s = Snap(s.key)
        /\ pc \in Visiting /\ item.key \in DOMAIN nf =>
               item = Snap(item.key) /\ \A s \in todo : s.key # item.key
        /\ scenario.enabled /\ pc \in Janitoring =>
               \A r \in DOMAIN nf : Overdue(r) =>
                   \/ \E s \in todo : s.key = r
                   \/ pc \in {"normalize", "clearFlag", "reclaim"} /\ item.key = r
        /\ scenario.enabled /\ pc \in After => \A r \in DOMAIN nf : ~Overdue(r)

(* Chunks that lose their last link are swept by the section that follows. *)
Swept ==
    Undisturbed =>
        /\ (pc = "scan" /\ at > 5) \/ pc \in Early =>
               OrphanChunks \subseteq sus["1e"] \cup IF pc \in {"orphans", "orphanBlob"} THEN known ELSE {}
        /\ (pc = "begin" /\ at >= 7) \/ (pc \in {"repair", "act"} /\ at = 10) \/ pc \in {"links", "desync"} =>
               OrphanChunks = {}
        /\ pc = "chunks" => OrphanChunks \subseteq todo
        /\ pc = "chunkRow" => OrphanChunks \subseteq todo \cup {item}

Tidy == OrphanChunks = {} /\ (scenario.enabled => \A r \in DOMAIN nf : ~Overdue(r))

(* So in the next run no row is purged, and before its section for broken  *)
(* rows none is deleted and no chunk is without a link.                    *)
Calmer ==
    /\ pc = "idle" /\ quiet >= 1 => Tidy
    /\ Undisturbed /\ quiet >= 1 =>
           /\ scenario.enabled => \A r \in DOMAIN nf : ~Overdue(r)
           /\ pc \notin {"orphans", "orphanBlob"}
           /\ pc = "reclaim" => ~scenario.enabled \/ item.key \notin DOMAIN nf
           /\ pc = "scan" \/ pc \in Early \/ (pc \in {"begin", "repair", "act", "infos"} /\ at <= 5) =>
                  OrphanChunks = {}
           /\ sus["1e"] = {}

(* What the second run has found and not yet handled.                      *)
BlobsListed ==
    Undisturbed /\ quiet >= 1 /\ cdc =>
        /\ Scanned(10) => \A c \in Chunks \ chunkRows : blob[c] # "absent" => c \in Due(10)
        /\ pc = "chunkRow" /\ item \in Chunks => blob[item] = "absent"
        /\ pc = "stranded" => \A c \in (known \ todo) \cap Chunks : blob[c] = "absent"

InfosListed ==
    Undisturbed /\ quiet >= 1 =>
        /\ Scanned(1) /\ (pc = "scan" \/ pc \in Early \/ (pc \in {"begin", "repair", "act"} /\ at = 1)) =>
               \A n \in Unlinked : \E q \in Due(1) : q.nar = n
        /\ (pc = "begin" /\ at > 1) \/ (pc \in {"repair", "act"} /\ at \in {2, 4, 5, 10})
           \/ pc \in {"chunks", "chunkRow"} \cup Linking => Unlinked = {}
        /\ pc \in {"repair", "act"} /\ at \in {3, 6, 7, 8, 9} => known = {}
        /\ pc = "infos" => Unlinked \subseteq todo

FilesListed ==
    Undisturbed /\ quiet >= 1 /\ Scanned(4) =>
        whole \ DOMAIN nf \subseteq
            Due(4) \cup IF pc = "scan" \/ pc \in Early THEN {} ELSE {s.key : s \in sus["1g"] \cup sus["1j"]}

LEMMA FlagsKept ==
    ASSUME Tables, Control, Run, NEW r \in DOMAIN nf'
    PROVE  /\ r \in DOMAIN nf /\ nf'[r].total = nf[r].total /\ nf'[r].started = nf[r].started
           /\ nf'[r].flag = nf[r].flag \/ nf'[r].flag # "aged"
           /\ ~Scan /\ ~Flag => nf'[r] = nf[r]
  <1>1. r \in DOMAIN nf /\ nf'[r].total = nf[r].total
    BY RunShrinks DEF Shrinks
  <1>2. CASE Scan
    <2>1. nf'[r] \in {nf[r], [nf[r] EXCEPT !.verified = TRUE]}
      BY <1>1, <1>2 DEF Scan
    <2>2. nf[r] \in NarFile
      BY <1>1 DEF Tables
    <2> QED
      BY <1>1, <1>2, <2>1, <2>2 DEF NarFile
  <1>3. CASE Flag
    <2>1. \/ nf' = nf
          \/ \E v \in {"young", "no"} : nf' = [nf EXCEPT ![item.key].flag = v]
      BY <1>3 DEF Flag
    <2>2. nf[r] \in NarFile /\ nf \in [DOMAIN nf -> NarFile]
      BY <1>1 DEF Tables
    <2>3. \E v \in {"young", "no"} : nf'[r] \in {nf[r], [nf[r] EXCEPT !.flag = v]}
      BY <1>1, <2>1, <2>2
    <2> QED
      BY <1>1, <1>3, <2>2, <2>3 DEF NarFile
  <1>4. CASE ~Scan /\ ~Flag
    <2>1. nf' = nf \/ \E S : WithoutRows(S)
      <3>1. CASE Act
        BY <3>1, ActCases
      <3>2. CASE PurgeRow
        BY <3>2 DEF PurgeRow
      <3>3. CASE \/ PurgeChunkBlob \/ DropChunkRow \/ StaleLinks \/ StrandedRows
                 \/ (\E n \in Nars : DropInfo(n)) \/ (\E c \in Chunks : DropBlob(c) \/ StrandedBlob(c))
        BY <3>3 DEF PurgeChunkBlob, DropChunkRow, StaleLinks, StrandedRows, DropInfo, DropBlob, StrandedBlob, tables
      <3>4. CASE Normalize \/ Desync \/ \E c \in Chunks : PurgeChunkRow(c)
        BY <3>4 DEF Normalize, Desync, PurgeChunkRow
      <3>5. CASE \/ ReVerify \/ Classify \/ JanitorEnd \/ PurgeEnd \/ (\E s \in todo : JanitorVisit(s))
                 \/ Report \/ Proceed \/ Abort \/ BeginRepair \/ Slip \/ ItemsEnd \/ InfosEnd \/ ChunksEnd
                 \/ Page \/ (\E x \in todo : Pick(x))
        BY <3>5 DEF ReVerify, Classify, JanitorEnd, PurgeEnd, JanitorVisit, Report, Proceed, BeginRepair,
             Slip, ItemsEnd, InfosEnd, ChunksEnd, Page, Pick, Abort, data, tables
      <3> QED
        BY <1>4, <3>1, <3>2, <3>3, <3>4, <3>5, RunParts
    <2>2. nf'[r] = nf[r]
      BY <1>1, <2>1 DEF WithoutRows, Restrict
    <2> QED
      BY <1>1, <2>2
  <1> QED
    BY <1>2, <1>3, <1>4

LEMMA OverdueBefore ==
    ASSUME Tables, Control, Run, NEW r \in DOMAIN nf', Overdue(r)'
    PROVE  r \in DOMAIN nf /\ Overdue(r)
  BY FlagsKept DEF Overdue

LEMMA JanitorCases ==
    ASSUME Control, Goes, calm', Full(opt), pc' \in Janitoring
    PROVE  \/ Classify \/ (\E s \in todo : JanitorVisit(s)) \/ Normalize \/ Flag \/ PurgeRow
           \/ (\E c \in Chunks : PurgeChunkRow(c)) \/ PurgeChunkBlob \/ PurgeEnd
  <1>1. CASE Slip
    BY <1>1 DEF Slip
  <1>2. CASE JanitorEnd \/ Report \/ Proceed \/ Abort
    BY <1>2 DEF JanitorEnd, Report, Proceed, Abort, Finish, Full, Janitoring
  <1>3. CASE BeginRepair \/ Act \/ ItemsEnd \/ InfosEnd \/ DropChunkRow \/ ChunksEnd
             \/ StaleLinks \/ Page \/ StrandedRows \/ Desync \/ (\E x \in todo : Pick(x))
             \/ (\E n \in Nars : DropInfo(n)) \/ (\E c \in Chunks : DropBlob(c) \/ StrandedBlob(c))
    BY <1>3 DEF BeginRepair, Act, ItemsEnd, InfosEnd, DropChunkRow, ChunksEnd, StaleLinks, Page,
           StrandedRows, Desync, Pick, DropInfo, DropBlob, StrandedBlob, NextCategory, Finish, Janitoring
  <1> QED
    BY <1>1, <1>2, <1>3 DEF Goes, Repair

LEMMA IntoAfter ==
    ASSUME Control, Goes, calm', Full(opt), pc' \in After
    PROVE  pc \in After \/ (JanitorEnd /\ pc = "janitor" /\ todo = {})
  <1>1. CASE \/ Classify \/ (\E s \in todo : JanitorVisit(s)) \/ Normalize \/ Flag \/ PurgeRow
             \/ (\E c \in Chunks : PurgeChunkRow(c)) \/ PurgeChunkBlob \/ PurgeEnd
    BY <1>1 DEF Classify, JanitorVisit, Normalize, Flag, PurgeRow, PurgeChunkRow, PurgeChunkBlob, PurgeEnd,
           Full, After, Linking, DecideChunkedResidue
  <1>2. CASE JanitorEnd \/ Report \/ Proceed \/ Abort
    BY <1>2 DEF JanitorEnd, Report, Proceed, Abort, Finish, Full, After, Linking
  <1>3. CASE Repair
    BY <1>3 DEF Repair, Slip, BeginRepair, Act, ItemsEnd, InfosEnd, DropChunkRow, ChunksEnd, StaleLinks, Page,
           StrandedRows, Desync, Pick, DropInfo, DropBlob, StrandedBlob, After, Linking
  <1> QED
    BY <1>1, <1>2, <1>3 DEF Goes

(***************************************************************************)
(* The janitor.                                                            *)
(***************************************************************************)
LEMMA OverdueDecision ==
    ASSUME NEW s, ~s.rec.started, s.rec.flag = "aged"
    PROVE  DecideChunkedResidue(s) \in {"normalize", "clearFlag", "reclaim"}
  BY DEF DecideChunkedResidue

LEMMA Decisions ==
    ASSUME NEW s
    PROVE  /\ DecideChunkedResidue(s) \in {"skip", "normalize", "clearFlag", "setFlag", "reclaim"}
           /\ DecideChunkedResidue(s) = "reclaim" => ~s.rec.started /\ s.rec.flag = "aged"
  BY DEF DecideChunkedResidue

(* The three parts of Visits while the janitor is at work.                 *)
AsRead == \A s \in todo : /\ s.rec.total > 0 /\ s.key[2] = "none"
                          /\ s.key \in DOMAIN nf => s = Snap(s.key)
Current == pc \in Visiting /\ item.key \in DOMAIN nf =>
               item = Snap(item.key) /\ \A s \in todo : s.key # item.key
Pending == scenario.enabled =>
               \A r \in DOMAIN nf : Overdue(r) =>
                   \/ \E s \in todo : s.key = r
                   \/ pc \in {"normalize", "clearFlag", "reclaim"} /\ item.key = r

LEMMA JanitorSteps ==
    ASSUME Safe, Still, Visits, Undisturbed, Goes, calm', Full(opt), pc' \in Janitoring
    PROVE  AsRead' /\ Current' /\ Pending'
  <1>0. /\ Run /\ scenario' = scenario
        /\ \A r \in DOMAIN nf' : Overdue(r)' => r \in DOMAIN nf /\ Overdue(r)
    BY RunCases, GoesOn, OverdueBefore DEF Safe
  <1>1. CASE Classify
    <2>1. todo' = ChunkedRows /\ nf' = nf /\ pc' = "janitor"
      BY <1>1 DEF Classify, Full, data, tables
    <2>2. AsRead'
      BY <2>1 DEF AsRead, ChunkedRows, Snaps, Snap
    <2>3. Current'
      BY <2>1 DEF Current, Visiting
    <2>4. ASSUME NEW r \in DOMAIN nf, Overdue(r) PROVE \E s \in ChunkedRows : s.key = r
      BY <2>4, SnapOf DEF Overdue, ChunkedRows
    <2> QED
      BY <1>0, <2>1, <2>2, <2>3, <2>4 DEF Pending
  <1>2. ASSUME pc \in Janitoring PROVE AsRead /\ Current /\ Pending
    BY <1>2 DEF Visits, AsRead, Current, Pending
  <1>3. CASE \E s \in todo : JanitorVisit(s)
    <2>1. PICK s \in todo : JanitorVisit(s)
      BY <1>3
    <2>2. /\ pc = "janitor" /\ todo' = todo \ {s} /\ item' = s /\ nf' = nf
          /\ pc' = IF DecideChunkedResidue(s) = "skip" THEN "janitor" ELSE DecideChunkedResidue(s)
      BY <2>1 DEF JanitorVisit, data, tables
    <2>3. AsRead /\ Pending
      BY <1>2, <2>2 DEF Janitoring
    <2>4. AsRead'
      BY <2>2, <2>3 DEF AsRead, Snap
    <2>5. Current'
      BY <2>2, <2>3 DEF AsRead, Current, Snap
    <2>6. ASSUME scenario.enabled, NEW r \in DOMAIN nf, Overdue(r)
          PROVE  (\E q \in todo' : q.key = r) \/ (pc' \in {"normalize", "clearFlag", "reclaim"} /\ item'.key = r)
      <3>1. PICK q \in todo : q.key = r
        BY <2>2, <2>3, <2>6 DEF Pending
      <3>2. CASE q = s
        <4>1. s = Snap(r)
          BY <2>3, <3>1, <3>2, <2>6 DEF AsRead
        <4>2. ~s.rec.started /\ s.rec.flag = "aged"
          BY <2>6, <4>1 DEF Overdue, Snap
        <4> QED
          BY <2>2, <3>1, <3>2, <4>2, OverdueDecision
      <3> QED
        BY <2>2, <3>1, <3>2
    <2> QED
      BY <1>0, <2>2, <2>4, <2>5, <2>6 DEF Pending
  <1>4. CASE Normalize
    <2>1. /\ pc = "normalize" /\ todo' = todo /\ item' = item /\ nf' = nf
          /\ pc' = IF scenario.enabled /\ item.rec.flag # "no" THEN "clearFlag" ELSE "janitor"
      BY <1>4 DEF Normalize, loop
    <2>2. AsRead /\ Current /\ Pending
      BY <1>2, <2>1 DEF Janitoring
    <2>3. AsRead' /\ Current'
      BY <2>1, <2>2 DEF AsRead, Current, Snap, Visiting
    <2>4. ASSUME scenario.enabled, NEW r \in DOMAIN nf, Overdue(r), item.key = r PROVE pc' = "clearFlag"
      BY <2>1, <2>2, <2>4 DEF Current, Visiting, Snap, Overdue
    <2> QED
      BY <1>0, <2>1, <2>2, <2>3, <2>4 DEF Pending
  <1>5. CASE Flag
    <2>1. /\ pc \in {"clearFlag", "setFlag"} /\ pc' = "janitor" /\ todo' = todo
          /\ nf' = IF Same(item)
                   THEN [nf EXCEPT ![item.key].flag = IF pc = "setFlag" THEN "young" ELSE "no"]
                   ELSE nf
      BY <1>5 DEF Flag, loop
    <2>2. AsRead /\ Current /\ Pending
      BY <1>2, <2>1 DEF Janitoring
    <2>3. \A r \in DOMAIN nf : r # item.key => nf'[r] = nf[r]
      BY <2>1
    <2>4. DOMAIN nf' = DOMAIN nf
      BY <2>1
    <2>5. AsRead'
      BY <2>1, <2>2, <2>3, <2>4 DEF AsRead, Current, Visiting, Snap
    <2>6. item.key \in DOMAIN nf => nf'[item.key].flag # "aged"
      <3>1. item.key \in DOMAIN nf => item = Snap(item.key)
        BY <2>1, <2>2 DEF Current, Visiting
      <3>2. item.key \in DOMAIN nf => Same(item)
        BY <3>1 DEF Same, Snap
      <3>3. item.key \in DOMAIN nf => nf[item.key] \in NarFile
        BY DEF Safe, Tables
      <3> QED
        BY <2>1, <3>2, <3>3 DEF NarFile
    <2>7. ASSUME scenario.enabled, NEW r \in DOMAIN nf', Overdue(r)' PROVE \E s \in todo' : s.key = r
      BY <1>0, <2>1, <2>2, <2>4, <2>6, <2>7 DEF Pending, Overdue
    <2> QED
      BY <1>0, <2>1, <2>5, <2>7 DEF Current, Pending, Visiting
  <1>6. CASE PurgeRow
    <2>1. pc = "reclaim" /\ todo' = todo /\ pc' \in {"janitor", "orphans"}
      BY <1>6 DEF PurgeRow
    <2>2. AsRead /\ Current /\ Pending
      BY <1>2, <2>1 DEF Janitoring
    <2>3. \A r \in DOMAIN nf' : r \in DOMAIN nf /\ nf'[r] = nf[r]
      <3>1. ~Scan /\ ~Flag
        BY <2>1 DEF Scan, Flag
      <3> QED
        BY <1>0, <3>1, FlagsKept DEF Safe
    <2>4. AsRead'
      BY <2>1, <2>2, <2>3 DEF AsRead, Snap
    <2>5. ASSUME scenario.enabled, item.key \in DOMAIN nf, Overdue(item.key) PROVE item.key \notin DOMAIN nf'
      <3>1. item.key[1] \in Nars /\ nf[item.key].total # 0
        BY <2>5 DEF Safe, Tables, Key, Overdue
      <3>2. ~Locked(item.key[1])
        BY <3>1 DEF Still, Undisturbed, Locked
      <3>3. WithoutRows({item.key})
        BY <1>6, <2>5, <3>1, <3>2 DEF PurgeRow
      <3> QED
        BY <3>3 DEF WithoutRows, Restrict
    <2>6. ASSUME scenario.enabled, NEW r \in DOMAIN nf', Overdue(r)' PROVE \E s \in todo' : s.key = r
      BY <1>0, <2>1, <2>2, <2>5, <2>6 DEF Pending
    <2> QED
      BY <1>0, <2>1, <2>4, <2>6 DEF Current, Pending, Visiting
  <1>7. CASE (\E c \in Chunks : PurgeChunkRow(c)) \/ PurgeChunkBlob \/ PurgeEnd
    <2>1. /\ pc \in {"orphans", "orphanBlob"} /\ pc' \in {"orphans", "orphanBlob", "janitor"}
          /\ todo' = todo /\ nf' = nf
      BY <1>7 DEF PurgeChunkRow, PurgeChunkBlob, PurgeEnd, loop, data, tables
    <2>2. AsRead /\ Pending
      BY <1>2, <2>1 DEF Janitoring
    <2>3. AsRead' /\ Current'
      BY <2>1, <2>2 DEF AsRead, Current, Visiting, Snap
    <2> QED
      BY <1>0, <2>1, <2>2, <2>3 DEF Pending
  <1> QED
    BY <1>1, <1>3, <1>4, <1>5, <1>6, <1>7, JanitorCases DEF Safe

LEMMA StutterGarbage ==
    ASSUME UNCHANGED vars
    PROVE  /\ \A r : Overdue(r)' <=> Overdue(r)
           /\ \A r : Snap(r)' = Snap(r)
           /\ OrphanChunks' = OrphanChunks /\ Unlinked' = Unlinked
           /\ \A i : Due(i)' = Due(i)
           /\ UNCHANGED <<scenario, nf, whole, blob, chunkRows, sus, pc, at, todo, item, known, quiet, cdc>>
  BY DEF vars, data, tables, stores, fsck, loop, found, Overdue, Snap, OrphanChunks, Unlinked, Linked, Due, Handled

LEMMA VisitsStep ==
    ASSUME Safe, Still, Listed, Visits, [Next]_vars
    PROVE  Visits'
  <1> SUFFICES ASSUME Undisturbed' PROVE Visits'
    BY DEF Visits
  <1>1. CASE \E o \in scenario.opts : Start(o)
    <2>1. pc' = "scan"
      BY <1>1 DEF Start
    <2> QED
      BY <2>1 DEF Visits, Janitoring, Visiting, After, Linking
  <1>2. CASE Run /\ Undisturbed /\ touched = {} /\ opt' = opt
    <2>1. CASE Scan
      <3>1. pc' \in {"scan", "verify"}
        BY <2>1 DEF Scan
      <3> QED
        BY <3>1 DEF Visits, Janitoring, Visiting, After, Linking
    <2>2. CASE ReVerify
      <3>1. pc' \in {"verify", "classify"} \/ (pc' = "decide" /\ ~cdc /\ nf' = nf)
        BY <2>2 DEF ReVerify, data, tables
      <3>2. ~cdc => \A r \in DOMAIN nf : ~(nf[r].total > 0)
        BY <1>2 DEF Listed
      <3> QED
        BY <3>1, <3>2 DEF Visits, Janitoring, Visiting, After, Linking, Overdue
    <2>3. CASE Goes
      <3>0. calm' /\ Full(opt) /\ Control /\ scenario' = scenario
        BY <1>2, <2>3, GoesOn DEF Undisturbed, Safe
      <3>1. CASE pc' \in Janitoring
        <4>1. AsRead' /\ Current' /\ Pending'
          BY <1>2, <2>3, <3>0, <3>1, JanitorSteps
        <4> QED
          BY <3>1, <4>1 DEF Visits, AsRead, Current, Pending, Janitoring, After, Linking
      <3>2. CASE pc' \in After
        <4>1. ASSUME scenario.enabled, NEW r \in DOMAIN nf PROVE ~Overdue(r) \/ ~(pc \in After \/ (pc = "janitor" /\ todo = {}))
          BY <1>2, <4>1 DEF Visits, Janitoring
        <4>2. scenario.enabled => \A r \in DOMAIN nf' : ~Overdue(r)'
          BY <1>2, <2>3, <3>0, <3>2, <4>1, IntoAfter, OverdueBefore DEF Safe
        <4> QED
          BY <3>0, <3>2, <4>2 DEF Visits, Janitoring, Visiting, After, Linking
      <3>3. CASE pc' \notin Janitoring \cup After
        BY <3>3 DEF Visits, Janitoring, Visiting
      <3> QED
        BY <3>1, <3>2, <3>3
    <2> QED
      BY <1>2, <2>1, <2>2, <2>3, RunCases
  <1>3. CASE UNCHANGED vars
    BY <1>3, StutterGarbage, StutterFaults DEF Visits
  <1> QED
    BY <1>1, <1>2, <1>3, IntoUndisturbed

(***************************************************************************)
(* Chunks without a link.                                                  *)
(***************************************************************************)
LEMMA FewerLinks ==
    ASSUME NEW S, WithoutChunkRows(S)
    PROVE  OrphanChunks' = OrphanChunks \ S
  BY DEF WithoutChunkRows, OrphanChunks

LEMMA WhereFrom == /\ Act => pc = "act"
                   /\ PurgeRow => pc = "reclaim"
                   /\ StaleLinks => pc = "links"
  BY DEF Act, PurgeRow, StaleLinks

LEMMA OrphansKept ==
    ASSUME Tables, Control, Run, PurgeRow => clinks' = clinks, StaleLinks => clinks' = clinks,
           Act => at \notin RowRepairs
    PROVE  OrphanChunks' \subseteq OrphanChunks
  <1>0. chunkRows' \subseteq chunkRows
    BY RunShrinks DEF Shrinks
  <1>1. ASSUME clinks' = clinks PROVE OrphanChunks' \subseteq OrphanChunks
    BY <1>0, <1>1 DEF OrphanChunks
  <1>2. CASE Act
    BY <1>1, <1>2, ActCases, FewerLinks
  <1>3. CASE DropChunkRow \/ StrandedRows
    BY <1>3, FewerLinks DEF DropChunkRow, StrandedRows
  <1>4. CASE PurgeChunkBlob \/ (\E n \in Nars : DropInfo(n)) \/ (\E c \in Chunks : DropBlob(c) \/ StrandedBlob(c))
    BY <1>1, <1>4 DEF PurgeChunkBlob, DropInfo, DropBlob, StrandedBlob, tables
  <1> QED
    BY <1>1, <1>2, <1>3, <1>4, RunParts, PlainSteps

(* The turns from one section of the repair to the next.                   *)
LEMMA TurnMoves ==
    ASSUME Control, Goes, calm', Full(opt), pc' \in {"begin", "links"}, pc \notin Early
    PROVE  /\ UNCHANGED <<nf, info, joined, chunkRows, clinks, whole, blob>>
           /\ \/ pc' = "begin" /\ at' = at + 1 /\ at < LastRepair
              \/ pc' = "links" /\ at = 10 /\ cdc
           /\ \/ pc = "begin" /\ at = 7
              \/ pc = "repair" /\ at \in {1, 2, 4, 5, 10} /\ todo = {}
              \/ pc = "infos" /\ at = 3 /\ todo = {}
              \/ pc = "chunks" /\ at \in 6 .. 9 /\ todo = {}
  <1>0. at \in 1 .. 10
    BY DEF Control
  <1>1. BeginRepair \/ ItemsEnd \/ InfosEnd \/ ChunksEnd
    <2>1. CASE Slip
      BY <2>1 DEF Slip
    <2>2. CASE \/ Classify \/ (\E s \in todo : JanitorVisit(s)) \/ Normalize \/ Flag \/ PurgeRow
               \/ (\E c \in Chunks : PurgeChunkRow(c)) \/ PurgeChunkBlob \/ PurgeEnd
               \/ JanitorEnd \/ Report \/ Proceed \/ Abort
      BY <2>2 DEF Classify, JanitorVisit, Normalize, Flag, PurgeRow, PurgeChunkRow, PurgeChunkBlob, PurgeEnd,
             JanitorEnd, Report, Proceed, Abort, Finish, Early, Janitoring
    <2>3. CASE Act \/ DropChunkRow \/ StaleLinks \/ Page \/ StrandedRows \/ Desync \/ (\E x \in todo : Pick(x))
               \/ (\E n \in Nars : DropInfo(n)) \/ (\E c \in Chunks : DropBlob(c) \/ StrandedBlob(c))
      BY <2>3 DEF Act, DropChunkRow, StaleLinks, Page, StrandedRows, Desync, Pick, DropInfo, DropBlob,
             StrandedBlob, Finish
    <2> QED
      BY <2>1, <2>2, <2>3 DEF Goes, Repair
  <1>2. UNCHANGED <<nf, info, joined, chunkRows, clinks, whole, blob>> /\ NextCategory
    BY <1>1 DEF BeginRepair, ItemsEnd, InfosEnd, ChunksEnd, data, tables, stores
  <1>3. \/ pc' = "begin" /\ at' = at + 1 /\ at < LastRepair
        \/ pc' = "links" /\ at = 10 /\ cdc
    BY <1>0, <1>2 DEF NextCategory, Finish, LastRepair
  <1>4. CASE BeginRepair
    BY <1>4, NoSkip, <1>2, <1>3 DEF BeginRepair
  <1>5. CASE ItemsEnd
    <2>1. pc = "repair" /\ todo = {} /\ Category \notin {"1c"} \cup ChunkedRepairs
      BY <1>5 DEF ItemsEnd
    <2>2. at \in {1, 2, 4, 5, 10}
      BY <1>0, <2>1, Categories, TenPlaces DEF ChunkedRepairs
    <2> QED
      BY <1>2, <1>3, <2>1, <2>2
  <1>6. CASE InfosEnd
    <2>1. pc = "infos" /\ todo = {} /\ Category \notin ChunkedRepairs
      BY <1>6 DEF InfosEnd
    <2>2. at = 3
      BY <1>0, <2>1, Categories DEF ChunkedRepairs, Control
    <2> QED
      BY <1>2, <1>3, <2>1, <2>2
  <1>7. CASE ChunksEnd
    BY <1>2, <1>3, <1>7 DEF ChunksEnd, Control
  <1> QED
    BY <1>1, <1>4, <1>5, <1>6, <1>7

LEMMA EarlyCases ==
    ASSUME Control, Goes, calm', Full(opt), pc' \in Early
    PROVE  /\ pc \in Early
           /\ \/ PurgeRow \/ (\E c \in Chunks : PurgeChunkRow(c)) \/ PurgeChunkBlob \/ PurgeEnd
              \/ pc \notin {"orphans", "orphanBlob"} /\ pc' \notin {"orphans", "orphanBlob"} /\ clinks' = clinks
  <1>1. CASE pc' \in Janitoring
    <2>1. CASE \/ Classify \/ (\E s \in todo : JanitorVisit(s)) \/ Normalize \/ Flag
      BY <2>1, Decisions DEF Classify, JanitorVisit, Normalize, Flag, Early, Janitoring, data, tables
    <2>2. CASE PurgeRow \/ (\E c \in Chunks : PurgeChunkRow(c)) \/ PurgeChunkBlob \/ PurgeEnd
      BY <2>2 DEF PurgeRow, PurgeChunkRow, PurgeChunkBlob, PurgeEnd, Early, Janitoring
    <2> QED
      BY <1>1, <2>1, <2>2, JanitorCases
  <1>2. CASE pc' \in {"verify", "classify", "decide"}
    <2>1. pc' # "verify" /\ pc' # "classify"
      BY GoesMoves, <1>2 DEF Goes, Classify, JanitorEnd, Normalize, Flag, PurgeRow, PurgeChunkBlob, PurgeEnd,
           JanitorVisit, PurgeChunkRow, Report, Proceed, Abort, Repair, BeginRepair, Act, Slip, ItemsEnd,
           InfosEnd, DropChunkRow, ChunksEnd, StaleLinks, Page, StrandedRows, Desync, Pick, DropInfo,
           DropBlob, StrandedBlob, NextCategory, Finish, DecideChunkedResidue
    <2>2. pc = "janitor" /\ JanitorEnd
      <3>1. pc' \in After
        BY <1>2, <2>1 DEF After
      <3>2. pc \notin After
        <4>1. ASSUME pc \in After PROVE FALSE
          BY <4>1, <1>2, <2>1 DEF After, Linking, Goes, Classify, JanitorEnd, Normalize, Flag, PurgeRow, PurgeChunkBlob, PurgeEnd,
           JanitorVisit, PurgeChunkRow, Report, Proceed, Abort, Repair, BeginRepair, Act, Slip, ItemsEnd,
           InfosEnd, DropChunkRow, ChunksEnd, StaleLinks, Page, StrandedRows, Desync, Pick, DropInfo,
           DropBlob, StrandedBlob, NextCategory, Finish
        <4> QED
          BY <4>1
      <3> QED
        BY <3>1, <3>2, IntoAfter
    <2> QED
      BY <1>2, <2>1, <2>2 DEF JanitorEnd, Early, Janitoring, data, tables
  <1> QED
    BY <1>1, <1>2 DEF Early

(* What a run knows of them before the repair.                             *)
Expected == OrphanChunks \subseteq sus["1e"] \cup IF pc \in {"orphans", "orphanBlob"} THEN known ELSE {}

LEMMA ExpectedScan ==
    ASSUME Safe, Listed, Undisturbed, Scan, (pc = "scan" /\ at > 5) => Expected,
           (pc' = "scan" /\ at' > 5) \/ pc' \in Early
    PROVE  Expected'
  <1>1. /\ pc = "scan" /\ at \in 1 .. 10 /\ sus' = [sus EXCEPT ![Checks[at]] = Found(Checks[at])]
        /\ (at < LastCheck /\ at' = at + 1 /\ pc' = "scan") \/ (~(at < LastCheck) /\ pc' = "verify")
        /\ chunkRows' = chunkRows /\ clinks' = clinks
    BY DEF Scan, Safe, Control
  <1>2. sus = [k \in CheckIds |-> sus[k]] /\ "1e" \in CheckIds
    BY CheckNames DEF Safe, Control
  <1>3. OrphanChunks' = OrphanChunks
    BY <1>1 DEF OrphanChunks
  <1>4. CASE at = 5
    <2>1. sus'["1e"] = OrphanChunks
      BY <1>1, <1>2, <1>4, CheckList DEF Found
    <2> QED
      BY <1>1, <1>3, <2>1 DEF Expected
  <1>5. CASE at > 5
    <2>1. sus'["1e"] = sus["1e"]
      BY <1>1, <1>2, <1>5, CheckList, TenPlaces
    <2> QED
      BY <1>1, <1>3, <1>5, <2>1 DEF Expected
  <1>6. CASE at < 5
    <2>1. ~cdc
      BY <1>1, <1>6 DEF LastCheck, Undisturbed, Full, Early, Janitoring
    <2> QED
      BY <1>3, <2>1 DEF Listed, Expected, OrphanChunks
  <1> QED
    BY <1>1, <1>4, <1>5, <1>6

LEMMA ExpectedVerify ==
    ASSUME Safe, ReVerify, Expected
    PROVE  Expected'
  <1>1. /\ pc = "verify" /\ pc' \in {"verify", "classify", "decide"}
        /\ sus' = [sus EXCEPT ![Checks[at]] = {x \in @ : Confirmed(Checks[at], x)}]
        /\ chunkRows' = chunkRows /\ clinks' = clinks
    BY DEF ReVerify, data, tables
  <1>2. sus = [k \in CheckIds |-> sus[k]] /\ "1e" \in CheckIds
    BY CheckNames DEF Safe, Control
  <1>3. OrphanChunks' = OrphanChunks
    BY <1>1 DEF OrphanChunks
  <1>4. \A c : Confirmed("1e", c) <=> c \in OrphanChunks
    BY DEF Confirmed
  <1>5. ASSUME NEW c \in OrphanChunks PROVE c \in sus'["1e"]
    BY <1>1, <1>2, <1>4, <1>5 DEF Expected
  <1> QED
    BY <1>3, <1>5 DEF Expected

LEMMA ExpectedGoes ==
    ASSUME Safe, Goes, calm', Full(opt), pc' \in Early, Expected
    PROVE  Expected'
  <1>0. Run /\ sus' = sus /\ Control /\ Tables
    BY RunCases, GoesOn DEF Safe
  <1>1. CASE PurgeRow
    <2>1. pc = "reclaim" /\ chunkRows' = chunkRows
      BY <1>1 DEF PurgeRow
    <2>2. CASE clinks' = clinks
      BY <1>0, <2>1, <2>2 DEF Expected, OrphanChunks
    <2>3. CASE clinks' # clinks
      <3>1. /\ WithoutRows({item.key}) /\ pc' = "orphans"
            /\ known' = {c \in ChunksOf(item.key) : \A l \in clinks' : l[2] # c}
        BY <1>1, <2>3 DEF PurgeRow
      <3>2. ASSUME NEW c \in OrphanChunks', c \notin OrphanChunks PROVE c \in known'
        <4>1. c \in chunkRows /\ \A l \in clinks' : l[2] # c
          BY <2>1 DEF OrphanChunks
        <4>2. PICK l \in clinks : l[2] = c
          BY <3>2, <4>1 DEF OrphanChunks
        <4>3. l[1] = item.key /\ l = <<l[1], l[2]>>
          BY <1>0, <3>1, <4>1, <4>2 DEF WithoutRows, Tables
        <4> QED
          BY <1>0, <3>1, <4>1, <4>2, <4>3 DEF ChunksOf, Tables
      <3> QED
        BY <1>0, <2>1, <3>1, <3>2 DEF Expected
    <2> QED
      BY <2>2, <2>3
  <1>2. CASE \E c \in Chunks : PurgeChunkRow(c)
    <2>1. PICK c \in Chunks : PurgeChunkRow(c)
      BY <1>2
    <2>2. /\ pc = "orphans" /\ pc' \in {"orphans", "orphanBlob"} /\ known' = known \ {c} /\ clinks' = clinks
          /\ \/ chunkRows' = chunkRows \ {c}
             \/ chunkRows' = chunkRows /\ c \notin OrphanChunks
      BY <2>1 DEF PurgeChunkRow
    <2>3. OrphanChunks' \subseteq OrphanChunks \ {c}
      BY <2>2 DEF OrphanChunks
    <2> QED
      BY <1>0, <2>2, <2>3 DEF Expected
  <1>3. CASE PurgeChunkBlob \/ PurgeEnd
    <2>1. /\ pc \in {"orphans", "orphanBlob"} /\ UNCHANGED <<chunkRows, clinks, known>>
          /\ pc' = "orphans" \/ (pc' = "janitor" /\ known = {})
      BY <1>3 DEF PurgeChunkBlob, PurgeEnd, loop, data, tables
    <2> QED
      BY <1>0, <2>1 DEF Expected, OrphanChunks
  <1>4. CASE pc \notin {"orphans", "orphanBlob"} /\ pc' \notin {"orphans", "orphanBlob"} /\ clinks' = clinks
    <2>1. OrphanChunks' \subseteq OrphanChunks
      BY <1>0, <1>4, RunShrinks DEF OrphanChunks, Shrinks
    <2> QED
      BY <1>0, <1>4, <2>1 DEF Expected
  <1> QED
    BY <1>0, <1>1, <1>2, <1>3, <1>4, EarlyCases

LEMMA SweptGoes ==
    ASSUME Safe, Swept, Undisturbed, Goes, calm', Full(opt)
    PROVE  /\ (pc' = "begin" /\ at' >= 7) \/ (pc' \in {"repair", "act"} /\ at' = 10)
              \/ pc' \in {"links", "desync"} => OrphanChunks' = {}
           /\ pc' = "chunks" => OrphanChunks' \subseteq todo'
           /\ pc' = "chunkRow" => OrphanChunks' \subseteq todo' \cup {item'}
  <1>0. Run /\ Control /\ Tables /\ at \in 1 .. 10
    BY RunCases DEF Safe, Control
  <1>1. ASSUME pc' \in {"begin", "links"}, pc' = "begin" => at' >= 7 PROVE OrphanChunks' = {}
    <2>1. CASE pc \in Early
      <3>1. pc' = "begin" /\ at' = 1
        BY <1>0, <1>1, <2>1, GoesMoves DEF Moves, Early, Janitoring, Linking
      <3> QED
        BY <1>1, <3>1
    <2>2. CASE pc \notin Early
      <3>1. OrphanChunks' = OrphanChunks
        BY <1>0, <1>1, <2>2, TurnMoves DEF OrphanChunks
      <3>2. \/ pc = "begin" /\ at = 7
            \/ pc = "repair" /\ at = 10
            \/ pc = "chunks" /\ todo = {}
        BY <1>0, <1>1, <2>2, TurnMoves
      <3> QED
        BY <3>1, <3>2 DEF Swept
    <2> QED
      BY <2>1, <2>2
  <1>2. ASSUME pc' \in {"repair", "act"}, at' = 10 PROVE OrphanChunks' = {}
    <2>0. Moves
      BY <1>0, <1>2, GoesMoves
    <2>1. (pc = "begin" /\ at >= 7) \/ (pc \in {"repair", "act"} /\ at = 10)
      BY <1>0, <1>2, <2>0 DEF Moves, Linking, Early, Janitoring
    <2>2. ~PurgeRow /\ ~StaleLinks /\ (Act => at \notin RowRepairs)
      BY <2>1, WhereFrom DEF RowRepairs
    <2> QED
      BY <1>0, <2>1, <2>2, OrphansKept DEF Swept
  <1>3. ASSUME pc' = "desync" PROVE OrphanChunks' = {}
    <2>1. StaleLinks \/ Page
      <3>1. CASE Slip
        BY <3>1 DEF Slip
      <3>2. CASE \/ Classify \/ (\E s \in todo : JanitorVisit(s)) \/ Normalize \/ Flag \/ PurgeRow
               \/ (\E c \in Chunks : PurgeChunkRow(c)) \/ PurgeChunkBlob \/ PurgeEnd
               \/ JanitorEnd \/ Report \/ Proceed \/ Abort
        BY <1>3, <3>2, Decisions DEF Classify, JanitorVisit, Normalize, Flag, PurgeRow, PurgeChunkRow,
             PurgeChunkBlob, PurgeEnd, JanitorEnd, Report, Proceed, Abort, Finish
      <3>3. CASE Act \/ DropChunkRow \/ StrandedRows \/ Desync \/ (\E x \in todo : Pick(x))
               \/ (\E n \in Nars : DropInfo(n)) \/ (\E c \in Chunks : DropBlob(c) \/ StrandedBlob(c))
        BY <1>3, <3>3 DEF Act, DropChunkRow, StrandedRows, Desync, Pick, DropInfo, DropBlob,
             StrandedBlob, Finish
      <3>4. CASE BeginRepair \/ ItemsEnd \/ InfosEnd \/ ChunksEnd
        BY <1>3, <3>4 DEF BeginRepair, ItemsEnd, InfosEnd, ChunksEnd, NextCategory, Finish
      <3> QED
        BY <3>1, <3>2, <3>3, <3>4 DEF Goes, Repair
    <2>2. CASE StaleLinks
      <3>1. pc = "links" /\ clinks' = clinks /\ chunkRows' = chunkRows
        BY <1>3, <2>2 DEF StaleLinks
      <3> QED
        BY <3>1 DEF Swept, OrphanChunks
    <2>3. CASE Page
      BY <1>3, <2>3 DEF Page, data, tables, OrphanChunks
    <2> QED
      BY <2>1, <2>2, <2>3
  <1>4. ASSUME pc' = "chunks" PROVE OrphanChunks' \subseteq todo'
    <2>1. InfosEnd \/ DropChunkRow
      <3>1. pc \in {"infos", "chunks", "chunkRow"}
        BY <1>0, <1>4, GoesMoves DEF Moves, Early, Janitoring, Linking
      <3> QED
        BY <1>0, <1>4, <3>1 DEF Goes, Classify, JanitorEnd, Normalize, Flag, PurgeRow, PurgeChunkBlob, PurgeEnd,
           JanitorVisit, PurgeChunkRow, Report, Proceed, Abort, Repair, BeginRepair, Act, Slip, ItemsEnd,
           DropChunkRow, ChunksEnd, StaleLinks, Page, StrandedRows, Desync, Pick, DropInfo,
           DropBlob, StrandedBlob, NextCategory, Finish
    <2>2. CASE InfosEnd
      BY <1>4, <2>2 DEF InfosEnd, NextCategory, Finish, data, tables, OrphanChunks
    <2>3. CASE DropChunkRow
      <3>1. pc = "chunkRow" /\ todo' = todo /\ WithoutChunkRows({item})
        BY <2>3 DEF DropChunkRow, loop
      <3> QED
        BY <3>1, FewerLinks DEF Swept
    <2> QED
      BY <2>1, <2>2, <2>3
  <1>5. ASSUME pc' = "chunkRow" PROVE OrphanChunks' \subseteq todo' \cup {item'}
    <2>1. PICK c \in Chunks : DropBlob(c)
      <3>1. pc = "chunks"
        BY <1>5, Origins
      <3> QED
        BY <1>5, <3>1 DEF Goes, Classify, JanitorEnd, Normalize, Flag, PurgeRow, PurgeChunkBlob, PurgeEnd,
           JanitorVisit, PurgeChunkRow, Report, Proceed, Abort, Repair, BeginRepair, Act, Slip, ItemsEnd,
           InfosEnd, DropChunkRow, ChunksEnd, StaleLinks, Page, StrandedRows, Desync, Pick, DropInfo,
           StrandedBlob, NextCategory, Finish
    <2> QED
      BY <2>1 DEF DropBlob, tables, OrphanChunks, Swept
  <1> QED
    BY <1>1, <1>2, <1>3, <1>4, <1>5

LEMMA SweptStep ==
    ASSUME Safe, Still, Listed, Swept, [Next]_vars
    PROVE  Swept'
  <1> SUFFICES ASSUME Undisturbed' PROVE Swept'
    BY DEF Swept
  <1>1. CASE \E o \in scenario.opts : Start(o)
    <2>1. pc' = "scan" /\ at' = 1
      BY <1>1 DEF Start
    <2> QED
      BY <2>1 DEF Swept, Early, Janitoring
  <1>2. CASE Run /\ Undisturbed /\ touched = {} /\ opt' = opt
    <2>0. /\ ((pc = "scan" /\ at > 5) \/ pc \in Early) => Expected
          /\ ((pc' = "scan" /\ at' > 5) \/ pc' \in Early => Expected') <=>
             ((pc' = "scan" /\ at' > 5) \/ pc' \in Early =>
               OrphanChunks' \subseteq sus'["1e"] \cup IF pc' \in {"orphans", "orphanBlob"} THEN known' ELSE {})
      BY <1>2 DEF Swept, Expected
    <2>1. CASE Scan
      <3>1. pc' \in {"scan", "verify"}
        BY <2>1 DEF Scan
      <3>2. (pc' = "scan" /\ at' > 5) \/ pc' \in Early => Expected'
        BY <1>2, <2>0, <2>1, ExpectedScan
      <3> QED
        BY <2>0, <3>1, <3>2 DEF Swept
    <2>2. CASE ReVerify
      <3>1. pc = "verify" /\ pc' \in {"verify", "classify", "decide"}
        BY <2>2 DEF ReVerify
      <3>2. Expected'
        BY <2>0, <2>2, <3>1, ExpectedVerify DEF Early
      <3> QED
        BY <2>0, <3>1, <3>2 DEF Swept
    <2>3. CASE Goes
      <3>0. calm' /\ Full(opt) /\ pc' # "scan"
        BY <1>2, <2>3, GoesOn DEF Undisturbed, Safe
      <3>1. pc' \in Early => Expected'
        BY <2>0, <2>3, <3>0, ExpectedGoes, EarlyCases DEF Safe
      <3> QED
        BY <1>2, <2>0, <2>3, <3>0, <3>1, SweptGoes DEF Swept
    <2> QED
      BY <1>2, <2>1, <2>2, <2>3, RunCases
  <1>3. CASE UNCHANGED vars
    BY <1>3, StutterGarbage, StutterFaults DEF Swept
  <1> QED
    BY <1>1, <1>2, <1>3, IntoUndisturbed

(***************************************************************************)
(* The second run. Rows go only in the sections for sizes and hashes.      *)
(***************************************************************************)
Second == Safe /\ Still /\ Listed /\ Again /\ Visits /\ Swept /\ Calmer /\ Undisturbed /\ quiet >= 1

LEMMA NothingToPick ==
    ASSUME Second
    PROVE  pc = "act" => at \notin {2, 3, 5, 6, 8}
  <1>1. pc = "act" /\ at # 1 => item \in sus[Repairs[at]]
    BY DEF Second, Safe, Control, Category
  <1>2. \A k \in {"1b", "1c", "1e", "1f", "1i"} : sus[k] = {}
    BY DEF Second, Again, Calmer
  <1> QED
    BY <1>1, <1>2, RepairList

LEMMA NothingToPurge ==
    ASSUME Second, PurgeRow
    PROVE  UNCHANGED <<nf, joined, clinks>> /\ pc' = "janitor"
  BY DEF Second, Calmer, PurgeRow

LEMMA RowsLeft ==
    ASSUME Second, Run
    PROVE  \/ DOMAIN nf' = DOMAIN nf
           \/ /\ pc = "act" /\ Act /\ at \in {7, 9} /\ DOMAIN nf' = DOMAIN nf \ {item.key}
              /\ pc' = "repair" /\ at' = at /\ item \in sus[Repairs[at]]
  <1>0. Control /\ Tables
    BY DEF Second, Safe
  <1>1. CASE PurgeRow
    BY <1>1, NothingToPurge
  <1>2. CASE Act
    <2>1. pc = "act" /\ at' = at /\ pc' = "repair" /\ (at # 1 => item \in sus[Repairs[at]])
      BY <1>0, <1>2 DEF Act, Control, Category
    <2>2. nf' = nf \/ (at \in {7, 9} /\ WithoutRows({item.key}))
      BY <1>0, <1>2, <2>1, ActCases, NothingToPick DEF RowRepairs
    <2> QED
      BY <1>2, <2>1, <2>2 DEF WithoutRows, Restrict
  <1> QED
    BY <1>0, <1>1, <1>2, RunParts, PlainSteps, DropCases

LEMMA OrphansSecond ==
    ASSUME Second, Run, StaleLinks => clinks' = clinks, Act => at \notin {7, 9}
    PROVE  OrphanChunks' \subseteq OrphanChunks
  <1>1. Act => at \notin RowRepairs
    BY NothingToPick DEF RowRepairs, Act
  <1> QED
    BY <1>1, NothingToPurge, OrphansKept DEF Second, Safe

LEMMA TidyEnd ==
    ASSUME Safe, Still, Listed, Visits, Swept, Run, pc' = "idle", quiet' >= 1
    PROVE  Tidy'
  <1>1. /\ Undisturbed /\ UNCHANGED <<scenario, nf, chunkRows, clinks>>
        /\ \/ pc = "decide" /\ NoIssues
           \/ ~cdc /\ pc \in {"begin", "repair", "infos", "chunks"}
           \/ pc = "desync"
    BY WellEnded
  <1>2. pc \in After
    BY <1>1 DEF After, Linking
  <1>3. scenario.enabled => \A r \in DOMAIN nf : ~Overdue(r)
    BY <1>1, <1>2 DEF Visits
  <1>4. OrphanChunks = {}
    <2>1. CASE pc = "decide" /\ NoIssues
      <3>1. sus["1e"] = {}
        BY <2>1, CheckNames DEF NoIssues
      <3> QED
        BY <1>1, <2>1, <3>1 DEF Swept, Early
    <2>2. CASE ~cdc
      BY <1>1, <2>2 DEF Listed, OrphanChunks
    <2>3. CASE pc = "desync"
      BY <1>1, <2>3 DEF Swept
    <2> QED
      BY <1>1, <2>1, <2>2, <2>3
  <1>5. OrphanChunks' = OrphanChunks /\ \A r : Overdue(r)' <=> Overdue(r)
    BY <1>1 DEF OrphanChunks, Overdue
  <1> QED
    BY <1>1, <1>3, <1>4, <1>5 DEF Tidy

Upper == pc = "scan" \/ pc \in Early \/ (pc \in {"begin", "repair", "act", "infos"} /\ at <= 5)

LEMMA UpperBefore ==
    ASSUME Control, Goes, calm', pc' # "idle", Upper'
    PROVE  Upper /\ ~StaleLinks /\ (Act => at \notin {7, 9})
  <1>1. Moves /\ pc' # "scan" /\ at \in 1 .. 10
    BY GoesMoves, GoesOn DEF Control
  <1>2. CASE pc' \in Early
    <2>1. pc \in Early
      BY <1>1, <1>2 DEF Moves, Early, Janitoring, Linking
    <2> QED
      BY <2>1, WhereFrom DEF Upper, Early, Janitoring
  <1>3. CASE pc' \in {"begin", "repair", "act", "infos"} /\ at' <= 5
    <2>1. \/ pc \in Early
          \/ pc \in {"begin", "repair", "act", "infos", "chunks", "chunkRow"} /\ at <= 5
      BY <1>1, <1>3 DEF Moves, Early, Janitoring, Linking
    <2>2. pc \in Early \/ (pc \in {"begin", "repair", "act", "infos"} /\ at <= 5)
      BY <1>1, <2>1 DEF Control
    <2> QED
      BY <2>2, WhereFrom DEF Upper, Early, Janitoring
  <1> QED
    BY <1>1, <1>2, <1>3 DEF Upper

LEMMA CalmerRun ==
    ASSUME Second, Run, Undisturbed', touched = {}
    PROVE  /\ scenario'.enabled => \A r \in DOMAIN nf' : ~Overdue(r)'
           /\ pc' \notin {"orphans", "orphanBlob"}
           /\ pc' = "reclaim" => ~scenario'.enabled \/ item'.key \notin DOMAIN nf'
           /\ Upper' => OrphanChunks' = {}
           /\ sus'["1e"] = {}
  <1>0. /\ Control /\ Tables /\ scenario' = scenario /\ Full(opt) /\ calm' /\ pc' # "idle" /\ sus["1e"] = {}
        /\ Upper => OrphanChunks = {}
        /\ scenario.enabled => \A r \in DOMAIN nf : ~Overdue(r)
    BY RunShrinks DEF Second, Safe, Shrinks, Undisturbed, Calmer, Upper
  <1>1. scenario'.enabled => \A r \in DOMAIN nf' : ~Overdue(r)'
    BY <1>0, OverdueBefore
  <1>2. pc' \notin {"orphans", "orphanBlob"}
    <2>1. CASE Goes /\ pc' \in Janitoring
      BY <1>0, <2>1, JanitorCases, NothingToPurge, Decisions
        DEF Second, Calmer, Classify, JanitorVisit, Normalize, Flag, PurgeChunkRow, PurgeChunkBlob, PurgeEnd
    <2>2. CASE Scan \/ ReVerify
      BY <2>2 DEF Scan, ReVerify
    <2> QED
      BY <2>1, <2>2, RunCases DEF Janitoring
  <1>3. ASSUME pc' = "reclaim", scenario.enabled, item'.key \in DOMAIN nf' PROVE FALSE
    <2>1. PICK s \in todo : JanitorVisit(s)
      BY <1>3, RunCases, Origins DEF Scan, ReVerify
    <2>2. pc = "janitor" /\ item' = s /\ nf' = nf /\ DecideChunkedResidue(s) = "reclaim"
      BY <1>3, <2>1 DEF JanitorVisit, data, tables
    <2>3. s.rec.total > 0 /\ s.key[2] = "none" /\ s = Snap(s.key)
      BY <1>3, <2>1, <2>2 DEF Second, Visits, Janitoring
    <2>4. ~s.rec.started /\ s.rec.flag = "aged"
      BY <2>2, Decisions
    <2>5. Overdue(s.key)
      BY <2>3, <2>4 DEF Overdue, Snap
    <2> QED
      BY <1>0, <1>3, <2>2, <2>5
  <1>4. ASSUME Upper' PROVE OrphanChunks' = {}
    <2>1. Upper /\ ~StaleLinks /\ (Act => at \notin {7, 9})
      <3>1. CASE Scan \/ ReVerify
        BY <3>1 DEF Scan, ReVerify, Upper, StaleLinks, Act, Early
      <3> QED
        BY <1>0, <1>4, <3>1, UpperBefore, RunCases
    <2> QED
      BY <1>0, <2>1, OrphansSecond
  <1>5. sus'["1e"] = {}
    <2>1. ASSUME Scan PROVE Found("1e") = {}
      BY <1>0, <2>1 DEF Scan, Upper, Found
    <2> QED
      BY <1>0, <2>1, SuspectsFrom, CheckNames
  <1> QED
    BY <1>0, <1>1, <1>2, <1>3, <1>4, <1>5

LEMMA CalmerStep ==
    ASSUME Safe, Still, Listed, Again, Visits, Swept, Calmer, [Next]_vars
    PROVE  Calmer'
  <1>1. ASSUME pc' = "idle", quiet' >= 1 PROVE Tidy'
    <2>1. CASE Run
      BY <1>1, <2>1, TidyEnd
    <2>2. CASE Server \/ Age
      <3>1. quiet' = 0
        BY <2>2, ServerElsewhere DEF Safe, Elsewhere, Age
      <3> QED
        BY <1>1, <3>1
    <2>3. CASE \E o \in scenario.opts : Start(o)
      BY <1>1, <2>3 DEF Start
    <2>4. CASE UNCHANGED vars
      BY <1>1, <2>4, StutterGarbage DEF Calmer, Tidy
    <2> QED
      BY <2>1, <2>2, <2>3, <2>4 DEF Next
  <1>2. ASSUME Undisturbed', quiet' >= 1
        PROVE  /\ scenario'.enabled => \A r \in DOMAIN nf' : ~Overdue(r)'
               /\ pc' \notin {"orphans", "orphanBlob"}
               /\ pc' = "reclaim" => ~scenario'.enabled \/ item'.key \notin DOMAIN nf'
               /\ Upper' => OrphanChunks' = {}
               /\ sus'["1e"] = {}
    <2>1. CASE \E o \in scenario.opts : Start(o)
      <3>1. /\ pc = "idle" /\ pc' = "scan" /\ quiet' = quiet /\ UNCHANGED <<scenario, nf, chunkRows, clinks>>
            /\ sus' = NoSuspects
        BY <2>1 DEF Start, data, tables
      <3>2. Tidy
        BY <1>2, <3>1 DEF Calmer
      <3>3. OrphanChunks' = OrphanChunks /\ \A r : Overdue(r)' <=> Overdue(r)
        BY <3>1 DEF OrphanChunks, Overdue
      <3> QED
        BY <3>1, <3>2, <3>3, CheckNames DEF Tidy, NoSuspects
    <2>2. CASE Run /\ Undisturbed /\ touched = {} /\ quiet' = quiet
      BY <1>2, <2>2, CalmerRun DEF Second
    <2>3. CASE UNCHANGED vars
      BY <1>2, <2>3, StutterGarbage, StutterFaults DEF Calmer, Upper
    <2> QED
      BY <1>2, <2>1, <2>2, <2>3, IntoUndisturbed
  <1> QED
    BY <1>1, <1>2 DEF Calmer, Upper

(***************************************************************************)
(* What the second run finds: blobs without a row.                         *)
(***************************************************************************)
LEMMA ChunkRowsLeft ==
    ASSUME Second, Run, NEW c \in chunkRows \ chunkRows'
    PROVE  (DropChunkRow /\ c = item) \/ (StrandedRows /\ c \in known)
  <1>0. Control /\ Tables
    BY DEF Second, Safe
  <1>1. CASE Act
    BY <1>0, <1>1, ActCases, NothingToPick DEF Act, RowRepairs
  <1>2. CASE \E d \in Chunks : PurgeChunkRow(d)
    BY <1>2 DEF PurgeChunkRow, Second, Calmer
  <1>3. CASE DropChunkRow \/ StrandedRows
    BY <1>3 DEF DropChunkRow, StrandedRows, WithoutChunkRows
  <1>4. CASE \/ Scan \/ Normalize \/ Flag \/ Desync \/ PurgeRow \/ PurgeChunkBlob \/ StaleLinks
             \/ (\E n \in Nars : DropInfo(n)) \/ (\E d \in Chunks : DropBlob(d) \/ StrandedBlob(d))
    BY <1>4 DEF Scan, Normalize, Flag, Desync, PurgeRow, PurgeChunkBlob, StaleLinks, DropInfo, DropBlob,
           StrandedBlob, tables
  <1>5. CASE \/ ReVerify \/ Classify \/ JanitorEnd \/ PurgeEnd \/ (\E s \in todo : JanitorVisit(s))
             \/ Report \/ Proceed \/ Abort \/ BeginRepair \/ Slip \/ ItemsEnd \/ InfosEnd \/ ChunksEnd
             \/ Page \/ (\E x \in todo : Pick(x))
    BY <1>5 DEF ReVerify, Classify, JanitorEnd, PurgeEnd, JanitorVisit, Report, Proceed, BeginRepair,
         Slip, ItemsEnd, InfosEnd, ChunksEnd, Page, Pick, Abort, data, tables
  <1> QED
    BY <1>1, <1>2, <1>3, <1>4, <1>5, RunParts

LEMMA BlobsGoes ==
    ASSUME Second, BlobsListed, cdc, Goes, calm', pc' # "idle",
           NEW c \in Chunks \ chunkRows', blob'[c] # "absent"
    PROVE  c \in Due(10)'
  <1>0. Control /\ Tables /\ Run /\ Full(opt) /\ pc # "scan" /\ at \in 1 .. 10
    BY RunCases, GoesOn DEF Second, Safe, Undisturbed, Control
  <1>1. blob[c] = blob'[c]
    BY <1>0, RunShrinks DEF Shrinks
  <1>2. CASE c \in chunkRows
    <2>1. CASE DropChunkRow /\ c = item
      BY <1>1, <2>1 DEF DropChunkRow, BlobsListed, Second
    <2>2. CASE StrandedRows /\ c \in known
      BY <1>1, <2>2 DEF StrandedRows, BlobsListed, Second
    <2> QED
      BY <1>0, <1>2, <2>1, <2>2, ChunkRowsLeft
  <1>3. CASE c \notin chunkRows
    <2>1. c \in Due(10)
      BY <1>0, <1>1, <1>3 DEF BlobsListed, Second, Scanned
    <2>2. ASSUME at = 10 PROVE Confirmed(Category, c)
      <3>1. Category = "1h"
        BY <1>0, <2>2, Categories
      <3> QED
        BY <1>3, <3>1 DEF Confirmed
    <2>3. ASSUME at = 10, Act, item = c PROVE FALSE
      <3>1. blob' = [blob EXCEPT ![c] = "absent"]
        BY <1>0, <2>3, ActCases DEF RowRepairs
      <3> QED
        BY <1>0, <3>1 DEF Tables
    <2> QED
      BY <1>0, <2>1, <2>2, <2>3, DueStep
  <1> QED
    BY <1>2, <1>3

LEMMA BlobsScan ==
    ASSUME Second, BlobsListed, cdc, Scan \/ ReVerify, Scanned(10)',
           NEW c \in Chunks \ chunkRows', blob'[c] # "absent"
    PROVE  c \in Due(10)'
  <1>0. /\ Control /\ Full(opt) /\ CheckOf(10) = 8 /\ at \in 1 .. 10
        /\ Checks[8] = "1h" /\ Repairs[10] = "1h" /\ "1h" \in CheckIds /\ sus = [k \in CheckIds |-> sus[k]]
    BY CheckList, RepairList, CheckNames DEF Second, Safe, Undisturbed, CheckOf, Control
  <1>1. pc \in {"scan", "verify"} /\ pc' \in {"scan", "verify", "classify", "decide"} /\ chunkRows' = chunkRows
        /\ blob' = blob
    BY DEF Scan, ReVerify, data, tables, stores
  <1>2. Due(10) = sus["1h"] /\ Due(10)' = sus'["1h"]
    BY <1>0, <1>1 DEF Due, Handled, Linking
  <1>3. CASE Scan
    <2>1. /\ sus' = [sus EXCEPT ![Checks[at]] = Found(Checks[at])]
          /\ (at < LastCheck /\ at' = at + 1 /\ pc' = "scan") \/ (~(at < LastCheck) /\ pc' = "verify")
          /\ pc = "scan" /\ LastCheck = 10
      BY <1>0, <1>3 DEF Scan, LastCheck, Full
    <2>2. CASE at = 8
      <3>1. sus'["1h"] = {d \in Chunks : blob[d] # "absent"} \ chunkRows
        BY <1>0, <2>1, <2>2 DEF Found
      <3> QED
        BY <1>1, <1>2, <3>1
    <2>3. CASE at # 8
      <3>1. at > 8
        BY <1>0, <2>1, <2>3 DEF Scanned
      <3>2. sus'["1h"] = sus["1h"]
        BY <1>0, <2>1, <2>3, CheckList, TenPlaces
      <3>3. c \in Due(10)
        BY <1>0, <1>1, <2>1, <3>1 DEF BlobsListed, Second, Scanned
      <3> QED
        BY <1>2, <3>2, <3>3
    <2> QED
      BY <2>2, <2>3
  <1>4. CASE ReVerify
    <2>1. sus' = [sus EXCEPT ![Checks[at]] = {x \in @ : Confirmed(Checks[at], x)}] /\ pc = "verify"
      BY <1>4 DEF ReVerify
    <2>2. c \in sus["1h"]
      BY <1>1, <1>2, <2>1 DEF BlobsListed, Second, Scanned
    <2>3. Confirmed("1h", c)
      BY <1>1 DEF Confirmed
    <2> QED
      BY <1>0, <1>2, <2>1, <2>2, <2>3
  <1> QED
    BY <1>3, <1>4

LEMMA BlobsStep ==
    ASSUME Second \/ ~Undisturbed \/ ~(quiet >= 1), Safe, Still, BlobsListed, [Next]_vars
    PROVE  BlobsListed'
  <1> SUFFICES ASSUME Undisturbed', quiet' >= 1, cdc' PROVE BlobsListed'
    BY DEF BlobsListed
  <1>1. CASE \E o \in scenario.opts : Start(o)
    <2>1. pc' = "scan" /\ at' = 1
      BY <1>1 DEF Start
    <2> QED
      BY <2>1 DEF BlobsListed, Scanned, CheckOf
  <1>2. CASE Run /\ Undisturbed /\ touched = {} /\ opt' = opt /\ cdc' = cdc /\ quiet' = quiet
    <2>0. Second /\ calm' /\ pc' # "idle" /\ cdc /\ Tables
      BY <1>2 DEF Undisturbed, Safe
    <2>1. ASSUME Scanned(10)', NEW c \in Chunks \ chunkRows', blob'[c] # "absent" PROVE c \in Due(10)'
      BY <1>2, <2>0, <2>1, BlobsGoes, BlobsScan, RunCases
    <2>2. ASSUME pc' = "chunkRow", item' \in Chunks PROVE blob'[item'] = "absent"
      <3>1. Goes /\ pc = "chunks"
        BY <1>2, <2>2, Origins, RunCases DEF Scan, ReVerify
      <3>2. PICK c \in Chunks : DropBlob(c)
        BY <2>0, <2>2, <3>1 DEF Goes, Classify, JanitorEnd, Normalize, Flag, PurgeRow, PurgeChunkBlob, PurgeEnd,
           JanitorVisit, PurgeChunkRow, Report, Proceed, Abort, Repair, BeginRepair, Act, Slip, ItemsEnd,
           InfosEnd, DropChunkRow, ChunksEnd, StaleLinks, Page, StrandedRows, Desync, Pick, DropInfo,
           StrandedBlob, NextCategory, Finish
      <3> QED
        BY <2>0, <3>2 DEF DropBlob, Tables
    <2>3. ASSUME pc' = "stranded", NEW c \in (known' \ todo') \cap Chunks PROVE blob'[c] = "absent"
      <3>1. Goes
        BY <1>2, <2>3, RunCases DEF Scan, ReVerify
      <3>2. pc = "stranded" /\ known' = known
        BY <2>3, <3>1, Origins
      <3>3. PICK d \in Chunks : StrandedBlob(d)
        BY <2>0, <2>3, <3>1, <3>2 DEF Goes, Classify, JanitorEnd, Normalize, Flag, PurgeRow, PurgeChunkBlob, PurgeEnd,
           JanitorVisit, PurgeChunkRow, Report, Proceed, Abort, Repair, BeginRepair, Act, Slip, ItemsEnd,
           InfosEnd, DropChunkRow, ChunksEnd, StaleLinks, Page, StrandedRows, Desync, Pick, DropInfo,
           DropBlob, NextCategory, Finish
      <3>4. todo' = todo \ {d} /\ blob' = [blob EXCEPT ![d] = "absent"]
        BY <3>3 DEF StrandedBlob
      <3>5. c = d \/ blob[c] = "absent"
        BY <1>2, <2>0, <2>3, <3>2, <3>4 DEF BlobsListed
      <3> QED
        BY <2>0, <2>3, <3>4, <3>5 DEF Tables
    <2> QED
      BY <2>1, <2>2, <2>3 DEF BlobsListed
  <1>3. CASE UNCHANGED vars
    <2>1. Scanned(10)' <=> Scanned(10)
      BY <1>3, StutterGarbage DEF Scanned
    <2> QED
      BY <1>3, <2>1, StutterGarbage, StutterFaults DEF BlobsListed
  <1> QED
    BY <1>1, <1>2, <1>3, IntoUndisturbed

(***************************************************************************)
(* Files without a row.                                                    *)
(***************************************************************************)
FilesDue == Due(4) \cup IF pc = "scan" \/ pc \in Early THEN {} ELSE {s.key : s \in sus["1g"] \cup sus["1j"]}

LEMMA FilesGoes ==
    ASSUME Second, FilesListed, Goes, calm', pc' # "idle", NEW f \in whole' \ DOMAIN nf'
    PROVE  f \in FilesDue'
  <1>0. /\ Control /\ Tables /\ Run /\ Full(opt) /\ pc # "scan" /\ pc' # "scan" /\ at \in 1 .. 10 /\ sus' = sus
        /\ (pc' \in Early => pc \in Early)
    BY RunCases, GoesOn, EarlyCases DEF Second, Safe, Undisturbed, Control
  <1>1. f \in whole
    BY <1>0, WholeKept DEF Second, Safe
  <1>2. CASE f \in DOMAIN nf
    <2>1. /\ at \in {7, 9} /\ f = item.key /\ pc' = "repair" /\ item \in sus[Repairs[at]]
      BY <1>0, <1>2, RowsLeft
    <2>2. item \in sus["1g"] \cup sus["1j"]
      BY <2>1, RepairList
    <2> QED
      BY <1>0, <2>1, <2>2 DEF FilesDue, Early, Janitoring
  <1>3. CASE f \notin DOMAIN nf
    <2>1. f \in Due(4) \/ (pc \notin Early /\ f \in {s.key : s \in sus["1g"] \cup sus["1j"]})
      BY <1>0, <1>1, <1>3 DEF FilesListed, Second, Scanned
    <2>2. CASE f \in Due(4)
      <3>1. ASSUME at = 4 PROVE Confirmed(Category, f)
        <4>1. Category = "1d"
          BY <1>0, <3>1, Categories
        <4> QED
          BY <1>3, <4>1 DEF Confirmed
      <3>2. ASSUME at = 4, Act, item = f PROVE FALSE
        BY <1>0, <3>2, ActCases DEF RowRepairs
      <3>3. f \in Due(4)'
        BY <1>0, <2>2, <3>1, <3>2, DueStep
      <3> QED
        BY <3>3 DEF FilesDue
    <2>3. CASE pc \notin Early /\ f \in {s.key : s \in sus["1g"] \cup sus["1j"]}
      BY <1>0, <2>3 DEF FilesDue
    <2> QED
      BY <2>1, <2>2, <2>3
  <1> QED
    BY <1>2, <1>3

LEMMA FilesScan ==
    ASSUME Second, FilesListed, Scan \/ ReVerify, Scanned(4)', NEW f \in whole' \ DOMAIN nf'
    PROVE  f \in Due(4)'
  <1>0. /\ Control /\ Full(opt) /\ CheckOf(4) = 4 /\ at \in 1 .. 10
        /\ Checks[4] = "1d" /\ Repairs[4] = "1d" /\ "1d" \in CheckIds /\ sus = [k \in CheckIds |-> sus[k]]
    BY CheckList, RepairList, CheckNames DEF Second, Safe, Undisturbed, CheckOf, Control
  <1>1. pc \in {"scan", "verify"} /\ pc' \in {"scan", "verify", "classify", "decide"} /\ DOMAIN nf' = DOMAIN nf
        /\ whole' = whole
    BY <1>0, PlainSteps DEF Scan, ReVerify
  <1>2. Due(4) = sus["1d"] /\ Due(4)' = sus'["1d"]
    BY <1>0, <1>1 DEF Due, Handled, Linking
  <1>3. CASE Scan
    <2>1. /\ sus' = [sus EXCEPT ![Checks[at]] = Found(Checks[at])]
          /\ (at < LastCheck /\ at' = at + 1 /\ pc' = "scan") \/ (~(at < LastCheck) /\ pc' = "verify")
          /\ pc = "scan" /\ LastCheck >= 4
      BY <1>0, <1>3 DEF Scan, LastCheck, Full
    <2>2. CASE at = 4
      <3>1. sus'["1d"] = whole \ DOMAIN nf
        BY <1>0, <2>1, <2>2 DEF Found
      <3> QED
        BY <1>1, <1>2, <3>1
    <2>3. CASE at # 4
      <3>1. at > 4
        BY <1>0, <2>1, <2>3 DEF Scanned, LastCheck
      <3>2. sus'["1d"] = sus["1d"]
        BY <1>0, <2>1, <2>3, CheckList, TenPlaces
      <3>3. f \in Due(4)
        BY <1>0, <1>1, <2>1, <3>1 DEF FilesListed, Second, Scanned
      <3> QED
        BY <1>2, <3>2, <3>3
    <2> QED
      BY <2>2, <2>3
  <1>4. CASE ReVerify
    <2>1. sus' = [sus EXCEPT ![Checks[at]] = {x \in @ : Confirmed(Checks[at], x)}] /\ pc = "verify"
      BY <1>4 DEF ReVerify
    <2>2. f \in sus["1d"]
      BY <1>1, <1>2, <2>1 DEF FilesListed, Second, Scanned, Early
    <2>3. Confirmed("1d", f)
      BY <1>1 DEF Confirmed
    <2> QED
      BY <1>0, <1>2, <2>1, <2>2, <2>3
  <1> QED
    BY <1>3, <1>4

LEMMA FilesStep ==
    ASSUME Second \/ ~Undisturbed \/ ~(quiet >= 1), Safe, Still, FilesListed, [Next]_vars
    PROVE  FilesListed'
  <1> SUFFICES ASSUME Undisturbed', quiet' >= 1, Scanned(4)' PROVE whole' \ DOMAIN nf' \subseteq FilesDue'
    BY DEF FilesListed, FilesDue
  <1>1. CASE \E o \in scenario.opts : Start(o)
    <2>1. pc' = "scan" /\ at' = 1
      BY <1>1 DEF Start
    <2> QED
      BY <2>1 DEF Scanned, CheckOf
  <1>2. CASE Run /\ Undisturbed /\ touched = {} /\ opt' = opt /\ cdc' = cdc /\ quiet' = quiet
    <2>0. Second /\ calm' /\ pc' # "idle"
      BY <1>2 DEF Undisturbed
    <2>1. CASE Goes
      BY <2>0, <2>1, FilesGoes
    <2>2. CASE Scan \/ ReVerify
      BY <2>0, <2>2, FilesScan DEF FilesDue
    <2> QED
      BY <1>2, <2>1, <2>2, RunCases
  <1>3. CASE UNCHANGED vars
    <2>1. (Scanned(4)' <=> Scanned(4)) /\ FilesDue' = FilesDue
      BY <1>3, StutterGarbage DEF Scanned, FilesDue
    <2>2. whole \ DOMAIN nf \subseteq FilesDue
      BY <1>3, <2>1, StutterGarbage, StutterFaults DEF FilesListed, FilesDue
    <2> QED
      BY <1>3, <2>1, <2>2, StutterGarbage
  <1> QED
    BY <1>1, <1>2, <1>3, IntoUndisturbed

(***************************************************************************)
(* Narinfos without a row.                                                 *)
(***************************************************************************)
LEMMA UnlinkedKept ==
    ASSUME Safe, Run, touched = {}, DOMAIN nf' = DOMAIN nf
    PROVE  Unlinked' \subseteq Unlinked
  <1>1. ASSUME NEW n \in Unlinked' PROVE n \in Unlinked
    <2>1. n \in DOMAIN info /\ ~Linked(n)'
      BY RunShrinks DEF Unlinked, Safe, Shrinks
    <2>2. ASSUME NEW r \in joined, r[1] = n PROVE FALSE
      <3>1. r \in DOMAIN nf'
        BY DEF Safe, Tables
      <3>2. r \in joined'
        BY <3>1, JoinedKept DEF Safe
      <3> QED
        BY <2>1, <2>2, <3>2 DEF Linked
    <2> QED
      BY <2>1, <2>2 DEF Unlinked, Linked
  <1> QED
    BY <1>1

LEMMA InfoLeaves ==
    ASSUME NEW n, WithoutInfo(n)
    PROVE  n \notin Unlinked'
  BY DEF WithoutInfo, Restrict, Unlinked

First == pc = "scan" \/ pc \in Early \/ (pc \in {"begin", "repair", "act"} /\ at = 1)

LEMMA InfosFirst ==
    ASSUME Second, InfosListed, Goes, calm', pc' # "idle", touched = {}, First', NEW n \in Unlinked'
    PROVE  \E q \in Due(1)' : q.nar = n
  <1>0. /\ Control /\ Safe /\ Run /\ Full(opt) /\ pc # "scan" /\ pc' # "scan" /\ at \in 1 .. 10 /\ sus' = sus
        /\ Moves /\ Repairs[1] = "1a"
    BY RunCases, GoesOn, GoesMoves, RepairList DEF Second, Safe, Undisturbed, Control
  <1>1. \/ pc \in Early /\ pc' \in Early \cup {"begin"} /\ at' = 1
        \/ pc = "begin" /\ at = 1 /\ BeginRepair /\ ~Skipped(Category) /\ pc' = "repair" /\ at' = 1
        \/ pc = "repair" /\ at = 1 /\ pc' \in {"repair", "act"} /\ at' = 1 /\ \E x \in todo : Pick(x)
        \/ pc = "act" /\ at = 1 /\ pc' = "repair" /\ at' = 1 /\ todo' = todo /\ Act
    BY <1>0 DEF Moves, First, Early, Janitoring, Linking
  <1>2. DOMAIN nf' = DOMAIN nf
    BY <1>0, <1>1, RowsLeft DEF Early, Janitoring
  <1>3. n \in Unlinked
    BY <1>0, <1>2, UnlinkedKept
  <1>4. PICK q \in Due(1) : q.nar = n
    <2>1. First /\ Scanned(1)
      BY <1>0, <1>1 DEF First, Scanned
    <2> QED
      BY <1>3, <2>1 DEF InfosListed, Second, First
  <1>5. CASE pc \in Early
    <2>1. Due(1) = sus["1a"] /\ Due(1)' = sus'["1a"]
      BY <1>0, <1>1, <1>5 DEF Due, Handled, Linking, Early, Janitoring
    <2> QED
      BY <1>0, <1>4, <2>1
  <1>6. CASE pc = "begin"
    <2>1. Category = "1a" /\ BeginRepair /\ ~Skipped(Category) /\ pc' = "repair" /\ at' = 1 /\ at = 1
      BY <1>0, <1>1, <1>6, Categories DEF Early, Janitoring
    <2>2. todo' = sus["1a"]
      BY <2>1 DEF BeginRepair, AtOnce
    <2>3. Due(1) = sus["1a"] /\ Due(1)' = todo'
      BY <1>0, <1>6, <2>1 DEF Due, Handled, Linking
    <2> QED
      BY <1>4, <2>2, <2>3
  <1>7. CASE pc = "repair"
    <2>1. PICK x \in todo : Pick(x)
      BY <1>1, <1>7 DEF Early, Janitoring
    <2>2. at = 1 /\ at' = 1 /\ Category = "1a" /\ pc' \in {"repair", "act"}
      BY <1>0, <1>1, <1>7, Categories DEF Early, Janitoring
    <2>3. Due(1) = todo /\ Due(1)' = IF pc' = "act" THEN todo' \cup {item'} ELSE todo'
      BY <1>7, <2>2 DEF Due, Handled, Linking
    <2>4. todo' = todo \ {x}
      BY <2>1 DEF Pick
    <2>5. CASE q = x
      <3>1. ~Linked(n)
        BY <1>3 DEF Unlinked
      <3>2. Confirmed("1a", x)
        BY <1>4, <2>5, <3>1 DEF Confirmed
      <3>3. pc' = "act" /\ item' = [nar |-> x.nar, row |-> Backing(x)]
        BY <2>1, <2>2, <3>2 DEF Pick
      <3>4. item'.nar = n /\ item' \in Due(1)'
        BY <1>4, <2>3, <2>5, <3>3
      <3> QED
        BY <3>4
    <2> QED
      BY <1>4, <2>3, <2>4, <2>5
  <1>8. CASE pc = "act"
    <2>1. Act /\ at = 1 /\ at' = 1 /\ pc' = "repair" /\ todo' = todo /\ Category = "1a"
      BY <1>0, <1>1, <1>8, Categories DEF Early, Janitoring
    <2>2. Due(1) = todo \cup {item} /\ Due(1)' = todo'
      BY <1>8, <2>1 DEF Due, Handled, Linking
    <2>3. CASE q = item
      <3>1. CASE item.row = {}
        BY <1>0, <1>4, <2>1, <2>3, <3>1, ActCases, InfoLeaves DEF RowRepairs
      <3>2. CASE item.row # {}
        <4>1. joined' = joined \cup {s.key : s \in item.row}
          BY <2>1, <3>2 DEF Act, ChunkedRepairs
        <4>2. PICK s \in item.row : s.key[1] = item.nar
          BY <1>0, <1>8, <2>1, <3>2 DEF Control
        <4> QED
          BY <1>4, <2>3, <4>1, <4>2 DEF Unlinked, Linked
      <3> QED
        BY <3>1, <3>2
    <2> QED
      BY <1>4, <2>1, <2>2, <2>3
  <1> QED
    BY <1>1, <1>5, <1>6, <1>7, <1>8

LEMMA InfosScan ==
    ASSUME Second, InfosListed, Scan \/ ReVerify, Scanned(1)', NEW n \in Unlinked'
    PROVE  \E q \in Due(1)' : q.nar = n
  <1>0. /\ Control /\ CheckOf(1) = 1 /\ at \in 1 .. 10
        /\ Checks[1] = "1a" /\ Repairs[1] = "1a" /\ "1a" \in CheckIds /\ sus = [k \in CheckIds |-> sus[k]]
    BY CheckList, RepairList, CheckNames DEF Second, Safe, CheckOf, Control
  <1>1. pc \in {"scan", "verify"} /\ pc' \in {"scan", "verify", "classify", "decide"}
        /\ info' = info /\ joined' = joined
    BY DEF Scan, ReVerify, data, tables
  <1>2. Due(1) = sus["1a"] /\ Due(1)' = sus'["1a"]
    BY <1>0, <1>1 DEF Due, Handled, Linking
  <1>3. n \in Unlinked
    BY <1>1 DEF Unlinked, Linked
  <1>4. CASE Scan
    <2>1. /\ sus' = [sus EXCEPT ![Checks[at]] = Found(Checks[at])] /\ pc = "scan"
      BY <1>4 DEF Scan
    <2>2. CASE at = 1
      <3>1. sus'["1a"] = {[nar |-> m, url |-> info[m].url] : m \in Unlinked}
        BY <1>0, <2>1, <2>2 DEF Found
      <3>2. [nar |-> n, url |-> info[n].url] \in sus'["1a"]
        BY <1>3, <3>1
      <3> QED
        BY <1>2, <3>2
    <2>3. CASE at # 1
      <3>1. sus'["1a"] = sus["1a"]
        BY <1>0, <2>1, <2>3, CheckList, TenPlaces
      <3>2. \E q \in Due(1) : q.nar = n
        BY <1>0, <1>3, <2>1, <2>3 DEF InfosListed, Second, Scanned
      <3> QED
        BY <1>2, <3>1, <3>2
    <2> QED
      BY <2>2, <2>3
  <1>5. CASE ReVerify
    <2>1. sus' = [sus EXCEPT ![Checks[at]] = {x \in @ : Confirmed(Checks[at], x)}] /\ pc = "verify"
      BY <1>5 DEF ReVerify
    <2>2. PICK q \in sus["1a"] : q.nar = n
      BY <1>2, <1>3, <2>1 DEF InfosListed, Second, Scanned, Early
    <2>3. Confirmed("1a", q)
      BY <1>3, <2>2 DEF Confirmed, Unlinked
    <2> QED
      BY <1>0, <1>2, <2>1, <2>2, <2>3
  <1> QED
    BY <1>4, <1>5

Without == (pc = "begin" /\ at > 1) \/ (pc \in {"repair", "act"} /\ at \in {2, 4, 5, 10})
           \/ pc \in {"chunks", "chunkRow"} \cup Linking

LEMMA InfosWithout ==
    ASSUME Second, InfosListed, Goes, calm', pc' # "idle", touched = {}, Without'
    PROVE  Unlinked' = {}
  <1>0. Control /\ Safe /\ Run /\ Full(opt) /\ at \in 1 .. 10 /\ Moves
    BY RunCases, GoesMoves DEF Second, Safe, Undisturbed, Control
  <1>1. DOMAIN nf' = DOMAIN nf
    BY <1>0, RowsLeft DEF Without, Linking
  <1>2. Unlinked' \subseteq Unlinked
    BY <1>0, <1>1, UnlinkedKept
  <1>3. pc \notin Early
    BY <1>0 DEF Moves, Without, Early, Janitoring, Linking
  <1>4. Without => Unlinked = {}
    BY DEF InfosListed, Second, Without
  <1>5. CASE pc' \in {"begin", "links"}
    <2>1. \/ pc = "begin" /\ at = 7
          \/ pc = "repair" /\ at \in {1, 2, 4, 5, 10} /\ todo = {}
          \/ pc = "infos" /\ at = 3 /\ todo = {}
          \/ pc = "chunks" /\ at \in 6 .. 9 /\ todo = {}
      BY <1>0, <1>3, <1>5, TurnMoves
    <2>2. CASE pc = "repair" /\ at = 1
      <3>1. Due(1) = {} /\ Scanned(1)
        BY <2>1, <2>2 DEF Due, Handled, Scanned, Linking
      <3>2. \A n \in Unlinked : \E q \in Due(1) : q.nar = n
        BY <2>2, <3>1 DEF InfosListed, Second
      <3> QED
        BY <1>2, <3>1, <3>2
    <2>3. CASE pc = "infos"
      BY <1>2, <2>1, <2>3 DEF InfosListed, Second
    <2>4. CASE ~(pc = "repair" /\ at = 1) /\ pc # "infos"
      BY <1>2, <1>4, <2>1, <2>4 DEF Without
    <2> QED
      BY <2>2, <2>3, <2>4
  <1>6. CASE pc' \in {"repair", "act"} /\ at' \in {2, 4, 5, 10}
    <2>1. (pc = "begin" \/ pc \in {"repair", "act"}) /\ at' = at
      BY <1>0, <1>3, <1>6 DEF Moves, Linking
    <2> QED
      BY <1>2, <1>4, <1>6, <2>1 DEF Without
  <1>7. CASE pc' \in {"chunks", "chunkRow"}
    <2>1. pc \in {"infos", "chunks", "chunkRow"}
      BY <1>0, <1>3, <1>7 DEF Moves, Linking
    <2>2. CASE pc = "infos"
      <3>1. todo = {}
        BY <1>7, <2>2 DEF Goes, Classify, JanitorEnd, Normalize, Flag, PurgeRow, PurgeChunkBlob, PurgeEnd,
           JanitorVisit, PurgeChunkRow, Report, Proceed, Abort, Repair, BeginRepair, Act, Slip, ItemsEnd,
           InfosEnd, DropChunkRow, ChunksEnd, StaleLinks, Page, StrandedRows, Desync, Pick, DropInfo,
           DropBlob, StrandedBlob
      <3> QED
        BY <1>2, <2>2, <3>1 DEF InfosListed, Second
    <2> QED
      BY <1>2, <1>4, <2>1, <2>2 DEF Without
  <1>8. CASE pc' \in Linking /\ pc' # "links"
    <2>1. pc \in Linking
      BY <1>0, <1>3, <1>8 DEF Moves, Linking
    <2> QED
      BY <1>2, <1>4, <2>1 DEF Without
  <1> QED
    BY <1>5, <1>6, <1>7, <1>8 DEF Without

LEMMA InfosKnown ==
    ASSUME Second, InfosListed, Goes, calm', pc' # "idle", touched = {}
    PROVE  /\ pc' \in {"repair", "act"} /\ at' \in {3, 6, 7, 8, 9} => known' = {}
           /\ pc' = "infos" => Unlinked' \subseteq todo'
  <1>0. Control /\ Safe /\ Run /\ Full(opt) /\ at \in 1 .. 10 /\ Moves
    BY RunCases, GoesMoves DEF Second, Safe, Undisturbed, Control
  <1>1. ASSUME pc' \in {"repair", "act"}, at' \in {3, 6, 7, 8, 9} PROVE known' = {}
    <2>1. \/ pc = "begin" /\ BeginRepair /\ ~Skipped(Category) /\ at' = at
          \/ pc = "repair" /\ at' = at /\ \E x \in todo : Pick(x)
          \/ pc = "act" /\ at' = at /\ Act
      BY <1>0, <1>1 DEF Moves, Early, Janitoring, Linking
    <2>2. CASE pc = "begin"
      <3>1. known' = Unlinked
        BY <2>1, <2>2 DEF BeginRepair
      <3> QED
        BY <1>1, <2>1, <2>2, <3>1 DEF InfosListed, Second
    <2>3. CASE pc \in {"repair", "act"}
      <3>1. known' = known
        BY <2>1, <2>3 DEF Pick, Act, loop
      <3> QED
        BY <1>1, <2>1, <2>3, <3>1 DEF InfosListed, Second
    <2> QED
      BY <2>1, <2>2, <2>3
  <1>2. ASSUME pc' = "infos" PROVE Unlinked' \subseteq todo'
    <2>1. ItemsEnd \/ \E n \in Nars : DropInfo(n)
      <3>1. pc \in {"repair", "infos", "chunks", "chunkRow"}
        BY <1>0, <1>2 DEF Moves, Early, Janitoring, Linking
      <3> QED
        BY <1>2, <3>1 DEF Goes, Classify, JanitorEnd, Normalize, Flag, PurgeRow, PurgeChunkBlob, PurgeEnd,
           JanitorVisit, PurgeChunkRow, Report, Proceed, Abort, Repair, BeginRepair, Act, Slip,
           InfosEnd, DropChunkRow, ChunksEnd, StaleLinks, Page, StrandedRows, Desync, Pick,
           DropBlob, StrandedBlob, NextCategory, Finish
    <2>2. CASE ItemsEnd
      <3>1. pc = "repair" /\ todo' = Unlinked \ known /\ Category \in {"1c"} \cup ChunkedRepairs
            /\ info' = info /\ joined' = joined
        BY <1>2, <2>2 DEF ItemsEnd, NextCategory, Finish, NewOrphans, data, tables
      <3>2. at \in {3, 6, 7, 8, 9}
        BY <1>0, <3>1, Categories
      <3>3. known = {}
        BY <3>1, <3>2 DEF InfosListed, Second
      <3> QED
        BY <3>1, <3>3 DEF Unlinked, Linked
    <2>3. CASE \E n \in Nars : DropInfo(n)
      <3>1. PICK n \in Nars : DropInfo(n)
        BY <2>3
      <3>2. pc = "infos" /\ todo' = todo \ {n} /\ WithoutInfo(n) /\ DOMAIN nf' = DOMAIN nf
        BY <3>1 DEF DropInfo
      <3>3. Unlinked' \subseteq Unlinked /\ n \notin Unlinked'
        BY <1>0, <3>2, UnlinkedKept, InfoLeaves
      <3> QED
        BY <3>2, <3>3 DEF InfosListed, Second
    <2> QED
      BY <2>1, <2>2, <2>3
  <1> QED
    BY <1>1, <1>2

LEMMA InfosStep ==
    ASSUME Second \/ ~Undisturbed \/ ~(quiet >= 1), Safe, Still, InfosListed, [Next]_vars
    PROVE  InfosListed'
  <1> SUFFICES ASSUME Undisturbed', quiet' >= 1
               PROVE  /\ Scanned(1)' /\ First' => \A n \in Unlinked' : \E q \in Due(1)' : q.nar = n
                      /\ Without' => Unlinked' = {}
                      /\ pc' \in {"repair", "act"} /\ at' \in {3, 6, 7, 8, 9} => known' = {}
                      /\ pc' = "infos" => Unlinked' \subseteq todo'
    BY DEF InfosListed, First, Without
  <1>1. CASE \E o \in scenario.opts : Start(o)
    <2>1. pc' = "scan" /\ at' = 1
      BY <1>1 DEF Start
    <2> QED
      BY <2>1 DEF Scanned, CheckOf, Without, Linking
  <1>2. CASE Run /\ Undisturbed /\ touched = {} /\ opt' = opt /\ cdc' = cdc /\ quiet' = quiet
    <2>0. Second /\ calm' /\ pc' # "idle"
      BY <1>2 DEF Undisturbed
    <2>1. CASE Goes
      BY <1>2, <2>0, <2>1, InfosFirst, InfosWithout, InfosKnown
    <2>2. CASE Scan \/ ReVerify
      <3>1. pc' \in {"scan", "verify", "classify", "decide"}
        BY <2>2 DEF Scan, ReVerify
      <3> QED
        BY <2>0, <2>2, <3>1, InfosScan DEF Without, Linking
    <2> QED
      BY <1>2, <2>1, <2>2, RunCases
  <1>3. CASE UNCHANGED vars
    <2>1. (Scanned(1)' <=> Scanned(1)) /\ (First' <=> First) /\ (Without' <=> Without)
      BY <1>3, StutterGarbage DEF Scanned, First, Without
    <2>2. /\ Scanned(1) /\ First => \A n \in Unlinked : \E q \in Due(1) : q.nar = n
          /\ Without => Unlinked = {}
          /\ pc \in {"repair", "act"} /\ at \in {3, 6, 7, 8, 9} => known = {}
          /\ pc = "infos" => Unlinked \subseteq todo
      BY <1>3, StutterGarbage, StutterFaults DEF InfosListed, First, Without
    <2> QED
      BY <1>3, <2>1, <2>2, StutterGarbage
  <1> QED
    BY <1>1, <1>2, <1>3, IntoUndisturbed

Cleaning == Mending /\ Visits /\ Swept /\ Calmer /\ BlobsListed /\ InfosListed /\ FilesListed /\ Clean

LEMMA CleanInit == Init => Cleaning
  <1> SUFFICES ASSUME Init PROVE Cleaning
    OBVIOUS
  <1>1. Mending
    BY MendingInit
  <1>2. pc = "idle" /\ quiet = 0
    BY DEF Init
  <1>3. Visits /\ Swept /\ Calmer
    BY <1>2 DEF Visits, Swept, Calmer, Undisturbed
  <1> QED
    BY <1>1, <1>2, <1>3 DEF Cleaning, BlobsListed, InfosListed, FilesListed, Clean, Undisturbed

(* The end of the second run.                                              *)
LEMMA CleanEnd ==
    ASSUME Cleaning, Mending', Calmer', Run, pc' = "idle", quiet' >= 2
    PROVE  /\ Unlinked' = {} /\ DOMAIN nf' = joined'
           /\ whole' \subseteq DOMAIN nf' \cup {s.key : s \in sus'["1g"] \cup sus'["1j"]}
           /\ OrphanChunks' = {}
           /\ cdc' => \A c \in Chunks \ chunkRows' : blob'[c] = "absent"
  <1>0. Safe /\ Still /\ Safe' /\ quiet' \in Nat /\ Control
    BY DEF Cleaning, Mending, Still, Safe
  <1>1. /\ Undisturbed /\ touched = {} /\ Ends /\ quiet >= 1 /\ cdc' = cdc
        /\ UNCHANGED <<scenario, nf, joined, chunkRows, clinks, whole, blob, sus>>
        /\ \/ Report /\ pc = "decide" /\ NoIssues
           \/ at >= LastRepair /\ ~cdc /\ pc \in {"begin", "repair", "infos", "chunks"} /\ info' = info
              /\ (pc = "begin" => at = 7) /\ (pc # "begin" => todo = {})
              /\ (pc = "repair" => at \notin {3, 6, 7, 8, 9})
           \/ Desync /\ pc = "desync"
    BY <1>0, WellEnded
  <1>2. DOMAIN nf' = joined'
    BY <1>0, SMTT(30) DEF Mending, Again, Sound, Safe, Tables
  <1>3. OrphanChunks' = {}
    BY <1>0 DEF Calmer, Tidy
  <1>4. ASSUME cdc', NEW c \in Chunks \ chunkRows' PROVE blob'[c] = "absent"
    <2>1. Due(10) = {} /\ Scanned(10)
      BY <1>1, <1>4 DEF Ends, Scanned
    <2> QED
      BY <1>1, <1>4, <2>1 DEF Cleaning, BlobsListed
  <1>5. whole' \subseteq DOMAIN nf' \cup {s.key : s \in sus'["1g"] \cup sus'["1j"]}
    <2>1. Due(4) = {} /\ Scanned(4)
      BY <1>1 DEF Ends, Scanned
    <2> QED
      BY <1>1, <2>1 DEF Cleaning, FilesListed
  <1>6. Unlinked = {}
    <2>1. CASE Report /\ pc = "decide" /\ NoIssues
      <3>1. Due(1) = {} /\ Scanned(1)
        BY <2>1, RepairList, CheckNames DEF Due, Handled, Linking, NoIssues, Scanned
      <3> QED
        BY <1>1, <2>1, <3>1 DEF Cleaning, InfosListed, Early
    <2>2. CASE /\ at >= LastRepair /\ ~cdc /\ pc \in {"begin", "repair", "infos", "chunks"} /\ info' = info
               /\ (pc = "begin" => at = 7) /\ (pc # "begin" => todo = {})
               /\ (pc = "repair" => at \notin {3, 6, 7, 8, 9})
      <3>1. at >= 4 /\ at \in 1 .. 10
        BY <1>0, <2>2 DEF LastRepair, Control
      <3>2. pc = "repair" => at \in {2, 4, 5, 10}
        BY <2>2, <3>1
      <3> QED
        BY <1>1, <2>2, <3>1, <3>2 DEF Cleaning, InfosListed
    <2>3. CASE Desync /\ pc = "desync"
      BY <1>1, <2>3 DEF Cleaning, InfosListed, Linking
    <2> QED
      BY <1>1, <2>1, <2>2, <2>3
  <1>7. Unlinked' = {}
    BY <1>0, <1>1, <1>6, UnlinkedKept
  <1> QED
    BY <1>2, <1>3, <1>4, <1>5, <1>7

LEMMA CleanStep == Cleaning /\ [Next]_vars => Cleaning'
  <1> SUFFICES ASSUME Cleaning, [Next]_vars PROVE Cleaning'
    OBVIOUS
  <1>0. Mending /\ Safe /\ Still /\ Listed /\ Again /\ Visits /\ Swept /\ Calmer
    BY DEF Cleaning, Mending
  <1>1. Mending'
    BY <1>0, MendingStep
  <1>2. Visits' /\ Swept' /\ Calmer'
    BY <1>0, VisitsStep, SweptStep, CalmerStep
  <1>3. Second \/ ~Undisturbed \/ ~(quiet >= 1)
    BY <1>0 DEF Second
  <1>4. BlobsListed'
    BY <1>0, <1>3, BlobsStep DEF Cleaning
  <1>5. InfosListed'
    BY <1>0, <1>3, InfosStep DEF Cleaning
  <1>6. FilesListed'
    BY <1>0, <1>3, FilesStep DEF Cleaning
  <1>7. Clean'
    <2> SUFFICES ASSUME pc' = "idle", quiet' >= 2 PROVE Clean'
      BY DEF Clean
    <2>1. CASE Run
      BY <1>1, <1>2, <2>1, CleanEnd DEF Clean
    <2>2. CASE Server \/ Age
      <3>1. quiet' = 0
        BY <1>0, <2>2, ServerElsewhere DEF Safe, Elsewhere, Age
      <3> QED
        BY <3>1
    <2>3. CASE \E o \in scenario.opts : Start(o)
      BY <2>3 DEF Start
    <2>4. CASE UNCHANGED vars
      BY <2>4, StutterGarbage DEF Cleaning, Clean, vars, data, tables
    <2> QED
      BY <2>1, <2>2, <2>3, <2>4 DEF Next
  <1> QED
    BY <1>1, <1>2, <1>4, <1>5, <1>6, <1>7 DEF Cleaning

(* Two quiet repairs leave nothing that belongs to nothing, whatever was   *)
(* left by the server, by failed runs and by the sections of the first.    *)
THEOREM FsckClean == Spec => []Clean
  <1>1. Cleaning => Clean
    BY DEF Cleaning
  <1> QED
    BY <1>1, CleanInit, CleanStep, PTL DEF Spec

(***************************************************************************)
(* Migrate: version records are kept, by a pod that may be cut off between *)
(* any two statements and, where the adoption is a transaction, by any     *)
(* number of pods at once; and success means that every migration is       *)
(* recorded and applied.                                                   *)
(***************************************************************************)

(* What the new tracking table can hold while the backup is there: nothing, *)
(* the sentinel, or the whole copy, since a statement is never cut in two. *)
Sentinel == [v \in Versions \cup {0} |-> IF v = 0 THEN 1 ELSE 0]
Copied == [v \in Versions \cup {0} |-> backup.rows[v] + Sentinel[v]]

(* dbmate's version is a primary key, and it has no sentinel.              *)
Unique(t) == t.rows[0] = 0 /\ \A v \in Versions : t.rows[v] \in {0, 1}

(* The tables outside and inside of an adoption on MySQL.                  *)
NotAdopting ==
    /\ backup = NoTable /\ rollout.old \subseteq Recorded(main)
    /\ main.shape = "none" => main = NoTable
    /\ main.shape = "dbmate" => Unique(main)

Converting ==
    /\ backup.shape = "dbmate" /\ Unique(backup) /\ rollout.old \subseteq Recorded(backup)
    /\ main = NoTable \/ (main.shape = "goose" /\ main.rows \in {NoRows, Sentinel, Copied})

Now(s) == main.shape = "goose" /\ main.rows = s

(* What a point of the program says of the tables, when one pod runs on    *)
(* MySQL.                                                                  *)
At(p) ==
    /\ step[p] = "backup" => ("main" \in seen[p] <=> TableExists(main))
    /\ step[p] = "backup" => "backup" \notin seen[p]
    /\ step[p] = "shape" => TableExists(main) /\ ("backup" \in seen[p] <=> TableExists(backup))
    /\ step[p] = "rename" => main.shape = "dbmate"
    /\ step[p] = "create" => Converting /\ main = NoTable
    /\ step[p] \in {"sentinel", "resentinel"} => Converting /\ Now(NoRows)
    /\ step[p] \in {"copy", "recopy"} => Converting /\ Now(Sentinel)
    /\ step[p] \in {"count", "compare", "truncate"} => Converting /\ main.shape = "goose"
    /\ step[p] \in {"recount", "recompare", "drop"} => Converting /\ Now(Copied)
    /\ step[p] \in {"compare", "recompare"} => count[p] = RowCount(backup)
    /\ step[p] \in {"rename", "app", "install", "table", "seed", "goose", "apply", "record"} =>
         NotAdopting
    /\ step[p] \in {"seed", "apply", "record"} => main.shape = "goose"
    /\ step[p] # "convert"

Points == {"off", "main", "backup", "shape", "app", "install", "table", "seed", "convert",
           "rename", "create", "sentinel", "resentinel", "copy", "recopy", "count", "recount",
           "compare", "recompare", "truncate", "drop", "goose", "apply", "record", "done",
           "failed"}

(* Of the types only what the argument needs.                              *)
CoreType ==
    /\ rollout \in Rollout /\ main \in Table /\ backup \in Table
    /\ step \in [Pods -> Points] /\ seen \in [Pods -> SUBSET {"main", "backup"}]
    /\ count = [p \in Pods |-> count[p]] /\ left \in [Pods -> SUBSET (Versions \cup {0})]
    /\ \A p \in Pods \ rollout.pods : step[p] = "off"

(* Where DDL is transactional there is never a backup.                     *)
Standard ==
    /\ NotAdopting
    /\ \A p \in Pods :
         /\ "backup" \notin seen[p]
         /\ step[p] \in {"seed", "apply", "record"} => main.shape = "goose"
         /\ step[p] \notin {"backup", "rename", "create", "sentinel", "resentinel", "copy",
                          "recopy", "count", "recount", "compare", "recompare", "truncate",
                          "drop"}

Single == \A p, q \in rollout.pods : p = q

IInv ==
    /\ CoreType
    /\ ~MySQL => Standard
    /\ MySQL /\ Single => (NotAdopting \/ Converting) /\ \A p \in Pods : At(p)

-----------------------------------------------------------------------------
(* What the counting of rows tells apart.                                  *)
LEMMA Counts ==
    ASSUME NEW t \in Table
    PROVE  /\ t.rows = NoRows => RowCount(t) = 0
           /\ t.rows = Sentinel => RowCount(t) = 1
           /\ Unique(t) => RowCount(t) \in Nat
           /\ Unique(t) /\ RowCount(t) = 0 => t.rows = NoRows
<1> DEFINE R == UNION {{v} \X (1 .. t.rows[v]) : v \in Versions \cup {0}}
<1>0. t.rows \in [Versions \cup {0} -> Nat]
  BY DEF Table, Rows
<1>1. ASSUME t.rows = NoRows PROVE RowCount(t) = 0
  <2>1. R = {}
    BY <1>1, VersionAssumption DEF NoRows
  <2> QED
    BY <2>1, FS_EmptySet DEF RowCount
<1>2. ASSUME t.rows = Sentinel PROVE RowCount(t) = 1
  <2>1. R = {<<0, 1>>}
    <3>1. \A x : x \in R <=> \E v \in Versions \cup {0} : x \in {v} \X (1 .. t.rows[v])
      OBVIOUS
    <3>2. \A v \in Versions : v # 0
      BY VersionAssumption
    <3>3. {0} \X (1 .. t.rows[0]) = {<<0, 1>>}
      BY <1>2 DEF Sentinel
    <3>4. \A v \in Versions : {v} \X (1 .. t.rows[v]) = {}
      BY <1>2, <3>2 DEF Sentinel
    <3> QED
      BY <3>1, <3>3, <3>4
  <2> QED
    BY <2>1, FS_Singleton DEF RowCount
<1>3. ASSUME Unique(t) PROVE IsFiniteSet(R)
  <2>1. IsFiniteSet(Versions \cup {0}) /\ IsFiniteSet({1})
    BY VersionAssumption, FS_Singleton, FS_Union
  <2>2. R \subseteq (Versions \cup {0}) \X {1}
    <3>1. \A v \in Versions \cup {0} : t.rows[v] \in {0, 1}
      BY <1>3, <1>0 DEF Unique
    <3>2. \A v \in Versions \cup {0} : 1 .. t.rows[v] \subseteq {1}
      BY <3>1
    <3> QED
      BY <3>2
  <2> QED
    BY <2>1, <2>2, FS_Product, FS_Subset
<1>4. ASSUME Unique(t), RowCount(t) = 0 PROVE t.rows = NoRows
  <2>1. R = {}
    BY <1>3, <1>4, FS_EmptySet DEF RowCount
  <2>2. \A v \in Versions \cup {0} : t.rows[v] = 0
    <3> SUFFICES ASSUME NEW v \in Versions \cup {0}, t.rows[v] # 0 PROVE FALSE
      OBVIOUS
    <3>1. 1 \in 1 .. t.rows[v]
      BY <1>0
    <3>2. <<v, 1>> \in R
      BY <3>1
    <3> QED
      BY <2>1, <3>2
  <2> QED
    BY <1>0, <2>2 DEF NoRows
<1> QED
  BY <1>1, <1>2, <1>3, <1>4, FS_CardinalityType DEF RowCount

(* Parity means a whole copy: an empty table has too few rows, and the     *)
(* sentinel alone is the copy of an empty backup.                          *)
LEMMA Parity ==
    ASSUME main \in Table, backup \in Table, Unique(backup),
           main.rows \in {NoRows, Sentinel, Copied}, RowCount(main) = RowCount(backup) + 1
    PROVE  main.rows = Copied
<1>1. RowCount(backup) \in Nat
  BY Counts
<1>2. ASSUME main.rows = NoRows PROVE FALSE
  BY <1>1, <1>2, Counts
<1>3. ASSUME main.rows = Sentinel PROVE Copied = Sentinel
  <2>1. RowCount(backup) = 0
    BY <1>1, <1>3, Counts
  <2>2. backup.rows = NoRows
    BY <2>1, Counts
  <2> QED
    BY <2>2 DEF Copied, Sentinel, NoRows
<1> QED
  BY <1>2, <1>3

-----------------------------------------------------------------------------
LEMMA RolloutStays == [MigrateNext]_mvars => UNCHANGED rollout
BY DEF MigrateNext, mvars, Up, Detect, ProbeMain, ProbeBackup, ProbeShape, ProbeApp, FreshInstall,
       SchemaCreate, CreateVersionTable, Seed, Adopt, AdoptTransactional, Rename, CreateTable,
       InsertSentinel, Copy, CountBackup, Compare, Truncate, DropBackup, RunGoose, GooseBegin,
       GooseApply, GooseRecord, GooseDone, Crash, Restart, Kept, Rest

(* A pod that takes a step was started, and no other pod moves.            *)
LEMMA TypeNext == CoreType /\ [MigrateNext]_mvars => CoreType'
<1> SUFFICES ASSUME CoreType, [MigrateNext]_mvars PROVE CoreType'
  OBVIOUS
<1> USE RolloutStays DEF CoreType, Points, Kept, Rest, Go, Fail, db, local, Table, Rows,
        NoTable, NoRows, Holding
<1>1. ASSUME NEW p \in Pods, Detect(p) PROVE CoreType'
  BY <1>1 DEF Detect, ProbeMain, ProbeBackup, ProbeShape, ProbeApp
<1>2. ASSUME NEW p \in Pods, FreshInstall(p) PROVE CoreType'
  <2>1. CASE SchemaCreate(p)
    BY <2>1 DEF SchemaCreate
  <2>2. CASE CreateVersionTable(p)
    BY <2>2 DEF CreateVersionTable
  <2>3. CASE Seed(p)
    BY <2>3 DEF Seed
  <2> QED
    BY <1>2, <2>1, <2>2, <2>3 DEF FreshInstall
<1>3. ASSUME NEW p \in Pods, Adopt(p) PROVE CoreType'
  <2>1. CASE AdoptTransactional(p)
    BY <2>1 DEF AdoptTransactional
  <2>2. CASE Rename(p) \/ CreateTable(p)
    BY <2>2 DEF Rename, CreateTable
  <2>3. CASE InsertSentinel(p)
    BY <2>3 DEF InsertSentinel
  <2>4. CASE Copy(p)
    BY <2>4 DEF Copy
  <2>5. CASE CountBackup(p) \/ Compare(p)
    BY <2>5 DEF CountBackup, Compare
  <2>6. CASE Truncate(p) \/ DropBackup(p)
    BY <2>6 DEF Truncate, DropBackup
  <2> QED
    BY <1>3, <2>1, <2>2, <2>3, <2>4, <2>5, <2>6 DEF Adopt
<1>4. ASSUME NEW p \in Pods, RunGoose(p) PROVE CoreType'
  <2>1. CASE GooseBegin(p)
    BY <2>1 DEF GooseBegin
  <2>2. CASE GooseApply(p)
    BY <2>2 DEF GooseApply, Inserted
  <2>3. CASE GooseRecord(p) \/ GooseDone(p)
    BY <2>3 DEF GooseRecord, GooseDone, Inserted
  <2> QED
    BY <1>4, <2>1, <2>2, <2>3 DEF RunGoose
<1>5. ASSUME NEW p \in Pods, Crash(p) \/ Restart(p) PROVE CoreType'
  BY <1>5 DEF Crash, Restart
<1>6. CASE UNCHANGED mvars
  BY <1>6 DEF mvars
<1> QED
  BY <1>1, <1>2, <1>3, <1>4, <1>5, <1>6 DEF MigrateNext, Up

(* SQLite and PostgreSQL: the tracking table only ever gains records, and  *)
(* once it is goose's it stays so, under any number of pods.               *)
LEMMA StandardNext == CoreType /\ ~MySQL /\ Standard /\ [MigrateNext]_mvars => Standard'
<1> SUFFICES ASSUME CoreType, ~MySQL, Standard, [MigrateNext]_mvars PROVE Standard'
  OBVIOUS
<1> USE RolloutStays DEF CoreType, Points, Standard, NotAdopting, MySQL, Recorded, Unique, Kept,
        Rest, Go, Fail, db, local, Table, Rows, NoTable, NoRows, Holding, TableExists,
        ColumnExists
<1>1. ASSUME NEW p \in Pods, Detect(p) PROVE Standard'
  BY <1>1 DEF Detect, ProbeMain, ProbeBackup, ProbeShape, ProbeApp
<1>2. ASSUME NEW p \in Pods, FreshInstall(p) PROVE Standard'
  <2>1. CASE SchemaCreate(p)
    BY <2>1 DEF SchemaCreate
  <2>2. CASE CreateVersionTable(p)
    BY <2>2 DEF CreateVersionTable
  <2>3. CASE Seed(p)
    BY <2>3 DEF Seed
  <2> QED
    BY <1>2, <2>1, <2>2, <2>3 DEF FreshInstall
<1>3. ASSUME NEW p \in Pods, Adopt(p) PROVE Standard'
  <2>1. CASE AdoptTransactional(p)
    BY <2>1 DEF AdoptTransactional, Rollout
  <2> QED
    BY <1>3, <2>1 DEF Adopt, Rename, CreateTable, InsertSentinel, Copy, CountBackup, Compare,
                      Truncate, DropBackup
<1>4. ASSUME NEW p \in Pods, RunGoose(p) PROVE Standard'
  <2>1. CASE GooseBegin(p)
    BY <2>1 DEF GooseBegin
  <2>2. CASE GooseApply(p)
    BY <2>2 DEF GooseApply, Inserted
  <2>3. CASE GooseRecord(p) \/ GooseDone(p)
    BY <2>3 DEF GooseRecord, GooseDone, Inserted
  <2> QED
    BY <1>4, <2>1, <2>2, <2>3 DEF RunGoose
<1>5. ASSUME NEW p \in Pods, Crash(p) \/ Restart(p) PROVE Standard'
  BY <1>5 DEF Crash, Restart
<1>6. CASE UNCHANGED mvars
  BY <1>6 DEF mvars
<1> QED
  BY <1>1, <1>2, <1>3, <1>4, <1>5, <1>6 DEF MigrateNext, Up

(* MySQL, one pod: wherever it is cut off, the tables are settled or those *)
(* of an adoption that the next run recognises.                            *)
Adoption == NotAdopting \/ Converting

LEMMA ConvertingNext ==
    ASSUME CoreType, MySQL, Adoption, NEW p \in Pods, At(p), Up(p) \/ Crash(p) \/ Restart(p)
    PROVE  Adoption' /\ At(p)'
<1> USE DEF CoreType, Points, Adoption, MySQL, At, Kept, Rest, Go, Fail, db, local, Table, Rows,
        TableExists, ColumnExists
<1> USE DEF Now
<1>1. CASE Detect(p)
  <2> USE DEF NotAdopting, Converting, NoTable, Copied, RowCount, Recorded
  <2>1. CASE ProbeMain(p)
    BY <2>1 DEF ProbeMain
  <2>2. CASE ProbeBackup(p)
    BY <2>2 DEF ProbeBackup
  <2>3. CASE ProbeShape(p)
    BY <2>3 DEF ProbeShape
  <2>4. CASE ProbeApp(p)
    BY <2>4 DEF ProbeApp
  <2> QED
    BY <1>1, <2>1, <2>2, <2>3, <2>4 DEF Detect
<1>2. CASE FreshInstall(p)
  <2> USE DEF NotAdopting, NoTable, NoRows, Recorded, Holding, Unique
  <2>1. CASE SchemaCreate(p)
    BY <2>1 DEF SchemaCreate
  <2>2. CASE CreateVersionTable(p)
    BY <2>2 DEF CreateVersionTable
  <2>3. CASE Seed(p)
    BY <2>3 DEF Seed
  <2> QED
    BY <1>2, <2>1, <2>2, <2>3 DEF FreshInstall
<1>3. CASE Adopt(p)
  <2>1. CASE AdoptTransactional(p)
    BY <2>1 DEF AdoptTransactional
  <2>2. CASE Rename(p)
    BY <2>2 DEF Rename, NotAdopting, Converting, Recorded, Unique, NoTable
  <2>3. CASE CreateTable(p)
    BY <2>3 DEF CreateTable, Converting, Recorded, Unique, NoTable, NoRows, Holding
  <2>4. CASE InsertSentinel(p)
    BY <2>4 DEF InsertSentinel, Converting, Recorded, Unique, NoTable, NoRows, Sentinel, Copied
  <2>5. CASE Copy(p)
    <3>1. Converting /\ main.shape = "goose" /\ main.rows = Sentinel /\ backup.rows \in Rows
      BY <2>5 DEF Copy
    <3>2. DOMAIN main.rows = Versions \cup {0}
      OBVIOUS
    <3>3. main' = [main EXCEPT !.rows = Copied] /\ UNCHANGED backup
      <4>1. [v \in DOMAIN main.rows |-> main.rows[v] + backup.rows[v]] = Copied
        BY <3>1, <3>2 DEF Copied, Sentinel
      <4> QED
        BY <2>5, <3>1, <4>1 DEF Copy, Converting
    <3>4. Copied' = Copied /\ main'.shape = "goose" /\ main'.rows = Copied
      BY <3>1, <3>3 DEF Copied
    <3>5. step'[p] \in {"count", "recount"}
      BY <2>5, <3>1 DEF Copy, Converting
    <3>6. UNCHANGED rollout
      BY <2>5 DEF Copy
    <3>7. Converting'
      BY <3>1, <3>3, <3>4, <3>6 DEF Converting, Unique, Recorded
    <3> QED
      BY <3>4, <3>5, <3>7
  <2>6. CASE CountBackup(p)
    BY <2>6 DEF CountBackup, Converting, Recorded, Unique, Copied
  <2>7. CASE Compare(p)
    BY <2>7, Parity DEF Compare, Converting, Recorded, Unique, Copied, NoTable
  <2>8. CASE Truncate(p)
    BY <2>8 DEF Truncate, Converting, Recorded, Unique, Copied, NoRows
  <2>9. CASE DropBackup(p)
    <3>1. Converting /\ main.shape = "goose" /\ main.rows = Copied
      BY <2>9 DEF DropBackup
    <3>2. backup' = NoTable /\ step'[p] = "goose" /\ UNCHANGED <<main, rollout>>
      BY <2>9, <3>1 DEF DropBackup, Converting
    <3>3. Recorded(backup) \subseteq Recorded(main)
      <4>1. \A v \in Versions : backup.rows[v] \in Nat /\ Sentinel[v] \in Nat
        BY DEF Sentinel
      <4>2. \A v \in Versions : main.rows[v] = backup.rows[v] + Sentinel[v]
        BY <3>1 DEF Copied
      <4> QED
        BY <4>1, <4>2 DEF Recorded
    <3>4. NotAdopting'
      BY <3>1, <3>2, <3>3 DEF Converting, NotAdopting, Recorded
    <3> QED
      BY <3>2, <3>4
  <2> QED
    BY <1>3, <2>1, <2>2, <2>3, <2>4, <2>5, <2>6, <2>7, <2>8, <2>9 DEF Adopt
<1>4. CASE RunGoose(p)
  <2> USE DEF NotAdopting, NoTable, NoRows, Recorded, Holding, Unique
  <2>1. CASE GooseBegin(p)
    BY <2>1 DEF GooseBegin
  <2>2. CASE GooseApply(p)
    BY <2>2 DEF GooseApply, Inserted
  <2>3. CASE GooseRecord(p) \/ GooseDone(p)
    BY <2>3 DEF GooseRecord, GooseDone, Inserted
  <2> QED
    BY <1>4, <2>1, <2>2, <2>3 DEF RunGoose
<1>5. CASE Crash(p) \/ Restart(p)
  BY <1>5 DEF Crash, Restart, NotAdopting, Converting, Recorded, Unique, Copied, NoTable
<1> QED
  BY <1>1, <1>2, <1>3, <1>4, <1>5 DEF Up

-----------------------------------------------------------------------------
LEMMA InvInit == MigrateInit => IInv
<1> SUFFICES ASSUME MigrateInit PROVE IInv
  OBVIOUS
<1> USE DEF MigrateInit, NotAdopting
<1>0. rollout \in Rollout
  BY RolloutAssumption
<1>1. main \in Table /\ backup \in Table
  BY <1>0 DEF Rollout, Table, Rows, NoTable, NoRows, Holding
<1>2. CoreType
  BY <1>0, <1>1 DEF CoreType, Points
<1>3. rollout.old \subseteq Recorded(main)
  <2>1. rollout.start = "empty" => rollout.old = {}
    BY <1>0, RolloutAssumption
  <2> QED
    BY <1>0, <2>1 DEF Rollout, Recorded, Holding
<1>4. NotAdopting
  BY <1>0, <1>3, VersionAssumption DEF Rollout, Holding, NoTable, Unique
<1> QED
  BY <1>2, <1>4 DEF IInv, Standard, At

(* Where one pod is started, the others are off.                           *)
LEMMA OnePod ==
    ASSUME CoreType, CoreType', Single, [MigrateNext]_mvars, NEW p \in Pods, NEW q \in Pods \ {p},
           Up(p) \/ Crash(p) \/ Restart(p)
    PROVE  step'[q] = "off"
<1>1. step[p] # "off"
  BY DEF Up, Detect, ProbeMain, ProbeBackup, ProbeShape, ProbeApp, FreshInstall, SchemaCreate,
         CreateVersionTable, Seed, Adopt, AdoptTransactional, Rename, CreateTable,
         InsertSentinel, Copy, CountBackup, Compare, Truncate, DropBackup, RunGoose,
         GooseBegin, GooseApply, GooseRecord, GooseDone, Crash, Restart
<1>2. q \notin rollout'.pods
  BY <1>1, RolloutStays DEF CoreType, Single
<1> QED
  BY <1>2 DEF CoreType

LEMMA SerialSingle == ASSUME CoreType, Serial PROVE ~MySQL \/ Single
<1> SUFFICES ASSUME MySQL PROVE Single
  OBVIOUS
<1>1. rollout.pods \subseteq Pods /\ Cardinality(rollout.pods) = 1
  BY DEF CoreType, Rollout, Serial
<1>2. IsFiniteSet(rollout.pods)
  BY <1>1, PodAssumption, FS_Subset
<1> QED
  BY <1>1, <1>2, FS_Singleton DEF Single

LEMMA InvNext == IInv /\ [MigrateNext]_mvars => IInv'
<1> SUFFICES ASSUME IInv, [MigrateNext]_mvars PROVE IInv'
  OBVIOUS
<1>1. CoreType'
  BY TypeNext DEF IInv
<1>2. ASSUME ~MySQL PROVE Standard'
  BY <1>2, StandardNext DEF IInv
<1>3. ASSUME MySQL, Single PROVE Adoption' /\ \A q \in Pods : At(q)'
  <2>1. Adoption /\ \A q \in Pods : At(q)
    BY <1>3 DEF IInv, Adoption
  <2>2. CASE UNCHANGED mvars
    <3>1. UNCHANGED <<rollout, main, backup, step, seen, count>>
      BY <2>2 DEF mvars, db, local
    <3>2. UNCHANGED <<NotAdopting, Copied>>
      BY <3>1 DEF NotAdopting, Copied
    <3>3. UNCHANGED Converting
      BY <3>1, <3>2 DEF Converting
    <3> QED
      BY <2>1, <3>1, <3>2, <3>3 DEF Adoption, At, Now
  <2>3. ASSUME NEW p \in Pods, Up(p) \/ Crash(p) \/ Restart(p) PROVE Adoption' /\ At(p)'
    BY <1>3, <2>1, <2>3, ConvertingNext DEF IInv
  <2>4. ASSUME NEW p \in Pods, Up(p) \/ Crash(p) \/ Restart(p), NEW q \in Pods \ {p}
        PROVE  At(q)'
    <3>1. step'[q] = "off"
      BY <1>1, <1>3, <2>4, OnePod DEF IInv
    <3> QED
      BY <3>1 DEF At
  <2> QED
    BY <2>2, <2>3, <2>4 DEF MigrateNext
<1>4. UNCHANGED <<MySQL, Single>>
  BY RolloutStays DEF MySQL, Single
<1> QED
  BY <1>1, <1>2, <1>3, <1>4 DEF IInv, Adoption

(* No version record is lost, wherever a run is cut off: on MySQL by one   *)
(* pod, on SQLite and PostgreSQL by any number of them.                    *)
THEOREM RecordsKept == MigrateSpec => []VersionsKept
<1>1. ASSUME IInv PROVE VersionsKept
  <2> SUFFICES ASSUME Serial PROVE rollout.old \subseteq Recorded(main) \cup Recorded(backup)
    BY DEF VersionsKept
  <2>1. CASE ~MySQL
    BY <1>1, <2>1 DEF IInv, Standard, NotAdopting
  <2>2. CASE MySQL
    BY <1>1, <2>2, SerialSingle DEF IInv, NotAdopting, Converting
  <2> QED
    BY <2>1, <2>2
<1> QED
  BY <1>1, InvInit, InvNext, PTL DEF MigrateSpec

-----------------------------------------------------------------------------
(* What is recorded is in the schema, and what is not yet recorded is what *)
(* the run still has to do.                                                *)
Applied == schema \subseteq Versions /\ Recorded(main) \cup Recorded(backup) \subseteq schema

Work(p) ==
    /\ step[p] \in {"table", "seed"} => schema = Versions
    /\ step[p] = "seed" => left[p] # {}
    /\ step[p] \in {"seed", "apply", "record"} => Versions \subseteq Recorded(main) \cup left[p]
    /\ step[p] \in {"apply", "record"} => left[p] \subseteq Versions
    /\ step[p] = "record" => left[p] # {} /\ Min(left[p]) \in schema
    /\ step[p] = "done" => Versions \subseteq Recorded(main)

DoneInv == IInv /\ (~MySQL \/ Single => Applied /\ \A p \in Pods : Work(p))

LEMMA MinIn == ASSUME NEW T \in SUBSET Nat, T # {} PROVE Min(T) \in T
<1> DEFINE R == OpToRel(<, Nat)
<1>1. \A x, y \in Nat : x < y => <<x, y>> \in R
  BY DEF OpToRel
<1>2. IsWellFoundedOn(R, Nat)
  BY NatLessThanWellFounded
<1> HIDE DEF R
<1>3. PICK x \in T : \A y \in T : ~ (<<y, x>> \in R)
  BY <1>2, WFMin, Zenon
<1>4. \A y \in T : ~ (y < x)
  BY <1>1, <1>3, Zenon
<1>5. \A y \in T : x <= y
  BY <1>4
<1> QED
  BY <1>5 DEF Min

LEMMA LeftMin ==
    ASSUME CoreType, NEW p \in Pods, left[p] # {}
    PROVE  Min(left[p]) \in left[p] /\ left[p] \subseteq Versions \cup {0}
<1>1. left[p] \subseteq Versions \cup {0} /\ Versions \subseteq Nat
  BY VersionAssumption DEF CoreType
<1>2. left[p] \in SUBSET Nat
  <2>1. Versions \cup {0} \subseteq Nat
    <3>1. 0 \in Nat
      OBVIOUS
    <3> QED
      BY <1>1, <3>1, Zenon
  <2> QED
    BY <1>1, <2>1, Zenon
<1>3. Min(left[p]) \in left[p]
  BY <1>2, MinIn
<1> QED
  BY <1>1, <1>3

(* The pod that takes a step.                                              *)
LEMMA WorkNext ==
    ASSUME CoreType, Applied, ~MySQL => Standard, MySQL => Adoption, NEW p \in Pods, Work(p),
           MySQL => At(p), Up(p) \/ Crash(p) \/ Restart(p)
    PROVE  Applied' /\ Work(p)'
<1> USE DEF CoreType, Points, Kept, Rest, Go, Fail, db, local, Table, Rows, TableExists,
        ColumnExists, Recorded
<1>1. CASE Detect(p)
  BY <1>1 DEF Detect, ProbeMain, ProbeBackup, ProbeShape, ProbeApp, Applied, Work
<1>2. CASE FreshInstall(p)
  <2>1. CASE SchemaCreate(p)
    BY <2>1 DEF SchemaCreate, Applied, Work
  <2>2. CASE CreateVersionTable(p)
    BY <2>2, ZenonT(60) DEF CreateVersionTable, Applied, Work, Holding
  <2>3. CASE Seed(p)
    BY <2>3, LeftMin DEF Seed, Applied, Work
  <2> QED
    BY <1>2, <2>1, <2>2, <2>3 DEF FreshInstall
<1>3. CASE Adopt(p)
  <2>1. CASE AdoptTransactional(p)
    <3>1. Recorded(main') \subseteq Recorded(main) /\ UNCHANGED <<schema, backup>>
      BY <2>1, VersionAssumption DEF AdoptTransactional, Holding
    <3>2. step'[p] \in {"goose", "failed"}
      BY <2>1 DEF AdoptTransactional
    <3> QED
      BY <3>1, <3>2 DEF Applied, Work
  <2>2. CASE Rename(p) \/ CreateTable(p)
    BY <2>2 DEF Rename, CreateTable, Applied, Work, Holding, NoTable, NoRows
  <2>3. CASE InsertSentinel(p)
    BY <2>3, VersionAssumption DEF InsertSentinel, Applied, Work
  <2>4. CASE Copy(p)
    BY <2>4 DEF Copy, Applied, Work
  <2>5. CASE CountBackup(p) \/ Compare(p)
    BY <2>5 DEF CountBackup, Compare, Applied, Work
  <2>6. CASE Truncate(p) \/ DropBackup(p)
    BY <2>6 DEF Truncate, DropBackup, Applied, Work, NoTable, NoRows
  <2> QED
    BY <1>3, <2>1, <2>2, <2>3, <2>4, <2>5, <2>6 DEF Adopt
<1>4. CASE RunGoose(p)
  <2>1. CASE GooseBegin(p)
    <3>1. CASE TableExists(main)
      BY <2>1, <3>1 DEF GooseBegin, Applied, Work
    <3>2. CASE ~TableExists(main)
      <4>1. main' = Holding("goose", {0}) /\ UNCHANGED <<schema, backup, step>>
        BY <2>1, <3>2 DEF GooseBegin
      <4>2. Recorded(main') = {}
        BY <4>1, VersionAssumption DEF Holding
      <4>3. step'[p] = "goose"
        BY <2>1, <4>1 DEF GooseBegin
      <4> QED
        BY <4>1, <4>2, <4>3 DEF Applied, Work
    <3> QED
      BY <3>1, <3>2
  <2>2. CASE GooseApply(p)
    BY <2>2, LeftMin DEF GooseApply, Inserted, Applied, Work
  <2>3. CASE GooseRecord(p)
    BY <2>3, LeftMin DEF GooseRecord, Inserted, Applied, Work
  <2>4. CASE GooseDone(p)
    BY <2>4 DEF GooseDone, Applied, Work
  <2> QED
    BY <1>4, <2>1, <2>2, <2>3, <2>4 DEF RunGoose
<1>5. CASE Crash(p) \/ Restart(p)
  BY <1>5 DEF Crash, Restart, Applied, Work
<1> QED
  BY <1>1, <1>2, <1>3, <1>4, <1>5 DEF Up

(* The other pods: nothing is taken from them where DDL is transactional.  *)
LEMMA Grows ==
    ASSUME CoreType, ~MySQL, Standard, Applied, NEW p \in Pods,
           Up(p) \/ Crash(p) \/ Restart(p), Applied'
    PROVE  /\ schema \subseteq schema' /\ Recorded(main) \subseteq Recorded(main)'
           /\ \A q \in Pods \ {p} : step'[q] = step[q] /\ left'[q] = left[q]
<1> USE DEF CoreType, Standard, Applied, NotAdopting, MySQL, Kept, Rest, Go, Fail, db, local, Table,
        Rows, TableExists, ColumnExists, Recorded
<1>1. CASE Detect(p)
  BY <1>1 DEF Detect, ProbeMain, ProbeBackup, ProbeShape, ProbeApp
<1>2. CASE FreshInstall(p)
  BY <1>2 DEF FreshInstall, SchemaCreate, CreateVersionTable, Seed, NoTable, NoRows
<1>3. CASE Adopt(p)
  <2>1. CASE AdoptTransactional(p)
    BY <2>1 DEF AdoptTransactional, Holding
  <2> QED
    BY <1>3, <2>1 DEF Adopt, Rename, CreateTable, InsertSentinel, Copy, CountBackup, Compare,
                      Truncate, DropBackup
<1>4. CASE RunGoose(p)
  <2>1. CASE GooseBegin(p)
    BY <2>1 DEF GooseBegin, NoTable, NoRows
  <2>2. CASE GooseApply(p)
    BY <2>2 DEF GooseApply, Inserted
  <2>3. CASE GooseRecord(p) \/ GooseDone(p)
    BY <2>3 DEF GooseRecord, GooseDone, Inserted
  <2> QED
    BY <1>4, <2>1, <2>2, <2>3 DEF RunGoose
<1>5. CASE Crash(p) \/ Restart(p)
  BY <1>5 DEF Crash, Restart
<1> QED
  BY <1>1, <1>2, <1>3, <1>4, <1>5 DEF Up

LEMMA DoneNext == DoneInv /\ [MigrateNext]_mvars => DoneInv'
<1> SUFFICES ASSUME DoneInv, [MigrateNext]_mvars PROVE DoneInv'
  OBVIOUS
<1>1. IInv' /\ CoreType /\ CoreType'
  BY InvNext DEF DoneInv, IInv
<1>2. UNCHANGED <<MySQL, Single>>
  BY RolloutStays DEF MySQL, Single
<1> SUFFICES ASSUME ~MySQL \/ Single PROVE Applied' /\ \A q \in Pods : Work(q)'
  BY <1>1, <1>2 DEF DoneInv
<1>3. /\ Applied /\ \A q \in Pods : Work(q)
      /\ ~MySQL => Standard
      /\ MySQL => Adoption /\ \A q \in Pods : At(q)
  BY DEF DoneInv, IInv, Adoption
<1>4. CASE UNCHANGED mvars
  BY <1>3, <1>4 DEF mvars, db, local, Applied, Work
<1>5. ASSUME NEW p \in Pods, Up(p) \/ Crash(p) \/ Restart(p)
      PROVE  Applied' /\ \A q \in Pods : Work(q)'
  <2>1. Applied' /\ Work(p)'
    BY <1>1, <1>3, <1>5, WorkNext
  <2>2. ASSUME NEW q \in Pods \ {p}, ~MySQL PROVE Work(q)'
    <3>1. /\ schema \subseteq schema' /\ Recorded(main) \subseteq Recorded(main)'
          /\ step'[q] = step[q] /\ left'[q] = left[q]
      BY <1>1, <1>3, <1>5, <2>1, <2>2, Grows
    <3>2. schema' \subseteq Versions
      BY <2>1 DEF Applied
    <3> QED
      BY <1>3, <3>1, <3>2 DEF Work
  <2>3. ASSUME NEW q \in Pods \ {p}, MySQL PROVE Work(q)'
    <3>1. step'[q] = "off"
      BY <1>1, <1>5, <2>3, OnePod
    <3> QED
      BY <3>1 DEF Work
  <2> QED
    BY <2>1, <2>2, <2>3
<1> QED
  BY <1>4, <1>5 DEF MigrateNext

(* A run that reports success leaves every migration recorded and applied, *)
(* under the same conditions.                                              *)
THEOREM SuccessIsCurrent == MigrateSpec => []DoneMeansCurrent
<1>1. ASSUME MigrateInit PROVE DoneInv
  <2>1. IInv
    BY <1>1, InvInit
  <2>2. rollout.old \subseteq Versions
    BY <2>1 DEF IInv, CoreType, Rollout
  <2>3. Recorded(main) \cup Recorded(backup) \subseteq rollout.old
    BY <1>1, <2>1, VersionAssumption
       DEF MigrateInit, IInv, CoreType, Rollout, Recorded, Holding, NoTable, NoRows
  <2>4. Applied
    BY <1>1, <2>2, <2>3 DEF MigrateInit, Applied
  <2>5. \A p \in Pods : Work(p)
    BY <1>1 DEF MigrateInit, Work
  <2> QED
    BY <2>1, <2>4, <2>5 DEF DoneInv
<1>2. ASSUME DoneInv PROVE DoneMeansCurrent
  <2> SUFFICES ASSUME Serial, NEW p \in Pods, step[p] = "done"
               PROVE  schema = Versions /\ Recorded(main) = Versions
    BY DEF DoneMeansCurrent
  <2>1. Applied /\ Work(p)
    BY <1>2, SerialSingle DEF DoneInv, IInv
  <2> QED
    BY <2>1 DEF Applied, Work, Recorded
<1> QED
  BY <1>1, <1>2, DoneNext, PTL DEF MigrateSpec
==============================================================================
